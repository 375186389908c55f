----------------------------- MODULE BallpitProofs -----------------------------
(***************************************************************************)
(* Theorems about the ballpit, for all frames, packets, ports and cells    *)
(* and every number of balls, particles, entries of the ring and places in *)
(* the hopper: what is built, the balls in the worker, and the packets on  *)
(* the GPU, an invariant each, and then what MCBallpit explores of all     *)
(* three.                                                                  *)
(***************************************************************************)
EXTENDS MCBallpit, Folding

-----------------------------------------------------------------------------
(***************************************************************************)
(* Build: a site with all its parts mirrored stays one, whatever is placed *)
(* on what, and each port's turn is a number of its own.                   *)
(***************************************************************************)
Kinds == [type : Tools \cup {"none"}, port : DockIds \cup {Unset}]
Grids == [Cells -> Kinds]
Sites == [parts : Grids, solid : Grids, running : SUBSET Cells,
          turn : [DockIds -> Nat], turns : Nat]

Mirrored(w) == w.solid = w.parts /\ w.running = Belts(w.parts)

(* As many turns were given as ports have one.                             *)
Numbered(w) ==
  /\ \A i \in DockIds : w.turn[i] <= w.turns
  /\ w.turns = Cardinality({i \in DockIds : w.turn[i] # Unset})

SoundSites == {w \in Sites : Mirrored(w) /\ Numbered(w)}

BuildInv ==
  /\ portList \in Seq(DockIds) /\ IsInjective(portList)
  /\ selected \in {Unset} \cup ToSet(portList)
  /\ Site \in SoundSites /\ stored = parts

(* A part taken away: the site stays one, and the cell is empty.           *)
LEMMA RemovedSound ==
  ASSUME NEW w \in SoundSites, NEW c \in Cells
  PROVE  /\ Removed(w, c) \in SoundSites
         /\ Removed(w, c).parts = [w.parts EXCEPT ![c] = Empty]
  <1> DEFINE v == Removed(w, c)
  <1>1. w \in Sites /\ Mirrored(w) /\ Numbered(w)
    BY DEF SoundSites
  <1>2. Empty \in Kinds
    BY DEF Empty, Kinds
  <1>3. /\ v.parts = [w.parts EXCEPT ![c] = Empty] /\ v.solid = [w.solid EXCEPT ![c] = Empty]
        /\ v.turn = w.turn /\ v.turns = w.turns
        /\ v.running = IF w.parts[c].type = "belt" THEN Belts(w.parts) \ {c} ELSE w.running
    BY <1>1 DEF Removed, Sites
  <1>4. v \in Sites
    BY <1>1, <1>2 DEF Removed, Sites, Grids, Belts
  <1>5. Belts(v.parts) = Belts(w.parts) \ {c}
    BY <1>1, <1>3 DEF Belts, Sites, Grids, Empty
  <1>6. w.parts[c].type # "belt" => c \notin Belts(w.parts)
    BY DEF Belts
  <1>7. Mirrored(v)
    BY <1>1, <1>3, <1>5, <1>6 DEF Mirrored
  <1>8. Numbered(v)
    BY <1>1, <1>3 DEF Numbered
  <1> QED BY <1>3, <1>4, <1>7, <1>8 DEF SoundSites

(* A part placed on whatever was there.                                    *)
LEMMA PlacedSound ==
  ASSUME NEW w \in SoundSites, NEW c \in Cells, NEW new \in Kinds
  PROVE  Placed(w, c, new) \in SoundSites
  <1> DEFINE u == Removed(w, c)
             after == [u.parts EXCEPT ![c] = new]
             v == Placed(w, c, new)
  <1>1. u \in SoundSites /\ u.parts[c] = Empty
    <2>1. u \in SoundSites /\ u.parts = [w.parts EXCEPT ![c] = Empty]
      BY RemovedSound
    <2>2. w.parts \in Grids
      BY DEF SoundSites, Sites
    <2> QED BY <2>1, <2>2 DEF Grids
  <1>2. u \in Sites /\ Mirrored(u) /\ Numbered(u)
    BY <1>1 DEF SoundSites
  <1>3. v = [u EXCEPT !.parts = after, !.solid[c] = new,
                      !.running = IF new.type = "belt" THEN Belts(after) ELSE @]
    BY DEF Placed
  <1> HIDE DEF u, v
  <1>4. /\ v.parts = after /\ v.solid = [u.solid EXCEPT ![c] = new]
        /\ v.turn = u.turn /\ v.turns = u.turns
        /\ v.running = IF new.type = "belt" THEN Belts(after) ELSE u.running
    BY <1>2, <1>3 DEF Sites
  <1>5. v \in Sites
    BY <1>2, <1>3 DEF Sites, Grids, Belts
  <1>6. new.type # "belt" => Belts(after) = Belts(u.parts)
    BY <1>1, <1>2 DEF Belts, Sites, Grids, Empty
  <1>7. Mirrored(v)
    BY <1>2, <1>4, <1>6 DEF Mirrored
  <1>8. Numbered(v)
    BY <1>2, <1>4 DEF Numbered
  <1> QED BY <1>5, <1>7, <1>8 DEF SoundSites, v

(* The place of a turn on the circle.                                      *)
LEMMA TurnsAround ==
  ASSUME NEW n \in Nat \ {0}
  PROVE  /\ Circle[1 + ((n - 1) % Len(Circle))] \in Cells \X Cells
         /\ Circle \in Seq(Cells \X Cells)
  <1>1. Circle \in Seq(Cells \X Cells) /\ Len(Circle) \in Nat /\ Len(Circle) > 0
    BY BuildAssumption
  <1>2. (n - 1) % Len(Circle) \in 0..(Len(Circle) - 1)
    BY <1>1
  <1> DEFINE k == (n - 1) % Len(Circle)
  <1>3. 1 + k \in 1..Len(Circle)
    BY <1>1, <1>2
  <1> HIDE DEF k
  <1> QED BY <1>1, <1>3 DEF k

(* A dock for the next id of the list, at its turn's cells.                *)
LEMMA InTurnSound ==
  ASSUME NEW w \in SoundSites, NEW i \in DockIds
  PROVE  /\ InTurn(w, i) \in SoundSites
         /\ HasPart(w.parts, "dock", i) => InTurn(w, i).parts = w.parts
  <1> DEFINE known == IF w.turn[i] # Unset THEN w
                      ELSE [w EXCEPT !.turn[i] = w.turns + 1, !.turns = @ + 1]
  <1>1. w \in Sites /\ Mirrored(w) /\ Numbered(w)
    BY DEF SoundSites
  <1>2. /\ known \in SoundSites /\ known.parts = w.parts /\ known.turn[i] \in Nat \ {0}
    <2>1. CASE w.turn[i] # Unset
      BY <1>1, <2>1 DEF Sites, Unset
    <2>2. CASE w.turn[i] = Unset
      <3> DEFINE had == {j \in DockIds : w.turn[j] # Unset}
      <3>1. known = [w EXCEPT !.turn[i] = w.turns + 1, !.turns = @ + 1]
        BY <2>2
      <3>2. /\ known \in Sites /\ known.parts = w.parts /\ known.solid = w.solid
            /\ known.running = w.running /\ known.turns = w.turns + 1
            /\ known.turn = [w.turn EXCEPT ![i] = w.turns + 1]
        <4>1. /\ known.parts = w.parts /\ known.solid = w.solid
              /\ known.running = w.running /\ known.turns = w.turns + 1
              /\ known.turn = [w.turn EXCEPT ![i] = w.turns + 1]
              /\ known = [parts |-> known.parts, solid |-> known.solid, running |-> known.running,
                          turn |-> known.turn, turns |-> known.turns]
          BY <1>1, <3>1 DEF Sites
        <4> HIDE DEF known
        <4>2. /\ w.parts \in Grids /\ w.solid \in Grids /\ w.running \in SUBSET Cells
              /\ w.turn \in [DockIds -> Nat] /\ w.turns + 1 \in Nat
          BY <1>1 DEF Sites
        <4>3. known.turn \in [DockIds -> Nat]
          BY <4>1, <4>2
        <4> QED BY <4>1, <4>2, <4>3 DEF Sites
      <3> HIDE DEF known
      <3>3. {j \in DockIds : known.turn[j] # Unset} = had \cup {i} /\ i \notin had
        BY <1>1, <2>2, <3>2 DEF Sites, Unset
      <3>4. IsFiniteSet(had)
        <4>1. IsFiniteSet(DockIds)
          BY FS_Interval, BuildAssumption DEF DockIds
        <4> QED BY <4>1, FS_Subset
      <3>5. Cardinality(had \cup {i}) = Cardinality(had) + 1
        BY <3>3, <3>4, FS_AddElement
      <3>6. \A j \in DockIds : known.turn[j] <= known.turns
        BY <1>1, <3>2 DEF Numbered, Sites
      <3>7. Numbered(known)
        <4>1. w.turns = Cardinality(had)
          BY <1>1 DEF Numbered
        <4> QED BY <3>2, <3>3, <3>5, <3>6, <4>1 DEF Numbered
      <3>8. Mirrored(known)
        BY <1>1, <3>2 DEF Mirrored
      <3>9. known.turn[i] \in Nat \ {0}
        BY <1>1, <3>2 DEF Sites
      <3> QED BY <3>2, <3>7, <3>8, <3>9 DEF SoundSites
    <2> QED BY <2>1, <2>2
  <1>3. InTurn(w, i) = IF HasPart(known.parts, "dock", i) THEN known ELSE AutoPlaced(known, i)
    BY DEF InTurn
  <1> HIDE DEF known
  <1>4. AutoPlaced(known, i) \in SoundSites
    <2> DEFINE pair == Circle[1 + ((known.turn[i] - 1) % Len(Circle))]
    <2>1. pair \in Cells \X Cells
      BY <1>2, TurnsAround
    <2>2. pair[1] \in Cells /\ pair[2] \in Cells
      BY <2>1
    <2>3. Part("dock", i) \in Kinds /\ Part("sink", i) \in Kinds
      BY DEF Part, Kinds, Tools
    <2>4. AutoPlaced(known, i) =
            Placed(Placed(known, pair[1], Part("dock", i)), pair[2], Part("sink", i))
      BY DEF AutoPlaced
    <2> HIDE DEF pair
    <2>5. Placed(known, pair[1], Part("dock", i)) \in SoundSites
      BY <1>2, <2>2, <2>3, PlacedSound
    <2> QED BY <2>2, <2>3, <2>4, <2>5, PlacedSound
  <1> QED BY <1>2, <1>3, <1>4

(* The sites that a list of ports goes through.                            *)
LEMMA InTurnTrace ==
  ASSUME NEW w \in SoundSites, NEW n \in Nat, NEW list \in [1..n -> DockIds]
  PROVE  \E h \in [0..n -> SoundSites] :
           /\ h[0] = w /\ h[n] = FoldLeft(InTurn, w, list)
           /\ \A i \in 1..n : h[i] = InTurn(h[i - 1], list[i])
  <1> DEFINE step == [p \in SoundSites \X DockIds |-> InTurn(p[1], p[2])]
             iter(g) == [t \in SUBSET (1..n) |->
                           IF t = {} THEN w ELSE InTurn(g[t \ {Max(t)}], list[Max(t)])]
             it == CHOOSE g : g = iter(g)
  <1>1. FoldLeft(InTurn, w, list) = it[1..n]
    <2>1. DOMAIN list = 1..n
      OBVIOUS
    <2> QED BY <2>1 DEF FoldLeft, MapThenFoldSet
  <1>2. step \in [SoundSites \X DockIds -> SoundSites]
    BY InTurnSound
  <1>3. PICK g : Folded(g, SoundSites, step, w, list, n)
    BY <1>2, FoldExists
  <1>4. ASSUME NEW t \in SUBSET (1..n)
        PROVE  g[t] = IF t = {} THEN w ELSE InTurn(g[t \ {Max(t)}], list[Max(t)])
    <2>1. CASE t = {}
      BY <1>3, <2>1 DEF Folded
    <2>2. CASE t # {}
      <3>1. Max(t) \in 1..n /\ t \ {Max(t)} \in SUBSET (1..n)
        BY <1>3, <2>2 DEF Folded
      <3>2. g[t \ {Max(t)}] \in SoundSites /\ list[Max(t)] \in DockIds
        BY <1>3, <3>1 DEF Folded
      <3>3. g[t] = step[<<g[t \ {Max(t)}], list[Max(t)]>>]
        BY <1>3, <2>2 DEF Folded
      <3> QED BY <2>2, <3>2, <3>3
    <2> QED BY <2>1, <2>2
  <1>5. g = iter(g)
    <2>1. DOMAIN g = SUBSET (1..n) /\ g = [t \in SUBSET (1..n) |-> g[t]]
      BY <1>3 DEF Folded
    <2> QED BY <1>4, <2>1
  <1>6. it = iter(it)
    BY <1>5
  <1>7. it[{}] = w
    <2>1. {} \in SUBSET (1..n)
      OBVIOUS
    <2> HIDE DEF it
    <2> QED BY <1>6, <2>1
  <1>8. ASSUME NEW i \in 1..n PROVE it[1..i] = InTurn(it[1..(i - 1)], list[i])
    <2>1. 1..i \in SUBSET (1..n) /\ 1..i # {} /\ i \in 1..i /\ (1..i) \ {i} = 1..(i - 1)
      OBVIOUS
    <2>2. Max(1..i) = i
      BY <2>1, LastOf
    <2> HIDE DEF it
    <2> QED BY <1>6, <2>1, <2>2
  <1> DEFINE h == [i \in 0..n |-> it[1..i]]
  <1> HIDE DEF it
  <1>9. /\ h[0] = w /\ h[n] = FoldLeft(InTurn, w, list)
        /\ \A i \in 1..n : h[i] = InTurn(h[i - 1], list[i])
    <2>1. h[0] = w
      <3>1. 1..0 = {}
        OBVIOUS
      <3> QED BY <1>7, <3>1
    <2>2. \A i \in 1..n : i \in 0..n /\ i - 1 \in 0..n
      OBVIOUS
    <2> QED BY <1>1, <1>8, <2>1, <2>2
  <1> DEFINE G == {i \in 0..n : h[i] \in SoundSites}
  <1> HIDE DEF h
  <1>10. \A i \in 0..n : i \in G
    <2>1. 0 \in G /\ \A i \in 1..n : i - 1 \in G => i \in G
      BY <1>9, InTurnSound
    <2> HIDE DEF G
    <2> QED BY <2>1, UpTo
  <1>11. h = [i \in 0..n |-> h[i]] /\ \A i \in 0..n : h[i] \in SoundSites
    BY <1>10 DEF h
  <1>12. h \in [0..n -> SoundSites]
    BY <1>11
  <1> QED BY <1>9, <1>12

(* Ports that all have docks change no part.                               *)
LEMMA InTurnsSound ==
  ASSUME NEW w \in SoundSites, NEW list \in Seq(DockIds)
  PROVE  /\ FoldLeft(InTurn, w, list) \in SoundSites
         /\ (\A i \in ToSet(list) : HasPart(w.parts, "dock", i)) =>
              FoldLeft(InTurn, w, list).parts = w.parts
  <1> DEFINE n == Len(list)
  <1>1. n \in Nat /\ list \in [1..n -> DockIds]
    OBVIOUS
  <1> HIDE DEF n
  <1>2. PICK h \in [0..n -> SoundSites] :
           /\ h[0] = w /\ h[n] = FoldLeft(InTurn, w, list)
           /\ \A i \in 1..n : h[i] = InTurn(h[i - 1], list[i])
    BY <1>1, InTurnTrace
  <1>3. n \in 0..n
    BY <1>1
  <1>4. ASSUME \A i \in ToSet(list) : HasPart(w.parts, "dock", i)
        PROVE  FoldLeft(InTurn, w, list).parts = w.parts
    <2> DEFINE G == {k \in 0..n : h[k].parts = w.parts}
    <2>1. 0 \in G
      BY <1>1, <1>2
    <2>2. ASSUME NEW k \in 1..n, k - 1 \in G PROVE k \in G
      <3>1. HasPart(w.parts, "dock", list[k]) /\ list[k] \in DockIds
        BY <1>1, <1>4 DEF ToSet
      <3>2. h[k - 1] \in SoundSites /\ h[k - 1].parts = w.parts
        BY <1>1, <2>2
      <3>3. InTurn(h[k - 1], list[k]).parts = w.parts
        BY <3>1, <3>2, InTurnSound
      <3> QED BY <1>2, <3>3
    <2> HIDE DEF G
    <2>3. n \in G
      BY <1>1, <1>3, <2>1, <2>2, UpTo
    <2> QED BY <1>2, <2>3 DEF G
  <1> QED BY <1>2, <1>3, <1>4

(* A new list of ports: its docks are there, each in its turn.             *)
LEMMA SyncKeeps ==
  ASSUME BuildInv, NEW list \in Seq(DockIds), IsInjective(list), SyncPorts(list)
  PROVE  BuildInv'
  <1> DEFINE w == FoldLeft(InTurn, Site, list)
  <1>1. Site \in SoundSites /\ Site.parts = parts /\ stored = parts
    BY DEF BuildInv, Site
  <1>2. w \in SoundSites /\ ((\A i \in ToSet(list) : HasPart(parts, "dock", i)) => w.parts = parts)
    BY <1>1, InTurnsSound
  <1>3. /\ portList' = list
        /\ selected' = IF selected \in ToSet(list) THEN selected
                       ELSE IF list = <<>> THEN Unset ELSE Head(list)
        /\ Rebuilt(w)
        /\ stored' = IF \E i \in ToSet(list) : ~HasPart(parts, "dock", i) THEN w.parts ELSE stored
    BY DEF SyncPorts
  <1> HIDE DEF w
  <1>4. Site' = w
    BY <1>2, <1>3 DEF Rebuilt, Site, SoundSites, Sites
  <1>5. stored' = parts'
    BY <1>1, <1>2, <1>3 DEF Rebuilt
  <1>6. selected' \in {Unset} \cup ToSet(list)
    <2>1. list # <<>> => Head(list) \in ToSet(list)
      BY DEF ToSet
    <2> QED BY <1>3, <2>1
  <1> QED BY <1>2, <1>3, <1>4, <1>5, <1>6 DEF BuildInv

(* A list with one entry removed.                                          *)
LEMMA RemovedAt ==
  ASSUME NEW list \in Seq(DockIds), IsInjective(list), NEW n \in DOMAIN list
  PROVE  RemoveAt(list, n) \in Seq(DockIds) /\ IsInjective(RemoveAt(list, n))
  <1> DEFINE a == SubSeq(list, 1, n - 1)  b == SubSeq(list, n + 1, Len(list))
             r == RemoveAt(list, n)
  <1>1. n \in 1..Len(list) /\ Len(list) \in Nat
    OBVIOUS
  <1>2. a \in Seq(DockIds) /\ Len(a) = n - 1 /\ \A k \in 1..(n - 1) : a[k] = list[k]
    BY <1>1
  <1>3. /\ b \in Seq(DockIds) /\ Len(b) = Len(list) - n
        /\ \A k \in 1..(Len(list) - n) : b[k] = list[n + k]
    BY <1>1
  <1>4. r = a \o b
    BY DEF RemoveAt
  <1> HIDE DEF a, b, r
  <1>5. /\ r \in Seq(DockIds) /\ Len(r) = Len(list) - 1
        /\ \A k \in 1..Len(r) : r[k] = IF k < n THEN list[k] ELSE list[k + 1]
    BY <1>1, <1>2, <1>3, <1>4
  <1>6. ASSUME NEW j \in 1..Len(r), NEW k \in 1..Len(r), r[j] = r[k] PROVE j = k
    <2>1. \A x, y \in 1..Len(list) : list[x] = list[y] => x = y
      BY DEF IsInjective
    <2>2. ASSUME NEW x \in 1..Len(r)
          PROVE  /\ (IF x < n THEN x ELSE x + 1) \in 1..Len(list)
                 /\ r[x] = list[IF x < n THEN x ELSE x + 1]
      BY <1>1, <1>5
    <2>3. (IF j < n THEN j ELSE j + 1) = (IF k < n THEN k ELSE k + 1)
      BY <1>6, <2>1, <2>2
    <2> QED BY <1>1, <2>3
  <1>7. IsInjective(r)
    BY <1>5, <1>6 DEF IsInjective
  <1> QED BY <1>5, <1>7 DEF r

(* Every step of the builder keeps the site's invariant.                   *)
LEMMA BuildStepKeeps ==
  ASSUME BuildInv, [BuildNext]_buildVars
  PROVE  BuildInv'
  <1>1. /\ portList \in Seq(DockIds) /\ IsInjective(portList)
        /\ selected \in {Unset} \cup ToSet(portList)
        /\ Site \in SoundSites /\ stored = parts
    BY DEF BuildInv
  <1>2. ASSUME NEW list \in BoundedSeq(DockIds, 2), IsInjective(list), OnHello(list)
        PROVE  BuildInv'
    <2>1. list \in Seq(DockIds)
      <3>1. PICK m \in 0..2 : list \in [1..m -> DockIds]
        BY DEF BoundedSeq, SeqOf
      <3> QED BY <3>1
    <2> QED BY <1>2, <2>1, SyncKeeps DEF OnHello
  <1>3. ASSUME NEW i \in DockIds, OnPortAdded(i) PROVE BuildInv'
    <2> DEFINE list == Append(portList, i)
    <2>1. list \in Seq(DockIds) /\ IsInjective(list)
      BY <1>1, <1>3 DEF OnPortAdded, IsInjective, ToSet
    <2> QED BY <1>3, <2>1, SyncKeeps DEF OnPortAdded
  <1>4. ASSUME NEW i \in DockIds, OnPortRemoved(i) PROVE BuildInv'
    <2>1. PICK n \in DOMAIN portList : SyncPorts(RemoveAt(portList, n))
      BY <1>4 DEF OnPortRemoved
    <2>2. RemoveAt(portList, n) \in Seq(DockIds) /\ IsInjective(RemoveAt(portList, n))
      BY <1>1, RemovedAt
    <2> QED BY <2>1, <2>2, SyncKeeps
  <1>5. CASE CyclePort
    <2>1. selected' \in ToSet(portList)
      <3>1. portList # <<>> => Head(portList) \in ToSet(portList)
        BY <1>1 DEF ToSet
      <3>2. ASSUME portList # <<>>, selected \in ToSet(portList)
            PROVE  portList[1 + (SelectInSeq(portList, LAMBDA i : i = selected) % Len(portList))]
                     \in ToSet(portList)
        <4> DEFINE I == {i \in 1..Len(portList) : portList[i] = selected}
                   k == SelectInSeq(portList, LAMBDA i : i = selected)
        <4>1. Len(portList) \in Nat /\ Len(portList) > 0
          BY <1>1, <3>2
        <4>2. I # {} /\ I \subseteq Nat
          BY <1>1, <3>2 DEF ToSet
        <4>3. k = Min(I)
          BY <4>2 DEF SelectInSeq
        <4>4. Min(I) \in I
          <5> HIDE DEF I
          <5>1. \E n \in I : \A m \in I : n <= m
            BY <4>2, LeastNumber
          <5> QED BY <5>1 DEF Min
        <4>5. k \in Nat
          BY <4>2, <4>3, <4>4
        <4> HIDE DEF k
        <4>6. k % Len(portList) \in 0..(Len(portList) - 1)
          BY <4>1, <4>5
        <4>7. 1 + (k % Len(portList)) \in 1..Len(portList)
          BY <4>1, <4>6
        <4>8. portList[1 + (k % Len(portList))] \in ToSet(portList)
          BY <1>1, <4>7 DEF ToSet
        <4> QED BY <4>8 DEF k
      <3> QED BY <1>5, <3>1, <3>2 DEF CyclePort
    <2>2. UNCHANGED <<portList, parts, turn, turns, solid, running, stored>>
      BY <1>5 DEF CyclePort
    <2> QED BY <1>1, <2>1, <2>2 DEF BuildInv, Site
  <1>6. ASSUME NEW c \in Cells, Erase(c) PROVE BuildInv'
    <2>1. /\ Rebuilt(Removed(Site, c)) /\ stored' = parts'
          /\ portList' = portList /\ selected' = selected
      BY <1>6 DEF Erase
    <2>2. Removed(Site, c) \in SoundSites
      BY <1>1, RemovedSound
    <2>3. Site' = Removed(Site, c)
      BY <2>1, <2>2 DEF Rebuilt, Site, SoundSites, Sites
    <2> QED BY <1>1, <2>1, <2>2, <2>3 DEF BuildInv
  <1>7. ASSUME NEW c \in Cells, NEW tool \in Tools, Click(tool, c) PROVE BuildInv'
    <2> DEFINE new == Part(tool, IF tool \in {"dock", "sink"} THEN selected ELSE Unset)
               w == Placed(Site, c, new)
    <2>1. new \in Kinds
      BY <1>1 DEF Part, Kinds, ToSet
    <2>2. Rebuilt(w) /\ stored' = w.parts /\ portList' = portList /\ selected' = selected
      BY <1>7 DEF Click
    <2> HIDE DEF new
    <2>3. w \in SoundSites
      BY <1>1, <2>1, PlacedSound
    <2> HIDE DEF w
    <2>4. Site' = w /\ stored' = parts'
      BY <2>2, <2>3 DEF Rebuilt, Site, SoundSites, Sites
    <2> QED BY <1>1, <2>2, <2>3, <2>4 DEF BuildInv
  <1>8. CASE ReloadPage
    <2> DEFINE w == [Loaded(stored) EXCEPT !.turn = [i \in DockIds |-> Unset], !.turns = 0]
    <2>1. Rebuilt(w) /\ portList' = <<>> /\ selected' = Unset /\ stored' = stored
      BY <1>8 DEF ReloadPage
    <2>2. w = [parts |-> parts, solid |-> parts, running |-> Belts(parts),
               turn |-> [i \in DockIds |-> Unset], turns |-> 0]
      <3>1. Loaded(parts) = [parts |-> parts, solid |-> parts, running |-> Belts(parts),
                             turn |-> turn, turns |-> turns]
        <4> DEFINE s == Site
        <4>1. s \in Sites /\ s.turn = turn /\ s.turns = turns
          BY <1>1 DEF SoundSites, Site
        <4>2. Loaded(parts) =
                [s EXCEPT !.parts = parts, !.solid = parts, !.running = Belts(parts)]
          BY DEF Loaded
        <4> HIDE DEF s
        <4> QED BY <4>1, <4>2 DEF Sites
      <3> DEFINE l == Loaded(parts)
      <3>2. w = [l EXCEPT !.turn = [i \in DockIds |-> Unset], !.turns = 0]
        BY <1>1
      <3> HIDE DEF l, w
      <3>3. l = [parts |-> parts, solid |-> parts, running |-> Belts(parts),
                 turn |-> turn, turns |-> turns]
        BY <3>1 DEF l
      <3> QED BY <3>2, <3>3
    <2>3. parts \in Grids /\ Belts(parts) \in SUBSET Cells
      BY <1>1 DEF SoundSites, Sites, Site, Belts
    <2> HIDE DEF w
    <2>4. w \in Sites /\ Mirrored(w)
      BY <2>2, <2>3 DEF Sites, Mirrored, Unset
    <2>5. Numbered(w)
      <3>1. {i \in DockIds : w.turn[i] # Unset} = {}
        BY <2>2
      <3> QED BY <2>2, <3>1, FS_EmptySet DEF Numbered, Unset
    <2>6. Site' = w /\ stored' = parts'
      BY <1>1, <2>1, <2>2 DEF Rebuilt, Site
    <2>7. portList' \in Seq(DockIds) /\ IsInjective(portList')
      BY <2>1 DEF IsInjective
    <2> QED BY <2>1, <2>4, <2>5, <2>6, <2>7 DEF BuildInv, SoundSites
  <1>9. CASE UNCHANGED buildVars
    BY <1>9 DEF buildVars, BuildInv, Site
  <1> QED BY <1>2, <1>3, <1>4, <1>5, <1>6, <1>7, <1>8, <1>9 DEF BuildNext

(* The empty site has it.                                                  *)
LEMMA BuildInitially == BuildInit => BuildInv
  <1> SUFFICES ASSUME BuildInit PROVE BuildInv
    OBVIOUS
  <1>1. portList \in Seq(DockIds) /\ IsInjective(portList) /\ selected = Unset /\ stored = parts
    BY DEF BuildInit, IsInjective
  <1>2. Site \in Sites
    BY DEF BuildInit, Site, Sites, Grids, Kinds, Empty, Unset
  <1>3. Mirrored(Site)
    BY DEF BuildInit, Site, Mirrored, Belts, Empty
  <1>4. Numbered(Site)
    <2>1. {i \in DockIds : Site.turn[i] # Unset} = {} /\ Site.turns = 0
      BY DEF BuildInit, Site
    <2>2. \A i \in DockIds : Site.turn[i] <= Site.turns
      BY DEF BuildInit, Site, Unset
    <2> QED BY <2>1, <2>2, FS_EmptySet DEF Numbered
  <1> QED BY <1>1, <1>2, <1>3, <1>4 DEF BuildInv, SoundSites

(* What the invariant says of Build's properties.                          *)
LEMMA BuildInvFacts == BuildInv => BuildTypeOK /\ PhysicsMirrors
  <1> SUFFICES ASSUME BuildInv PROVE BuildTypeOK /\ PhysicsMirrors
    OBVIOUS
  <1>1. Site \in Sites /\ Mirrored(Site) /\ Numbered(Site)
    BY DEF BuildInv, SoundSites
  <1>2. PhysicsMirrors
    BY <1>1 DEF PhysicsMirrors, Mirrored, Site, BuildInv
  <1>3. turns \in Nat /\ turn \in [DockIds -> Nat] /\ \A i \in DockIds : turn[i] <= turns
    BY <1>1 DEF Sites, Site, Numbered
  <1>4. turns <= MaxDockIds
    <2> DEFINE had == {i \in DockIds : turn[i] # Unset}
    <2>1. IsFiniteSet(DockIds) /\ Cardinality(DockIds) = MaxDockIds
      BY FS_Interval, BuildAssumption DEF DockIds
    <2>2. had \subseteq DockIds
      OBVIOUS
    <2>3. turns = Cardinality(had)
      BY <1>1 DEF Numbered, Site
    <2> HIDE DEF had
    <2> QED BY <2>1, <2>2, <2>3, FS_Subset
  <1>5. turn \in [DockIds -> 0..turns]
    BY <1>3
  <1>6. parts \in [Cells -> [type : Tools \cup {"none"}, port : DockIds \cup {Unset}]]
    BY <1>1 DEF Sites, Site, Grids, Kinds
  <1> QED BY <1>2, <1>4, <1>5, <1>6 DEF BuildTypeOK, BuildInv

-----------------------------------------------------------------------------
(***************************************************************************)
(* BallPit: what the worker is about to hear (a queue of messages), what   *)
(* it has (a world, with all its reports that are still on their way) and  *)
(* what the page shows agree, message by message.                          *)
(***************************************************************************)
ShownSlots == [Frames -> BallSlots \cup {NoSlot}]
Items      == [frame : Frames, slot : BallSlots]
WorkerMsgs == {SpawnMsg(f) : f \in Frames} \cup {UnpartMsg(c) : c \in Places}
                \cup {PartMsg(c, p) : c \in Places, p \in SinkPorts}
PageMsgs   == {SpawnedMsg(S) : S \in SUBSET Items}
                \cup {GoneMsg(D, L) : D \in SUBSET (Frames \X SinkPorts), L \in SUBSET Frames}
Worlds     == [sinks : [Places -> SinkPorts \cup {NoSink}], balls : ShownSlots,
               body : [BallSlots -> Frames \cup {NoFrame}], free : SUBSET BallSlots,
               pending : SUBSET Items, out : Seq(PageMsgs)]

AtMostOne(S) == \A x, y \in S : x = y

SpawnsIn(q, f) == {i \in 1..Len(q) : q[i] = SpawnMsg(f)}
GonesIn(m, f)  == {i \in 1..Len(m) : Reports(m[i], f)}

(* Bodies and balls are each other's, and a slot is free without a body.   *)
Tidy(w) ==
  /\ \A f \in Frames : w.balls[f] # NoSlot => w.body[w.balls[f]] = f
  /\ \A s \in BallSlots : w.body[s] # NoFrame => w.balls[w.body[s]] = s
  /\ w.free = {s \in BallSlots : w.body[s] = NoFrame}

(* A frame is to be spawned, a ball, or gone; and one of them if it is     *)
(* waited for.                                                             *)
InOneStage(f, q, w, waiting) ==
  /\ AtMostOne(SpawnsIn(q, f)) /\ AtMostOne(GonesIn(w.out, f))
  /\ SpawnsIn(q, f) # {} => w.balls[f] = NoSlot /\ GonesIn(w.out, f) = {}
  /\ w.balls[f] # NoSlot => GonesIn(w.out, f) = {}
  /\ f \in waiting => SpawnsIn(q, f) # {} \/ w.balls[f] # NoSlot \/ GonesIn(w.out, f) # {}

(* The last word on a cell, or its sink if there is none, is what is built.*)
Touches(msg, c) == msg.t \in {"part", "unpart"} /\ msg.place = c
Says(msg) == IF msg.t = "part" THEN msg.port ELSE NoSink
SinkFollows(c, q, w, plan) ==
  \/ w.sinks[c] = plan[c] /\ \A i \in 1..Len(q) : ~Touches(q[i], c)
  \/ \E i \in 1..Len(q) :
       /\ Touches(q[i], c) /\ Says(q[i]) = plan[c]
       /\ \A j \in 1..Len(q) : j > i => ~Touches(q[j], c)

(* Where a ball of f in slot s is told of: on the page (0), in a report,   *)
(* or among those that the next report tells of.                           *)
ShownAt(i, f, s, w, shown) ==
  \/ i = 0 /\ shown[f] = s
  \/ /\ i \in 1..Len(w.out) /\ w.out[i].t = "spawned"
     /\ [frame |-> f, slot |-> s] \in w.out[i].items
  \/ i = Len(w.out) + 1 /\ [frame |-> f, slot |-> s] \in w.pending

GoneAfter(i, f, w) == \E j \in 1..Len(w.out) : j > i /\ Reports(w.out[j], f)

ShownOrGone(w, shown) ==
  \A f \in Frames, s \in BallSlots, i \in Nat :
    ShownAt(i, f, s, w, shown) => w.balls[f] = s \/ GoneAfter(i, f, w)
AllShown(w, shown) ==
  \A f \in Frames, s \in BallSlots :
    w.balls[f] = s => \E i \in Nat : ShownAt(i, f, s, w, shown)
ShownOnce(w, shown) ==
  \A f \in Frames, s, t \in BallSlots, i, k \in Nat :
    ShownAt(i, f, s, w, shown) /\ ShownAt(k, f, t, w, shown) => i = k /\ s = t
(* Between two balls of one slot, the first one is gone.                   *)
TakesTurns(w, shown) ==
  \A f, g \in Frames, s \in BallSlots, i, k \in Nat :
    ShownAt(i, f, s, w, shown) /\ ShownAt(k, g, s, w, shown) /\ f # g /\ i <= k =>
      \E j \in 1..Len(w.out) : i < j /\ j < k /\ Reports(w.out[j], f)

PageFollows(w, shown) ==
  /\ ShownOrGone(w, shown) /\ AllShown(w, shown)
  /\ ShownOnce(w, shown) /\ TakesTurns(w, shown)

InStep(q, w, waiting, plan, shown) ==
  /\ Tidy(w)
  /\ \A f \in Frames : InOneStage(f, q, w, waiting)
  /\ \A c \in Places : SinkFollows(c, q, w, plan)
  /\ PageFollows(w, shown)

Queue  == early \o toWorker
Worker == [sinks |-> sinks, balls |-> balls, body |-> body, free |-> free,
           pending |-> pending, out |-> toMain]

BallInv ==
  /\ issued \subseteq Frames /\ built \in [Places -> SinkPorts \cup {NoSink}]
  /\ early \in Seq(WorkerMsgs) /\ toWorker \in Seq(WorkerMsgs)
  /\ Worker \in Worlds /\ frameSlot \in ShownSlots
  /\ active = {frameSlot[f] : f \in Frames} \ {NoSlot}
  /\ aged \subseteq BallSlots \ free
  /\ IF created THEN early = <<>> ELSE toMain = <<>> /\ aged = {} /\ free = BallSlots
  /\ InStep(Queue, Worker, issued, built, frameSlot)

-----------------------------------------------------------------------------
(* Messages. *)
LEMMA SlotFacts == NoSlot \notin BallSlots /\ BallSlots \subseteq Nat
  BY BallPitAssumption DEF BallSlots, NoSlot

(* The messages to the worker are of three kinds, told apart by their tag. *)
LEMMA WorkerMsgForms ==
  ASSUME NEW msg \in WorkerMsgs
  PROVE  \/ \E f \in Frames : msg = SpawnMsg(f) /\ msg.t = "spawn" /\ msg.frame = f
         \/ \E c \in Places : msg = UnpartMsg(c) /\ msg.t = "unpart" /\ msg.place = c
         \/ \E c \in Places, p \in SinkPorts :
              msg = PartMsg(c, p) /\ msg.t = "part" /\ msg.place = c /\ msg.port = p
  BY DEF WorkerMsgs, SpawnMsg, UnpartMsg, PartMsg

(* A spawn message is one of its frame only, and touches no sink.          *)
LEMMA SpawnMsgFacts ==
  ASSUME NEW f \in Frames
  PROVE  /\ SpawnMsg(f) \in WorkerMsgs /\ SpawnMsg(f).t = "spawn" /\ SpawnMsg(f).frame = f
         /\ \A g \in Frames : SpawnMsg(f) = SpawnMsg(g) <=> f = g
         /\ \A c \in Places : ~Touches(SpawnMsg(f), c)
  BY DEF WorkerMsgs, SpawnMsg, Touches

(* A part message says what stands at its place.                           *)
LEMMA PartMsgFacts ==
  ASSUME NEW c \in Places
  PROVE  /\ UnpartMsg(c) \in WorkerMsgs /\ UnpartMsg(c).t = "unpart" /\ UnpartMsg(c).place = c
         /\ Says(UnpartMsg(c)) = NoSink
         /\ \A d \in Places : Touches(UnpartMsg(c), d) <=> c = d
         /\ \A f \in Frames : UnpartMsg(c) # SpawnMsg(f)
         /\ \A p \in SinkPorts :
              /\ PartMsg(c, p) \in WorkerMsgs /\ Says(PartMsg(c, p)) = p
              /\ PartMsg(c, p).t = "part" /\ PartMsg(c, p).place = c /\ PartMsg(c, p).port = p
              /\ \A d \in Places : Touches(PartMsg(c, p), d) <=> c = d
              /\ \A f \in Frames : PartMsg(c, p) # SpawnMsg(f)
  BY DEF WorkerMsgs, SpawnMsg, UnpartMsg, PartMsg, Touches, Says

(* What a report of the gone says.                                         *)
LEMMA GoneMsgFacts ==
  ASSUME NEW D \in SUBSET (Frames \X SinkPorts), NEW L \in SUBSET Frames
  PROVE  /\ GoneMsg(D, L) \in PageMsgs /\ GoneMsg(D, L).t = "gone"
         /\ \A f : Reports(GoneMsg(D, L), f) <=> (f \in L \/ \E p \in SinkPorts : <<f, p>> \in D)
  BY DEF PageMsgs, GoneMsg, Reports

(* What a report of the spawned says.                                      *)
LEMMA SpawnedMsgFacts ==
  ASSUME NEW S \in SUBSET Items
  PROVE  /\ SpawnedMsg(S) \in PageMsgs /\ SpawnedMsg(S).t = "spawned"
         /\ SpawnedMsg(S).items = S
         /\ \A f : ~Reports(SpawnedMsg(S), f)
  BY DEF PageMsgs, SpawnedMsg, Reports

(* The messages to the page are of two kinds.                              *)
LEMMA PageMsgForms ==
  ASSUME NEW msg \in PageMsgs
  PROVE  \/ msg.t = "spawned" /\ msg.items \in SUBSET Items /\ \A f : ~Reports(msg, f)
         \/ msg.t = "gone"
  BY DEF PageMsgs, SpawnedMsg, GoneMsg, Reports

-----------------------------------------------------------------------------
(* Queues. *)
LEMMA TailFacts ==
  ASSUME NEW M, NEW q \in Seq(M), q # <<>>
  PROVE  /\ Head(q) \in M /\ Head(q) = q[1] /\ 1 \in 1..Len(q)
         /\ Tail(q) \in Seq(M) /\ Len(Tail(q)) = Len(q) - 1
         /\ \A i \in 1..(Len(q) - 1) : Tail(q)[i] = q[i + 1] /\ i + 1 \in 1..Len(q)
         /\ Len(q) \in Nat /\ Len(q) > 0
  OBVIOUS

(* A queue without its first message: its spawns, but for the first's.     *)
LEMMA SpawnsTail ==
  ASSUME NEW q \in Seq(WorkerMsgs), q # <<>>, NEW f \in Frames, AtMostOne(SpawnsIn(q, f))
  PROVE  /\ AtMostOne(SpawnsIn(Tail(q), f))
         /\ SpawnsIn(Tail(q), f) # {} => SpawnsIn(q, f) # {}
         /\ Head(q) = SpawnMsg(f) => SpawnsIn(Tail(q), f) = {} /\ SpawnsIn(q, f) # {}
         /\ Head(q) # SpawnMsg(f) /\ SpawnsIn(q, f) # {} => SpawnsIn(Tail(q), f) # {}
  <1> DEFINE r == Tail(q)
  <1>1. /\ Head(q) = q[1] /\ 1 \in 1..Len(q) /\ Len(r) = Len(q) - 1 /\ Len(q) \in Nat
        /\ \A i \in 1..Len(r) : r[i] = q[i + 1] /\ i + 1 \in 1..Len(q)
    BY TailFacts
  <1> HIDE DEF r
  <1>2. \A i \in 1..Len(q) : i # 1 => i - 1 \in 1..Len(r) /\ r[i - 1] = q[i]
    BY <1>1
  <1>3. \A i \in SpawnsIn(r, f) : i + 1 \in SpawnsIn(q, f) /\ i \in Nat
    BY <1>1 DEF SpawnsIn
  <1>4. \A i \in SpawnsIn(q, f) : i # 1 => i - 1 \in SpawnsIn(r, f)
    BY <1>2 DEF SpawnsIn
  <1>5. AtMostOne(SpawnsIn(r, f))
    <2> SUFFICES ASSUME NEW x \in SpawnsIn(r, f), NEW y \in SpawnsIn(r, f) PROVE x = y
      BY DEF AtMostOne
    <2>1. x + 1 = y + 1
      BY <1>3 DEF AtMostOne
    <2> QED BY <1>3, <2>1
  <1>6. Head(q) = SpawnMsg(f) => SpawnsIn(r, f) = {} /\ SpawnsIn(q, f) # {}
    <2> SUFFICES ASSUME Head(q) = SpawnMsg(f) PROVE SpawnsIn(r, f) = {} /\ SpawnsIn(q, f) # {}
      OBVIOUS
    <2>1. 1 \in SpawnsIn(q, f)
      BY <1>1 DEF SpawnsIn
    <2>2. ASSUME NEW i \in SpawnsIn(r, f) PROVE FALSE
      <3>1. i + 1 = 1 /\ i \in 1..Len(r)
        BY <1>3, <2>1 DEF AtMostOne, SpawnsIn
      <3> QED BY <3>1
    <2> QED BY <2>1, <2>2
  <1>7. Head(q) # SpawnMsg(f) => 1 \notin SpawnsIn(q, f)
    BY <1>1 DEF SpawnsIn
  <1> QED BY <1>3, <1>4, <1>5, <1>6, <1>7 DEF r

(* A report at the end of those on their way.                              *)
LEMMA GonesAppend ==
  ASSUME NEW m \in Seq(PageMsgs), NEW msg \in PageMsgs, NEW f \in Frames
  PROVE  GonesIn(Append(m, msg), f) =
           GonesIn(m, f) \cup (IF Reports(msg, f) THEN {Len(m) + 1} ELSE {})
  <1> DEFINE n == Append(m, msg)
  <1>1. /\ Len(n) = Len(m) + 1 /\ n[Len(m) + 1] = msg /\ Len(m) \in Nat
        /\ \A i \in 1..Len(m) : n[i] = m[i]
    OBVIOUS
  <1> HIDE DEF n
  <1> QED BY <1>1 DEF GonesIn, n

(* A part message that is handled leaves the plan ahead as it was.         *)
LEMMA FollowsTail ==
  ASSUME NEW q \in Seq(WorkerMsgs), q # <<>>, NEW w, NEW v, NEW plan, NEW c \in Places,
         SinkFollows(c, q, w, plan),
         Touches(Head(q), c) => v.sinks[c] = Says(Head(q)),
         ~Touches(Head(q), c) => v.sinks[c] = w.sinks[c]
  PROVE  SinkFollows(c, Tail(q), v, plan)
  <1> DEFINE r == Tail(q)
  <1>1. /\ Head(q) = q[1] /\ 1 \in 1..Len(q) /\ Len(r) = Len(q) - 1 /\ Len(q) \in Nat
        /\ \A i \in 1..Len(r) : r[i] = q[i + 1] /\ i + 1 \in 1..Len(q)
    BY TailFacts
  <1> HIDE DEF r
  <1>2. \A i \in 1..Len(q) : i # 1 => i - 1 \in 1..Len(r) /\ r[i - 1] = q[i]
    BY <1>1
  <1>3. CASE w.sinks[c] = plan[c] /\ \A i \in 1..Len(q) : ~Touches(q[i], c)
    BY <1>1, <1>3 DEF SinkFollows, r
  <1>4. ASSUME NEW i \in 1..Len(q), Touches(q[i], c), Says(q[i]) = plan[c],
               \A j \in 1..Len(q) : j > i => ~Touches(q[j], c)
        PROVE  SinkFollows(c, Tail(q), v, plan)
    <2>1. CASE i = 1
      <3>1. \A j \in 1..Len(r) : ~Touches(r[j], c)
        BY <1>1, <1>4, <2>1
      <3> QED BY <1>1, <1>4, <2>1, <3>1 DEF SinkFollows, r
    <2>2. CASE i # 1
      <3>1. i - 1 \in 1..Len(r) /\ r[i - 1] = q[i]
        BY <1>2, <2>2
      <3>2. \A j \in 1..Len(r) : j > i - 1 => ~Touches(r[j], c)
        BY <1>1, <1>4
      <3> QED BY <1>4, <3>1, <3>2 DEF SinkFollows, r
    <2> QED BY <2>1, <2>2
  <1> QED BY <1>3, <1>4 DEF SinkFollows

-----------------------------------------------------------------------------
(* What a message does to the world. *)
LEMMA PageSame ==
  ASSUME NEW w, NEW v, NEW shown, v.balls = w.balls, v.out = w.out, v.pending = w.pending,
         PageFollows(w, shown)
  PROVE  PageFollows(v, shown)
  <1>1. \A f, s, i : ShownAt(i, f, s, v, shown) <=> ShownAt(i, f, s, w, shown)
    BY DEF ShownAt
  <1>2. \A f, i : GoneAfter(i, f, v) <=> GoneAfter(i, f, w)
    BY DEF GoneAfter
  <1>3. ShownOrGone(v, shown)
    BY <1>1, <1>2 DEF PageFollows, ShownOrGone
  <1>4. AllShown(v, shown)
    BY <1>1 DEF PageFollows, AllShown
  <1>5. ShownOnce(v, shown)
    BY <1>1 DEF PageFollows, ShownOnce
  <1>6. TakesTurns(v, shown)
    BY <1>1 DEF PageFollows, TakesTurns
  <1> QED BY <1>3, <1>4, <1>5, <1>6 DEF PageFollows

(* The report that a frame is gone at once.                                *)
LEMMA GoneAtOnce ==
  ASSUME NEW f \in Frames
  PROVE  /\ GoneMsg({}, {f}) \in PageMsgs /\ GoneMsg({}, {f}).t = "gone"
         /\ \A g \in Frames : Reports(GoneMsg({}, {f}), g) <=> g = f
  <1> DEFINE D == {}  L == {f}
  <1>1. D \in SUBSET (Frames \X SinkPorts) /\ L \in SUBSET Frames
    OBVIOUS
  <1> HIDE DEF D, L
  <1>2. /\ GoneMsg(D, L) \in PageMsgs /\ GoneMsg(D, L).t = "gone"
        /\ \A g : Reports(GoneMsg(D, L), g) <=> (g \in L \/ \E p \in SinkPorts : <<g, p>> \in D)
    BY <1>1, GoneMsgFacts
  <1> QED BY <1>2 DEF D, L

(* No ball of a frame that is still to be spawned is told of anywhere.     *)
LEMMA NotShown ==
  ASSUME NEW w, NEW shown, ShownOrGone(w, shown), NEW f \in Frames,
         w.balls[f] = NoSlot, GonesIn(w.out, f) = {}
  PROVE  \A s \in BallSlots, i \in Nat : ~ShownAt(i, f, s, w, shown)
  BY SlotFacts DEF ShownOrGone, GoneAfter, GonesIn

(* A spawn for which there is no slot: the frame is reported lost.         *)
LEMMA DroppedAtOnce ==
  ASSUME NEW w \in Worlds, NEW shown \in ShownSlots, PageFollows(w, shown), NEW f \in Frames,
         NEW v, v.balls = w.balls, v.pending = w.pending,
         v.out = Append(w.out, GoneMsg({}, {f}))
  PROVE  PageFollows(v, shown)
  <1> DEFINE n == Len(w.out)
  <1>1. w.out \in Seq(PageMsgs) /\ n \in Nat
    BY DEF Worlds
  <1>2. /\ Len(v.out) = n + 1 /\ v.out[n + 1].t = "gone"
        /\ \A j \in 1..n : v.out[j] = w.out[j]
    <2>1. GoneMsg({}, {f}) \in PageMsgs /\ GoneMsg({}, {f}).t = "gone"
      BY GoneAtOnce
    <2> QED BY <1>1, <2>1
  <1> HIDE DEF n
  <1>3. \A g \in Frames, s \in BallSlots, i \in Nat :
          ShownAt(i, g, s, v, shown) <=>
            \/ i <= n /\ ShownAt(i, g, s, w, shown)
            \/ i = n + 2 /\ ShownAt(n + 1, g, s, w, shown)
    BY <1>1, <1>2 DEF ShownAt, n
  <1>4. \A j \in 1..n : j \in 1..Len(v.out) /\ \A g \in Frames :
          Reports(w.out[j], g) => Reports(v.out[j], g)
    BY <1>1, <1>2
  <1>5. ShownOrGone(v, shown)
    <2> SUFFICES ASSUME NEW g \in Frames, NEW s \in BallSlots, NEW i \in Nat,
                        ShownAt(i, g, s, v, shown)
                 PROVE  v.balls[g] = s \/ GoneAfter(i, g, v)
      BY DEF ShownOrGone
    <2>1. CASE i <= n /\ ShownAt(i, g, s, w, shown)
      <3>1. w.balls[g] = s \/ GoneAfter(i, g, w)
        BY <2>1 DEF PageFollows, ShownOrGone
      <3> QED BY <1>4, <3>1 DEF GoneAfter, n
    <2>2. CASE ShownAt(n + 1, g, s, w, shown)
      <3>1. w.balls[g] = s \/ GoneAfter(n + 1, g, w)
        BY <1>1, <2>2 DEF PageFollows, ShownOrGone
      <3> QED BY <1>1, <3>1 DEF GoneAfter, n
    <2> QED BY <1>3, <2>1, <2>2
  <1>6. AllShown(v, shown)
    <2> SUFFICES ASSUME NEW g \in Frames, NEW s \in BallSlots, v.balls[g] = s
                 PROVE  \E i \in Nat : ShownAt(i, g, s, v, shown)
      BY DEF AllShown
    <2>1. PICK i \in Nat : ShownAt(i, g, s, w, shown)
      BY DEF PageFollows, AllShown
    <2>2. i <= n \/ i = n + 1
      BY <1>1, <2>1 DEF ShownAt, n
    <2> QED BY <1>1, <1>3, <2>1, <2>2
  <1>7. ShownOnce(v, shown)
    <2> SUFFICES ASSUME NEW g \in Frames, NEW s \in BallSlots, NEW t \in BallSlots,
                        NEW i \in Nat, NEW k \in Nat,
                        ShownAt(i, g, s, v, shown), ShownAt(k, g, t, v, shown)
                 PROVE  i = k /\ s = t
      BY DEF ShownOnce
    <2> DEFINE I == IF i <= n THEN i ELSE n + 1
               K == IF k <= n THEN k ELSE n + 1
    <2>1. /\ I \in Nat /\ K \in Nat /\ ShownAt(I, g, s, w, shown) /\ ShownAt(K, g, t, w, shown)
          /\ i <= n \/ i = n + 2
          /\ k <= n \/ k = n + 2
      BY <1>1, <1>3
    <2> HIDE DEF I, K
    <2>2. I = K /\ s = t
      BY <2>1 DEF PageFollows, ShownOnce
    <2> QED BY <1>1, <2>1, <2>2 DEF I, K
  <1>8. TakesTurns(v, shown)
    <2> SUFFICES ASSUME NEW g \in Frames, NEW h \in Frames, NEW s \in BallSlots,
                        NEW i \in Nat, NEW k \in Nat, g # h, i <= k,
                        ShownAt(i, g, s, v, shown), ShownAt(k, h, s, v, shown)
                 PROVE  \E j \in 1..Len(v.out) : i < j /\ j < k /\ Reports(v.out[j], g)
      BY DEF TakesTurns
    <2> DEFINE I == IF i <= n THEN i ELSE n + 1
               K == IF k <= n THEN k ELSE n + 1
    <2>1. /\ I \in Nat /\ K \in Nat /\ ShownAt(I, g, s, w, shown) /\ ShownAt(K, h, s, w, shown)
          /\ i <= n \/ i = n + 2
          /\ k <= n \/ k = n + 2
      BY <1>1, <1>3
    <2>2. I <= K /\ K <= k /\ (I = i \/ I = n + 1)
      BY <1>1, <2>1
    <2> HIDE DEF I, K
    <2>3. PICK j \in 1..Len(w.out) : I < j /\ j < K /\ Reports(w.out[j], g)
      BY <2>1, <2>2 DEF PageFollows, TakesTurns
    <2>4. j \in 1..n
      BY DEF n
    <2>5. i < j /\ j < k
      BY <1>1, <2>1, <2>2, <2>3, <2>4
    <2> QED BY <1>4, <2>3, <2>4, <2>5
  <1> QED BY <1>5, <1>6, <1>7, <1>8 DEF PageFollows

(* A spawn that gets a slot: a ball, reported with the next step.          *)
LEMMA GotSlot ==
  ASSUME NEW w \in Worlds, NEW shown \in ShownSlots, PageFollows(w, shown), Tidy(w),
         NEW f \in Frames, w.balls[f] = NoSlot, GonesIn(w.out, f) = {},
         NEW s \in BallSlots, w.body[s] = NoFrame,
         NEW v, v.balls = [w.balls EXCEPT ![f] = s], v.out = w.out,
         v.pending = w.pending \cup {[frame |-> f, slot |-> s]}
  PROVE  PageFollows(v, shown)
  <1> DEFINE n == Len(w.out)
  <1>1. n \in Nat /\ w.balls \in ShownSlots
    BY DEF Worlds
  <1>2. \A g \in Frames, t \in BallSlots, i \in Nat :
          ShownAt(i, g, t, v, shown) <=>
            ShownAt(i, g, t, w, shown) \/ (i = n + 1 /\ g = f /\ t = s)
    BY <1>1 DEF ShownAt
  <1>3. \A t \in BallSlots, i \in Nat : ~ShownAt(i, f, t, w, shown)
    BY NotShown DEF PageFollows
  <1>4. \A g \in Frames, i \in Nat : ShownAt(i, g, s, w, shown) => GoneAfter(i, g, w)
    <2>1. \A g \in Frames : w.balls[g] # s
      BY SlotFacts, BallPitAssumption DEF Tidy
    <2> QED BY <2>1 DEF PageFollows, ShownOrGone
  <1>5. \A g \in Frames : v.balls[g] = IF g = f THEN s ELSE w.balls[g]
    BY <1>1 DEF ShownSlots
  <1>6. ShownOrGone(v, shown)
    <2> SUFFICES ASSUME NEW g \in Frames, NEW t \in BallSlots, NEW i \in Nat,
                        ShownAt(i, g, t, v, shown)
                 PROVE  v.balls[g] = t \/ GoneAfter(i, g, v)
      BY DEF ShownOrGone
    <2>1. CASE g = f
      BY <1>2, <1>3, <1>5, <2>1
    <2>2. CASE g # f
      <3>1. w.balls[g] = t \/ GoneAfter(i, g, w)
        BY <1>2, <2>2 DEF PageFollows, ShownOrGone
      <3> QED BY <1>5, <2>2, <3>1 DEF GoneAfter
    <2> QED BY <2>1, <2>2
  <1>7. AllShown(v, shown)
    <2> SUFFICES ASSUME NEW g \in Frames, NEW t \in BallSlots, v.balls[g] = t
                 PROVE  \E i \in Nat : ShownAt(i, g, t, v, shown)
      BY DEF AllShown
    <2>1. CASE g = f
      BY <1>1, <1>2, <1>5, <2>1
    <2>2. CASE g # f
      <3>1. PICK i \in Nat : ShownAt(i, g, t, w, shown)
        BY <1>5, <2>2 DEF PageFollows, AllShown
      <3> QED BY <1>2, <3>1
    <2> QED BY <2>1, <2>2
  <1>8. ShownOnce(v, shown)
    <2> SUFFICES ASSUME NEW g \in Frames, NEW t \in BallSlots, NEW u \in BallSlots,
                        NEW i \in Nat, NEW k \in Nat,
                        ShownAt(i, g, t, v, shown), ShownAt(k, g, u, v, shown)
                 PROVE  i = k /\ t = u
      BY DEF ShownOnce
    <2>1. CASE g = f
      BY <1>2, <1>3, <2>1
    <2>2. CASE g # f
      BY <1>2, <2>2 DEF PageFollows, ShownOnce
    <2> QED BY <2>1, <2>2
  <1>9. TakesTurns(v, shown)
    <2> SUFFICES ASSUME NEW g \in Frames, NEW h \in Frames, NEW t \in BallSlots,
                        NEW i \in Nat, NEW k \in Nat, g # h, i <= k,
                        ShownAt(i, g, t, v, shown), ShownAt(k, h, t, v, shown)
                 PROVE  \E j \in 1..Len(v.out) : i < j /\ j < k /\ Reports(v.out[j], g)
      BY DEF TakesTurns
    <2>1. CASE h = f
      <3>1. k = n + 1 /\ t = s /\ ShownAt(i, g, s, w, shown)
        BY <1>2, <1>3, <2>1
      <3>2. GoneAfter(i, g, w)
        BY <1>4, <3>1
      <3> QED BY <1>1, <3>1, <3>2 DEF GoneAfter
    <2>2. CASE g = f
      <3>1. i = n + 1 /\ t = s /\ ShownAt(k, h, s, w, shown)
        BY <1>2, <1>3, <2>2
      <3>2. GoneAfter(k, h, w)
        BY <1>4, <3>1
      <3> QED BY <1>1, <3>1, <3>2 DEF GoneAfter
    <2>3. CASE g # f /\ h # f
      <3>1. ShownAt(i, g, t, w, shown) /\ ShownAt(k, h, t, w, shown)
        BY <1>2, <2>3
      <3>2. \E j \in 1..Len(w.out) : i < j /\ j < k /\ Reports(w.out[j], g)
        BY <3>1 DEF PageFollows, TakesTurns
      <3> QED BY <3>2
    <2> QED BY <2>1, <2>2, <2>3
  <1> QED BY <1>6, <1>7, <1>8, <1>9 DEF PageFollows

(* Whatever the worker handles, it stays in step with queue and page.      *)
LEMMA HandledSound ==
  ASSUME NEW q \in Seq(WorkerMsgs), q # <<>>, NEW w \in Worlds, NEW waiting,
         NEW plan, NEW shown \in ShownSlots, InStep(q, w, waiting, plan, shown)
  PROVE  /\ Handled(w, Head(q)) \in Worlds
         /\ InStep(Tail(q), Handled(w, Head(q)), waiting, plan, shown)
  <1> DEFINE msg == Head(q)
             v == Handled(w, msg)
  <1>1. msg \in WorkerMsgs
    BY TailFacts
  <1>2. /\ Tidy(w) /\ \A f \in Frames : InOneStage(f, q, w, waiting)
        /\ \A c \in Places : SinkFollows(c, q, w, plan)
        /\ PageFollows(w, shown)
    BY DEF InStep
  <1>3. /\ w.sinks \in [Places -> SinkPorts \cup {NoSink}] /\ w.balls \in ShownSlots
        /\ w.body \in [BallSlots -> Frames \cup {NoFrame}] /\ w.free \in SUBSET BallSlots
        /\ w.pending \in SUBSET Items /\ w.out \in Seq(PageMsgs)
    BY DEF Worlds
  <1>4. \A f \in Frames : AtMostOne(SpawnsIn(q, f))
    BY <1>2 DEF InOneStage
  <1> HIDE DEF msg
  <1>5. ASSUME NEW c \in Places, NEW p \in SinkPorts \cup {NoSink},
               v = [w EXCEPT !.sinks[c] = p], Says(msg) = p,
               \A d \in Places : Touches(msg, d) <=> c = d,
               \A f \in Frames : msg # SpawnMsg(f)
        PROVE  v \in Worlds /\ InStep(Tail(q), v, waiting, plan, shown)
    <2>1. v \in Worlds
      BY <1>3, <1>5 DEF Worlds
    <2>2. /\ v.sinks = [w.sinks EXCEPT ![c] = p] /\ v.balls = w.balls /\ v.body = w.body
          /\ v.free = w.free /\ v.pending = w.pending /\ v.out = w.out
      BY <1>5 DEF Worlds
    <2> HIDE DEF v
    <2>3. Tidy(v) /\ PageFollows(v, shown)
      BY <1>2, <2>2, PageSame DEF Tidy
    <2>4. ASSUME NEW f \in Frames PROVE InOneStage(f, Tail(q), v, waiting)
      <3>1. InOneStage(f, q, w, waiting)
        BY <1>2
      <3>2. /\ AtMostOne(SpawnsIn(Tail(q), f))
            /\ SpawnsIn(Tail(q), f) # {} <=> SpawnsIn(q, f) # {}
        BY <1>4, <1>5, SpawnsTail DEF msg
      <3> QED BY <2>2, <3>1, <3>2 DEF InOneStage
    <2>5. ASSUME NEW d \in Places PROVE SinkFollows(d, Tail(q), v, plan)
      <3>1. /\ Touches(msg, d) => v.sinks[d] = Says(msg)
            /\ ~Touches(msg, d) => v.sinks[d] = w.sinks[d]
        BY <1>3, <1>5, <2>2
      <3>2. SinkFollows(d, q, w, plan)
        BY <1>2
      <3> QED BY <3>1, <3>2, FollowsTail DEF msg
    <2> QED BY <2>1, <2>3, <2>4, <2>5 DEF InStep
  <1>6. ASSUME NEW f \in Frames, msg = SpawnMsg(f), v = Spawned(w, f)
        PROVE  v \in Worlds /\ InStep(Tail(q), v, waiting, plan, shown)
    <2>1. /\ SpawnsIn(q, f) # {} /\ SpawnsIn(Tail(q), f) = {}
          /\ \A g \in Frames : /\ AtMostOne(SpawnsIn(Tail(q), g))
                               /\ g # f => (SpawnsIn(Tail(q), g) # {} <=> SpawnsIn(q, g) # {})
      <3>1. msg = SpawnMsg(f) /\ \A g \in Frames : g # f => msg # SpawnMsg(g)
        BY <1>6, SpawnMsgFacts
      <3> QED BY <1>4, <3>1, SpawnsTail DEF msg
    <2>2. w.balls[f] = NoSlot /\ GonesIn(w.out, f) = {}
      BY <1>2, <2>1 DEF InOneStage
    <2>3. \A c \in Places : SinkFollows(c, Tail(q), w, plan)
      <3>1. \A c \in Places : ~Touches(msg, c)
        BY <1>6, SpawnMsgFacts
      <3> QED BY <1>2, <3>1, FollowsTail DEF msg
    <2>4. CASE w.free = {}
      <3>1. v = [w EXCEPT !.out = Append(@, GoneMsg({}, {f}))]
        BY <1>6, <2>4 DEF Spawned
      <3>2. GoneMsg({}, {f}) \in PageMsgs /\ \A g \in Frames : Reports(GoneMsg({}, {f}), g) <=> g = f
        BY GoneAtOnce
      <3>3. /\ v.sinks = w.sinks /\ v.balls = w.balls /\ v.body = w.body
            /\ v.free = w.free /\ v.pending = w.pending
            /\ v.out = Append(w.out, GoneMsg({}, {f})) /\ v \in Worlds
        <4>1. Append(w.out, GoneMsg({}, {f})) \in Seq(PageMsgs)
          BY <1>3, <3>2
        <4> QED BY <3>1, <4>1 DEF Worlds
      <3> HIDE DEF v
      <3>4. Tidy(v) /\ PageFollows(v, shown)
        BY <1>2, <3>3, DroppedAtOnce DEF Tidy
      <3>5. ASSUME NEW g \in Frames PROVE InOneStage(g, Tail(q), v, waiting)
        <4>1. InOneStage(g, q, w, waiting)
          BY <1>2
        <4>2. GonesIn(v.out, g) = GonesIn(w.out, g) \cup (IF g = f THEN {Len(w.out) + 1} ELSE {})
          <5> DEFINE gone == GoneMsg({}, {f})
          <5>1. gone \in PageMsgs /\ (Reports(gone, g) <=> g = f) /\ v.out = Append(w.out, gone)
            BY <3>2, <3>3
          <5> HIDE DEF gone
          <5>2. GonesIn(Append(w.out, gone), g) =
                  GonesIn(w.out, g) \cup (IF Reports(gone, g) THEN {Len(w.out) + 1} ELSE {})
            BY <1>3, <5>1, GonesAppend
          <5> QED BY <5>1, <5>2
        <4>3. CASE g = f
          BY <2>1, <2>2, <3>3, <4>2, <4>3 DEF InOneStage, AtMostOne
        <4>4. CASE g # f
          <5>1. GonesIn(v.out, g) = GonesIn(w.out, g)
            BY <4>2, <4>4
          <5> QED BY <2>1, <3>3, <4>1, <4>4, <5>1 DEF InOneStage
        <4> QED BY <4>3, <4>4
      <3>6. \A c \in Places : SinkFollows(c, Tail(q), v, plan)
        BY <2>3, <3>3 DEF SinkFollows
      <3> QED BY <3>3, <3>4, <3>5, <3>6 DEF InStep
    <2>5. CASE w.free # {}
      <3> DEFINE s == CHOOSE t \in w.free : TRUE
      <3>1. s \in w.free
        BY <2>5
      <3>2. s \in BallSlots /\ w.body[s] = NoFrame
        BY <1>2, <1>3, <3>1 DEF Tidy
      <3>3. v = [w EXCEPT !.free = @ \ {s}, !.balls[f] = s, !.body[s] = f,
                          !.pending = @ \cup {[frame |-> f, slot |-> s]}]
        BY <1>6, <2>5 DEF Spawned
      <3> HIDE DEF s, v
      <3>4. /\ v.sinks = w.sinks /\ v.balls = [w.balls EXCEPT ![f] = s]
            /\ v.body = [w.body EXCEPT ![s] = f] /\ v.free = w.free \ {s}
            /\ v.pending = w.pending \cup {[frame |-> f, slot |-> s]} /\ v.out = w.out
            /\ v = [sinks |-> v.sinks, balls |-> v.balls, body |-> v.body, free |-> v.free,
                    pending |-> v.pending, out |-> v.out]
        BY <1>3, <3>3 DEF Worlds
      <3>5. v \in Worlds
        <4>1. v.balls \in ShownSlots /\ v.body \in [BallSlots -> Frames \cup {NoFrame}]
          BY <1>3, <3>2, <3>4 DEF ShownSlots
        <4>2. v.free \in SUBSET BallSlots /\ v.pending \in SUBSET Items
          BY <1>3, <3>2, <3>4 DEF Items
        <4> QED BY <1>3, <3>4, <4>1, <4>2 DEF Worlds
      <3>6. PageFollows(v, shown)
        BY <1>2, <2>2, <3>2, <3>4, GotSlot
      <3>7. Tidy(v)
        <4>1. \A g \in Frames : v.balls[g] = IF g = f THEN s ELSE w.balls[g]
          BY <1>3, <3>4 DEF ShownSlots
        <4>2. \A t \in BallSlots : v.body[t] = IF t = s THEN f ELSE w.body[t]
          BY <1>3, <3>4
        <4>3. \A g \in Frames : w.balls[g] # s
          BY <1>2, <3>2, SlotFacts, BallPitAssumption DEF Tidy
        <4>4. \A t \in BallSlots : w.body[t] # f
          BY <1>2, <2>2, SlotFacts, BallPitAssumption DEF Tidy
        <4>5. \A g \in Frames : v.balls[g] # NoSlot => v.body[v.balls[g]] = g
          BY <1>2, <1>3, <3>2, <4>1, <4>2, <4>3 DEF Tidy, ShownSlots
        <4>6. \A t \in BallSlots : v.body[t] # NoFrame => v.balls[v.body[t]] = t
          BY <1>2, <1>3, <4>1, <4>2, <4>4 DEF Tidy
        <4>7. v.free = {t \in BallSlots : v.body[t] = NoFrame}
          BY <1>2, <3>2, <3>4, <4>2, BallPitAssumption DEF Tidy
        <4> QED BY <4>5, <4>6, <4>7 DEF Tidy
      <3>8. ASSUME NEW g \in Frames PROVE InOneStage(g, Tail(q), v, waiting)
        <4>1. InOneStage(g, q, w, waiting)
          BY <1>2
        <4>2. CASE g = f
          <5>1. v.balls[f] = s /\ s # NoSlot
            BY <1>3, <3>2, <3>4, SlotFacts DEF ShownSlots
          <5> QED BY <2>1, <2>2, <3>4, <4>1, <4>2, <5>1 DEF InOneStage
        <4>3. CASE g # f
          <5>1. v.balls[g] = w.balls[g]
            BY <1>3, <3>4, <4>3 DEF ShownSlots
          <5> QED BY <2>1, <3>4, <4>1, <4>3, <5>1 DEF InOneStage
        <4> QED BY <4>2, <4>3
      <3>9. \A c \in Places : SinkFollows(c, Tail(q), v, plan)
        BY <2>3, <3>4 DEF SinkFollows
      <3> QED BY <3>5, <3>6, <3>7, <3>8, <3>9 DEF InStep
    <2> QED BY <2>4, <2>5
  <1>7. CASE \E f \in Frames : msg = SpawnMsg(f) /\ msg.t = "spawn" /\ msg.frame = f
    <2>1. PICK f \in Frames : msg = SpawnMsg(f) /\ msg.t = "spawn" /\ msg.frame = f
      BY <1>7
    <2>2. v = Spawned(w, f)
      BY <2>1 DEF Handled
    <2> QED BY <1>6, <2>1, <2>2 DEF msg
  <1>8. CASE \E c \in Places : msg = UnpartMsg(c) /\ msg.t = "unpart" /\ msg.place = c
    <2>1. PICK c \in Places : msg = UnpartMsg(c) /\ msg.t = "unpart" /\ msg.place = c
      BY <1>8
    <2>2. v = [w EXCEPT !.sinks[c] = NoSink]
      BY <2>1 DEF Handled
    <2>3. /\ Says(msg) = NoSink /\ \A d \in Places : Touches(msg, d) <=> c = d
          /\ \A f \in Frames : msg # SpawnMsg(f)
      BY <2>1, PartMsgFacts
    <2> QED BY <1>5, <2>2, <2>3 DEF msg
  <1>9. CASE \E c \in Places, p \in SinkPorts :
               msg = PartMsg(c, p) /\ msg.t = "part" /\ msg.place = c /\ msg.port = p
    <2>1. PICK c \in Places, p \in SinkPorts :
            msg = PartMsg(c, p) /\ msg.t = "part" /\ msg.place = c /\ msg.port = p
      BY <1>9
    <2>2. v = [w EXCEPT !.sinks[c] = p]
      BY <2>1 DEF Handled
    <2>3. /\ Says(msg) = p /\ \A d \in Places : Touches(msg, d) <=> c = d
          /\ \A f \in Frames : msg # SpawnMsg(f)
      BY <2>1, PartMsgFacts
    <2> QED BY <1>5, <2>2, <2>3 DEF msg
  <1> QED BY <1>1, <1>7, <1>8, <1>9, WorkerMsgForms DEF msg

-----------------------------------------------------------------------------
(* The worker hears a message, or all that came early.                     *)
LEMMA HandledType ==
  ASSUME NEW w \in Worlds, NEW msg \in WorkerMsgs
  PROVE  Handled(w, msg) \in Worlds
  <1>1. /\ w.sinks \in [Places -> SinkPorts \cup {NoSink}] /\ w.balls \in ShownSlots
        /\ w.body \in [BallSlots -> Frames \cup {NoFrame}] /\ w.free \in SUBSET BallSlots
        /\ w.pending \in SUBSET Items /\ w.out \in Seq(PageMsgs)
    BY DEF Worlds
  <1>2. ASSUME NEW c \in Places, NEW p \in SinkPorts \cup {NoSink}
        PROVE  [w EXCEPT !.sinks[c] = p] \in Worlds
    BY <1>1 DEF Worlds
  <1>3. ASSUME NEW f \in Frames PROVE Spawned(w, f) \in Worlds
    <2>1. CASE w.free = {}
      <3>1. Append(w.out, GoneMsg({}, {f})) \in Seq(PageMsgs)
        BY <1>1, GoneAtOnce
      <3> QED BY <2>1, <3>1 DEF Worlds, Spawned
    <2>2. CASE w.free # {}
      <3> DEFINE s == CHOOSE t \in w.free : TRUE
                 v == [w EXCEPT !.free = @ \ {s}, !.balls[f] = s, !.body[s] = f,
                                !.pending = @ \cup {[frame |-> f, slot |-> s]}]
                 b == [w.balls EXCEPT ![f] = s]
                 d == [w.body EXCEPT ![s] = f]
                 e == w.free \ {s}
                 p == w.pending \cup {[frame |-> f, slot |-> s]}
      <3>1. /\ s \in BallSlots /\ b \in ShownSlots /\ d \in [BallSlots -> Frames \cup {NoFrame}]
            /\ e \in SUBSET BallSlots /\ p \in SUBSET Items
        <4>1. s \in BallSlots
          BY <1>1, <2>2
        <4> HIDE DEF s
        <4> QED BY <1>1, <4>1 DEF ShownSlots, Items
      <3>2. v = [w EXCEPT !.free = e, !.balls = b, !.body = d, !.pending = p]
        BY <1>1
      <3> HIDE DEF s, v, b, d, e, p
      <3>3. v = [sinks |-> w.sinks, balls |-> b, body |-> d, free |-> e, pending |-> p,
                 out |-> w.out]
        <4>1. w = [sinks |-> w.sinks, balls |-> w.balls, body |-> w.body, free |-> w.free,
                   pending |-> w.pending, out |-> w.out]
          BY DEF Worlds
        <4> QED BY <3>2, <4>1
      <3>4. v \in Worlds
        BY <1>1, <3>1, <3>3 DEF Worlds
      <3> QED BY <2>2, <3>4 DEF Spawned, v, s
    <2> QED BY <2>1, <2>2
  <1>4. CASE \E f \in Frames : msg = SpawnMsg(f) /\ msg.t = "spawn" /\ msg.frame = f
    BY <1>3, <1>4 DEF Handled
  <1>5. CASE \E c \in Places : msg = UnpartMsg(c) /\ msg.t = "unpart" /\ msg.place = c
    BY <1>2, <1>5 DEF Handled
  <1>6. CASE \E c \in Places, p \in SinkPorts :
               msg = PartMsg(c, p) /\ msg.t = "part" /\ msg.place = c /\ msg.port = p
    BY <1>2, <1>6 DEF Handled
  <1> QED BY <1>4, <1>5, <1>6, WorkerMsgForms

(* Reports that are on their way already do not matter to it.              *)
LEMMA HandledOut ==
  ASSUME NEW w \in Worlds, w.out = <<>>, NEW m \in Seq(PageMsgs), NEW msg \in WorkerMsgs
  PROVE  Handled([w EXCEPT !.out = m], msg) =
           [Handled(w, msg) EXCEPT !.out = m \o Handled(w, msg).out]
  <1> DEFINE u == [w EXCEPT !.out = m]
  <1>1. /\ u.sinks = w.sinks /\ u.balls = w.balls /\ u.body = w.body /\ u.free = w.free
        /\ u.pending = w.pending /\ u.out = m
        /\ u = [sinks |-> w.sinks, balls |-> w.balls, body |-> w.body, free |-> w.free,
                pending |-> w.pending, out |-> m]
        /\ w = [sinks |-> w.sinks, balls |-> w.balls, body |-> w.body, free |-> w.free,
                pending |-> w.pending, out |-> <<>>]
    BY DEF Worlds
  <1>2. m \o <<>> = m /\ \A x \in PageMsgs : m \o Append(<<>>, x) = Append(m, x)
    OBVIOUS
  <1> HIDE DEF u
  <1>3. ASSUME NEW c, NEW p
        PROVE  [u EXCEPT !.sinks[c] = p] =
                 [[w EXCEPT !.sinks[c] = p] EXCEPT !.out = m \o [w EXCEPT !.sinks[c] = p].out]
    BY <1>1, <1>2
  <1>4. ASSUME NEW f \in Frames
        PROVE  Spawned(u, f) = [Spawned(w, f) EXCEPT !.out = m \o Spawned(w, f).out]
    <2>1. CASE w.free = {}
      <3> DEFINE gone == GoneMsg({}, {f})
      <3>1. gone \in PageMsgs
        BY GoneAtOnce
      <3>2. /\ Spawned(u, f) = [u EXCEPT !.out = Append(m, gone)]
            /\ Spawned(w, f) = [w EXCEPT !.out = Append(<<>>, gone)]
        BY <1>1, <2>1 DEF Spawned
      <3> HIDE DEF gone
      <3>3. m \o Append(<<>>, gone) = Append(m, gone)
        BY <1>2, <3>1
      <3> QED BY <1>1, <3>2, <3>3
    <2>2. CASE w.free # {}
      <3> DEFINE s == CHOOSE t \in w.free : TRUE
                 b == [w.balls EXCEPT ![f] = s]
                 d == [w.body EXCEPT ![s] = f]
                 e == w.free \ {s}
                 p == w.pending \cup {[frame |-> f, slot |-> s]}
      <3>1. /\ Spawned(u, f) = [u EXCEPT !.free = e, !.balls = b, !.body = d, !.pending = p]
            /\ Spawned(w, f) = [w EXCEPT !.free = e, !.balls = b, !.body = d, !.pending = p]
        BY <1>1, <2>2 DEF Spawned
      <3> HIDE DEF s, b, d, e, p
      <3>2. /\ Spawned(u, f) = [sinks |-> w.sinks, balls |-> b, body |-> d, free |-> e,
                                pending |-> p, out |-> m]
            /\ Spawned(w, f) = [sinks |-> w.sinks, balls |-> b, body |-> d, free |-> e,
                                pending |-> p, out |-> <<>>]
        BY <1>1, <3>1
      <3> QED BY <1>2, <3>2
    <2> QED BY <2>1, <2>2
  <1>5. CASE \E f \in Frames : msg = SpawnMsg(f) /\ msg.t = "spawn" /\ msg.frame = f
    BY <1>4, <1>5 DEF Handled, u
  <1>6. CASE \E c \in Places : msg = UnpartMsg(c) /\ msg.t = "unpart" /\ msg.place = c
    BY <1>3, <1>6 DEF Handled, u
  <1>7. CASE \E c \in Places, p \in SinkPorts :
               msg = PartMsg(c, p) /\ msg.t = "part" /\ msg.place = c /\ msg.port = p
    BY <1>3, <1>7 DEF Handled, u
  <1> QED BY <1>5, <1>6, <1>7, WorkerMsgForms

(* The worlds that the messages handled before the world existed go through. *)
LEMMA HandledTrace ==
  ASSUME NEW w \in Worlds, NEW n \in Nat, NEW msgs \in [1..n -> WorkerMsgs]
  PROVE  \E h \in [0..n -> Worlds] :
           /\ h[0] = w /\ h[n] = FoldLeft(Handled, w, msgs)
           /\ \A i \in 1..n : h[i] = Handled(h[i - 1], msgs[i])
  <1> DEFINE step == [p \in Worlds \X WorkerMsgs |-> Handled(p[1], p[2])]
             iter(g) == [t \in SUBSET (1..n) |->
                           IF t = {} THEN w ELSE Handled(g[t \ {Max(t)}], msgs[Max(t)])]
             it == CHOOSE g : g = iter(g)
  <1>1. FoldLeft(Handled, w, msgs) = it[1..n]
    <2>1. DOMAIN msgs = 1..n
      OBVIOUS
    <2> QED BY <2>1 DEF FoldLeft, MapThenFoldSet
  <1>2. step \in [Worlds \X WorkerMsgs -> Worlds]
    BY HandledType
  <1>3. PICK g : Folded(g, Worlds, step, w, msgs, n)
    BY <1>2, FoldExists
  <1>4. ASSUME NEW t \in SUBSET (1..n)
        PROVE  g[t] = IF t = {} THEN w ELSE Handled(g[t \ {Max(t)}], msgs[Max(t)])
    <2>1. CASE t = {}
      BY <1>3, <2>1 DEF Folded
    <2>2. CASE t # {}
      <3>1. Max(t) \in 1..n /\ t \ {Max(t)} \in SUBSET (1..n)
        BY <1>3, <2>2 DEF Folded
      <3>2. g[t \ {Max(t)}] \in Worlds /\ msgs[Max(t)] \in WorkerMsgs
        BY <1>3, <3>1 DEF Folded
      <3>3. g[t] = step[<<g[t \ {Max(t)}], msgs[Max(t)]>>]
        BY <1>3, <2>2 DEF Folded
      <3> QED BY <2>2, <3>2, <3>3
    <2> QED BY <2>1, <2>2
  <1>5. g = iter(g)
    <2>1. DOMAIN g = SUBSET (1..n) /\ g = [t \in SUBSET (1..n) |-> g[t]]
      BY <1>3 DEF Folded
    <2> QED BY <1>4, <2>1
  <1>6. it = iter(it)
    BY <1>5
  <1>7. it[{}] = w
    <2>1. {} \in SUBSET (1..n)
      OBVIOUS
    <2> HIDE DEF it
    <2> QED BY <1>6, <2>1
  <1>8. ASSUME NEW i \in 1..n PROVE it[1..i] = Handled(it[1..(i - 1)], msgs[i])
    <2>1. 1..i \in SUBSET (1..n) /\ 1..i # {} /\ i \in 1..i /\ (1..i) \ {i} = 1..(i - 1)
      OBVIOUS
    <2>2. Max(1..i) = i
      BY <2>1, LastOf
    <2> HIDE DEF it
    <2> QED BY <1>6, <2>1, <2>2
  <1> DEFINE h == [i \in 0..n |-> it[1..i]]
  <1> HIDE DEF it
  <1>9. /\ h[0] = w /\ h[n] = FoldLeft(Handled, w, msgs)
        /\ \A i \in 1..n : h[i] = Handled(h[i - 1], msgs[i])
    <2>1. h[0] = w
      <3>1. 1..0 = {}
        OBVIOUS
      <3> QED BY <1>7, <3>1
    <2>2. \A i \in 1..n : i \in 0..n /\ i - 1 \in 0..n
      OBVIOUS
    <2> QED BY <1>1, <1>8, <2>1, <2>2
  <1> DEFINE G == {i \in 0..n : h[i] \in Worlds}
  <1> HIDE DEF h
  <1>10. \A i \in 0..n : i \in G
    <2>1. 0 \in G /\ \A i \in 1..n : i - 1 \in G => i \in G
      BY <1>9, HandledType
    <2> HIDE DEF G
    <2> QED BY <2>1, UpTo
  <1>11. h = [i \in 0..n |-> h[i]] /\ \A i \in 0..n : h[i] \in Worlds
    BY <1>10 DEF h
  <1>12. h \in [0..n -> Worlds]
    BY <1>11
  <1> QED BY <1>9, <1>12

(* The rest of a queue after i messages.                                   *)
LEMMA RestFacts ==
  ASSUME NEW q \in Seq(WorkerMsgs), NEW i \in 1..Len(q)
  PROVE  LET r == SubSeq(q, i, Len(q)) IN
         /\ r \in Seq(WorkerMsgs) /\ r # <<>> /\ Head(r) = q[i]
         /\ Tail(r) = SubSeq(q, i + 1, Len(q))
  <1> DEFINE r == SubSeq(q, i, Len(q))  u == SubSeq(q, i + 1, Len(q))
  <1>1. /\ r \in Seq(WorkerMsgs) /\ Len(r) = Len(q) - i + 1 /\ Len(q) \in Nat
        /\ \A j \in 1..Len(r) : r[j] = q[i + j - 1]
    OBVIOUS
  <1>2. /\ u \in Seq(WorkerMsgs) /\ Len(u) = Len(q) - i
        /\ \A j \in 1..Len(u) : u[j] = q[i + j]
    OBVIOUS
  <1> HIDE DEF r, u
  <1>3. Len(r) > 0 /\ r # <<>>
    BY <1>1
  <1>4. /\ Head(r) = r[1] /\ Tail(r) \in Seq(WorkerMsgs) /\ Len(Tail(r)) = Len(r) - 1
        /\ \A j \in 1..(Len(r) - 1) : Tail(r)[j] = r[j + 1] /\ j + 1 \in 1..Len(r)
    BY <1>1, <1>3, TailFacts
  <1>5. Head(r) = q[i]
    <2>1. 1 \in 1..Len(r) /\ i + 1 - 1 = i
      BY <1>1, <1>3
    <2>2. r[1] = q[i + 1 - 1]
      BY <1>1, <2>1
    <2> QED BY <1>4, <2>1, <2>2
  <1>6. Tail(r) = u
    <2>1. Len(Tail(r)) = Len(u)
      <3>1. Len(r) - 1 = Len(q) - i
        BY <1>1
      <3> QED BY <1>2, <1>4, <3>1
    <2>2. ASSUME NEW j \in 1..Len(u) PROVE Tail(r)[j] = u[j]
      <3>1. j \in 1..(Len(r) - 1) /\ u[j] = q[i + j] /\ i + (j + 1) - 1 = i + j
        BY <1>1, <1>2
      <3>2. Tail(r)[j] = r[j + 1] /\ r[j + 1] = q[i + (j + 1) - 1]
        BY <1>1, <1>4, <3>1
      <3> QED BY <3>1, <3>2
    <2> QED BY <1>2, <1>4, <2>1, <2>2
  <1> QED BY <1>1, <1>3, <1>5, <1>6 DEF r, u

(* The world that handles all early messages, by induction over them.      *)
LEMMA CreateSound ==
  ASSUME NEW first \in Seq(WorkerMsgs), NEW last \in Seq(WorkerMsgs), NEW w \in Worlds,
         NEW waiting, NEW plan, NEW shown \in ShownSlots,
         InStep(first \o last, w, waiting, plan, shown)
  PROVE  /\ FoldLeft(Handled, w, first) \in Worlds
         /\ InStep(last, FoldLeft(Handled, w, first), waiting, plan, shown)
  <1> DEFINE n == Len(first)  q == first \o last
             rest(i) == SubSeq(q, i + 1, Len(q))
  <1>1. n \in Nat /\ first \in [1..n -> WorkerMsgs]
    OBVIOUS
  <1>2. /\ q \in Seq(WorkerMsgs) /\ Len(q) \in Nat /\ n <= Len(q) /\ \A i \in 1..n : q[i] = first[i]
        /\ rest(n) = last /\ rest(0) = q
    OBVIOUS
  <1> HIDE DEF n, q
  <1>3. PICK h \in [0..n -> Worlds] :
           /\ h[0] = w /\ h[n] = FoldLeft(Handled, w, first)
           /\ \A i \in 1..n : h[i] = Handled(h[i - 1], first[i])
    BY <1>1, HandledTrace
  <1> DEFINE G == {i \in 0..n : InStep(rest(i), h[i], waiting, plan, shown)}
  <1>4. 0 \in G
    <2>1. InStep(rest(0), h[0], waiting, plan, shown)
      BY <1>2, <1>3 DEF q
    <2> QED BY <1>1, <2>1
  <1>5. ASSUME NEW i \in 1..n, i - 1 \in G PROVE i \in G
    <2> DEFINE r == SubSeq(q, i, Len(q))
    <2>1. i \in 1..Len(q) /\ (i - 1) + 1 = i /\ i - 1 \in 0..n
      BY <1>1, <1>2
    <2>2. /\ r \in Seq(WorkerMsgs) /\ r # <<>> /\ Head(r) = first[i]
          /\ Tail(r) = SubSeq(q, i + 1, Len(q))
      BY <1>2, <2>1, RestFacts
    <2>3. InStep(r, h[i - 1], waiting, plan, shown) /\ h[i - 1] \in Worlds
      BY <1>3, <1>5, <2>1
    <2> HIDE DEF r
    <2>4. InStep(Tail(r), Handled(h[i - 1], Head(r)), waiting, plan, shown)
      BY <2>2, <2>3, HandledSound
    <2>5. InStep(rest(i), h[i], waiting, plan, shown)
      BY <1>3, <2>2, <2>4
    <2>6. i \in 0..n
      BY <1>1
    <2> HIDE DEF rest
    <2> QED BY <2>5, <2>6
  <1> HIDE DEF G
  <1>6. n \in G
    <2>1. \A i \in 1..n : i - 1 \in G => i \in G
      BY <1>5
    <2>2. n \in Nat /\ n \in 0..n
      BY <1>1
    <2>3. \A i \in 0..n : i \in G
      BY <1>4, <2>1, <2>2, UpTo
    <2> QED BY <2>2, <2>3
  <1>7. InStep(rest(n), h[n], waiting, plan, shown) /\ h[n] \in Worlds
    BY <1>1, <1>3, <1>6 DEF G
  <1> QED BY <1>2, <1>3, <1>7

(* The variables of the worker are those of the record it is.              *)
LEMMA WorldFacts ==
  ASSUME BallInv
  PROVE  /\ World \in Worlds /\ World.out = <<>> /\ Worker = [World EXCEPT !.out = toMain]
         /\ toMain \in Seq(PageMsgs) /\ (toMain = <<>> => World = Worker)
  <1>1. Worker \in Worlds
    BY DEF BallInv
  <1> QED BY <1>1 DEF Worlds, Worker, World

(* A message of the worker's own has become the state.                     *)
LEMMA BecomesWorker ==
  ASSUME NEW w \in Worlds, toMain \in Seq(PageMsgs), Becomes(w)
  PROVE  Worker' = [w EXCEPT !.out = toMain \o w.out]
  <1> DEFINE m == toMain \o w.out
  <1>1. w = [sinks |-> w.sinks, balls |-> w.balls, body |-> w.body, free |-> w.free,
             pending |-> w.pending, out |-> w.out]
    BY DEF Worlds
  <1>2. Worker' = [sinks |-> w.sinks, balls |-> w.balls, body |-> w.body, free |-> w.free,
                   pending |-> w.pending, out |-> m]
    BY DEF Becomes, Worker
  <1> HIDE DEF m
  <1>3. Worker' = [w EXCEPT !.out = m]
    BY <1>1, <1>2
  <1> QED BY <1>3 DEF m

(* The worker handles the first message of its queue.                      *)
LEMMA WorkerReceiveKeeps ==
  ASSUME BallInv, WorkerReceive
  PROVE  BallInv'
  <1> DEFINE msg == Head(toWorker)
  <1>1. /\ early \in Seq(WorkerMsgs) /\ toWorker \in Seq(WorkerMsgs)
        /\ Worker \in Worlds /\ frameSlot \in ShownSlots
        /\ InStep(Queue, Worker, issued, built, frameSlot)
        /\ toWorker # <<>> /\ toWorker' = Tail(toWorker)
        /\ UNCHANGED <<issued, built, created, aged, clientVars>>
    BY DEF BallInv, WorkerReceive
  <1>2. msg \in WorkerMsgs /\ toWorker' \in Seq(WorkerMsgs)
    BY <1>1, TailFacts
  <1>3. CASE created
    <2>1. early = <<>> /\ early' = <<>> /\ Becomes(Handled(World, msg))
      BY <1>3 DEF WorkerReceive, BallInv
    <2>2. Queue = toWorker /\ Queue' = Tail(toWorker)
      BY <1>1, <1>2, <2>1 DEF Queue
    <2>3. World \in Worlds /\ World.out = <<>> /\ Worker = [World EXCEPT !.out = toMain]
          /\ toMain \in Seq(PageMsgs)
      BY WorldFacts
    <2>4. Handled(Worker, msg) = [Handled(World, msg) EXCEPT !.out = toMain \o Handled(World, msg).out]
      BY <1>2, <2>3, HandledOut
    <2>5. Worker' = Handled(Worker, msg)
      BY <1>2, <2>1, <2>3, <2>4, HandledType, BecomesWorker
    <2>6. /\ Handled(Worker, msg) \in Worlds
          /\ InStep(Tail(toWorker), Handled(Worker, msg), issued, built, frameSlot)
      BY <1>1, <2>2, HandledSound
    <2>7. free' \subseteq free
      <3>1. Handled(World, msg).free \subseteq World.free
        BY <1>2, WorkerMsgForms, <2>3 DEF Handled, Spawned, Worlds
      <3> QED BY <2>1, <3>1 DEF Becomes, World
    <2>8. /\ issued' = issued /\ built' = built /\ created' /\ aged' = aged
          /\ frameSlot' = frameSlot /\ active' = active
      BY <1>1, <1>3 DEF clientVars
    <2>9. InStep(Queue', Worker', issued', built', frameSlot')
      BY <2>2, <2>5, <2>6, <2>8
    <2>10. /\ issued' \subseteq Frames /\ built' \in [Places -> SinkPorts \cup {NoSink}]
           /\ early' \in Seq(WorkerMsgs) /\ Worker' \in Worlds /\ frameSlot' \in ShownSlots
           /\ active' = {frameSlot'[f] : f \in Frames} \ {NoSlot}
           /\ aged' \subseteq BallSlots \ free'
      BY <1>1, <2>1, <2>5, <2>6, <2>7, <2>8 DEF BallInv
    <2> QED BY <1>2, <2>1, <2>8, <2>9, <2>10 DEF BallInv
  <1>4. CASE ~created
    <2>1. early' = Append(early, msg) /\ UNCHANGED <<sinks, balls, body, free, pending, toMain>>
      BY <1>4 DEF WorkerReceive, Keep
    <2>2. Queue' = Queue
      <3>1. toWorker = <<msg>> \o Tail(toWorker)
        BY <1>1
      <3>2. early' \o toWorker' = early \o toWorker
        BY <1>1, <2>1, <3>1
      <3> QED BY <3>2 DEF Queue
    <2>3. early' \in Seq(WorkerMsgs)
      BY <1>1, <1>2, <2>1
    <2> QED BY <1>1, <1>2, <1>4, <2>1, <2>2, <2>3 DEF BallInv, Worker, clientVars
  <1> QED BY <1>3, <1>4

(* The world comes to exist and handles what waited for it.                *)
LEMMA CreateKeeps ==
  ASSUME BallInv, Create
  PROVE  BallInv'
  <1> DEFINE w == FoldLeft(Handled, World, early)
  <1>1. /\ early \in Seq(WorkerMsgs) /\ toWorker \in Seq(WorkerMsgs)
        /\ Worker \in Worlds /\ frameSlot \in ShownSlots /\ toMain = <<>>
        /\ InStep(Queue, Worker, issued, built, frameSlot)
        /\ created' /\ early' = <<>> /\ Becomes(w)
        /\ UNCHANGED <<issued, built, toWorker, aged, clientVars>>
    BY DEF BallInv, Create
  <1>2. World = Worker /\ toMain \in Seq(PageMsgs)
    BY <1>1, WorldFacts
  <1>3. w \in Worlds /\ InStep(toWorker, w, issued, built, frameSlot)
    BY <1>1, <1>2, CreateSound DEF Queue
  <1> HIDE DEF w
  <1>5. Worker' = w
    <2>1. Worker' = [w EXCEPT !.out = toMain \o w.out]
      BY <1>1, <1>2, <1>3, BecomesWorker
    <2>2. toMain \o w.out = w.out
      BY <1>1, <1>3 DEF Worlds
    <2> QED BY <1>3, <2>1, <2>2 DEF Worlds
  <1>6. Queue' = toWorker
    BY <1>1 DEF Queue
  <1>7. /\ issued' = issued /\ built' = built /\ created' /\ aged' = {} /\ early' = <<>>
        /\ frameSlot' = frameSlot /\ active' = active /\ toWorker' = toWorker
    BY <1>1 DEF clientVars, BallInv, Create
  <1>8. InStep(Queue', Worker', issued', built', frameSlot')
    BY <1>3, <1>5, <1>6, <1>7
  <1> QED BY <1>1, <1>3, <1>5, <1>7, <1>8 DEF BallInv

-----------------------------------------------------------------------------
(* What the page does. *)
LEMMA AppendFacts ==
  ASSUME NEW M, NEW q \in Seq(M), NEW x \in M
  PROVE  /\ Append(q, x) \in Seq(M) /\ Len(q) \in Nat /\ Len(Append(q, x)) = Len(q) + 1
         /\ Append(q, x)[Len(q) + 1] = x
         /\ \A i \in 1..Len(q) : Append(q, x)[i] = q[i]
  OBVIOUS

(* Two sequences, one after the other.                                     *)
LEMMA ConcatFacts ==
  ASSUME NEW M, NEW q \in Seq(M), NEW r \in Seq(M)
  PROVE  /\ q \o r \in Seq(M) /\ Len(q) \in Nat /\ Len(r) \in Nat
         /\ Len(q \o r) = Len(q) + Len(r)
         /\ \A i \in 1..Len(q) : (q \o r)[i] = q[i]
         /\ \A i \in 1..Len(r) : (q \o r)[Len(q) + i] = r[i]
  <1>1. q \o r \in Seq(M) /\ Len(q) \in Nat /\ Len(r) \in Nat /\ Len(q \o r) = Len(q) + Len(r)
    OBVIOUS
  <1>2. \A i \in 1..Len(q) : (q \o r)[i] = q[i]
    OBVIOUS
  <1>3. \A i \in 1..Len(r) : (q \o r)[Len(q) + i] = r[i]
    OBVIOUS
  <1> QED BY <1>1, <1>2, <1>3

(* A message at the end of a queue: its spawns.                            *)
LEMMA SpawnsAppend ==
  ASSUME NEW q \in Seq(WorkerMsgs), NEW msg \in WorkerMsgs, NEW f \in Frames
  PROVE  SpawnsIn(Append(q, msg), f) =
           SpawnsIn(q, f) \cup (IF msg = SpawnMsg(f) THEN {Len(q) + 1} ELSE {})
  <1> DEFINE r == Append(q, msg)
  <1>1. /\ Len(r) = Len(q) + 1 /\ r[Len(q) + 1] = msg /\ Len(q) \in Nat
        /\ \A i \in 1..Len(q) : r[i] = q[i]
    BY AppendFacts
  <1> HIDE DEF r
  <1> QED BY <1>1 DEF SpawnsIn, r

(* A part message at the end of a queue: the plan follows it.              *)
LEMMA FollowsAppend ==
  ASSUME NEW q \in Seq(WorkerMsgs), NEW msg \in WorkerMsgs, NEW w, NEW plan, NEW changed,
         NEW c \in Places, SinkFollows(c, q, w, plan),
         Touches(msg, c) => Says(msg) = changed[c],
         ~Touches(msg, c) => changed[c] = plan[c]
  PROVE  SinkFollows(c, Append(q, msg), w, changed)
  <1> DEFINE r == Append(q, msg)
  <1>1. /\ Len(r) = Len(q) + 1 /\ r[Len(q) + 1] = msg /\ Len(q) \in Nat
        /\ \A i \in 1..Len(q) : r[i] = q[i]
    BY AppendFacts
  <1> HIDE DEF r
  <1>2. CASE Touches(msg, c)
    <2>1. Len(r) \in 1..Len(r) /\ \A j \in 1..Len(r) : ~(j > Len(r))
      BY <1>1
    <2> QED BY <1>1, <1>2, <2>1 DEF SinkFollows, r
  <1>3. CASE ~Touches(msg, c)
    <2>1. \A i \in 1..Len(r) : i \in 1..Len(q) \/ i = Len(q) + 1
      BY <1>1
    <2>2. CASE w.sinks[c] = plan[c] /\ \A i \in 1..Len(q) : ~Touches(q[i], c)
      BY <1>1, <1>3, <2>1, <2>2 DEF SinkFollows, r
    <2>3. ASSUME NEW i \in 1..Len(q), Touches(q[i], c), Says(q[i]) = plan[c],
                 \A j \in 1..Len(q) : j > i => ~Touches(q[j], c)
          PROVE  SinkFollows(c, Append(q, msg), w, changed)
      <3>1. i \in 1..Len(r) /\ Touches(r[i], c) /\ Says(r[i]) = changed[c]
        BY <1>1, <1>3, <2>3
      <3>2. \A j \in 1..Len(r) : j > i => ~Touches(r[j], c)
        BY <1>1, <1>3, <2>1, <2>3
      <3> QED BY <3>1, <3>2 DEF SinkFollows, r
    <2> QED BY <2>2, <2>3 DEF SinkFollows
  <1> QED BY <1>2, <1>3

(* The page brings a message to the worker, and nothing else happens.      *)
LEMMA BroughtFacts ==
  ASSUME BallInv, NEW msg \in WorkerMsgs, toWorker' = Append(toWorker, msg),
         UNCHANGED <<toMain, workerVars, clientVars>>
  PROVE  /\ Queue \in Seq(WorkerMsgs) /\ Queue' = Append(Queue, msg) /\ Worker' = Worker
         /\ frameSlot' = frameSlot
         /\ (/\ issued' \subseteq Frames /\ built' \in [Places -> SinkPorts \cup {NoSink}]
             /\ InStep(Append(Queue, msg), Worker, issued', built', frameSlot)) => BallInv'
  <1>1. early \in Seq(WorkerMsgs) /\ toWorker \in Seq(WorkerMsgs)
    BY DEF BallInv
  <1>2. /\ early' = early /\ created' = created /\ aged' = aged /\ free' = free
        /\ frameSlot' = frameSlot /\ active' = active /\ toMain' = toMain /\ Worker' = Worker
    BY DEF workerVars, clientVars, Worker
  <1>3. /\ Queue \in Seq(WorkerMsgs) /\ toWorker' \in Seq(WorkerMsgs)
        /\ early \o Append(toWorker, msg) = Append(early \o toWorker, msg)
    <2>1. Queue \in Seq(WorkerMsgs)
      BY <1>1 DEF Queue
    <2>2. toWorker' \in Seq(WorkerMsgs)
      BY <1>1
    <2>3. early \o Append(toWorker, msg) = Append(early \o toWorker, msg)
      BY <1>1
    <2> QED BY <2>1, <2>2, <2>3
  <1>4. Queue' = Append(Queue, msg)
    BY <1>2, <1>3 DEF Queue
  <1> QED BY <1>2, <1>3, <1>4 DEF BallInv

(* The spawns of a queue that takes a new one for a frame.                 *)
LEMMA QueueSpawns ==
  ASSUME BallInv, NEW f \in Frames
  PROVE  SpawnsOf(f) = SpawnsIn(Queue, f)
  <1>1. early \in Seq(WorkerMsgs) /\ toWorker \in Seq(WorkerMsgs)
    BY DEF BallInv
  <1> DEFINE n == Len(early)  m == Len(toWorker)
  <1>2. /\ n \in Nat /\ m \in Nat /\ Len(Queue) = n + m
        /\ \A i \in 1..n : Queue[i] = early[i]
        /\ \A i \in 1..m : Queue[n + i] = toWorker[i]
    BY <1>1, ConcatFacts DEF Queue
  <1> HIDE DEF n, m
  <1>3. ASSUME NEW i \in SpawnsOf(f) PROVE i \in SpawnsIn(Queue, f)
    <2>1. CASE i \in 1..n /\ early[i] = SpawnMsg(f)
      <3>1. i \in 1..Len(Queue)
        BY <1>2, <2>1
      <3> QED BY <1>2, <2>1, <3>1 DEF SpawnsIn
    <2>2. ASSUME NEW j \in 1..m, toWorker[j] = SpawnMsg(f), i = n + j
          PROVE  i \in SpawnsIn(Queue, f)
      <3>1. i \in 1..Len(Queue) /\ Queue[i] = toWorker[j]
        BY <1>2, <2>2
      <3> QED BY <2>2, <3>1 DEF SpawnsIn
    <2> QED BY <1>3, <2>1, <2>2 DEF SpawnsOf, n, m
  <1>4. ASSUME NEW i \in SpawnsIn(Queue, f) PROVE i \in SpawnsOf(f)
    <2>1. i \in 1..(n + m) /\ Queue[i] = SpawnMsg(f)
      BY <1>2 DEF SpawnsIn
    <2>2. CASE i \in 1..n
      BY <1>2, <2>1, <2>2 DEF SpawnsOf, n
    <2>3. CASE i \notin 1..n
      <3>1. i - n \in 1..m /\ n + (i - n) = i
        BY <1>2, <2>1, <2>3
      <3>2. toWorker[i - n] = SpawnMsg(f)
        BY <1>2, <2>1, <3>1
      <3> QED BY <3>1, <3>2 DEF SpawnsOf, n, m
    <2> QED BY <2>2, <2>3
  <1> QED BY <1>3, <1>4

(* The reports of a frame, in either notation.                             *)
LEMMA GonesOfIn == ASSUME NEW f PROVE GonesOf(f) = GonesIn(Worker.out, f)
  BY DEF GonesOf, GonesIn, Worker

(* A new frame is awaited and its spawn sent.                              *)
LEMMA OnTokenKeeps ==
  ASSUME BallInv, NEW f \in Frames, OnToken(f)
  PROVE  BallInv'
  <1>1. f \notin issued /\ ~InPit(f) /\ UNCHANGED <<built, toMain, workerVars, clientVars>>
    BY DEF OnToken
  <1>2. /\ issued \subseteq Frames /\ built \in [Places -> SinkPorts \cup {NoSink}]
        /\ InStep(Queue, Worker, issued, built, frameSlot)
    BY DEF BallInv
  <1>3. CASE UNCHANGED <<toWorker, issued>>
    BY <1>1, <1>3 DEF BallInv, Queue, Worker, workerVars, clientVars
  <1>4. CASE Bring(SpawnMsg(f)) /\ issued' = issued \cup {f}
    <2>1. SpawnMsg(f) \in WorkerMsgs /\ toWorker' = Append(toWorker, SpawnMsg(f))
      BY <1>4, SpawnMsgFacts DEF Bring
    <2>2. /\ Queue \in Seq(WorkerMsgs)
          /\ (/\ issued' \subseteq Frames /\ built' \in [Places -> SinkPorts \cup {NoSink}]
              /\ InStep(Append(Queue, SpawnMsg(f)), Worker, issued', built', frameSlot)) => BallInv'
      BY <1>1, <2>1, BroughtFacts
    <2>3. SpawnsIn(Queue, f) = {} /\ GonesIn(Worker.out, f) = {} /\ Worker.balls[f] = NoSlot
      BY <1>1, QueueSpawns, GonesOfIn DEF InPit, Worker
    <2>4. ASSUME NEW g \in Frames
          PROVE  InOneStage(g, Append(Queue, SpawnMsg(f)), Worker, issued \cup {f})
      <3>1. SpawnsIn(Append(Queue, SpawnMsg(f)), g) =
              SpawnsIn(Queue, g) \cup (IF f = g THEN {Len(Queue) + 1} ELSE {})
        BY <2>1, <2>2, SpawnsAppend, SpawnMsgFacts
      <3>2. InOneStage(g, Queue, Worker, issued)
        BY <1>2 DEF InStep
      <3>3. CASE f = g
        BY <2>3, <3>1, <3>3 DEF InOneStage, AtMostOne
      <3>4. CASE f # g
        <4>1. SpawnsIn(Append(Queue, SpawnMsg(f)), g) = SpawnsIn(Queue, g)
          BY <3>1, <3>4
        <4> QED BY <3>2, <3>4, <4>1 DEF InOneStage
      <3> QED BY <3>3, <3>4
    <2>5. ASSUME NEW c \in Places PROVE SinkFollows(c, Append(Queue, SpawnMsg(f)), Worker, built)
      BY <1>2, <2>1, <2>2, FollowsAppend, SpawnMsgFacts DEF InStep
    <2>6. InStep(Append(Queue, SpawnMsg(f)), Worker, issued \cup {f}, built, frameSlot)
      BY <1>2, <2>4, <2>5 DEF InStep
    <2> QED BY <1>1, <1>2, <1>4, <2>2, <2>6
  <1> QED BY <1>3, <1>4 DEF OnToken

(* A restarted loft awaits nothing it did before.                          *)
LEMMA LoftRestartKeeps ==
  ASSUME BallInv, LoftRestart
  PROVE  BallInv'
  <1>1. /\ issued' = {} /\ Queue' = Queue /\ Worker' = Worker
        /\ UNCHANGED <<built, toWorker, toMain, workerVars, clientVars>>
    BY DEF LoftRestart, Queue, Worker, workerVars
  <1>2. InStep(Queue, Worker, issued, built, frameSlot)
    BY DEF BallInv
  <1>3. InStep(Queue, Worker, {}, built, frameSlot)
    BY <1>2 DEF InStep, InOneStage
  <1> QED BY <1>1, <1>3 DEF BallInv, workerVars, clientVars

(* The player changes the sink on a cell, and tells the worker.            *)
LEMMA PlanKeeps ==
  ASSUME BallInv, NEW c \in Places, NEW p \in SinkPorts \cup {NoSink}, NEW msg \in WorkerMsgs,
         toWorker' = Append(toWorker, msg), built' = [built EXCEPT ![c] = p],
         UNCHANGED <<issued, toMain, workerVars, clientVars>>,
         Says(msg) = p, \A d \in Places : Touches(msg, d) <=> c = d,
         \A f \in Frames : msg # SpawnMsg(f)
  PROVE  BallInv'
  <1>1. /\ issued \subseteq Frames /\ built \in [Places -> SinkPorts \cup {NoSink}]
        /\ InStep(Queue, Worker, issued, built, frameSlot)
    BY DEF BallInv
  <1>2. /\ Queue \in Seq(WorkerMsgs)
        /\ (/\ issued' \subseteq Frames /\ built' \in [Places -> SinkPorts \cup {NoSink}]
            /\ InStep(Append(Queue, msg), Worker, issued', built', frameSlot)) => BallInv'
    BY BroughtFacts
  <1>3. ASSUME NEW f \in Frames PROVE InOneStage(f, Append(Queue, msg), Worker, issued)
    <2>1. SpawnsIn(Append(Queue, msg), f) = SpawnsIn(Queue, f)
      <3>1. /\ msg # SpawnMsg(f)
            /\ SpawnsIn(Append(Queue, msg), f) =
                 SpawnsIn(Queue, f) \cup (IF msg = SpawnMsg(f) THEN {Len(Queue) + 1} ELSE {})
        BY <1>2, SpawnsAppend
      <3> QED BY <3>1
    <2> QED BY <1>1, <2>1 DEF InStep, InOneStage
  <1>4. ASSUME NEW d \in Places PROVE SinkFollows(d, Append(Queue, msg), Worker, built')
    <2>1. (Touches(msg, d) => Says(msg) = built'[d]) /\ (~Touches(msg, d) => built'[d] = built[d])
      BY <1>1
    <2> QED BY <1>1, <1>2, <2>1, FollowsAppend DEF InStep
  <1>5. InStep(Append(Queue, msg), Worker, issued', built', frameSlot)
    BY <1>1, <1>3, <1>4 DEF InStep
  <1> QED BY <1>1, <1>2, <1>5

(* What the player builds is planned, and the worker told.                 *)
LEMMA PlayerStepKeeps ==
  ASSUME BallInv, PlayerStep
  PROVE  BallInv'
  <1>1. ASSUME NEW c \in Places, RemoveSink(c) PROVE BallInv'
    <2> DEFINE msg == UnpartMsg(c)
    <2>1. /\ msg \in WorkerMsgs /\ Says(msg) = NoSink /\ \A f \in Frames : msg # SpawnMsg(f)
          /\ \A d \in Places : Touches(msg, d) <=> c = d
      BY PartMsgFacts
    <2>2. /\ toWorker' = Append(toWorker, msg) /\ built' = [built EXCEPT ![c] = NoSink]
          /\ UNCHANGED <<issued, toMain, workerVars, clientVars>>
      BY <1>1 DEF RemoveSink, Bring
    <2> HIDE DEF msg
    <2> QED BY <2>1, <2>2, PlanKeeps
  <1>2. ASSUME NEW c \in Places, NEW p \in SinkPorts, PlaceSink(c, p) PROVE BallInv'
    <2> DEFINE msg == PartMsg(c, p)
    <2>1. /\ msg \in WorkerMsgs /\ Says(msg) = p /\ \A f \in Frames : msg # SpawnMsg(f)
          /\ \A d \in Places : Touches(msg, d) <=> c = d
      BY PartMsgFacts
    <2>2. /\ toWorker' = Append(toWorker, msg) /\ built' = [built EXCEPT ![c] = p]
          /\ UNCHANGED <<issued, toMain, workerVars, clientVars>>
      BY <1>2 DEF PlaceSink, Bring
    <2> HIDE DEF msg
    <2> QED BY <2>1, <2>2, PlanKeeps
  <1> QED BY <1>1, <1>2 DEF PlayerStep

-----------------------------------------------------------------------------
(* The page reads a message. *)
LEMMA GonesTail ==
  ASSUME NEW m \in Seq(PageMsgs), m # <<>>, NEW f \in Frames, AtMostOne(GonesIn(m, f))
  PROVE  /\ AtMostOne(GonesIn(Tail(m), f))
         /\ GonesIn(Tail(m), f) # {} => GonesIn(m, f) # {}
         /\ Reports(Head(m), f) => GonesIn(Tail(m), f) = {} /\ GonesIn(m, f) # {}
         /\ ~Reports(Head(m), f) /\ GonesIn(m, f) # {} => GonesIn(Tail(m), f) # {}
  <1> DEFINE r == Tail(m)
  <1>1. /\ Head(m) = m[1] /\ 1 \in 1..Len(m) /\ Len(r) = Len(m) - 1 /\ Len(m) \in Nat
        /\ \A i \in 1..Len(r) : r[i] = m[i + 1] /\ i + 1 \in 1..Len(m)
    BY TailFacts
  <1> HIDE DEF r
  <1>2. \A i \in 1..Len(m) : i # 1 => i - 1 \in 1..Len(r) /\ r[i - 1] = m[i]
    BY <1>1
  <1>3. \A i \in GonesIn(r, f) : i + 1 \in GonesIn(m, f) /\ i \in Nat
    BY <1>1 DEF GonesIn
  <1>4. \A i \in GonesIn(m, f) : i # 1 => i - 1 \in GonesIn(r, f)
    BY <1>2 DEF GonesIn
  <1>5. AtMostOne(GonesIn(r, f))
    <2> SUFFICES ASSUME NEW x \in GonesIn(r, f), NEW y \in GonesIn(r, f) PROVE x = y
      BY DEF AtMostOne
    <2>1. x + 1 = y + 1
      BY <1>3 DEF AtMostOne
    <2> QED BY <1>3, <2>1
  <1>6. Reports(Head(m), f) => GonesIn(r, f) = {} /\ GonesIn(m, f) # {}
    <2> SUFFICES ASSUME Reports(Head(m), f) PROVE GonesIn(r, f) = {} /\ GonesIn(m, f) # {}
      OBVIOUS
    <2>1. 1 \in GonesIn(m, f)
      BY <1>1 DEF GonesIn
    <2>2. ASSUME NEW i \in GonesIn(r, f) PROVE FALSE
      <3>1. i + 1 = 1 /\ i \in 1..Len(r)
        BY <1>3, <2>1 DEF AtMostOne, GonesIn
      <3> QED BY <3>1
    <2> QED BY <2>1, <2>2
  <1>7. ~Reports(Head(m), f) => 1 \notin GonesIn(m, f)
    BY <1>1 DEF GonesIn
  <1> QED BY <1>3, <1>4, <1>5, <1>6, <1>7 DEF r

(* What was told of in the first message is on the page now, and the rest  *)
(* moves up; but not a ball that this message says is gone.                *)
MovedUp(i, k, f, m) ==
  (k = i + 1 \/ (i = 0 /\ k = 0)) /\ ~(k = 0 /\ Reports(m[1], f))

(* The page reads the first report: what it says is not on its way now.    *)
LEMMA PageReads ==
  ASSUME NEW w \in Worlds, w.out # <<>>, NEW shown, NEW shown2, PageFollows(w, shown),
         NEW v, v.balls = w.balls, v.out = Tail(w.out),
         \A f \in Frames, s \in BallSlots, i \in Nat : ShownAt(i, f, s, v, shown2) =>
           \E k \in Nat : MovedUp(i, k, f, w.out) /\ ShownAt(k, f, s, w, shown),
         \A f \in Frames, s \in BallSlots, k \in Nat :
           ShownAt(k, f, s, w, shown) /\ w.balls[f] = s =>
             \E i \in Nat : ShownAt(i, f, s, v, shown2),
         w.out[1].t = "gone" \/ \A f \in Frames : ~Reports(w.out[1], f)
  PROVE  PageFollows(v, shown2)
  <1>1. /\ Len(w.out) \in Nat /\ Len(v.out) = Len(w.out) - 1
        /\ \A j \in 1..Len(w.out) : j # 1 => j - 1 \in 1..Len(v.out) /\ v.out[j - 1] = w.out[j]
    <2> DEFINE m == w.out  r == Tail(m)
    <2>1. m \in Seq(PageMsgs) /\ m # <<>>
      BY DEF Worlds
    <2> HIDE DEF m
    <2>2. /\ Len(r) = Len(m) - 1 /\ Len(m) \in Nat /\ Len(m) > 0
          /\ \A i \in 1..Len(m) - 1 : r[i] = m[i + 1]
      BY <2>1, TailFacts
    <2> HIDE DEF r
    <2>3. \A j \in 1..Len(m) : j # 1 => j - 1 \in 1..Len(r) /\ r[j - 1] = m[j]
      BY <2>2
    <2> QED BY <2>2, <2>3 DEF m, r
  <1>2. ASSUME NEW i \in Nat, NEW k \in Nat, NEW f \in Frames, MovedUp(i, k, f, w.out),
               NEW j \in 1..Len(w.out), j > k, Reports(w.out[j], f)
        PROVE  /\ j - 1 \in 1..Len(v.out) /\ j - 1 > i /\ Reports(v.out[j - 1], f)
    <2>1. j # 1
      <3>1. CASE k = 0
        BY <1>2, <3>1 DEF MovedUp
      <3>2. CASE k # 0
        BY <1>2, <3>2
      <3> QED BY <3>1, <3>2
    <2>2. j - 1 \in 1..Len(v.out) /\ v.out[j - 1] = w.out[j]
      BY <1>1, <2>1
    <2>3. j - 1 > i
      BY <1>1, <1>2, <2>1 DEF MovedUp
    <2> QED BY <1>1, <1>2, <2>1, <2>2, <2>3
  <1>3. ShownOrGone(v, shown2)
    <2> SUFFICES ASSUME NEW f \in Frames, NEW s \in BallSlots, NEW i \in Nat,
                        ShownAt(i, f, s, v, shown2)
                 PROVE  v.balls[f] = s \/ GoneAfter(i, f, v)
      BY DEF ShownOrGone
    <2>1. PICK k \in Nat : MovedUp(i, k, f, w.out) /\ ShownAt(k, f, s, w, shown)
      OBVIOUS
    <2>2. w.balls[f] = s \/ GoneAfter(k, f, w)
      BY <2>1 DEF PageFollows, ShownOrGone
    <2>3. ASSUME GoneAfter(k, f, w) PROVE GoneAfter(i, f, v)
      BY <1>2, <2>1, <2>3 DEF GoneAfter
    <2> QED BY <2>2, <2>3
  <1>4. AllShown(v, shown2)
    BY DEF PageFollows, AllShown
  <1>5. ShownOnce(v, shown2)
    <2> SUFFICES ASSUME NEW f \in Frames, NEW s \in BallSlots, NEW t \in BallSlots,
                        NEW i \in Nat, NEW k \in Nat,
                        ShownAt(i, f, s, v, shown2), ShownAt(k, f, t, v, shown2)
                 PROVE  i = k /\ s = t
      BY DEF ShownOnce
    <2>1. PICK I \in Nat : MovedUp(i, I, f, w.out) /\ ShownAt(I, f, s, w, shown)
      OBVIOUS
    <2>2. PICK K \in Nat : MovedUp(k, K, f, w.out) /\ ShownAt(K, f, t, w, shown)
      OBVIOUS
    <2>3. I = K /\ s = t
      BY <2>1, <2>2 DEF PageFollows, ShownOnce
    <2> QED BY <2>1, <2>2, <2>3 DEF MovedUp
  <1>6. TakesTurns(v, shown2)
    <2> SUFFICES ASSUME NEW f \in Frames, NEW g \in Frames, NEW s \in BallSlots,
                        NEW i \in Nat, NEW k \in Nat, f # g, i <= k,
                        ShownAt(i, f, s, v, shown2), ShownAt(k, g, s, v, shown2)
                 PROVE  \E j \in 1..Len(v.out) : i < j /\ j < k /\ Reports(v.out[j], f)
      BY DEF TakesTurns
    <2>1. PICK I \in Nat : MovedUp(i, I, f, w.out) /\ ShownAt(I, f, s, w, shown)
      OBVIOUS
    <2>2. PICK K \in Nat : MovedUp(k, K, g, w.out) /\ ShownAt(K, g, s, w, shown)
      OBVIOUS
    <2>3. CASE I <= K
      <3>1. PICK j \in 1..Len(w.out) : I < j /\ j < K /\ Reports(w.out[j], f)
        BY <2>1, <2>2, <2>3 DEF PageFollows, TakesTurns
      <3>2. j - 1 \in 1..Len(v.out) /\ j - 1 > i /\ Reports(v.out[j - 1], f)
        BY <1>2, <2>1, <3>1
      <3>3. j - 1 < k
        BY <1>1, <2>2, <3>1 DEF MovedUp
      <3> QED BY <3>2, <3>3
    <2>4. CASE K < I
      <3>1. I = 1 /\ K = 0
        BY <2>1, <2>2, <2>4 DEF MovedUp
      <3>2. PICK j \in 1..Len(w.out) : K < j /\ j < I
        BY <2>1, <2>2, <2>4 DEF PageFollows, TakesTurns
      <3> QED BY <1>1, <3>1, <3>2
    <2> QED BY <2>3, <2>4
  <1> QED BY <1>3, <1>4, <1>5, <1>6 DEF PageFollows

(* What was on the page and what has just been spawned is one thing per    *)
(* frame and per slot.                                                     *)
LEMMA OneBallShown ==
  ASSUME NEW w, NEW shown, PageFollows(w, shown), NEW f \in Frames, NEW g \in Frames,
         NEW s \in BallSlots, NEW i \in {0, 1}, NEW k \in {0, 1},
         ShownAt(i, f, s, w, shown), ShownAt(k, g, s, w, shown)
  PROVE  f = g
  <1> SUFFICES ASSUME f # g PROVE FALSE
    OBVIOUS
  <1>1. CASE i <= k
    <2>1. \E j \in 1..Len(w.out) : i < j /\ j < k
      BY <1>1 DEF PageFollows, TakesTurns
    <2> QED BY <2>1
  <1>2. CASE k <= i
    <2>1. \E j \in 1..Len(w.out) : k < j /\ j < i
      BY <1>2 DEF PageFollows, TakesTurns
    <2> QED BY <2>1
  <1> QED BY <1>1, <1>2

(* The first report and those after it.                                    *)
LEMMA FirstOut ==
  ASSUME NEW w \in Worlds, w.out # <<>>
  PROVE  /\ w.out[1] \in PageMsgs /\ Head(w.out) = w.out[1] /\ 1 \in 1..Len(w.out)
         /\ Tail(w.out) \in Seq(PageMsgs) /\ Len(w.out) \in Nat /\ Len(Tail(w.out)) = Len(w.out) - 1
         /\ \A i \in 1..(Len(w.out) - 1) : Tail(w.out)[i] = w.out[i + 1] /\ i + 1 \in 1..Len(w.out)
  <1> DEFINE m == w.out
  <1>1. m \in Seq(PageMsgs) /\ m # <<>>
    BY DEF Worlds
  <1> HIDE DEF m
  <1>2. /\ m[1] \in PageMsgs /\ Head(m) = m[1] /\ 1 \in 1..Len(m)
        /\ Tail(m) \in Seq(PageMsgs) /\ Len(m) \in Nat /\ Len(Tail(m)) = Len(m) - 1
        /\ \A i \in 1..(Len(m) - 1) : Tail(m)[i] = m[i + 1] /\ i + 1 \in 1..Len(m)
    BY <1>1, TailFacts
  <1> QED BY <1>2 DEF m

(* In all but the first place, what is told of stays in its place.         *)
LEMMA LaterShown ==
  ASSUME NEW w \in Worlds, w.out # <<>>, NEW v, v.out = Tail(w.out), v.pending = w.pending,
         NEW shown, NEW shown2, NEW f, NEW s, NEW i \in Nat, i # 0
  PROVE  ShownAt(i, f, s, v, shown2) <=> ShownAt(i + 1, f, s, w, shown)
  <1>1. /\ Len(w.out) \in Nat /\ Len(w.out) > 0 /\ Len(v.out) = Len(w.out) - 1
        /\ \A j \in 1..(Len(w.out) - 1) : v.out[j] = w.out[j + 1]
    BY FirstOut
  <1>2. i \in 1..Len(v.out) <=> i + 1 \in 1..Len(w.out)
    BY <1>1
  <1>3. i \in 1..Len(v.out) => v.out[i] = w.out[i + 1]
    BY <1>1
  <1>4. i = Len(v.out) + 1 <=> i + 1 = Len(w.out) + 1
    BY <1>1
  <1>5. i + 1 # 0
    OBVIOUS
  <1> QED BY <1>2, <1>3, <1>4, <1>5 DEF ShownAt

(* A report of the gone is read: their frames are shown no longer.         *)
LEMMA GoneRead ==
  ASSUME NEW w \in Worlds, w.out # <<>>, w.out[1].t = "gone", NEW shown \in ShownSlots,
         PageFollows(w, shown),
         \A f \in Frames : w.balls[f] # NoSlot => GonesIn(w.out, f) = {},
         NEW v, v.balls = w.balls, v.pending = w.pending, v.out = Tail(w.out)
  PROVE  PageFollows(v, [f \in Frames |-> IF Reports(w.out[1], f) THEN NoSlot ELSE shown[f]])
  <1> DEFINE shown2 == [f \in Frames |-> IF Reports(w.out[1], f) THEN NoSlot ELSE shown[f]]
  <1>1. 1 \in 1..Len(w.out) /\ Len(w.out) \in Nat /\ w.out[1].t # "spawned"
    BY FirstOut
  <1>2. \A f, s : ~ShownAt(1, f, s, w, shown)
    BY <1>1 DEF ShownAt
  <1>3. \A f \in Frames, s \in BallSlots :
          ShownAt(0, f, s, v, shown2) <=> (ShownAt(0, f, s, w, shown) /\ ~Reports(w.out[1], f))
    <2>1. v.out \in Seq(PageMsgs) /\ Len(v.out) \in Nat
      BY FirstOut
    <2> QED BY <1>1, <2>1, SlotFacts DEF ShownAt
  <1> HIDE DEF shown2
  <1>4. ASSUME NEW f \in Frames, NEW s \in BallSlots, NEW i \in Nat, ShownAt(i, f, s, v, shown2)
        PROVE  \E k \in Nat : MovedUp(i, k, f, w.out) /\ ShownAt(k, f, s, w, shown)
    <2>1. CASE i = 0
      BY <1>3, <1>4, <2>1 DEF MovedUp
    <2>2. CASE i # 0
      <3>1. ShownAt(i + 1, f, s, w, shown)
        BY <1>4, <2>2, LaterShown
      <3> QED BY <3>1 DEF MovedUp
    <2> QED BY <2>1, <2>2
  <1>5. ASSUME NEW f \in Frames, NEW s \in BallSlots, NEW k \in Nat,
               ShownAt(k, f, s, w, shown), w.balls[f] = s
        PROVE  \E i \in Nat : ShownAt(i, f, s, v, shown2)
    <2>1. CASE k = 0
      <3>1. ~Reports(w.out[1], f)
        BY <1>1, <1>5, SlotFacts DEF GonesIn
      <3> QED BY <1>3, <1>5, <2>1, <3>1
    <2>2. CASE k > 1
      <3>1. k - 1 \in Nat /\ k - 1 # 0 /\ (k - 1) + 1 = k
        BY <2>2
      <3>2. ShownAt(k - 1, f, s, v, shown2) <=> ShownAt((k - 1) + 1, f, s, w, shown)
        BY <3>1, LaterShown
      <3> QED BY <1>5, <3>1, <3>2
    <2> QED BY <1>2, <1>5, <2>1, <2>2
  <1>6. PageFollows(v, shown2)
    BY <1>4, <1>5, PageReads
  <1> QED BY <1>6 DEF shown2

(* A report of the spawned is read: they are shown in their slots.         *)
LEMMA SpawnedRead ==
  ASSUME NEW w \in Worlds, w.out # <<>>, w.out[1].t = "spawned", NEW shown \in ShownSlots,
         PageFollows(w, shown), NEW shown2 \in ShownSlots,
         \A f \in Frames : (\A item \in w.out[1].items : item.frame # f) => shown2[f] = shown[f],
         \A item \in w.out[1].items : shown2[item.frame] = item.slot,
         NEW v, v.balls = w.balls, v.pending = w.pending, v.out = Tail(w.out)
  PROVE  PageFollows(v, shown2)
  <1>1. /\ 1 \in 1..Len(w.out) /\ Len(w.out) \in Nat /\ w.out[1].items \in SUBSET Items
        /\ \A f : ~Reports(w.out[1], f)
    BY FirstOut, PageMsgForms
  <1>2. \A f \in Frames, s \in BallSlots :
          ShownAt(1, f, s, w, shown) <=> [frame |-> f, slot |-> s] \in w.out[1].items
    BY <1>1 DEF ShownAt
  <1>3. \A f, s : (ShownAt(0, f, s, w, shown) <=> shown[f] = s)
                    /\ (ShownAt(0, f, s, v, shown2) <=> shown2[f] = s)
    <2>1. Len(v.out) \in Nat
      BY FirstOut
    <2> QED BY <1>1, <2>1 DEF ShownAt
  <1>4. \A item \in w.out[1].items : /\ item.frame \in Frames /\ item.slot \in BallSlots
                                     /\ item = [frame |-> item.frame, slot |-> item.slot]
    BY <1>1 DEF Items
  <1>5. ASSUME NEW f \in Frames, NEW s \in BallSlots, shown2[f] = s
        PROVE  ShownAt(0, f, s, w, shown) \/ ShownAt(1, f, s, w, shown)
    <2>1. CASE \A item \in w.out[1].items : item.frame # f
      BY <1>3, <1>5, <2>1
    <2>2. ASSUME NEW item \in w.out[1].items, item.frame = f PROVE ShownAt(1, f, s, w, shown)
      BY <1>2, <1>4, <1>5, <2>2
    <2> QED BY <2>1, <2>2
  <1>6. ASSUME NEW f \in Frames, NEW s \in BallSlots, NEW k \in {0, 1}, ShownAt(k, f, s, w, shown)
        PROVE  shown2[f] = s
    <2>1. CASE k = 1
      BY <1>2, <1>6, <2>1
    <2>2. CASE k = 0
      <3>1. ASSUME NEW item \in w.out[1].items, item.frame = f PROVE FALSE
        <4>1. ShownAt(1, f, item.slot, w, shown) /\ item.slot \in BallSlots
          BY <1>2, <1>4, <3>1
        <4>2. 0 = 1
          BY <1>6, <2>2, <4>1 DEF PageFollows, ShownOnce
        <4> QED BY <4>2
      <3> QED BY <1>3, <1>6, <2>2, <3>1
    <2> QED BY <2>1, <2>2
  <1>7. ASSUME NEW f \in Frames, NEW s \in BallSlots, NEW i \in Nat, ShownAt(i, f, s, v, shown2)
        PROVE  \E k \in Nat : MovedUp(i, k, f, w.out) /\ ShownAt(k, f, s, w, shown)
    <2>1. CASE i = 0
      <3>1. ShownAt(0, f, s, w, shown) \/ ShownAt(1, f, s, w, shown)
        BY <1>3, <1>5, <1>7, <2>1
      <3>2. MovedUp(i, 0, f, w.out) /\ MovedUp(i, 1, f, w.out)
        BY <1>1, <2>1 DEF MovedUp
      <3> QED BY <3>1, <3>2
    <2>2. CASE i # 0
      <3>1. ShownAt(i + 1, f, s, w, shown)
        BY <1>7, <2>2, LaterShown
      <3> QED BY <3>1 DEF MovedUp
    <2> QED BY <2>1, <2>2
  <1>8. ASSUME NEW f \in Frames, NEW s \in BallSlots, NEW k \in Nat, ShownAt(k, f, s, w, shown)
        PROVE  \E i \in Nat : ShownAt(i, f, s, v, shown2)
    <2>1. CASE k \in {0, 1}
      BY <1>3, <1>6, <1>8, <2>1
    <2>2. CASE k > 1
      <3>1. k - 1 \in Nat /\ k - 1 # 0 /\ (k - 1) + 1 = k
        BY <2>2
      <3> QED BY <1>8, <3>1, LaterShown
    <2> QED BY <2>1, <2>2
  <1> QED BY <1>1, <1>7, <1>8, PageReads

(* Reading a report of the gone keeps the invariant.                       *)
LEMMA GoneReadKeeps ==
  ASSUME BallInv, MainReceive, Head(toMain).t = "gone", OnGone(Head(toMain))
  PROVE  BallInv'
  <1> DEFINE msg == toMain[1]
  <1>1. /\ Worker \in Worlds /\ Worker.out = toMain /\ Worker.out # <<>> /\ Head(toMain) = msg
        /\ toMain' = Tail(toMain) /\ toMain' \in Seq(PageMsgs)
        /\ frameSlot \in ShownSlots /\ active = {frameSlot[f] : f \in Frames} \ {NoSlot}
        /\ issued \subseteq Frames /\ InStep(Queue, Worker, issued, built, frameSlot)
    <2>1. /\ Worker \in Worlds /\ Worker.out = toMain /\ Worker.out # <<>>
          /\ toMain' = Tail(toMain)
      BY DEF BallInv, MainReceive, Worker
    <2>2. Head(toMain) = msg /\ Tail(toMain) \in Seq(PageMsgs)
      BY <2>1, FirstOut
    <2> QED BY <2>1, <2>2 DEF BallInv
  <1>2. UNCHANGED <<built, toWorker, workerVars>> /\ created
    BY DEF MainReceive, BallInv
  <1>3. /\ Queue' = Queue
        /\ Worker'.balls = Worker.balls /\ Worker'.body = Worker.body /\ Worker'.free = Worker.free
        /\ Worker'.sinks = Worker.sinks /\ Worker'.pending = Worker.pending
        /\ Worker'.out = Tail(Worker.out)
        /\ Worker' \in Worlds
    BY <1>1, <1>2 DEF Queue, Worker, workerVars, Worlds
  <1>4. /\ frameSlot' = [f \in Frames |-> IF Reports(msg, f) THEN NoSlot ELSE frameSlot[f]]
        /\ active' = active \ {frameSlot[f] : f \in Told(msg)}
        /\ issued' = issued \ Told(msg) /\ Told(msg) = {f \in Frames : Reports(msg, f)}
    BY <1>1 DEF OnGone, Told
  <1>5. /\ Tidy(Worker) /\ \A f \in Frames : InOneStage(f, Queue, Worker, issued)
        /\ \A c \in Places : SinkFollows(c, Queue, Worker, built)
        /\ PageFollows(Worker, frameSlot)
    BY <1>1 DEF InStep
  <1>6. PageFollows(Worker', frameSlot')
    <2>1. \A f \in Frames : Worker.balls[f] # NoSlot => GonesIn(Worker.out, f) = {}
      BY <1>5 DEF InOneStage
    <2> DEFINE v == Worker'
    <2>2. v.balls = Worker.balls /\ v.pending = Worker.pending /\ v.out = Tail(Worker.out)
      BY <1>3
    <2> HIDE DEF v
    <2>3. Worker.out[1].t = "gone" /\ msg = Worker.out[1]
      BY <1>1
    <2>4. PageFollows(v, [f \in Frames |-> IF Reports(Worker.out[1], f) THEN NoSlot ELSE frameSlot[f]])
      BY <1>1, <1>5, <2>1, <2>2, <2>3, GoneRead
    <2> QED BY <1>4, <2>3, <2>4 DEF v
  <1>7. ASSUME NEW f \in Frames PROVE InOneStage(f, Queue', Worker', issued')
    <2>1. InOneStage(f, Queue, Worker, issued)
      BY <1>5
    <2>2. /\ AtMostOne(GonesIn(Tail(toMain), f))
          /\ GonesIn(Tail(toMain), f) # {} => GonesIn(toMain, f) # {}
          /\ Reports(msg, f) => GonesIn(Tail(toMain), f) = {} /\ GonesIn(toMain, f) # {}
          /\ ~Reports(msg, f) /\ GonesIn(toMain, f) # {} => GonesIn(Tail(toMain), f) # {}
      <3>1. toMain \in Seq(PageMsgs) /\ toMain # <<>> /\ AtMostOne(GonesIn(toMain, f))
        BY <1>1, <2>1 DEF Worlds, InOneStage
      <3> QED BY <1>1, <3>1, GonesTail
    <2>3. f \in issued' => f \in issued /\ ~Reports(msg, f)
      BY <1>4
    <2>4. Worker'.out = Tail(toMain) /\ Worker.out = toMain
      BY <1>1, <1>3
    <2> HIDE DEF msg
    <2> QED BY <1>3, <2>1, <2>2, <2>3, <2>4 DEF InOneStage
  <1>8. active' = {frameSlot'[f] : f \in Frames} \ {NoSlot}
    <2>1. ASSUME NEW f \in Frames, frameSlot[f] # NoSlot, ~Reports(msg, f),
                 NEW g \in Frames, Reports(msg, g)
          PROVE  frameSlot[f] # frameSlot[g]
      <3> SUFFICES ASSUME frameSlot[f] = frameSlot[g] PROVE FALSE
        OBVIOUS
      <3>1. frameSlot[f] \in BallSlots
        BY <1>1, <2>1 DEF ShownSlots
      <3>2. ShownAt(0, f, frameSlot[f], Worker, frameSlot) /\ ShownAt(0, g, frameSlot[f], Worker, frameSlot)
        BY DEF ShownAt
      <3>3. f = g
        BY <1>5, <3>1, <3>2, OneBallShown
      <3> QED BY <2>1, <3>3
    <2>2. \A f \in Frames : frameSlot'[f] = IF Reports(msg, f) THEN NoSlot ELSE frameSlot[f]
      BY <1>4
    <2> HIDE DEF msg
    <2> QED BY <1>1, <1>4, <2>1, <2>2
  <1>9. Tidy(Worker') /\ \A c \in Places : SinkFollows(c, Queue', Worker', built)
    BY <1>3, <1>5 DEF Tidy, SinkFollows
  <1>10. frameSlot' \in ShownSlots
    BY <1>1, <1>4 DEF ShownSlots
  <1>11. /\ built' = built /\ early' = early /\ toWorker' = toWorker /\ created' = created
         /\ aged' = aged /\ free' = free
    BY <1>2 DEF workerVars
  <1>12. InStep(Queue', Worker', issued', built', frameSlot')
    BY <1>6, <1>7, <1>9, <1>11 DEF InStep
  <1>13. issued' \subseteq Frames
    BY <1>1, <1>4
  <1> QED BY <1>2, <1>3, <1>8, <1>10, <1>11, <1>12, <1>13 DEF BallInv

(* Reading a report of the spawned keeps the invariant.                    *)
LEMMA SpawnedReadKeeps ==
  ASSUME BallInv, MainReceive, Head(toMain).t = "spawned", OnSpawned(Head(toMain))
  PROVE  BallInv'
  <1> DEFINE msg == toMain[1]  S == msg.items
  <1>1. /\ Worker \in Worlds /\ Worker.out = toMain /\ Worker.out # <<>> /\ Head(toMain) = msg
        /\ msg.t = "spawned" /\ toMain \in Seq(PageMsgs) /\ toMain # <<>>
        /\ toMain' = Tail(toMain) /\ toMain' \in Seq(PageMsgs)
        /\ frameSlot \in ShownSlots /\ active = {frameSlot[f] : f \in Frames} \ {NoSlot}
        /\ issued \subseteq Frames /\ InStep(Queue, Worker, issued, built, frameSlot)
    <2>1. /\ Worker \in Worlds /\ Worker.out = toMain /\ Worker.out # <<>>
          /\ toMain' = Tail(toMain)
      BY DEF BallInv, MainReceive, Worker
    <2>2. Head(toMain) = msg /\ Tail(toMain) \in Seq(PageMsgs)
      BY <2>1, FirstOut
    <2>3. toMain \in Seq(PageMsgs)
      BY <2>1 DEF Worlds
    <2> QED BY <2>1, <2>2, <2>3 DEF BallInv
  <1>2. UNCHANGED <<built, toWorker, workerVars>> /\ created
    BY DEF MainReceive, BallInv
  <1>3. /\ Queue' = Queue
        /\ Worker'.balls = Worker.balls /\ Worker'.body = Worker.body /\ Worker'.free = Worker.free
        /\ Worker'.sinks = Worker.sinks /\ Worker'.pending = Worker.pending
        /\ Worker'.out = Tail(Worker.out)
        /\ Worker' \in Worlds
    BY <1>1, <1>2 DEF Queue, Worker, workerVars, Worlds
  <1>4. /\ S \in SUBSET Items /\ \A f : ~Reports(msg, f)
        /\ \A item \in S : /\ item.frame \in Frames /\ item.slot \in BallSlots
                           /\ item = [frame |-> item.frame, slot |-> item.slot]
        /\ \A f \in Frames, s \in BallSlots :
             ShownAt(1, f, s, Worker, frameSlot) <=> [frame |-> f, slot |-> s] \in S
    <2>1. /\ msg \in PageMsgs /\ 1 \in 1..Len(Worker.out) /\ Len(Worker.out) \in Nat
      BY <1>1, FirstOut
    <2>2. S \in SUBSET Items /\ \A f : ~Reports(msg, f)
      BY <1>1, <2>1, PageMsgForms
    <2>3. \A f \in Frames, s \in BallSlots :
            ShownAt(1, f, s, Worker, frameSlot) <=> [frame |-> f, slot |-> s] \in S
      BY <1>1, <2>1 DEF ShownAt
    <2> QED BY <2>2, <2>3 DEF Items
  <1>5. /\ Tidy(Worker) /\ \A f \in Frames : InOneStage(f, Queue, Worker, issued)
        /\ \A c \in Places : SinkFollows(c, Queue, Worker, built)
        /\ PageFollows(Worker, frameSlot)
    BY <1>1 DEF InStep
  <1>6. /\ frameSlot' = [f \in Frames |-> IF \E item \in S : item.frame = f
                            THEN (CHOOSE item \in S : item.frame = f).slot ELSE frameSlot[f]]
        /\ active' = active \cup {item.slot : item \in S} /\ issued' = issued
    BY <1>1 DEF OnSpawned
  <1> HIDE DEF S, msg
  <1>7. ASSUME NEW item \in S PROVE frameSlot'[item.frame] = item.slot
    <2> DEFINE f == item.frame  it == CHOOSE x \in S : x.frame = f
    <2>1. it \in S /\ it.frame = f /\ f \in Frames
      BY <1>4
    <2>2. frameSlot'[f] = it.slot
      BY <1>6, <2>1
    <2> HIDE DEF it
    <2>3. ShownAt(1, f, it.slot, Worker, frameSlot) /\ ShownAt(1, f, item.slot, Worker, frameSlot)
      BY <1>4, <2>1
    <2>4. it.slot = item.slot
      BY <1>4, <1>5, <2>1, <2>3 DEF PageFollows, ShownOnce
    <2> QED BY <2>2, <2>4
  <1>8. \A f \in Frames : (\A item \in S : item.frame # f) => frameSlot'[f] = frameSlot[f]
    BY <1>6
  <1>9. frameSlot' \in ShownSlots
    <2>1. ASSUME NEW f \in Frames PROVE frameSlot'[f] \in BallSlots \cup {NoSlot}
      <3>1. CASE \A item \in S : item.frame # f
        BY <1>1, <1>8, <3>1 DEF ShownSlots
      <3>2. CASE \E item \in S : item.frame = f
        BY <1>4, <1>7, <3>2
      <3> QED BY <3>1, <3>2
    <2>2. frameSlot' = [f \in Frames |-> frameSlot'[f]]
      BY <1>6
    <2> QED BY <2>1, <2>2 DEF ShownSlots
  <1>10. PageFollows(Worker', frameSlot')
    <2> DEFINE v == Worker'  shown2 == frameSlot'
    <2>1. v.balls = Worker.balls /\ v.pending = Worker.pending /\ v.out = Tail(Worker.out)
      BY <1>3
    <2>2. /\ shown2 \in ShownSlots /\ \A item \in S : shown2[item.frame] = item.slot
          /\ \A f \in Frames : (\A item \in S : item.frame # f) => shown2[f] = frameSlot[f]
      BY <1>7, <1>8, <1>9
    <2> HIDE DEF v, shown2
    <2>3. Worker.out[1].t = "spawned" /\ S = Worker.out[1].items
      BY <1>1 DEF S, msg
    <2>4. PageFollows(v, shown2)
      BY <1>1, <1>5, <2>1, <2>2, <2>3, SpawnedRead
    <2> QED BY <2>4 DEF v, shown2
  <1>11. ASSUME NEW f \in Frames PROVE InOneStage(f, Queue', Worker', issued')
    <2>1. InOneStage(f, Queue, Worker, issued)
      BY <1>5
    <2>2. AtMostOne(GonesIn(Tail(toMain), f)) /\ (GonesIn(Tail(toMain), f) # {} <=> GonesIn(toMain, f) # {})
      BY <1>1, <1>4, <2>1, GonesTail DEF InOneStage
    <2>3. Worker'.out = Tail(toMain) /\ Worker.out = toMain
      BY <1>1, <1>3
    <2> QED BY <1>3, <1>6, <2>1, <2>2, <2>3 DEF InOneStage
  <1>12. active' = {frameSlot'[f] : f \in Frames} \ {NoSlot}
    <2>1. ASSUME NEW item \in S PROVE frameSlot[item.frame] = NoSlot
      <3> SUFFICES ASSUME frameSlot[item.frame] # NoSlot PROVE FALSE
        OBVIOUS
      <3>1. item.frame \in Frames /\ item.slot \in BallSlots /\ frameSlot[item.frame] \in BallSlots
        BY <1>1, <1>4 DEF ShownSlots
      <3>2. ShownAt(1, item.frame, item.slot, Worker, frameSlot)
        BY <1>4, <3>1
      <3>3. ShownAt(0, item.frame, frameSlot[item.frame], Worker, frameSlot)
        BY DEF ShownAt
      <3>4. 0 = 1
        BY <1>5, <3>1, <3>2, <3>3 DEF PageFollows, ShownOnce
      <3> QED BY <3>4
    <2>2. ASSUME NEW s \in active' PROVE s \in {frameSlot'[f] : f \in Frames} \ {NoSlot}
      <3>1. CASE s \in active
        <4>1. PICK f \in Frames : s = frameSlot[f] /\ s # NoSlot
          BY <1>1, <3>1
        <4>2. \A item \in S : item.frame # f
          BY <2>1, <4>1
        <4> QED BY <1>8, <4>1, <4>2
      <3>2. ASSUME NEW item \in S, s = item.slot
            PROVE  s \in {frameSlot'[f] : f \in Frames} \ {NoSlot}
        BY <1>4, <1>7, <3>2, SlotFacts
      <3> QED BY <1>6, <2>2, <3>1, <3>2
    <2>3. ASSUME NEW f \in Frames, frameSlot'[f] # NoSlot PROVE frameSlot'[f] \in active'
      <3>1. CASE \A item \in S : item.frame # f
        BY <1>1, <1>6, <1>8, <2>3, <3>1
      <3>2. CASE \E item \in S : item.frame = f
        BY <1>6, <1>7, <3>2
      <3> QED BY <3>1, <3>2
    <2> QED BY <2>2, <2>3
  <1>13. Tidy(Worker') /\ \A c \in Places : SinkFollows(c, Queue', Worker', built)
    BY <1>3, <1>5 DEF Tidy, SinkFollows
  <1>14. /\ built' = built /\ early' = early /\ toWorker' = toWorker /\ created' = created
         /\ aged' = aged /\ free' = free
    BY <1>2 DEF workerVars
  <1>15. InStep(Queue', Worker', issued', built', frameSlot')
    BY <1>10, <1>11, <1>13, <1>14 DEF InStep
  <1> QED BY <1>1, <1>2, <1>3, <1>6, <1>9, <1>12, <1>14, <1>15 DEF BallInv

(* The page reads the first report, whichever it is.                       *)
LEMMA MainReceiveKeeps ==
  ASSUME BallInv, MainReceive
  PROVE  BallInv'
  BY GoneReadKeeps, SpawnedReadKeeps DEF MainReceive

-----------------------------------------------------------------------------
(* A step of the world: what was spawned is told, then what is gone.       *)
Flushed(w) ==
  IF w.pending = {} THEN w
  ELSE [w EXCEPT !.out = Append(@, SpawnedMsg(w.pending)), !.pending = {}]

(* A report of all balls that are new since the last one.                  *)
LEMMA FlushedSound ==
  ASSUME NEW q, NEW w \in Worlds, NEW waiting, NEW plan, NEW shown,
         InStep(q, w, waiting, plan, shown)
  PROVE  /\ Flushed(w) \in Worlds /\ InStep(q, Flushed(w), waiting, plan, shown)
         /\ Flushed(w).pending = {} /\ Flushed(w).sinks = w.sinks /\ Flushed(w).balls = w.balls
         /\ Flushed(w).body = w.body /\ Flushed(w).free = w.free
         /\ Flushed(w).out = IF w.pending = {} THEN w.out ELSE Append(w.out, SpawnedMsg(w.pending))
  <1>1. CASE w.pending = {}
    BY <1>1 DEF Flushed
  <1>2. CASE w.pending # {}
    <2> DEFINE msg == SpawnedMsg(w.pending)  m == Append(w.out, msg)  n == Len(w.out)
               v == [w EXCEPT !.out = m, !.pending = {}]
    <2>1. /\ w.sinks \in [Places -> SinkPorts \cup {NoSink}] /\ w.balls \in ShownSlots
          /\ w.body \in [BallSlots -> Frames \cup {NoFrame}] /\ w.free \in SUBSET BallSlots
          /\ w.pending \in SUBSET Items /\ w.out \in Seq(PageMsgs)
      BY DEF Worlds
    <2>2. /\ msg \in PageMsgs /\ msg.t = "spawned" /\ msg.items = w.pending
          /\ \A f : ~Reports(msg, f)
      BY <2>1, SpawnedMsgFacts
    <2>3. Flushed(w) = v
      BY <1>2 DEF Flushed
    <2>4. /\ m \in Seq(PageMsgs) /\ n \in Nat /\ Len(m) = n + 1 /\ m[n + 1] = msg
          /\ \A i \in 1..n : m[i] = w.out[i]
      <3> HIDE DEF msg
      <3> QED BY <2>1, <2>2, AppendFacts
    <2>5. ASSUME NEW f \in Frames PROVE GonesIn(m, f) = GonesIn(w.out, f)
      <3>1. ~Reports(msg, f)
        BY <2>2
      <3> HIDE DEF msg
      <3>2. GonesIn(Append(w.out, msg), f) =
              GonesIn(w.out, f) \cup (IF Reports(msg, f) THEN {Len(w.out) + 1} ELSE {})
        BY <2>1, <2>2, GonesAppend
      <3> QED BY <3>1, <3>2
    <2>6. m = Append(w.out, SpawnedMsg(w.pending))
      OBVIOUS
    <2> HIDE DEF m
    <2>7. /\ v \in Worlds /\ v.pending = {} /\ v.sinks = w.sinks /\ v.balls = w.balls
          /\ v.body = w.body /\ v.free = w.free /\ v.out = m
      BY <2>1, <2>4 DEF Worlds
    <2> HIDE DEF v, msg
    <2>8. \A f \in Frames, s \in BallSlots, i \in Nat :
            ShownAt(i, f, s, v, shown) <=> ShownAt(i, f, s, w, shown)
      <3> SUFFICES ASSUME NEW f \in Frames, NEW s \in BallSlots, NEW i \in Nat
                   PROVE  ShownAt(i, f, s, v, shown) <=> ShownAt(i, f, s, w, shown)
        OBVIOUS
      <3>1. CASE i = n + 1
        <4>1. i # 0 /\ i \in 1..Len(m) /\ i # Len(m) + 1 /\ i \notin 1..n
          BY <2>4, <3>1
        <4>2. ShownAt(i, f, s, v, shown) <=> [frame |-> f, slot |-> s] \in w.pending
          BY <2>2, <2>4, <2>7, <3>1, <4>1 DEF ShownAt
        <4>3. ShownAt(i, f, s, w, shown) <=> [frame |-> f, slot |-> s] \in w.pending
          BY <3>1, <4>1 DEF ShownAt, n
        <4> QED BY <4>2, <4>3
      <3>2. CASE i # n + 1
        <4>1. i \in 1..Len(m) <=> i \in 1..n
          BY <2>4, <3>2
        <4>2. ShownAt(i, f, s, v, shown) <=>
                \/ i = 0 /\ shown[f] = s
                \/ i \in 1..n /\ m[i].t = "spawned" /\ [frame |-> f, slot |-> s] \in m[i].items
          BY <2>7, <4>1 DEF ShownAt
        <4>3. ShownAt(i, f, s, w, shown) <=>
                \/ i = 0 /\ shown[f] = s
                \/ /\ i \in 1..n /\ w.out[i].t = "spawned"
                   /\ [frame |-> f, slot |-> s] \in w.out[i].items
          BY <3>2 DEF ShownAt, n
        <4> QED BY <2>4, <4>2, <4>3
      <3> QED BY <3>1, <3>2
    <2>9. \A f \in Frames, i \in Nat : GoneAfter(i, f, v) <=> GoneAfter(i, f, w)
      <3>1. \A j \in 1..Len(m) : j \in 1..n \/ j = n + 1
        BY <2>4
      <3>2. \A j \in 1..n : j \in 1..Len(m)
        BY <2>4
      <3> QED BY <2>2, <2>4, <2>7, <3>1, <3>2 DEF GoneAfter, n
    <2>10. PageFollows(w, shown)
      BY DEF InStep
    <2>11. TakesTurns(v, shown)
      <3> SUFFICES ASSUME NEW f \in Frames, NEW g \in Frames, NEW s \in BallSlots,
                          NEW i \in Nat, NEW k \in Nat, f # g, i <= k,
                          ShownAt(i, f, s, v, shown), ShownAt(k, g, s, v, shown)
                   PROVE  \E j \in 1..Len(v.out) : i < j /\ j < k /\ Reports(v.out[j], f)
        BY DEF TakesTurns
      <3>1. PICK j \in 1..n : i < j /\ j < k /\ Reports(w.out[j], f)
        BY <2>8, <2>10 DEF PageFollows, TakesTurns, n
      <3>2. j \in 1..Len(v.out) /\ v.out[j] = w.out[j]
        BY <2>4, <2>7
      <3> QED BY <3>1, <3>2
    <2>12. PageFollows(v, shown)
      <3>1. ShownOrGone(v, shown)
        BY <2>7, <2>8, <2>9, <2>10 DEF PageFollows, ShownOrGone
      <3>2. AllShown(v, shown)
        BY <2>7, <2>8, <2>10 DEF PageFollows, AllShown
      <3>3. ShownOnce(v, shown)
        BY <2>8, <2>10 DEF PageFollows, ShownOnce
      <3> QED BY <2>11, <3>1, <3>2, <3>3 DEF PageFollows
    <2>13. ASSUME NEW f \in Frames PROVE InOneStage(f, q, v, waiting)
      BY <2>5, <2>7 DEF InStep, InOneStage
    <2>14. Tidy(v) /\ \A c \in Places : SinkFollows(c, q, v, plan)
      BY <2>7 DEF InStep, Tidy, SinkFollows
    <2>15. InStep(q, v, waiting, plan, shown)
      BY <2>12, <2>13, <2>14 DEF InStep
    <2> QED BY <1>2, <2>3, <2>6, <2>7, <2>15
  <1> QED BY <1>1, <1>2

(* The balls of dead go, and one message tells so.                         *)
Died(w, dead, msg) ==
  [sinks |-> w.sinks, balls |-> [f \in Frames |-> IF f \in dead THEN NoSlot ELSE w.balls[f]],
   body |-> [s \in BallSlots |-> IF s \in {w.balls[f] : f \in dead} THEN NoFrame ELSE w.body[s]],
   free |-> w.free \cup {w.balls[f] : f \in dead},
   pending |-> {}, out |-> Append(w.out, msg)]

(* A report of the balls that fell into a sink or got old.                 *)
LEMMA DiedSound ==
  ASSUME NEW q, NEW w \in Worlds, NEW waiting, NEW plan, NEW shown,
         InStep(q, w, waiting, plan, shown), w.pending = {},
         NEW dead \in SUBSET Frames, \A f \in dead : w.balls[f] # NoSlot,
         NEW msg \in PageMsgs, msg.t = "gone", \A f \in Frames : Reports(msg, f) <=> f \in dead
  PROVE  InStep(q, Died(w, dead, msg), waiting, plan, shown)
  <1> DEFINE n == Len(w.out)  v == Died(w, dead, msg)
  <1> SUFFICES InStep(q, v, waiting, plan, shown)
    OBVIOUS
  <1>0. /\ v.sinks = w.sinks /\ v.pending = {} /\ v.out = Append(w.out, msg)
        /\ \A f \in Frames : v.balls[f] = IF f \in dead THEN NoSlot ELSE w.balls[f]
        /\ \A s \in BallSlots :
             v.body[s] = IF \E f \in dead : w.balls[f] = s THEN NoFrame ELSE w.body[s]
        /\ \A s : s \in v.free <=> s \in w.free \/ \E f \in dead : w.balls[f] = s
    BY DEF Died
  <1> HIDE DEF v
  <1>1. /\ w.balls \in ShownSlots /\ w.body \in [BallSlots -> Frames \cup {NoFrame}]
        /\ w.free \in SUBSET BallSlots /\ w.out \in Seq(PageMsgs)
    BY DEF Worlds
  <1>2. /\ n \in Nat /\ Len(v.out) = n + 1 /\ v.out[n + 1] = msg
        /\ \A i \in 1..n : v.out[i] = w.out[i]
    BY <1>0, <1>1, AppendFacts
  <1>3. /\ Tidy(w) /\ \A f \in Frames : InOneStage(f, q, w, waiting)
        /\ \A c \in Places : SinkFollows(c, q, w, plan)
        /\ PageFollows(w, shown)
    BY DEF InStep
  <1> HIDE DEF n
  <1>4. \A f \in Frames, s \in BallSlots, i \in Nat :
          ShownAt(i, f, s, v, shown) <=> ShownAt(i, f, s, w, shown) /\ i <= n
    <2> SUFFICES ASSUME NEW f \in Frames, NEW s \in BallSlots, NEW i \in Nat
                 PROVE  ShownAt(i, f, s, v, shown) <=> ShownAt(i, f, s, w, shown) /\ i <= n
      OBVIOUS
    <2>1. ShownAt(i, f, s, w, shown) <=>
            \/ i = 0 /\ shown[f] = s
            \/ /\ i \in 1..n /\ w.out[i].t = "spawned"
               /\ [frame |-> f, slot |-> s] \in w.out[i].items
      BY DEF ShownAt, n
    <2>2. ShownAt(i, f, s, v, shown) <=>
            \/ i = 0 /\ shown[f] = s
            \/ /\ i \in 1..(n + 1) /\ v.out[i].t = "spawned"
               /\ [frame |-> f, slot |-> s] \in v.out[i].items
      BY <1>0, <1>2 DEF ShownAt
    <2>3. i \in 1..(n + 1) <=> i \in 1..n \/ i = n + 1
      BY <1>2
    <2>4. v.out[n + 1].t # "spawned"
      BY <1>2
    <2>5. i \in 1..n => v.out[i] = w.out[i]
      BY <1>2
    <2>6. i \in 1..n \/ i = 0 => i <= n
      BY <1>2
    <2> QED BY <2>1, <2>2, <2>3, <2>4, <2>5, <2>6
  <1>5. \A j \in 1..n : j \in 1..Len(v.out) /\ v.out[j] = w.out[j]
    BY <1>2
  <1>6. \A f \in Frames : v.balls[f] = IF f \in dead THEN NoSlot ELSE w.balls[f]
    BY <1>0
  <1>7. ShownOrGone(v, shown)
    <2> SUFFICES ASSUME NEW f \in Frames, NEW s \in BallSlots, NEW i \in Nat,
                        ShownAt(i, f, s, v, shown)
                 PROVE  v.balls[f] = s \/ GoneAfter(i, f, v)
      BY DEF ShownOrGone
    <2>1. w.balls[f] = s \/ GoneAfter(i, f, w)
      BY <1>3, <1>4 DEF PageFollows, ShownOrGone
    <2>2. CASE f \in dead
      <3>1. n + 1 \in 1..Len(v.out) /\ n + 1 > i /\ Reports(v.out[n + 1], f)
        BY <1>2, <1>4, <2>2
      <3> QED BY <3>1 DEF GoneAfter
    <2>3. CASE f \notin dead
      <3>1. GoneAfter(i, f, w) => GoneAfter(i, f, v)
        BY <1>5 DEF GoneAfter, n
      <3> QED BY <1>6, <2>1, <2>3, <3>1
    <2> QED BY <2>2, <2>3
  <1>8. AllShown(v, shown)
    <2> SUFFICES ASSUME NEW f \in Frames, NEW s \in BallSlots, v.balls[f] = s
                 PROVE  \E i \in Nat : ShownAt(i, f, s, v, shown)
      BY DEF AllShown
    <2>1. w.balls[f] = s
      BY <1>6, SlotFacts
    <2>2. PICK i \in Nat : ShownAt(i, f, s, w, shown)
      BY <1>3, <2>1 DEF PageFollows, AllShown
    <2>3. i <= n
      <3>1. i = 0 \/ i \in 1..n
        BY <2>2 DEF ShownAt, n
      <3> QED BY <1>2, <3>1
    <2> QED BY <1>4, <2>2, <2>3
  <1>9. ShownOnce(v, shown)
    BY <1>3, <1>4 DEF PageFollows, ShownOnce
  <1>10. TakesTurns(v, shown)
    <2> SUFFICES ASSUME NEW f \in Frames, NEW g \in Frames, NEW s \in BallSlots,
                        NEW i \in Nat, NEW k \in Nat, f # g, i <= k,
                        ShownAt(i, f, s, v, shown), ShownAt(k, g, s, v, shown)
                 PROVE  \E j \in 1..Len(v.out) : i < j /\ j < k /\ Reports(v.out[j], f)
      BY DEF TakesTurns
    <2>1. PICK j \in 1..n : i < j /\ j < k /\ Reports(w.out[j], f)
      BY <1>3, <1>4 DEF PageFollows, TakesTurns, n
    <2> QED BY <1>5, <2>1
  <1>11. ASSUME NEW f \in Frames PROVE InOneStage(f, q, v, waiting)
    <2>1. InOneStage(f, q, w, waiting)
      BY <1>3
    <2>2. GonesIn(v.out, f) = GonesIn(w.out, f) \cup (IF f \in dead THEN {n + 1} ELSE {})
      BY <1>0, <1>1, GonesAppend DEF n
    <2>3. CASE f \in dead
      <3>1. w.balls[f] # NoSlot /\ v.balls[f] = NoSlot
        BY <1>6, <2>3
      <3>2. SpawnsIn(q, f) = {} /\ GonesIn(w.out, f) = {}
        BY <2>1, <3>1 DEF InOneStage
      <3> QED BY <2>1, <2>2, <2>3, <3>1, <3>2 DEF InOneStage, AtMostOne
    <2>4. CASE f \notin dead
      <3>1. GonesIn(v.out, f) = GonesIn(w.out, f) /\ v.balls[f] = w.balls[f]
        BY <1>6, <2>2, <2>4
      <3> QED BY <2>1, <3>1 DEF InOneStage
    <2> QED BY <2>3, <2>4
  <1>12. Tidy(v)
    <2>1. ASSUME NEW f \in Frames, v.balls[f] # NoSlot PROVE v.body[v.balls[f]] = f
      <3>1. f \notin dead /\ v.balls[f] = w.balls[f] /\ w.balls[f] \in BallSlots
        BY <1>1, <1>6, <2>1 DEF ShownSlots
      <3>2. w.body[w.balls[f]] = f
        BY <1>3, <2>1, <3>1 DEF Tidy
      <3>3. \A g \in dead : w.balls[g] # w.balls[f]
        BY <1>3, <3>1, <3>2 DEF Tidy
      <3> QED BY <1>0, <3>1, <3>2, <3>3
    <2>2. ASSUME NEW s \in BallSlots, v.body[s] # NoFrame PROVE v.balls[v.body[s]] = s
      <3>1. v.body[s] = w.body[s] /\ w.body[s] # NoFrame /\ \A g \in dead : w.balls[g] # s
        BY <1>0, <2>2
      <3>2. w.balls[w.body[s]] = s /\ w.body[s] \in Frames
        BY <1>1, <1>3, <3>1 DEF Tidy
      <3> QED BY <1>6, <3>1, <3>2
    <2>3. v.free = {s \in BallSlots : v.body[s] = NoFrame}
      <3>1. \A g \in dead : w.balls[g] \in BallSlots
        BY <1>1 DEF ShownSlots
      <3>2. w.free = {s \in BallSlots : w.body[s] = NoFrame}
        BY <1>3 DEF Tidy
      <3> QED BY <1>0, <3>1, <3>2
    <2> QED BY <2>1, <2>2, <2>3 DEF Tidy
  <1>13. \A c \in Places : SinkFollows(c, q, v, plan)
    BY <1>0, <1>3 DEF SinkFollows
  <1> QED BY <1>7, <1>8, <1>9, <1>10, <1>11, <1>12, <1>13 DEF InStep, PageFollows

(* A report at the end of what the worker has said.                        *)
LEMMA ReportOut ==
  ASSUME NEW m \in Seq(PageMsgs), NEW x \in PageMsgs, NEW y \in PageMsgs
  PROVE  /\ m \o (<<>> \o <<>>) = m
         /\ m \o (<<x>> \o <<>>) = Append(m, x)
         /\ m \o (<<>> \o <<y>>) = Append(m, y)
         /\ m \o (<<x>> \o <<y>>) = Append(Append(m, x), y)
  <1>1. m \o (<<>> \o <<>>) = m
    OBVIOUS
  <1>2. m \o (<<x>> \o <<>>) = Append(m, x)
    OBVIOUS
  <1>3. m \o (<<>> \o <<y>>) = Append(m, y)
    OBVIOUS
  <1>4. m \o (<<x>> \o <<y>>) = Append(Append(m, x), y)
    OBVIOUS
  <1> QED BY <1>1, <1>2, <1>3, <1>4

(* A step of the world, with the reports it sends.                         *)
LEMMA StepKeeps ==
  ASSUME BallInv, Step
  PROVE  BallInv'
  <1> DEFINE w == Flushed(Worker)
  <1>1. /\ Worker \in Worlds /\ early \in Seq(WorkerMsgs) /\ created /\ early = <<>>
        /\ aged \subseteq BallSlots \ free
        /\ InStep(Queue, Worker, issued, built, frameSlot)
        /\ UNCHANGED <<issued, built, toWorker, created, early, sinks, clientVars>>
    BY DEF BallInv, Step
  <1>2. /\ w \in Worlds /\ InStep(Queue, w, issued, built, frameSlot)
        /\ w.pending = {} /\ w.sinks = sinks /\ w.balls = balls /\ w.body = body /\ w.free = free
        /\ w.out = IF pending = {} THEN toMain ELSE Append(toMain, SpawnedMsg(pending))
    <2>1. /\ Worker.sinks = sinks /\ Worker.balls = balls /\ Worker.body = body
          /\ Worker.free = free /\ Worker.pending = pending /\ Worker.out = toMain
      BY DEF Worker
    <2> DEFINE u == Worker
    <2>2. u \in Worlds /\ InStep(Queue, u, issued, built, frameSlot)
      BY <1>1
    <2> HIDE DEF u
    <2>3. /\ Flushed(u) \in Worlds /\ InStep(Queue, Flushed(u), issued, built, frameSlot)
          /\ Flushed(u).pending = {} /\ Flushed(u).sinks = u.sinks /\ Flushed(u).balls = u.balls
          /\ Flushed(u).body = u.body /\ Flushed(u).free = u.free
          /\ Flushed(u).out = IF u.pending = {} THEN u.out ELSE Append(u.out, SpawnedMsg(u.pending))
      BY <2>2, FlushedSound
    <2> QED BY <2>1, <2>3 DEF u
  <1>3. /\ balls \in ShownSlots /\ body \in [BallSlots -> Frames \cup {NoFrame}]
        /\ free \in SUBSET BallSlots /\ pending \in SUBSET Items /\ toMain \in Seq(PageMsgs)
        /\ sinks \in [Places -> SinkPorts \cup {NoSink}] /\ w.out \in Seq(PageMsgs)
    BY <1>1, <1>2 DEF Worlds, Worker
  <1>4. Tidy(w)
    BY <1>2 DEF InStep
  <1> HIDE DEF w
  <1>5. PICK T \in SUBSET {s \in BallSlots : body[s] # NoFrame} :
          \E delivered \in SUBSET Contacts(T) : \E out \in SUBSET Rolling :
            LET dropped == out \cup {f \in Rolling : balls[f] \in aged}
                dead    == Despawned(delivered, dropped)
                emptied == {balls[f] : f \in dead} IN
            /\ balls' = [f \in Frames |-> IF f \in dead THEN NoSlot ELSE balls[f]]
            /\ body' = [s \in BallSlots |-> IF s \in emptied THEN NoFrame ELSE body[s]]
            /\ free' = free \cup emptied /\ aged' = aged \ emptied
            /\ toMain' = toMain \o Report(delivered, dropped)
            /\ pending' = {}
    BY DEF Step
  <1>6. PICK delivered \in SUBSET Contacts(T) : \E out \in SUBSET Rolling :
            LET dropped == out \cup {f \in Rolling : balls[f] \in aged}
                dead    == Despawned(delivered, dropped)
                emptied == {balls[f] : f \in dead} IN
            /\ balls' = [f \in Frames |-> IF f \in dead THEN NoSlot ELSE balls[f]]
            /\ body' = [s \in BallSlots |-> IF s \in emptied THEN NoFrame ELSE body[s]]
            /\ free' = free \cup emptied /\ aged' = aged \ emptied
            /\ toMain' = toMain \o Report(delivered, dropped)
            /\ pending' = {}
    BY <1>5
  <1>7. PICK out \in SUBSET Rolling :
            LET dropped == out \cup {f \in Rolling : balls[f] \in aged}
                dead    == Despawned(delivered, dropped)
                emptied == {balls[f] : f \in dead} IN
            /\ balls' = [f \in Frames |-> IF f \in dead THEN NoSlot ELSE balls[f]]
            /\ body' = [s \in BallSlots |-> IF s \in emptied THEN NoFrame ELSE body[s]]
            /\ free' = free \cup emptied /\ aged' = aged \ emptied
            /\ toMain' = toMain \o Report(delivered, dropped)
            /\ pending' = {}
    BY <1>6
  <1> DEFINE dropped == out \cup {f \in Rolling : balls[f] \in aged}
             dead    == Despawned(delivered, dropped)
             emptied == {balls[f] : f \in dead}
             msg     == GoneMsg(delivered, dropped)
  <1>8. /\ balls' = [f \in Frames |-> IF f \in dead THEN NoSlot ELSE balls[f]]
        /\ body' = [s \in BallSlots |-> IF s \in emptied THEN NoFrame ELSE body[s]]
        /\ free' = free \cup emptied /\ aged' = aged \ emptied
        /\ toMain' = toMain \o Report(delivered, dropped)
        /\ pending' = {}
    BY <1>7
  <1>9. \A d \in delivered : \E f \in Rolling, p \in SinkPorts : d = <<f, p>>
    <2>1. \A s \in T : body[s] \in Rolling
      BY <1>2, <1>3, <1>4, SlotFacts DEF Tidy, Rolling
    <2>2. InReach \subseteq SinkPorts
      BY <1>3 DEF InReach
    <2> QED BY <2>1, <2>2 DEF Contacts
  <1>10. /\ dropped \in SUBSET Rolling /\ Rolling \subseteq Frames /\ dead \in SUBSET Rolling
         /\ delivered \in SUBSET (Frames \X SinkPorts)
         /\ delivered \cup dropped = {} => dead = {}
         /\ \A f \in Frames : (f \in dropped \/ \E p \in SinkPorts : <<f, p>> \in delivered) <=> f \in dead
    <2>1. dropped \in SUBSET Rolling /\ Rolling \subseteq Frames
      BY DEF Rolling
    <2> HIDE DEF dropped
    <2>2. delivered \in SUBSET (Frames \X SinkPorts)
      BY <1>9, <2>1
    <2>3. \A f : f \in dead <=> f \in dropped \/ (f \in Rolling /\ \E p \in SinkPorts : <<f, p>> \in delivered)
      BY DEF Despawned
    <2>4. \A f \in Frames, p \in SinkPorts : <<f, p>> \in delivered => f \in Rolling
      BY <1>9
    <2> HIDE DEF dead
    <2>5. dead \in SUBSET Rolling
      BY <2>1, <2>3
    <2>6. delivered \cup dropped = {} => dead = {}
      BY <2>3
    <2> QED BY <2>1, <2>2, <2>3, <2>4, <2>5, <2>6
  <1> HIDE DEF dropped, dead
  <1>11. msg \in PageMsgs /\ msg.t = "gone" /\ \A f \in Frames : Reports(msg, f) <=> f \in dead
    <2>1. dropped \in SUBSET Frames
      BY <1>10
    <2>2. /\ msg \in PageMsgs /\ msg.t = "gone"
          /\ \A f : Reports(msg, f) <=> (f \in dropped \/ \E p \in SinkPorts : <<f, p>> \in delivered)
      BY <1>10, <2>1, GoneMsgFacts
    <2> HIDE DEF msg
    <2> QED BY <1>10, <2>2
  <1>12. toMain' = IF delivered \cup dropped = {} THEN w.out ELSE Append(w.out, msg)
    <2> DEFINE x == SpawnedMsg(pending)
    <2>1. x \in PageMsgs
      BY <1>3, SpawnedMsgFacts
    <2>2. Report(delivered, dropped) = (IF pending = {} THEN <<>> ELSE <<x>>)
                                         \o (IF delivered \cup dropped = {} THEN <<>> ELSE <<msg>>)
      BY DEF Report
    <2>3. w.out = IF pending = {} THEN toMain ELSE Append(toMain, x)
      BY <1>2
    <2> HIDE DEF x, msg
    <2>4. /\ toMain \o (<<>> \o <<>>) = toMain
          /\ toMain \o (<<x>> \o <<>>) = Append(toMain, x)
          /\ toMain \o (<<>> \o <<msg>>) = Append(toMain, msg)
          /\ toMain \o (<<x>> \o <<msg>>) = Append(Append(toMain, x), msg)
      BY <1>3, <1>11, <2>1, ReportOut
    <2>5. CASE pending = {} /\ delivered \cup dropped = {}
      BY <1>8, <2>2, <2>3, <2>4, <2>5
    <2>6. CASE pending # {} /\ delivered \cup dropped = {}
      BY <1>8, <2>2, <2>3, <2>4, <2>6
    <2>7. CASE pending = {} /\ delivered \cup dropped # {}
      BY <1>8, <2>2, <2>3, <2>4, <2>7
    <2>8. CASE pending # {} /\ delivered \cup dropped # {}
      BY <1>8, <2>2, <2>3, <2>4, <2>8
    <2> QED BY <2>5, <2>6, <2>7, <2>8
  <1> HIDE DEF msg
  <1>13. /\ Worker'.sinks = w.sinks /\ Worker'.balls = balls' /\ Worker'.body = body'
         /\ Worker'.free = free' /\ Worker'.pending = {} /\ Worker'.out = toMain'
         /\ Worker' = [sinks |-> sinks', balls |-> balls', body |-> body', free |-> free',
                       pending |-> pending', out |-> toMain'] /\ sinks' = sinks
    BY <1>1, <1>2, <1>8 DEF Worker
  <1>14. /\ \A f \in dead : balls[f] \in BallSlots
         /\ emptied \subseteq BallSlots
    BY <1>3, <1>10 DEF Rolling, ShownSlots
  <1>15. InStep(Queue, Worker', issued, built, frameSlot)
    <2> DEFINE v == Worker'
    <2>1. CASE delivered \cup dropped = {}
      <3>1. dead = {}
        BY <1>10, <2>1
      <3>2. /\ v.balls = w.balls /\ v.body = w.body /\ v.free = w.free
            /\ v.out = w.out /\ v.sinks = w.sinks /\ v.pending = w.pending
        <4>1. balls' = balls
          BY <1>3, <1>8, <3>1 DEF ShownSlots
        <4>2. body' = body /\ free' = free
          BY <1>3, <1>8, <3>1
        <4> QED BY <1>2, <1>12, <1>13, <2>1, <4>1, <4>2
      <3> HIDE DEF v
      <3>3. /\ Tidy(w) /\ \A f \in Frames : InOneStage(f, Queue, w, issued)
            /\ \A c \in Places : SinkFollows(c, Queue, w, built) /\ PageFollows(w, frameSlot)
        BY <1>2 DEF InStep
      <3>4. Tidy(v) /\ PageFollows(v, frameSlot)
        BY <1>2, <3>2, PageSame DEF Tidy, InStep
      <3>5. ASSUME NEW f \in Frames PROVE InOneStage(f, Queue, v, issued)
        BY <3>2, <3>3 DEF InOneStage
      <3>6. ASSUME NEW c \in Places PROVE SinkFollows(c, Queue, v, built)
        BY <3>2, <3>3 DEF SinkFollows
      <3>7. InStep(Queue, v, issued, built, frameSlot)
        BY <3>4, <3>5, <3>6 DEF InStep
      <3> QED BY <3>7 DEF v
    <2>2. CASE delivered \cup dropped # {}
      <3>1. Worker' = Died(w, dead, msg)
        <4> DEFINE b == [f \in Frames |-> IF f \in dead THEN NoSlot ELSE w.balls[f]]
                   gone == {w.balls[f] : f \in dead}
                   d == [s \in BallSlots |-> IF s \in gone THEN NoFrame ELSE w.body[s]]
        <4>1. gone = emptied
          BY <1>2
        <4>2. balls' = b
          BY <1>2, <1>8
        <4>3. body' = d
          <5> HIDE DEF emptied, gone
          <5> QED BY <1>2, <1>8, <4>1
        <4>4. free' = w.free \cup gone
          BY <1>2, <1>8, <4>1
        <4>5. Died(w, dead, msg) = [sinks |-> w.sinks, balls |-> b, body |-> d,
                free |-> w.free \cup gone, pending |-> {}, out |-> Append(w.out, msg)]
          BY DEF Died
        <4> HIDE DEF b, d, gone
        <4> QED BY <1>8, <1>12, <1>13, <2>2, <4>2, <4>3, <4>4, <4>5
      <3>2. dead \in SUBSET Frames /\ \A f \in dead : w.balls[f] # NoSlot
        BY <1>2, <1>10 DEF Rolling
      <3> HIDE DEF v
      <3>3. InStep(Queue, Died(w, dead, msg), issued, built, frameSlot)
        BY <1>2, <1>11, <3>2, DiedSound
      <3> QED BY <3>1, <3>3
    <2> QED BY <2>1, <2>2
  <1>16. Worker' \in Worlds
    <2>1. toMain' \in Seq(PageMsgs)
      BY <1>3, <1>11, <1>12
    <2>2. balls' \in ShownSlots
      BY <1>3, <1>8 DEF ShownSlots
    <2>3. body' \in [BallSlots -> Frames \cup {NoFrame}] /\ free' \in SUBSET BallSlots
      BY <1>3, <1>8, <1>14
    <2> QED BY <1>3, <1>8, <1>13, <2>1, <2>2, <2>3 DEF Worlds
  <1>17. aged' \subseteq BallSlots \ free'
    BY <1>1, <1>8
  <1>18. /\ issued' = issued /\ built' = built /\ toWorker' = toWorker /\ created' = created
         /\ early' = early /\ frameSlot' = frameSlot /\ active' = active /\ Queue' = Queue
    BY <1>1 DEF clientVars, Queue
  <1> QED BY <1>1, <1>15, <1>16, <1>17, <1>18 DEF BallInv

(* A ball grows old.                                                       *)
LEMMA GrowOldKeeps ==
  ASSUME BallInv, NEW s \in BallSlots, GrowOld(s)
  PROVE  BallInv'
  <1>1. /\ body[s] # NoFrame /\ aged' = aged \cup {s} /\ aged \subseteq BallSlots \ free
        /\ free = {t \in BallSlots : body[t] = NoFrame}
    BY DEF GrowOld, BallInv, InStep, Tidy, Worker
  <1>2. /\ Queue' = Queue /\ Worker' = Worker /\ free' = free /\ created' = created
        /\ UNCHANGED <<issued, built, toWorker, toMain, early, clientVars>>
    BY DEF GrowOld, Queue, Worker
  <1>3. created
    BY <1>1 DEF BallInv
  <1> QED BY <1>1, <1>2, <1>3 DEF BallInv, clientVars

(* At the start there is nothing to disagree about.                        *)
LEMMA BallInitially ==
  ASSUME BallPitInit
  PROVE  BallInv
  <1>1. /\ issued = {} /\ built = [c \in Places |-> NoSink] /\ toWorker = <<>> /\ toMain = <<>>
        /\ created = FALSE /\ early = <<>> /\ sinks = built
        /\ balls = [f \in Frames |-> NoSlot] /\ body = [s \in BallSlots |-> NoFrame]
        /\ free = BallSlots /\ aged = {} /\ pending = {} /\ frameSlot = balls /\ active = {}
    BY DEF BallPitInit
  <1>2. Queue = <<>> /\ Queue \in Seq(WorkerMsgs) /\ early \in Seq(WorkerMsgs)
    BY <1>1 DEF Queue
  <1>3. Worker \in Worlds /\ frameSlot \in ShownSlots
    BY <1>1 DEF Worker, Worlds, ShownSlots
  <1>4. /\ Worker.balls = balls /\ Worker.body = body /\ Worker.free = BallSlots
        /\ Worker.sinks = built /\ Worker.out = <<>> /\ Worker.pending = {}
    BY <1>1 DEF Worker
  <1>5. Tidy(Worker)
    BY <1>1, <1>4 DEF Tidy
  <1>6. ASSUME NEW f \in Frames PROVE InOneStage(f, Queue, Worker, issued)
    BY <1>1, <1>2, <1>4 DEF InOneStage, SpawnsIn, GonesIn, AtMostOne
  <1>7. ASSUME NEW c \in Places PROVE SinkFollows(c, Queue, Worker, built)
    BY <1>2, <1>4 DEF SinkFollows
  <1>8. \A f \in Frames, s \in BallSlots, i \in Nat : ~ShownAt(i, f, s, Worker, frameSlot)
    BY <1>1, <1>4, SlotFacts DEF ShownAt
  <1>9. PageFollows(Worker, frameSlot)
    BY <1>1, <1>4, <1>8, SlotFacts DEF PageFollows, ShownOrGone, AllShown, ShownOnce, TakesTurns
  <1>10. InStep(Queue, Worker, issued, built, frameSlot)
    BY <1>5, <1>6, <1>7, <1>9 DEF InStep
  <1>11. built \in [Places -> SinkPorts \cup {NoSink}] /\ active = {frameSlot[f] : f \in Frames} \ {NoSlot}
    BY <1>1
  <1> QED BY <1>1, <1>2, <1>3, <1>10, <1>11 DEF BallInv

(* Every step of either thread keeps the invariant.                        *)
LEMMA BallStepKeeps ==
  ASSUME BallInv, [BallPitNext]_ballPitVars
  PROVE  BallInv'
  <1>1. CASE UNCHANGED ballPitVars
    <2>1. /\ Queue' = Queue /\ Worker' = Worker /\ free' = free /\ created' = created
          /\ aged' = aged /\ UNCHANGED <<issued, built, toWorker, toMain, early, clientVars>>
      BY <1>1 DEF ballPitVars, workerVars, Queue, Worker
    <2> QED BY <2>1 DEF BallInv, clientVars
  <1>2. CASE BallPitNext
    <2>1. CASE WorkerStep
      BY <2>1, WorkerReceiveKeeps, CreateKeeps, StepKeeps DEF WorkerStep
    <2> QED BY <1>2, <2>1, OnTokenKeeps, LoftRestartKeeps, PlayerStepKeeps, MainReceiveKeeps,
               GrowOldKeeps DEF BallPitNext
  <1> QED BY <1>1, <1>2

-----------------------------------------------------------------------------
(* What it says of the properties. *)
LEMMA CountOne ==
  ASSUME NEW S, AtMostOne(S)
  PROVE  Cardinality(S) = IF S = {} THEN 0 ELSE 1
  <1>1. CASE S = {}
    BY <1>1, FS_EmptySet
  <1>2. CASE S # {}
    <2>1. PICK x : S = {x}
      BY <1>2 DEF AtMostOne
    <2> QED BY <2>1, FS_Singleton
  <1> QED BY <1>1, <1>2

(* A frame is in one place: what InOneStage says, counted.                 *)
LEMMA FrameInOnePlaceHolds == BallInv => FrameInOnePlace
  <1> SUFFICES ASSUME BallInv, NEW f \in Frames
               PROVE  LET places == Cardinality(SpawnsOf(f))
                                      + Cardinality({s \in BallSlots : body[s] = f})
                                      + Cardinality(GonesOf(f)) IN
                      IF f \in issued THEN places = 1 ELSE places <= 1
    BY DEF FrameInOnePlace
  <1> DEFINE B == {s \in BallSlots : body[s] = f}
  <1>1. /\ InOneStage(f, Queue, Worker, issued) /\ Tidy(Worker) /\ Worker.balls = balls
        /\ Worker.body = body /\ SpawnsOf(f) = SpawnsIn(Queue, f) /\ GonesOf(f) = GonesIn(Worker.out, f)
        /\ balls \in ShownSlots
    BY QueueSpawns, GonesOfIn DEF BallInv, InStep, Worker, Worlds
  <1>2. AtMostOne(B) /\ (B # {} <=> balls[f] # NoSlot)
    <2>1. \A s \in B : balls[f] = s
      BY <1>1, BallPitAssumption DEF Tidy
    <2>2. balls[f] # NoSlot => balls[f] \in B
      BY <1>1 DEF Tidy, ShownSlots
    <2> QED BY <2>1, <2>2, SlotFacts DEF AtMostOne
  <1>3. /\ Cardinality(SpawnsOf(f)) = IF SpawnsOf(f) = {} THEN 0 ELSE 1
        /\ Cardinality(GonesOf(f)) = IF GonesOf(f) = {} THEN 0 ELSE 1
        /\ Cardinality(B) = IF B = {} THEN 0 ELSE 1
    BY <1>1, <1>2, CountOne DEF InOneStage
  <1>4. /\ SpawnsOf(f) # {} => B = {} /\ GonesOf(f) = {}
        /\ B # {} => GonesOf(f) = {}
        /\ f \in issued => SpawnsOf(f) # {} \/ B # {} \/ GonesOf(f) # {}
    BY <1>1, <1>2 DEF InOneStage
  <1> HIDE DEF B
  <1>5. LET places == Cardinality(SpawnsOf(f)) + Cardinality(B) + Cardinality(GonesOf(f)) IN
        IF f \in issued THEN places = 1 ELSE places <= 1
    BY <1>3, <1>4
  <1> QED BY <1>5 DEF B

(* The threads agree once nothing is on its way.                           *)
LEMMA ThreadsAgreeHolds == BallInv => ThreadsAgree
  <1> SUFFICES ASSUME BallInv, toWorker = <<>>, toMain = <<>>, created
               PROVE  /\ sinks = built
                      /\ pending = {} => (active = BallSlots \ free /\ frameSlot = balls)
    BY DEF ThreadsAgree
  <1>1. /\ Tidy(Worker) /\ PageFollows(Worker, frameSlot)
        /\ \A c \in Places : SinkFollows(c, Queue, Worker, built)
        /\ balls \in ShownSlots /\ body \in [BallSlots -> Frames \cup {NoFrame}]
        /\ free \subseteq BallSlots /\ frameSlot \in ShownSlots
        /\ active = {frameSlot[f] : f \in Frames} \ {NoSlot}
        /\ sinks \in [Places -> SinkPorts \cup {NoSink}] /\ built \in [Places -> SinkPorts \cup {NoSink}]
    BY DEF BallInv, InStep, Worker, Worlds
  <1>2. Worker.balls = balls /\ Worker.body = body /\ Worker.free = free /\ Worker.sinks = sinks
        /\ Worker.pending = pending /\ Worker.out = <<>> /\ Queue = <<>>
    BY DEF Worker, Queue, BallInv
  <1>3. sinks = built
    <2>1. \A c \in Places : sinks[c] = built[c]
      BY <1>1, <1>2 DEF SinkFollows
    <2> QED BY <1>1, <2>1
  <1>4. ASSUME pending = {} PROVE active = BallSlots \ free /\ frameSlot = balls
    <2>1. \A f \in Frames, s \in BallSlots, i \in Nat :
            ShownAt(i, f, s, Worker, frameSlot) => i = 0 /\ frameSlot[f] = s
      BY <1>2, <1>4 DEF ShownAt
    <2>2. \A f \in Frames, s \in BallSlots : frameSlot[f] = s <=> balls[f] = s
      <3> SUFFICES ASSUME NEW f \in Frames, NEW s \in BallSlots
                   PROVE  frameSlot[f] = s <=> balls[f] = s
        OBVIOUS
      <3>1. ASSUME frameSlot[f] = s PROVE balls[f] = s
        <4>1. ShownAt(0, f, s, Worker, frameSlot)
          BY <3>1 DEF ShownAt
        <4>2. Worker.balls[f] = s \/ GoneAfter(0, f, Worker)
          BY <1>1, <4>1 DEF PageFollows, ShownOrGone
        <4> QED BY <1>2, <4>2 DEF GoneAfter
      <3>2. ASSUME balls[f] = s PROVE frameSlot[f] = s
        BY <1>1, <1>2, <2>1, <3>2 DEF PageFollows, AllShown
      <3> QED BY <3>1, <3>2
    <2>3. \A f \in Frames : frameSlot[f] = balls[f]
      BY <1>1, <2>2 DEF ShownSlots
    <2>4. frameSlot = balls
      BY <1>1, <2>3 DEF ShownSlots
    <2>5. ASSUME NEW s \in BallSlots PROVE s \notin free <=> \E f \in Frames : balls[f] = s
      BY <1>1, <1>2, SlotFacts, BallPitAssumption DEF Tidy
    <2>6. active \subseteq BallSlots
      BY <1>1 DEF ShownSlots
    <2> QED BY <1>1, <2>4, <2>5, <2>6, SlotFacts
  <1> QED BY <1>3, <1>4

(* The variables have their types.                                         *)
LEMMA BallTypeHolds == BallInv => BallPitTypeOK
  <1> SUFFICES ASSUME BallInv PROVE BallPitTypeOK
    OBVIOUS
  <1>1. /\ balls \in ShownSlots /\ body \in [BallSlots -> Frames \cup {NoFrame}]
        /\ free \subseteq BallSlots /\ sinks \in [Places -> SinkPorts \cup {NoSink}]
    BY DEF BallInv, Worker, Worlds
  <1>2. active \subseteq BallSlots
    BY DEF BallInv, ShownSlots
  <1> QED BY <1>1, <1>2 DEF BallInv, BallPitTypeOK, ShownSlots

-----------------------------------------------------------------------------
(* Two sequences, one after the other, as sets.                            *)
LEMMA ConcatSet ==
  ASSUME NEW E, NEW q \in Seq(E), NEW r \in Seq(E)
  PROVE  /\ q \o r \in Seq(E) /\ ToSet(q \o r) = ToSet(q) \cup ToSet(r)
         /\ Len(q \o r) = Len(q) + Len(r) /\ Len(q) \in Nat /\ Len(r) \in Nat
         /\ IsInjective(q) /\ IsInjective(r) /\ ToSet(q) \cap ToSet(r) = {} => IsInjective(q \o r)
  <1> DEFINE m == Len(q)  n == Len(r)  u == q \o r
  <1>1. /\ m \in Nat /\ n \in Nat /\ u \in Seq(E) /\ Len(u) = m + n
        /\ DOMAIN q = 1..m /\ DOMAIN r = 1..n /\ DOMAIN u = 1..(m + n)
        /\ \A i \in 1..m : u[i] = q[i]
        /\ \A i \in 1..n : u[m + i] = r[i]
    <2>1. m \in Nat /\ n \in Nat /\ u \in Seq(E) /\ Len(u) = m + n
      OBVIOUS
    <2>2. DOMAIN q = 1..m /\ DOMAIN r = 1..n /\ DOMAIN u = 1..(m + n)
      OBVIOUS
    <2>3. (\A i \in 1..m : u[i] = q[i])
      OBVIOUS
    <2>4. (\A i \in 1..n : u[m + i] = r[i])
      OBVIOUS
    <2> QED BY <2>1, <2>2, <2>3, <2>4
  <1> HIDE DEF m, n, u
  <1>2. \A i \in 1..(m + n) : i \in 1..m \/ (i - m \in 1..n /\ u[i] = r[i - m])
    <2> SUFFICES ASSUME NEW i \in 1..(m + n), i \notin 1..m
                 PROVE  i - m \in 1..n /\ u[i] = r[i - m]
      OBVIOUS
    <2>1. i - m \in 1..n /\ m + (i - m) = i
      BY <1>1
    <2> QED BY <1>1, <2>1
  <1>3. ToSet(u) = ToSet(q) \cup ToSet(r)
    <2>1. ASSUME NEW i \in 1..(m + n) PROVE u[i] \in ToSet(q) \cup ToSet(r)
      BY <1>1, <1>2 DEF ToSet
    <2>2. ASSUME NEW i \in 1..m PROVE q[i] \in ToSet(u)
      <3>1. i \in 1..(m + n)
        BY <1>1
      <3> QED BY <1>1, <3>1 DEF ToSet
    <2>3. ASSUME NEW i \in 1..n PROVE r[i] \in ToSet(u)
      <3>1. m + i \in 1..(m + n)
        BY <1>1
      <3> QED BY <1>1, <3>1 DEF ToSet
    <2>4. ToSet(u) \subseteq ToSet(q) \cup ToSet(r)
      BY <1>1, <2>1 DEF ToSet
    <2>5. ToSet(q) \subseteq ToSet(u) /\ ToSet(r) \subseteq ToSet(u)
      BY <1>1, <2>2, <2>3 DEF ToSet
    <2> QED BY <2>4, <2>5
  <1>4. ASSUME IsInjective(q), IsInjective(r), ToSet(q) \cap ToSet(r) = {}
        PROVE  IsInjective(u)
    <2> SUFFICES ASSUME NEW i \in 1..(m + n), NEW j \in 1..(m + n), u[i] = u[j]
                 PROVE  i = j
      BY <1>1 DEF IsInjective
    <2>1. ASSUME NEW a \in 1..m, NEW b \in 1..n PROVE q[a] # r[b]
      BY <1>1, <1>4 DEF ToSet
    <2>2. CASE i \in 1..m /\ j \in 1..m
      BY <1>1, <1>4, <2>2 DEF IsInjective
    <2>3. CASE i \notin 1..m /\ j \notin 1..m
      <3> DEFINE x == i - m  y == j - m
      <3>1. x \in 1..n /\ y \in 1..n /\ r[x] = r[y]
        BY <1>2, <2>3
      <3>2. x = y
        <4> HIDE DEF x, y
        <4> QED BY <1>1, <1>4, <3>1 DEF IsInjective
      <3> QED BY <1>1, <3>2
    <2>4. CASE i \in 1..m /\ j \notin 1..m
      BY <1>1, <1>2, <2>1, <2>4
    <2>5. CASE i \notin 1..m /\ j \in 1..m
      BY <1>1, <1>2, <2>1, <2>5
    <2> QED BY <2>2, <2>3, <2>4, <2>5
  <1> QED BY <1>1, <1>3, <1>4 DEF m, n, u

(* A sequence cut at k: the two parts.                                     *)
LEMMA CutFacts ==
  ASSUME NEW E, NEW q \in Seq(E), NEW k \in 0..Len(q)
  PROVE  LET a == SubSeq(q, 1, k)  b == SubSeq(q, k + 1, Len(q)) IN
         /\ a \in Seq(E) /\ b \in Seq(E) /\ Len(a) = k /\ Len(b) = Len(q) - k
         /\ \A i \in 1..k : a[i] = q[i]
         /\ \A i \in 1..(Len(q) - k) : b[i] = q[k + i]
         /\ ToSet(a) \cup ToSet(b) = ToSet(q)
         /\ IsInjective(q) => IsInjective(a) /\ IsInjective(b) /\ ToSet(a) \cap ToSet(b) = {}
  <1> DEFINE n == Len(q)  a == SubSeq(q, 1, k)  b == SubSeq(q, k + 1, n)
  <1>1. n \in Nat /\ k \in 0..n /\ DOMAIN q = 1..n
    OBVIOUS
  <1>2. /\ a \in Seq(E) /\ Len(a) = k /\ DOMAIN a = 1..k /\ \A i \in 1..k : a[i] = q[i]
    <2>1. a \in Seq(E) /\ Len(a) = k
      OBVIOUS
    <2>2. DOMAIN a = 1..k
      BY <2>1
    <2>3. \A i \in 1..k : a[i] = q[i]
      OBVIOUS
    <2> QED BY <2>1, <2>2, <2>3
  <1>3. /\ b \in Seq(E) /\ Len(b) = n - k /\ DOMAIN b = 1..(n - k)
        /\ \A i \in 1..(n - k) : b[i] = q[k + i]
    <2>1. b \in Seq(E) /\ Len(b) = n - k
      OBVIOUS
    <2>2. DOMAIN b = 1..(n - k)
      BY <2>1
    <2>3. \A i \in 1..(n - k) : b[i] = q[k + i]
      OBVIOUS
    <2> QED BY <2>1, <2>2, <2>3
  <1> HIDE DEF a, b, n
  <1>4. \A i \in 1..k : i \in 1..n
    BY <1>1
  <1>5. \A i \in 1..(n - k) : k + i \in 1..n /\ k + i \notin 1..k
    BY <1>1
  <1>6. \A i \in 1..n : i \in 1..k \/ (i - k \in 1..(n - k) /\ k + (i - k) = i)
    BY <1>1
  <1>7. ToSet(a) \cup ToSet(b) = ToSet(q)
    <2>1. ToSet(a) \subseteq ToSet(q)
      BY <1>1, <1>2, <1>4 DEF ToSet
    <2>2. ToSet(b) \subseteq ToSet(q)
      BY <1>1, <1>3, <1>5 DEF ToSet
    <2>3. ASSUME NEW i \in 1..n PROVE q[i] \in ToSet(a) \cup ToSet(b)
      <3>1. CASE i \in 1..k
        <4>1. q[i] = a[i]
          BY <1>2, <3>1
        <4> QED BY <1>2, <3>1, <4>1 DEF ToSet
      <3>2. CASE i \notin 1..k
        <4> DEFINE j == i - k
        <4>1. j \in 1..(n - k) /\ q[i] = b[j]
          BY <1>3, <1>6, <3>2
        <4> QED BY <1>3, <4>1 DEF ToSet
      <3> QED BY <3>1, <3>2
    <2> QED BY <1>1, <2>1, <2>2, <2>3 DEF ToSet
  <1>8. ASSUME IsInjective(q) PROVE IsInjective(a) /\ IsInjective(b) /\ ToSet(a) \cap ToSet(b) = {}
    <2>1. IsInjective(a)
      BY <1>1, <1>2, <1>4, <1>8 DEF IsInjective
    <2>2. IsInjective(b)
      <3> SUFFICES ASSUME NEW i \in 1..(n - k), NEW j \in 1..(n - k), b[i] = b[j] PROVE i = j
        BY <1>3 DEF IsInjective
      <3>1. k + i = k + j
        BY <1>1, <1>3, <1>5, <1>8 DEF IsInjective
      <3> QED BY <1>1, <3>1
    <2>3. ASSUME NEW i \in 1..k, NEW j \in 1..(n - k) PROVE a[i] # b[j]
      <3>1. q[i] # q[k + j]
        BY <1>1, <1>4, <1>5, <1>8 DEF IsInjective
      <3> QED BY <1>2, <1>3, <3>1
    <2> QED BY <1>2, <1>3, <2>1, <2>2, <2>3 DEF ToSet
  <1> QED BY <1>2, <1>3, <1>7, <1>8 DEF a, b, n

-----------------------------------------------------------------------------
(***************************************************************************)
(* Fluid: every packet the loft waits for is in one place, every slot in   *)
(* the map or free, and what the GPU was told of is still the page's.      *)
(***************************************************************************)
SlotEntries == [slot : Parts, packet : Packets]
RingEntries == [slot : Parts, port : Outlets \cup {Suction}]

SlotsIn(q)     == {e.slot : e \in ToSet(q)}
PacketsIn(q)   == {e.packet : e \in ToSet(q)}
PacketIn(q, s) == (CHOOSE e \in ToSet(q) : e.slot = s).packet

(* A map: an entry for a slot, and for a packet.                           *)
Matched(q) ==
  /\ q \in Seq(SlotEntries) /\ IsInjective(q)
  /\ \A d, e \in ToSet(q) : (d.slot = e.slot \/ d.packet = e.packet) => d = e

Delivered(t) == {e[1] : e \in t}

FluidTypes ==
  /\ awaited \subseteq Packets /\ expired \subseteq awaited /\ sunk \subseteq awaited
  /\ freeSlots \in Seq(Parts) /\ poured \in Seq(Parts)
  /\ alive \subseteq Parts /\ ring \in Seq(RingEntries) /\ Len(ring) <= Ring
  /\ counted \in Nat /\ counted <= Len(ring)
  /\ hopper \in Seq(Packets) /\ Len(hopper) <= HopperCap
  /\ taken \subseteq Packets \X Outlets /\ mixed \in BOOLEAN

(* What a packet is kept in.                                               *)
KeptOnce ==
  /\ Matched(slots) /\ IsInjective(hopper)
  /\ \A d, e \in taken : d[1] = e[1] => d = e
  /\ reader # "resetting" => taken = {}
  /\ PacketsIn(slots) \cap ToSet(hopper) = {}
  /\ PacketsIn(slots) \cap Delivered(taken) = {}
  /\ ToSet(hopper) \cap Delivered(taken) = {}
  /\ awaited = PacketsIn(slots) \cup ToSet(hopper) \cup Delivered(taken)

FreeRest == IsInjective(freeSlots) /\ ToSet(freeSlots) = Parts \ SlotsIn(slots)

(* A particle is waiting to be born, alive, or in the ring, and its packet *)
(* has not gone.                                                           *)
OnGpu ==
  /\ IsInjective(poured) /\ ToSet(poured) \subseteq SlotsIn(slots) /\ alive \subseteq SlotsIn(slots)
  /\ alive \cap ToSet(poured) = {}
  /\ \A e \in ToSet(ring) : /\ e.slot \in SlotsIn(slots) \ (alive \cup ToSet(poured))
                            /\ e.port \in Outlets => PacketIn(slots, e.slot) \in sunk
  /\ \A e \in taken : e[1] \in sunk

FluidInv == FluidTypes /\ KeptOnce /\ FreeRest /\ (~mixed => OnGpu)


(* The packet of an entry's slot.                                          *)
LEMMA PacketFacts ==
  ASSUME NEW q, Matched(q)
  PROVE  /\ \A e \in ToSet(q) : e \in SlotEntries /\ PacketIn(q, e.slot) = e.packet
         /\ SlotsIn(q) \subseteq Parts /\ PacketsIn(q) \subseteq Packets
         /\ \A s \in SlotsIn(q) : PacketIn(q, s) \in PacketsIn(q)
         /\ \A s, t \in SlotsIn(q) : PacketIn(q, s) = PacketIn(q, t) => s = t
  <1>1. \A e \in ToSet(q) : e \in SlotEntries
    BY DEF Matched, ToSet
  <1>2. ASSUME NEW e \in ToSet(q) PROVE PacketIn(q, e.slot) = e.packet
    <2> DEFINE d == CHOOSE d \in ToSet(q) : d.slot = e.slot
    <2>1. d \in ToSet(q) /\ d.slot = e.slot
      OBVIOUS
    <2>2. PacketIn(q, e.slot) = d.packet
      BY DEF PacketIn
    <2> HIDE DEF d
    <2> QED BY <2>1, <2>2 DEF Matched
  <1>3. SlotsIn(q) \subseteq Parts /\ PacketsIn(q) \subseteq Packets
    BY <1>1 DEF SlotsIn, PacketsIn, SlotEntries
  <1>4. ASSUME NEW s \in SlotsIn(q)
        PROVE  \E e \in ToSet(q) : e.slot = s /\ PacketIn(q, s) = e.packet
    BY <1>2 DEF SlotsIn
  <1>5. \A s \in SlotsIn(q) : PacketIn(q, s) \in PacketsIn(q)
    BY <1>4 DEF PacketsIn
  <1>6. ASSUME NEW s \in SlotsIn(q), NEW t \in SlotsIn(q), PacketIn(q, s) = PacketIn(q, t)
        PROVE  s = t
    BY <1>4, <1>6 DEF Matched
  <1> QED BY <1>1, <1>2, <1>3, <1>5, <1>6

(* Entries of a map that stay: those of no slot of S.                      *)
Freed(q, S)     == Only(q, {e \in ToSet(q) : e.slot \notin S})
PacketsOf(q, S) == {PacketIn(q, s) : s \in S}

LEMMA FreedMap ==
  ASSUME NEW q, Matched(q), NEW S, S \subseteq SlotsIn(q), NEW r, r = Freed(q, S)
  PROVE  /\ Matched(r) /\ SlotsIn(r) = SlotsIn(q) \ S
         /\ PacketsIn(r) = PacketsIn(q) \ PacketsOf(q, S)
         /\ \A s \in SlotsIn(r) : PacketIn(r, s) = PacketIn(q, s)
         /\ \A s \in SlotsIn(r) : \A t \in S : PacketIn(r, s) # PacketIn(q, t)
  <1> DEFINE left == {e \in ToSet(q) : e.slot \notin S}
  <1>1. /\ r \in Seq(SlotEntries) /\ ToSet(r) = ToSet(q) \cap left
        /\ IsInjective(r)
    <2>1. q \in Seq(SlotEntries) /\ IsInjective(q)
      BY DEF Matched
    <2>2. r = Only(q, left)
      BY DEF Freed
    <2> HIDE DEF left
    <2>3. /\ Only(q, left) \in Seq(SlotEntries) /\ ToSet(Only(q, left)) = ToSet(q) \cap left
          /\ IsInjective(q) => IsInjective(Only(q, left))
      BY <2>1, OnlyFacts
    <2> QED BY <2>1, <2>2, <2>3
  <1>2. ToSet(r) = left
    BY <1>1
  <1>3. Matched(r)
    BY <1>1, <1>2 DEF Matched
  <1>4. SlotsIn(r) = SlotsIn(q) \ S
    BY <1>2 DEF SlotsIn
  <1>5. ASSUME NEW s \in SlotsIn(r) PROVE PacketIn(r, s) = PacketIn(q, s)
    <2>1. PICK e \in ToSet(r) : e.slot = s
      BY DEF SlotsIn
    <2>2. PacketIn(r, s) = e.packet
      BY <1>3, <2>1, PacketFacts
    <2>3. PacketIn(q, s) = e.packet
      BY <1>2, <2>1, PacketFacts
    <2> QED BY <2>2, <2>3
  <1>6. PacketsIn(r) = PacketsIn(q) \ PacketsOf(q, S)
    <2>1. ASSUME NEW e \in ToSet(q) PROVE e \in left <=> e.packet \notin {PacketIn(q, s) : s \in S}
      <3>1. CASE e.slot \in S
        BY <3>1, PacketFacts
      <3>2. CASE e.slot \notin S
        <4>1. \A s \in S : PacketIn(q, s) = PacketIn(q, e.slot) => s = e.slot
          BY PacketFacts DEF SlotsIn
        <4> QED BY <3>2, <4>1, PacketFacts
      <3> QED BY <3>1, <3>2
    <2> HIDE DEF left
    <2> QED BY <1>2, <1>1, <2>1 DEF PacketsIn, PacketsOf
  <1>7. \A s \in SlotsIn(r) : \A t \in S : PacketIn(r, s) # PacketIn(q, t)
    <2>1. \A s \in SlotsIn(q) : \A t \in SlotsIn(q) : PacketIn(q, s) = PacketIn(q, t) => s = t
      BY PacketFacts
    <2> QED BY <1>4, <1>5, <2>1
  <1> QED BY <1>3, <1>4, <1>5, <1>6, <1>7

(* New entries of a map, for new slots and new packets.                    *)
PairsUp(new, got, fs) ==
  /\ got \in Seq(Parts) /\ fs \in Seq(Packets) /\ new \in Seq(SlotEntries)
  /\ Len(got) = Len(new) /\ Len(fs) = Len(new)
  /\ \A i \in 1..Len(new) : new[i].slot = got[i] /\ new[i].packet = fs[i]

LEMMA AddedMap ==
  ASSUME NEW q, Matched(q), NEW got, NEW fs, NEW new, PairsUp(new, got, fs),
         IsInjective(got), IsInjective(fs),
         ToSet(got) \cap SlotsIn(q) = {}, ToSet(fs) \cap PacketsIn(q) = {}
  PROVE  /\ Matched(q \o new)
         /\ SlotsIn(q \o new) = SlotsIn(q) \cup ToSet(got)
         /\ PacketsIn(q \o new) = PacketsIn(q) \cup ToSet(fs)
         /\ \A s \in SlotsIn(q) : PacketIn(q \o new, s) = PacketIn(q, s)
  <1> DEFINE r == q \o new  n == Len(new)
  <1>1. q \in Seq(SlotEntries) /\ IsInjective(q)
    BY DEF Matched
  <1>2. /\ n \in Nat /\ DOMAIN new = 1..n /\ DOMAIN got = 1..n /\ DOMAIN fs = 1..n
        /\ ToSet(got) = {got[i] : i \in 1..n} /\ ToSet(fs) = {fs[i] : i \in 1..n}
    <2>1. n \in Nat /\ DOMAIN new = 1..n /\ DOMAIN got = 1..n /\ DOMAIN fs = 1..n
      BY DEF PairsUp
    <2> QED BY <2>1 DEF ToSet
  <1>3. new \in Seq(SlotEntries) /\ \A i \in 1..n : new[i].slot = got[i] /\ new[i].packet = fs[i]
    BY DEF PairsUp
  <1> HIDE DEF n
  <1>4. IsInjective(new)
    BY <1>2, <1>3 DEF IsInjective
  <1>5. ToSet(new) = {new[i] : i \in 1..n}
    BY <1>2 DEF ToSet
  <1>6. \A x \in ToSet(new) : x.slot \in ToSet(got) /\ x.packet \in ToSet(fs)
    BY <1>2, <1>3, <1>5
  <1>7. \A x \in ToSet(q) : x.slot \in SlotsIn(q) /\ x.packet \in PacketsIn(q)
    BY DEF SlotsIn, PacketsIn
  <1>8. ToSet(q) \cap ToSet(new) = {}
    BY <1>6, <1>7
  <1>9. r \in Seq(SlotEntries) /\ ToSet(r) = ToSet(q) \cup ToSet(new) /\ IsInjective(r)
    BY <1>1, <1>3, <1>4, <1>8, ConcatSet
  <1> HIDE DEF r
  <1>10. Matched(r)
    <2> SUFFICES ASSUME NEW d \in ToSet(r), NEW e \in ToSet(r),
                        d.slot = e.slot \/ d.packet = e.packet
                 PROVE  d = e
      BY <1>9 DEF Matched
    <2>1. CASE d \in ToSet(q) /\ e \in ToSet(q)
      BY <2>1 DEF Matched
    <2>2. CASE d \in ToSet(new) /\ e \in ToSet(new)
      <3>1. PICK i \in 1..n, j \in 1..n : d = new[i] /\ e = new[j]
        BY <1>5, <2>2
      <3>2. i = j
        <4>1. got[i] = got[j] \/ fs[i] = fs[j]
          BY <1>3, <3>1
        <4> QED BY <1>2, <4>1 DEF IsInjective
      <3> QED BY <3>1, <3>2
    <2>3. ASSUME NEW x \in ToSet(q), NEW y \in ToSet(new)
          PROVE  x.slot # y.slot /\ x.packet # y.packet
      BY <1>6, <1>7
    <2> QED BY <1>9, <2>1, <2>2, <2>3
  <1>11. SlotsIn(r) = SlotsIn(q) \cup ToSet(got)
    BY <1>2, <1>3, <1>5, <1>9 DEF SlotsIn
  <1>12. PacketsIn(r) = PacketsIn(q) \cup ToSet(fs)
    BY <1>2, <1>3, <1>5, <1>9 DEF PacketsIn
  <1>13. ASSUME NEW s \in SlotsIn(q) PROVE PacketIn(r, s) = PacketIn(q, s)
    <2>1. PICK e \in ToSet(q) : e.slot = s
      BY DEF SlotsIn
    <2>2. PacketIn(r, s) = e.packet
      BY <1>9, <1>10, <2>1, PacketFacts
    <2>3. PacketIn(q, s) = e.packet
      BY <2>1, PacketFacts
    <2> QED BY <2>2, <2>3
  <1> QED BY <1>10, <1>11, <1>12, <1>13 DEF r

(* Entries that find a packet: each of a slot of its own that is taken.    *)
LEMMA FindingFacts ==
  ASSUME NEW es \in Seq(RingEntries)
  PROVE  /\ Finding(es) \in Seq(RingEntries) /\ ToSet(Finding(es)) \subseteq ToSet(es)
         /\ \A i \in 1..Len(Finding(es)) : Finding(es)[i].slot \in Taken
         /\ \A i, j \in 1..Len(Finding(es)) : Finding(es)[i].slot = Finding(es)[j].slot => i = j
         /\ es = <<>> => Finding(es) = <<>>
  <1> DEFINE n == Len(es)
             ids == [i \in DOMAIN es |-> i]
             first == {i \in DOMAIN es : /\ Known(es[i].slot)
                                         /\ \A j \in 1..(i - 1) : es[j].slot # es[i].slot}
             order == Only(ids, first)
             found == [k \in DOMAIN order |-> es[order[k]]]
  <1>1. n \in Nat /\ DOMAIN es = 1..n /\ \A i \in 1..n : es[i] \in RingEntries
    OBVIOUS
  <1>2. ids \in Seq(1..n) /\ ToSet(ids) = 1..n /\ IsInjective(ids) /\ Len(ids) = n
    <2>1. ids \in [1..n -> 1..n]
      BY <1>1
    <2>2. Len(ids) = n /\ ids \in Seq(1..n)
      <3> HIDE DEF n, ids
      <3> QED BY <1>1, <2>1
    <2> QED BY <1>1, <2>2 DEF ToSet, IsInjective
  <1>3. first \subseteq 1..n
    BY <1>1
  <1>4. \A i, j \in first : es[i].slot = es[j].slot => i = j
    <2> SUFFICES ASSUME NEW i \in first, NEW j \in first, es[i].slot = es[j].slot, i < j
                 PROVE  FALSE
      BY <1>1, <1>3
    <2>1. i \in 1..(j - 1)
      BY <1>1
    <2> QED BY <2>1
  <1>5. \A i \in first : es[i].slot \in Taken
    BY DEF Known
  <1>6. found = Finding(es)
    BY DEF Finding
  <1> HIDE DEF n, ids, first
  <1>7. /\ order \in Seq(1..n) /\ ToSet(order) = ToSet(ids) \cap first
        /\ Len(order) <= Len(ids) /\ (IsInjective(ids) => IsInjective(order))
    BY <1>2, OnlyFacts
  <1> HIDE DEF order
  <1>8. /\ DOMAIN order = 1..Len(order) /\ Len(order) \in Nat
        /\ \A k \in 1..Len(order) : order[k] \in first /\ order[k] \in 1..n
    <2>1. DOMAIN order = 1..Len(order) /\ Len(order) \in Nat
      BY <1>7
    <2>2. ASSUME NEW k \in 1..Len(order) PROVE order[k] \in ToSet(order)
      BY <2>1 DEF ToSet
    <2>3. \A k \in 1..Len(order) : order[k] \in first /\ order[k] \in 1..n
      BY <1>2, <1>7, <2>2
    <2> QED BY <2>1, <2>3
  <1>9. found \in Seq(RingEntries) /\ Len(found) = Len(order) /\ DOMAIN found = 1..Len(order)
    <2>1. found \in [1..Len(order) -> RingEntries]
      BY <1>1, <1>8
    <2> HIDE DEF found
    <2> QED BY <1>8, <2>1
  <1>10. \A k \in 1..Len(order) : found[k] = es[order[k]]
    BY <1>8
  <1> HIDE DEF found
  <1>11. ToSet(found) \subseteq ToSet(es)
    BY <1>1, <1>8, <1>9, <1>10 DEF ToSet
  <1>12. \A i \in 1..Len(found) : found[i].slot \in Taken
    BY <1>5, <1>8, <1>9, <1>10
  <1>13. \A i, j \in 1..Len(found) : found[i].slot = found[j].slot => i = j
    <2> SUFFICES ASSUME NEW i \in 1..Len(order), NEW j \in 1..Len(order),
                        found[i].slot = found[j].slot
                 PROVE  i = j
      BY <1>9
    <2>1. order[i] = order[j]
      BY <1>4, <1>8, <1>10
    <2> QED BY <1>2, <1>7, <1>8, <2>1 DEF IsInjective
  <1>14. es = <<>> => found = <<>>
    <2> SUFFICES ASSUME es = <<>> PROVE Len(found) = 0
      BY <1>9
    <2>1. n = 0
      BY DEF n
    <2> QED BY <1>2, <1>7, <1>8, <1>9, <2>1
  <1> QED BY <1>6, <1>9, <1>11, <1>12, <1>13, <1>14

(* The map of slots, in either notation.                                   *)
LEMMA MapOfSlots == SlotsIn(slots) = Taken /\ \A s : PacketOf(s) = PacketIn(slots, s)
  BY DEF SlotsIn, Taken, PacketOf, PacketIn

(* What the sweep takes is taken, each slot once.                          *)
LEMMA ExpiringFacts ==
  ASSUME Matched(slots)
  PROVE  /\ Expiring \in Seq(Parts) /\ IsInjective(Expiring)
         /\ ToSet(Expiring) \subseteq SlotsIn(slots)
  <1> DEFINE S == {e \in ToSet(slots) : e.packet \in expired}
             old == Only(slots, S)
             n == IF Len(old) < Batch THEN Len(old) ELSE Batch
             dead == [i \in 1..n |-> old[i].slot]
  <1>1. slots \in Seq(SlotEntries) /\ IsInjective(slots)
    BY DEF Matched
  <1>2. /\ old \in Seq(SlotEntries) /\ ToSet(old) = ToSet(slots) \cap S
        /\ IsInjective(old)
    <2> HIDE DEF S
    <2>1. /\ old \in Seq(SlotEntries) /\ ToSet(old) = ToSet(slots) \cap S
          /\ (IsInjective(slots) => IsInjective(old))
      BY <1>1, OnlyFacts
    <2> QED BY <1>1, <2>1
  <1>3. Expiring = dead
    BY DEF Expiring
  <1> HIDE DEF old, S
  <1>4. Len(old) \in Nat /\ DOMAIN old = 1..Len(old) /\ n \in Nat /\ n <= Len(old)
    BY <1>2, FluidAssumption
  <1> HIDE DEF n
  <1>5. \A i \in 1..n : /\ i \in DOMAIN old /\ old[i] \in ToSet(slots)
                        /\ old[i] \in SlotEntries
    <2>1. \A i \in 1..n : i \in DOMAIN old
      BY <1>4
    <2> QED BY <1>2, <2>1 DEF ToSet
  <1>6. dead \in [1..n -> Parts]
    BY <1>5 DEF SlotEntries
  <1>7. dead \in Seq(Parts) /\ DOMAIN dead = 1..n
    <2> HIDE DEF dead
    <2> QED BY <1>4, <1>6
  <1>8. \A i \in 1..n : dead[i] = old[i].slot
    OBVIOUS
  <1> HIDE DEF dead
  <1>9. IsInjective(dead)
    <2> SUFFICES ASSUME NEW i \in 1..n, NEW j \in 1..n, dead[i] = dead[j] PROVE i = j
      BY <1>7 DEF IsInjective
    <2>1. old[i] = old[j]
      BY <1>5, <1>8 DEF Matched
    <2> QED BY <1>2, <1>5, <2>1 DEF IsInjective
  <1>10. ToSet(dead) \subseteq SlotsIn(slots)
    BY <1>5, <1>7, <1>8 DEF ToSet, SlotsIn
  <1> QED BY <1>3, <1>7, <1>9, <1>10

-----------------------------------------------------------------------------
(* What the steps of the fluid keep.                                       *)

(* As many of a sequence as there are slots get the slots freed last.      *)
LEMMA PouredKeeps ==
  ASSUME FluidInv, NEW fs \in Seq(Packets), IsInjective(fs), Poured(fs),
         UNCHANGED <<gpuVars, readVars, sweeper, mixed>>,
         hopper' \in Seq(Packets), Len(hopper') <= HopperCap, IsInjective(hopper'),
         ToSet(hopper') \subseteq ToSet(hopper),
         ToSet(fs) \cap (PacketsIn(slots) \cup ToSet(hopper') \cup Delivered(taken)) = {},
         awaited \cup ToSet(fs)
           = PacketsIn(slots) \cup ToSet(hopper') \cup Delivered(taken) \cup ToSet(fs)
  PROVE  FluidInv'
  <1>1. FluidTypes /\ KeptOnce /\ FreeRest /\ (~mixed => OnGpu)
    BY DEF FluidInv
  <1> DEFINE n    == IF Len(fs) < Len(freeSlots) THEN Len(fs) ELSE Len(freeSlots)
             rest == SubSeq(fs, n + 1, Len(fs))
             fed  == SubSeq(fs, 1, n)
             kept == SubSeq(freeSlots, 1, Len(freeSlots) - n)
             last == SubSeq(freeSlots, (Len(freeSlots) - n) + 1, Len(freeSlots))
             got  == [i \in 1..n |-> freeSlots[Len(freeSlots) + 1 - i]]
             none == ToSet(rest)
  <1>2. /\ slots' = slots \o [i \in 1..n |-> [slot |-> got[i], packet |-> fs[i]]]
        /\ poured' = poured \o got /\ freeSlots' = kept
        /\ awaited' = (awaited \cup ToSet(fs)) \ none
        /\ expired' = expired \ none /\ sunk' = sunk \ none
    BY DEF Poured, Dropped
  <1>3. /\ Len(fs) \in Nat /\ Len(freeSlots) \in Nat /\ n \in Nat
        /\ n \in 0..Len(fs) /\ Len(freeSlots) - n \in 0..Len(freeSlots)
        /\ freeSlots \in Seq(Parts) /\ IsInjective(freeSlots)
        /\ Len(freeSlots) - (Len(freeSlots) - n) = n
    BY <1>1 DEF FluidTypes, FreeRest
  <1> HIDE DEF n
  <1>4. /\ fed \in Seq(Packets) /\ Len(fed) = n /\ \A i \in 1..n : fed[i] = fs[i]
        /\ ToSet(fed) \cup ToSet(rest) = ToSet(fs)
        /\ IsInjective(fed) /\ ToSet(fed) \cap ToSet(rest) = {}
    BY <1>3, CutFacts
  <1>5. /\ kept \in Seq(Parts) /\ last \in Seq(Parts) /\ Len(last) = n
        /\ \A i \in 1..n : last[i] = freeSlots[(Len(freeSlots) - n) + i]
        /\ ToSet(kept) \cup ToSet(last) = ToSet(freeSlots)
        /\ IsInjective(kept) /\ IsInjective(last) /\ ToSet(kept) \cap ToSet(last) = {}
    <2> DEFINE k == Len(freeSlots) - n
    <2>1. k \in 0..Len(freeSlots) /\ Len(freeSlots) - k = n
      BY <1>3
    <2> HIDE DEF k
    <2>2. LET a == SubSeq(freeSlots, 1, k)  b == SubSeq(freeSlots, k + 1, Len(freeSlots)) IN
          /\ a \in Seq(Parts) /\ b \in Seq(Parts) /\ Len(b) = n
          /\ \A i \in 1..n : b[i] = freeSlots[k + i]
          /\ ToSet(a) \cup ToSet(b) = ToSet(freeSlots)
          /\ IsInjective(a) /\ IsInjective(b) /\ ToSet(a) \cap ToSet(b) = {}
      BY <1>3, <2>1, CutFacts
    <2> QED BY <2>2 DEF k
  <1> HIDE DEF fed, rest, kept, last
  <1>6. /\ got \in [1..n -> Parts] /\ IsInjective(got)
        /\ {got[i] : i \in 1..n} = ToSet(last)
    <2>1. \A i \in 1..n : /\ (n + 1) - i \in 1..n /\ (n + 1) - ((n + 1) - i) = i
                          /\ (Len(freeSlots) - n) + ((n + 1) - i) = Len(freeSlots) + 1 - i
      BY <1>3
    <2>2. \A i \in 1..n : got[i] = last[(n + 1) - i]
      BY <1>5, <2>1
    <2> HIDE DEF got
    <2>3. DOMAIN last = 1..n /\ \A i \in 1..n : last[i] \in Parts
      BY <1>5
    <2>4. ASSUME NEW i \in 1..n, NEW j \in 1..n, got[i] = got[j] PROVE i = j
      <3>1. (n + 1) - i = (n + 1) - j
        BY <1>5, <2>1, <2>2, <2>3, <2>4 DEF IsInjective
      <3> QED BY <1>3, <3>1
    <2>5. {got[i] : i \in 1..n} = ToSet(last)
      <3>1. ASSUME NEW i \in 1..n PROVE last[i] \in {got[j] : j \in 1..n}
        <4>1. last[i] = got[(n + 1) - i]
          BY <2>1, <2>2
        <4> QED BY <2>1, <4>1
      <3>2. \A i \in 1..n : got[i] \in ToSet(last)
        BY <2>1, <2>2, <2>3 DEF ToSet
      <3> QED BY <2>3, <3>1, <3>2 DEF ToSet
    <2>6. got \in [1..n -> Parts]
      <3>1. \A i \in 1..n : got[i] \in Parts
        BY <2>1, <2>2, <2>3
      <3> QED BY <3>1 DEF got
    <2>7. DOMAIN got = 1..n
      BY DEF got
    <2> QED BY <2>4, <2>5, <2>6, <2>7 DEF IsInjective
  <1>7. got \in Seq(Parts) /\ ToSet(got) = ToSet(last) /\ Len(got) = n
    <2> HIDE DEF got
    <2>1. got \in Seq(Parts) /\ Len(got) = n /\ DOMAIN got = 1..n
      BY <1>3, <1>6
    <2>2. ToSet(got) = {got[i] : i \in 1..n}
      BY <2>1 DEF ToSet
    <2> QED BY <1>6, <2>1, <2>2
  <1> HIDE DEF got
  <1>8. {fs[i] : i \in 1..n} = ToSet(fed) /\ \A i \in 1..n : fs[i] \in ToSet(fed)
    <2>1. DOMAIN fed = 1..n
      BY <1>3, <1>4
    <2>2. ToSet(fed) = {fed[i] : i \in 1..n}
      BY <2>1 DEF ToSet
    <2>3. \A i \in 1..n : fs[i] \in ToSet(fed)
      BY <1>4, <2>2
    <2> QED BY <1>4, <2>2, <2>3
  <1>9. /\ Matched(slots')
        /\ SlotsIn(slots') = SlotsIn(slots) \cup ToSet(last)
        /\ PacketsIn(slots') = PacketsIn(slots) \cup ToSet(fed)
        /\ \A s \in SlotsIn(slots) : PacketIn(slots', s) = PacketIn(slots, s)
    <2> DEFINE new == [i \in 1..n |-> [slot |-> got[i], packet |-> fs[i]]]
    <2>1. new \in [1..n -> SlotEntries] /\ slots' = slots \o new
      <3>1. \A i \in 1..n : got[i] \in Parts /\ fs[i] \in Packets
        <4>1. \A i \in 1..n : fs[i] \in ToSet(fs)
          BY <1>4, <1>8
        <4> QED BY <1>6, <4>1 DEF ToSet
      <3>2. \A i \in 1..n : [slot |-> got[i], packet |-> fs[i]] \in SlotEntries
        BY <3>1 DEF SlotEntries
      <3> QED BY <1>2, <3>2
    <2>2. \A i \in 1..n : new[i].slot = got[i] /\ new[i].packet = fed[i]
      BY <1>4
    <2> HIDE DEF new
    <2>3. PairsUp(new, got, fed)
      <3>1. new \in Seq(SlotEntries) /\ Len(new) = n
        BY <1>3, <2>1
      <3> QED BY <1>4, <1>7, <2>2, <3>1 DEF PairsUp
    <2>4. ToSet(got) \cap SlotsIn(slots) = {} /\ ToSet(fed) \cap PacketsIn(slots) = {}
      BY <1>1, <1>4, <1>5, <1>7 DEF FreeRest
    <2>5. Matched(slots)
      BY <1>1 DEF KeptOnce
    <2>6. /\ Matched(slots \o new)
          /\ SlotsIn(slots \o new) = SlotsIn(slots) \cup ToSet(got)
          /\ PacketsIn(slots \o new) = PacketsIn(slots) \cup ToSet(fed)
          /\ \A s \in SlotsIn(slots) : PacketIn(slots \o new, s) = PacketIn(slots, s)
      BY <1>4, <1>6, <2>3, <2>4, <2>5, AddedMap
    <2> QED BY <1>7, <2>1, <2>6
  <1>10. /\ poured' \in Seq(Parts) /\ ToSet(poured') = ToSet(poured) \cup ToSet(last)
         /\ IsInjective(poured) /\ ToSet(poured) \subseteq SlotsIn(slots) => IsInjective(poured')
    <2>1. poured \in Seq(Parts)
      BY <1>1 DEF FluidTypes
    <2>2. IsInjective(got)
      BY <1>6
    <2>3. ToSet(poured) \subseteq SlotsIn(slots) => ToSet(poured) \cap ToSet(got) = {}
      BY <1>1, <1>5, <1>7 DEF FreeRest
    <2>4. /\ poured \o got \in Seq(Parts) /\ ToSet(poured \o got) = ToSet(poured) \cup ToSet(got)
          /\ IsInjective(poured) /\ IsInjective(got) /\ ToSet(poured) \cap ToSet(got) = {}
             => IsInjective(poured \o got)
      BY <1>7, <2>1, ConcatSet
    <2> QED BY <1>2, <1>7, <2>2, <2>3, <2>4
  <1>11. /\ taken' = taken /\ reader' = reader /\ counted' = counted
         /\ alive' = alive /\ ring' = ring /\ mixed' = mixed
    BY DEF gpuVars, readVars
  <1>12. FluidTypes'
    <2>1. awaited' \subseteq Packets
      <3>1. ToSet(fs) \subseteq Packets
        BY DEF ToSet
      <3> QED BY <1>1, <1>2, <3>1 DEF FluidTypes
    <2>2. expired' \subseteq awaited' /\ sunk' \subseteq awaited'
      BY <1>1, <1>2 DEF FluidTypes
    <2> QED BY <1>1, <1>2, <1>5, <1>10, <1>11, <2>1, <2>2 DEF FluidTypes
  <1>13. KeptOnce'
    <2>1. /\ PacketsIn(slots') \cap ToSet(hopper') = {}
          /\ PacketsIn(slots') \cap Delivered(taken) = {}
          /\ ToSet(hopper') \cap Delivered(taken) = {}
      BY <1>1, <1>4, <1>9 DEF KeptOnce
    <2>2. awaited' = PacketsIn(slots') \cup ToSet(hopper') \cup Delivered(taken)
      BY <1>2, <1>4, <1>9
    <2> QED BY <1>1, <1>9, <1>11, <2>1, <2>2 DEF KeptOnce
  <1>14. FreeRest'
    <2>1. ToSet(last) \subseteq Parts
      BY <1>5 DEF ToSet
    <2>2. ToSet(kept) = Parts \ (SlotsIn(slots) \cup ToSet(last))
      BY <1>1, <1>5 DEF FreeRest
    <2> QED BY <1>2, <1>5, <1>9, <2>2 DEF FreeRest
  <1>15. ASSUME ~mixed' PROVE OnGpu'
    <2>1. OnGpu
      BY <1>1, <1>11, <1>15
    <2>2. ToSet(last) \cap SlotsIn(slots) = {}
      BY <1>1, <1>5 DEF FreeRest
    <2>3. ASSUME NEW e \in ToSet(ring)
          PROVE  /\ e.slot \in SlotsIn(slots') \ (alive \cup ToSet(poured'))
                 /\ e.port \in Outlets => PacketIn(slots', e.slot) \in sunk'
      <3>1. e.slot \in SlotsIn(slots) \ (alive \cup ToSet(poured))
        BY <2>1 DEF OnGpu
      <3>2. PacketIn(slots', e.slot) = PacketIn(slots, e.slot)
        BY <1>9, <3>1
      <3>3. PacketIn(slots, e.slot) \in PacketsIn(slots)
        BY <1>1, <3>1, PacketFacts DEF KeptOnce
      <3>4. PacketIn(slots, e.slot) \notin none
        BY <1>4, <3>3
      <3>5. e.port \in Outlets => PacketIn(slots, e.slot) \in sunk
        BY <2>1 DEF OnGpu
      <3> QED BY <1>2, <1>9, <1>10, <2>2, <3>1, <3>2, <3>4, <3>5
    <2>4. \A e \in taken : e[1] \in sunk'
      <3>1. \A e \in taken : e[1] \notin none
        BY <1>4 DEF Delivered
      <3> QED BY <1>2, <2>1, <3>1 DEF OnGpu
    <2> QED BY <1>9, <1>10, <1>11, <2>1, <2>2, <2>3, <2>4 DEF OnGpu
  <1> QED BY <1>12, <1>13, <1>14, <1>15 DEF FluidInv

(* What is written into the ring, as far as there is room.                 *)
LEMMA KeptFacts ==
  ASSUME NEW r \in Seq(RingEntries), Len(r) <= Ring, NEW new \in Seq(RingEntries)
  PROVE  /\ Kept(r \o new) \in Seq(RingEntries) /\ Len(Kept(r \o new)) <= Ring
         /\ Len(r) <= Len(Kept(r \o new))
         /\ ToSet(Kept(r \o new)) \subseteq ToSet(r) \cup ToSet(new)
  <1> DEFINE u == r \o new  k == IF Len(u) < Ring THEN Len(u) ELSE Ring
  <1>1. /\ u \in Seq(RingEntries) /\ ToSet(u) = ToSet(r) \cup ToSet(new)
        /\ Len(u) = Len(r) + Len(new) /\ Len(r) \in Nat /\ Len(new) \in Nat
    BY ConcatSet
  <1>2. Kept(u) = SubSeq(u, 1, k)
    BY DEF Kept
  <1> HIDE DEF u
  <1>3. k \in 0..Len(u) /\ k <= Ring /\ Len(r) <= k
    BY <1>1, FluidAssumption
  <1> HIDE DEF k
  <1>4. /\ SubSeq(u, 1, k) \in Seq(RingEntries) /\ Len(SubSeq(u, 1, k)) = k
        /\ ToSet(SubSeq(u, 1, k)) \cup ToSet(SubSeq(u, k + 1, Len(u))) = ToSet(u)
    <2>1. u \in Seq(RingEntries) /\ k \in 0..Len(u)
      BY <1>1, <1>3
    <2>2. LET a == SubSeq(u, 1, k)  b == SubSeq(u, k + 1, Len(u)) IN
         /\ a \in Seq(RingEntries) /\ b \in Seq(RingEntries) /\ Len(a) = k /\ Len(b) = Len(u) - k
         /\ \A i \in 1..k : a[i] = u[i]
         /\ \A i \in 1..(Len(u) - k) : b[i] = u[k + i]
         /\ ToSet(a) \cup ToSet(b) = ToSet(u)
         /\ IsInjective(u) => IsInjective(a) /\ IsInjective(b) /\ ToSet(a) \cap ToSet(b) = {}
      BY <2>1, CutFacts, Zenon
    <2> QED BY <2>2
  <1> QED BY <1>1, <1>2, <1>3, <1>4 DEF u

(* The slots of entries that a passing particle writes.                    *)
LEMMA WrittenFacts ==
  ASSUME NEW gone, gone \subseteq Parts, NEW exit \in [gone -> Outlets \cup {Suction}],
         NEW order \in SetToSeqs(gone)
  PROVE  LET new == [i \in 1..Len(order) |-> Entry(order[i], exit[order[i]])] IN
         /\ new \in Seq(RingEntries)
         /\ \A e \in ToSet(new) : e.slot \in gone /\ e.port = exit[e.slot]
  <1> DEFINE new == [i \in 1..Len(order) |-> Entry(order[i], exit[order[i]])]  n == Cardinality(gone)
  <1>1. n \in Nat
    <2>1. IsFiniteSet(gone)
      <3>1. Particles \in Nat
        BY FluidAssumption
      <3>2. IsFiniteSet(Parts)
        BY <3>1, FS_Interval DEF Parts
      <3> QED BY <3>2, FS_Subset
    <2> QED BY <2>1, FS_CardinalityType
  <1>2. order \in [1..n -> gone]
    BY DEF SetToSeqs
  <1> HIDE DEF n
  <1>3. Len(order) = n
    BY <1>1, <1>2
  <1>4. \A i \in 1..n : /\ new[i] = Entry(order[i], exit[order[i]])
                        /\ order[i] \in gone
    BY <1>2, <1>3
  <1>5. \A i \in 1..n : /\ new[i] \in RingEntries
                        /\ new[i].slot \in gone /\ new[i].port = exit[new[i].slot]
    <2> SUFFICES ASSUME NEW i \in 1..n
                 PROVE  /\ new[i] \in RingEntries
                        /\ new[i].slot \in gone /\ new[i].port = exit[new[i].slot]
      OBVIOUS
    <2> DEFINE s == order[i]
    <2>1. s \in gone /\ s \in Parts /\ exit[s] \in Outlets \cup {Suction} /\ new[i] = Entry(s, exit[s])
      BY <1>4
    <2> HIDE DEF s, new
    <2> QED BY <2>1 DEF Entry, RingEntries
  <1>6. DOMAIN new = 1..n /\ new = [i \in 1..n |-> new[i]]
    BY <1>3
  <1> HIDE DEF new
  <1>7. new \in [1..n -> RingEntries]
    BY <1>5, <1>6
  <1>8. new \in Seq(RingEntries)
    BY <1>1, <1>7
  <1>9. \A e \in ToSet(new) : e.slot \in gone /\ e.port = exit[e.slot]
    BY <1>5, <1>6 DEF ToSet
  <1> QED BY <1>8, <1>9 DEF new

(* What a rendered frame does to the ring, and to what waits to be born: a *)
(* batch of it comes to life, and what is gone may be written.             *)
Passed(batch, gone, exit, dead, late) ==
  /\ poured' \in Seq(Parts) /\ ToSet(batch) \cup ToSet(poured') = ToSet(poured)
  /\ IsInjective(poured) => IsInjective(poured') /\ ToSet(batch) \cap ToSet(poured') = {}
  /\ gone \subseteq (alive \ ToSet(dead)) \cup ToSet(batch)
  /\ alive' = ((alive \ ToSet(dead)) \cup ToSet(batch)) \ gone
  /\ ring' \in Seq(RingEntries) /\ Len(ring') <= Ring /\ Len(ring) <= Len(ring')
  /\ \A e \in ToSet(ring') : e \in ToSet(ring) \/ (e.slot \in gone /\ e.port = exit[e.slot])
  /\ sunk' = (sunk \ late)
       \cup {PacketOf(s)' : s \in {t \in gone \cap Taken' : exit[t] \in Outlets}}

LEMMA PassesFacts ==
  ASSUME FluidTypes, NEW dead, NEW late, Passes(dead, late)
  PROVE  \E batch \in Seq(Parts), gone \in SUBSET Parts : \E exit : Passed(batch, gone, exit, dead, late)
  <1> DEFINE k == IF Len(poured) < Batch THEN Len(poured) ELSE Batch
             batch == SubSeq(poured, 1, k)
             later == SubSeq(poured, k + 1, Len(poured))
             moving == (alive \ ToSet(dead)) \cup ToSet(batch)
             mouths  == Outlets \cup (IF sweeper /\ Len(hopper) < HopperCap THEN {Suction} ELSE {})
  <1>1. poured \in Seq(Parts) /\ Len(poured) \in Nat /\ k \in 0..Len(poured)
    BY FluidAssumption DEF FluidTypes
  <1>2. poured' = SubSeq(poured, Len(batch) + 1, Len(poured))
    BY DEF Passes
  <1>3. PICK gone \in SUBSET moving : \E exit \in [gone -> mouths] : \E order \in SetToSeqs(gone) :
          /\ alive' = Flowed(moving, gone)
          /\ ring' = Kept(ring \o [i \in 1..Len(order) |-> Entry(order[i], exit[order[i]])])
          /\ sunk' = (sunk \ late)
                       \cup {PacketOf(s)' : s \in {t \in gone \cap Taken' : exit[t] \in Outlets}}
    BY DEF Passes
  <1>4. PICK exit \in [gone -> mouths], order \in SetToSeqs(gone) :
          /\ alive' = Flowed(moving, gone)
          /\ ring' = Kept(ring \o [i \in 1..Len(order) |-> Entry(order[i], exit[order[i]])])
          /\ sunk' = (sunk \ late)
                       \cup {PacketOf(s)' : s \in {t \in gone \cap Taken' : exit[t] \in Outlets}}
    BY <1>3
  <1> HIDE DEF k
  <1>5. /\ batch \in Seq(Parts) /\ Len(batch) = k /\ later \in Seq(Parts)
        /\ ToSet(batch) \cup ToSet(later) = ToSet(poured)
        /\ IsInjective(poured) => /\ IsInjective(later)
                                  /\ ToSet(batch) \cap ToSet(later) = {}
    BY <1>1, CutFacts
  <1>6. poured' = later
    BY <1>2, <1>5
  <1> HIDE DEF batch, later
  <1>7. moving \subseteq Parts
    BY <1>5 DEF FluidTypes, ToSet
  <1> HIDE DEF moving
  <1>8. gone \in SUBSET Parts /\ gone \subseteq moving /\ alive' = moving \ gone
    BY <1>4, <1>7 DEF Flowed
  <1>9. exit \in [gone -> Outlets \cup {Suction}]
    BY <1>4
  <1> HIDE DEF mouths
  <1> DEFINE new == [i \in 1..Len(order) |-> Entry(order[i], exit[order[i]])]
  <1>10. /\ new \in Seq(RingEntries)
        /\ \A e \in ToSet(new) : e.slot \in gone /\ e.port = exit[e.slot]
    BY <1>4, <1>8, <1>9, WrittenFacts
  <1>11. ring' = Kept(ring \o new)
    BY <1>4
  <1> HIDE DEF new
  <1>12. ring \in Seq(RingEntries) /\ Len(ring) <= Ring
    BY DEF FluidTypes
  <1>13. /\ ring' \in Seq(RingEntries) /\ Len(ring') <= Ring /\ Len(ring) <= Len(ring')
         /\ ToSet(ring') \subseteq ToSet(ring) \cup ToSet(new)
    BY <1>10, <1>11, <1>12, KeptFacts
  <1>14. \A e \in ToSet(ring') : e \in ToSet(ring) \/ (e.slot \in gone /\ e.port = exit[e.slot])
    BY <1>10, <1>13
  <1>15. /\ poured' \in Seq(Parts) /\ ToSet(batch) \cup ToSet(poured') = ToSet(poured)
         /\ IsInjective(poured) => IsInjective(poured') /\ ToSet(batch) \cap ToSet(poured') = {}
    BY <1>5, <1>6
  <1>16. /\ gone \subseteq (alive \ ToSet(dead)) \cup ToSet(batch)
         /\ alive' = ((alive \ ToSet(dead)) \cup ToSet(batch)) \ gone
    BY <1>8 DEF moving
  <1>17. Passed(batch, gone, exit, dead, late)
    BY <1>4, <1>13, <1>14, <1>15, <1>16 DEF Passed
  <1> QED BY <1>5, <1>8, <1>17

(* A rendered frame: slots of the dead are free, what rots in the hopper   *)
(* is dropped, and the GPU goes on with what is not dead.                  *)
LEMMA RenderedKeeps ==
  ASSUME FluidInv, NEW dead \in Seq(Parts), IsInjective(dead), ToSet(dead) \subseteq SlotsIn(slots),
         Rendered(dead)
  PROVE  FluidInv'
  <1>1. FluidTypes /\ KeptOnce /\ FreeRest /\ (~mixed => OnGpu)
    BY DEF FluidInv
  <1> DEFINE D == ToSet(dead)
             rotten == ToSet(hopper) \cap expired
             died == {PacketOf(s) : s \in D}
             late == rotten \cup died
  <1>2. /\ hopper' = Only(hopper, ToSet(hopper) \ rotten)
        /\ slots' = Freed(slots, D)
        /\ freeSlots' = freeSlots \o dead
        /\ awaited' = awaited \ late /\ expired' = expired \ late
        /\ mixed' = (mixed \/ \E s \in D : s \in RingOf(ring) \/ s \in ToSet(poured))
        /\ Passes(dead, late) /\ Pump
    BY DEF Rendered, Swept, Without, Freed
  <1>3. died = PacketsOf(slots, D)
    BY MapOfSlots DEF PacketsOf
  <1> HIDE DEF died
  <1>4. PICK batch \in Seq(Parts), gone \in SUBSET Parts : \E exit : Passed(batch, gone, exit, dead, late)
    BY <1>1, <1>2, PassesFacts
  <1>5. PICK exit : Passed(batch, gone, exit, dead, late)
    BY <1>4
  <1>6. /\ poured' \in Seq(Parts) /\ ToSet(batch) \cup ToSet(poured') = ToSet(poured)
        /\ IsInjective(poured) => IsInjective(poured') /\ ToSet(batch) \cap ToSet(poured') = {}
        /\ gone \subseteq (alive \ D) \cup ToSet(batch)
        /\ alive' = ((alive \ D) \cup ToSet(batch)) \ gone
        /\ ring' \in Seq(RingEntries) /\ Len(ring') <= Ring /\ Len(ring) <= Len(ring')
        /\ \A e \in ToSet(ring') : e \in ToSet(ring) \/ (e.slot \in gone /\ e.port = exit[e.slot])
    BY <1>5 DEF Passed
  <1>7. sunk' = (sunk \ late)
          \cup {PacketOf(s)' : s \in {t \in gone \cap Taken' : exit[t] \in Outlets}}
    BY <1>5 DEF Passed
  <1> HIDE DEF late
  <1>8. /\ Matched(slots') /\ SlotsIn(slots') = SlotsIn(slots) \ D
        /\ PacketsIn(slots') = PacketsIn(slots) \ died
        /\ \A s \in SlotsIn(slots') : PacketIn(slots', s) = PacketIn(slots, s)
        /\ \A s \in SlotsIn(slots') : \A t \in D : PacketIn(slots', s) # PacketIn(slots, t)
    <2>1. Matched(slots) /\ D \subseteq SlotsIn(slots)
      BY <1>1 DEF KeptOnce
    <2>2. slots' = Freed(slots, D)
      BY <1>2
    <2> HIDE DEF D
    <2> QED BY <1>3, <2>1, <2>2, FreedMap
  <1>9. died \subseteq PacketsIn(slots)
    BY <1>1, <1>3, PacketFacts DEF KeptOnce, PacketsOf
  <1>10. /\ hopper' \in Seq(Packets) /\ ToSet(hopper') = ToSet(hopper) \ rotten
         /\ Len(hopper') <= HopperCap /\ IsInjective(hopper')
    <2> DEFINE fresh == ToSet(hopper) \ rotten
    <2>1. hopper \in Seq(Packets) /\ IsInjective(hopper) /\ Len(hopper) <= HopperCap /\ Len(hopper) \in Nat
      BY <1>1 DEF FluidTypes, KeptOnce
    <2>2. hopper' = Only(hopper, fresh) /\ ToSet(hopper) \cap fresh = ToSet(hopper) \ rotten
      BY <1>2
    <2> HIDE DEF fresh, rotten
    <2>3. /\ Only(hopper, fresh) \in Seq(Packets) /\ ToSet(Only(hopper, fresh)) = ToSet(hopper) \cap fresh
          /\ Len(Only(hopper, fresh)) <= Len(hopper)
          /\ IsInjective(hopper) => IsInjective(Only(hopper, fresh))
      BY <2>1, OnlyFacts
    <2>4. Len(Only(hopper, fresh)) \in Nat /\ HopperCap \in Nat
      BY <2>3, FluidAssumption
    <2> QED BY <2>1, <2>2, <2>3, <2>4
  <1>11. /\ taken' = taken
         /\ \/ reader' = reader /\ counted' = counted
            \/ reader = "idle" /\ reader' = "counted" /\ counted' = Len(ring')
    <2>1. Pump
      BY <1>2
    <2>2. CASE Reading
      BY <2>1, <2>2 DEF Pump, readVars
    <2>3. CASE ~Reading
      BY <2>1, <2>3 DEF Pump, Reading
    <2> QED BY <2>2, <2>3
  <1>12. ASSUME NEW x \in {PacketOf(s)' : s \in {t \in gone \cap Taken' : exit[t] \in Outlets}}
         PROVE  x \in PacketsIn(slots')
    <2>1. PICK s \in gone \cap Taken' : x = PacketOf(s)'
      BY <1>12
    <2>2. s \in SlotsIn(slots') /\ x = PacketIn(slots', s)
      BY <2>1 DEF Taken, SlotsIn, PacketOf, PacketIn
    <2> QED BY <1>8, <2>2, PacketFacts
  <1>13. ASSUME NEW s \in gone, s \in SlotsIn(slots'), exit[s] \in Outlets
         PROVE  PacketIn(slots', s) \in sunk'
    <2>1. s \in {t \in gone \cap Taken' : exit[t] \in Outlets}
      BY <1>13 DEF Taken, SlotsIn
    <2>2. PacketOf(s)' \in sunk'
      BY <1>7, <2>1
    <2> QED BY <2>2 DEF PacketOf, PacketIn
  <1>14. awaited' = PacketsIn(slots') \cup ToSet(hopper') \cup Delivered(taken)
    <2>1. late \cap Delivered(taken) = {}
      BY <1>1, <1>9 DEF KeptOnce, late
    <2>2. PacketsIn(slots) \ late = PacketsIn(slots) \ died
      BY <1>1 DEF KeptOnce, late
    <2>3. ToSet(hopper) \ late = ToSet(hopper) \ rotten
      BY <1>1, <1>9 DEF KeptOnce, late
    <2> HIDE DEF rotten
    <2> QED BY <1>1, <1>2, <1>8, <1>10, <2>1, <2>2, <2>3 DEF KeptOnce
  <1>15. FluidTypes'
    <2>1. freeSlots' \in Seq(Parts)
      BY <1>1, <1>2, ConcatSet DEF FluidTypes
    <2>2. awaited' \subseteq Packets /\ expired' \subseteq awaited'
      BY <1>1, <1>2 DEF FluidTypes
    <2>3. sunk' \subseteq awaited'
      <3>1. sunk \ late \subseteq awaited'
        BY <1>1, <1>2 DEF FluidTypes
      <3>2. PacketsIn(slots') \subseteq awaited'
        BY <1>14
      <3> QED BY <1>7, <1>12, <3>1, <3>2
    <2>4. alive' \subseteq Parts
      BY <1>1, <1>6 DEF FluidTypes, ToSet
    <2>5. counted' \in Nat /\ counted' <= Len(ring')
      BY <1>1, <1>6, <1>11 DEF FluidTypes
    <2>6. mixed' \in BOOLEAN
      BY <1>1, <1>2 DEF FluidTypes
    <2> QED BY <1>1, <1>6, <1>10, <1>11, <2>1, <2>2, <2>3, <2>4, <2>5, <2>6 DEF FluidTypes
  <1>16. KeptOnce'
    <2>1. reader' # "resetting" => taken' = {}
      BY <1>1, <1>11 DEF KeptOnce
    <2>2. \A d, e \in taken' : d[1] = e[1] => d = e
      BY <1>1, <1>11 DEF KeptOnce
    <2>3. /\ PacketsIn(slots') \cap ToSet(hopper') = {}
          /\ PacketsIn(slots') \cap Delivered(taken) = {}
          /\ ToSet(hopper') \cap Delivered(taken) = {}
      BY <1>1, <1>8, <1>10 DEF KeptOnce
    <2> QED BY <1>8, <1>10, <1>11, <1>14, <2>1, <2>2, <2>3 DEF KeptOnce
  <1>17. FreeRest'
    <2>1. /\ ToSet(freeSlots \o dead) = ToSet(freeSlots) \cup D
          /\ IsInjective(freeSlots) /\ IsInjective(dead) /\ ToSet(freeSlots) \cap D = {}
               => IsInjective(freeSlots \o dead)
      BY <1>1, ConcatSet DEF FluidTypes
    <2>2. ToSet(freeSlots) \cap D = {} /\ D \subseteq Parts
      BY <1>1 DEF FreeRest, ToSet
    <2> HIDE DEF D
    <2> QED BY <1>1, <1>2, <1>8, <2>1, <2>2 DEF FreeRest
  <1>18. ASSUME ~mixed' PROVE OnGpu'
    <2>1. OnGpu /\ \A s \in D : s \notin RingOf(ring) /\ s \notin ToSet(poured)
      BY <1>1, <1>2, <1>18
    <2>2. ASSUME NEW e \in ToSet(ring) PROVE e.slot \in RingOf(ring)
      <3>1. DOMAIN ring = 1..Len(ring)
        BY <1>1 DEF FluidTypes
      <3> QED BY <3>1 DEF RingOf, ToSet
    <2> HIDE DEF D
    <2>3. /\ IsInjective(poured') /\ ToSet(batch) \cap ToSet(poured') = {}
          /\ ToSet(poured) \subseteq SlotsIn(slots) /\ alive \subseteq SlotsIn(slots)
          /\ alive \cap ToSet(poured) = {}
      BY <1>6, <2>1 DEF OnGpu
    <2>4. /\ ToSet(poured') \subseteq SlotsIn(slots') /\ alive' \subseteq SlotsIn(slots')
          /\ gone \subseteq SlotsIn(slots')
          /\ alive' \cap ToSet(poured') = {} /\ gone \cap (alive' \cup ToSet(poured')) = {}
      BY <1>6, <1>8, <2>1, <2>3
    <2>5. ASSUME NEW e \in ToSet(ring)
          PROVE  /\ e.slot \in SlotsIn(slots') \ (alive' \cup ToSet(poured'))
                 /\ e.port \in Outlets => PacketIn(slots', e.slot) \in sunk'
      <3>1. /\ e.slot \in SlotsIn(slots) \ (alive \cup ToSet(poured))
            /\ e.port \in Outlets => PacketIn(slots, e.slot) \in sunk
        BY <2>1 DEF OnGpu
      <3>2. e.slot \in SlotsIn(slots')
        BY <1>8, <2>1, <2>2, <3>1
      <3>3. e.slot \notin alive' \cup ToSet(poured')
        BY <1>6, <3>1
      <3>4. PacketIn(slots', e.slot) = PacketIn(slots, e.slot)
        BY <1>8, <3>2
      <3>5. PacketIn(slots', e.slot) \in PacketsIn(slots')
        BY <1>8, <3>2, PacketFacts
      <3>6. PacketIn(slots', e.slot) \notin late
        BY <1>1, <1>8, <3>5 DEF KeptOnce, late
      <3> QED BY <1>7, <3>1, <3>2, <3>3, <3>4, <3>6
    <2>6. ASSUME NEW e \in ToSet(ring')
          PROVE  /\ e.slot \in SlotsIn(slots') \ (alive' \cup ToSet(poured'))
                 /\ e.port \in Outlets => PacketIn(slots', e.slot) \in sunk'
      <3>1. CASE e \in ToSet(ring)
        BY <2>5, <3>1
      <3>2. CASE e.slot \in gone /\ e.port = exit[e.slot]
        BY <1>13, <2>4, <3>2
      <3> QED BY <1>6, <3>1, <3>2
    <2>7. \A e \in taken : e[1] \in sunk'
      <3>1. \A e \in taken : e[1] \notin late
        BY <1>1, <1>9 DEF KeptOnce, Delivered, late
      <3> QED BY <1>7, <2>1, <3>1 DEF OnGpu
    <2> QED BY <1>11, <2>3, <2>4, <2>6, <2>7 DEF OnGpu
  <1> QED BY <1>15, <1>16, <1>17, <1>18 DEF FluidInv

(* What fits the hopper of a sequence of packets, and what does not.       *)
LEMMA CarriedFacts ==
  ASSUME FluidTypes, IsInjective(hopper), NEW S \in Seq(Packets), IsInjective(S),
         ToSet(S) \cap ToSet(hopper) = {}
  PROVE  LET h == Carried(S)[1]  d == Carried(S)[2] IN
         /\ h \in Seq(Packets) /\ IsInjective(h) /\ Len(h) <= HopperCap
         /\ ToSet(h) \cup d = ToSet(hopper) \cup ToSet(S) /\ ToSet(h) \cap d = {}
         /\ d \subseteq ToSet(S)
  <1> DEFINE room == HopperCap - Len(hopper)
             fits == IF Len(S) <= room THEN S ELSE SubSeq(S, 1, room)
  <1>1. /\ hopper \in Seq(Packets) /\ Len(hopper) \in Nat /\ Len(S) \in Nat /\ HopperCap \in Nat
        /\ Len(hopper) <= HopperCap /\ room \in Nat
    BY FluidAssumption DEF FluidTypes
  <1>2. CASE ~sweeper
    BY <1>1, <1>2 DEF Carried
  <1>3. CASE sweeper
    <2>1. /\ fits \in Seq(Packets) /\ IsInjective(fits) /\ Len(fits) <= room
          /\ ToSet(fits) \subseteq ToSet(S)
      <3>1. CASE Len(S) <= room
        BY <3>1
      <3>2. CASE ~(Len(S) <= room)
        <4> DEFINE k == room
        <4>1. k \in 0..Len(S) /\ fits = SubSeq(S, 1, k)
          BY <1>1, <3>2
        <4> HIDE DEF k, fits
        <4>2. LET a == SubSeq(S, 1, k)  b == SubSeq(S, k + 1, Len(S)) IN
              /\ a \in Seq(Packets) /\ b \in Seq(Packets) /\ Len(a) = k /\ Len(b) = Len(S) - k
              /\ \A i \in 1..k : a[i] = S[i]
              /\ \A i \in 1..(Len(S) - k) : b[i] = S[k + i]
              /\ ToSet(a) \cup ToSet(b) = ToSet(S)
              /\ IsInjective(S) => IsInjective(a) /\ IsInjective(b) /\ ToSet(a) \cap ToSet(b) = {}
          BY <4>1, CutFacts, Zenon
        <4>3. /\ fits \in Seq(Packets) /\ Len(fits) = k /\ IsInjective(fits)
              /\ ToSet(fits) \subseteq ToSet(S)
          BY <4>1, <4>2
        <4>4. k = room /\ k <= room
          BY <1>1 DEF k
        <4> QED BY <4>3, <4>4
      <3> QED BY <3>1, <3>2
    <2>2. Carried(S) = <<hopper \o fits, ToSet(S) \ ToSet(fits)>>
      BY <1>3 DEF Carried
    <2> HIDE DEF fits
    <2>3. /\ hopper \o fits \in Seq(Packets) /\ ToSet(hopper \o fits) = ToSet(hopper) \cup ToSet(fits)
          /\ Len(hopper \o fits) = Len(hopper) + Len(fits) /\ Len(fits) \in Nat
          /\ IsInjective(hopper \o fits)
      <3>1. ToSet(hopper) \cap ToSet(fits) = {}
        BY <2>1
      <3> QED BY <1>1, <2>1, <3>1, ConcatSet
    <2>4. Len(hopper \o fits) <= HopperCap
      BY <1>1, <2>1, <2>3
    <2> QED BY <2>1, <2>2, <2>3, <2>4
  <1> QED BY <1>2, <1>3

(* The entries that were counted are looked up: each packet goes from its  *)
(* slot to the hopper, to the deliveries, or is dropped.                   *)
LEMMA ReadEntriesKeeps ==
  ASSUME FluidInv, ReadEntries
  PROVE  FluidInv'
  <1>1. FluidTypes /\ KeptOnce /\ FreeRest /\ (~mixed => OnGpu)
    BY DEF FluidInv
  <1> DEFINE es      == SubSeq(ring, 1, counted)
             found   == Finding(es)
             sucked  == Only(found, {e \in ToSet(found) : e.port = Suction})
             S       == [i \in 1..Len(sucked) |-> PacketOf(sucked[i].slot)]
             emptied == [i \in 1..Len(found) |-> found[i].slot]
             h == Carried(S)[1]
             d == Carried(S)[2]
             D == ToSet(emptied)
             told == {<<PacketOf(e.slot), e.port>> : e \in ToSet(found) \ ToSet(sucked)}
  <1>2. /\ reader = "counted" /\ taken' = told /\ hopper' = h
        /\ awaited' = awaited \ d /\ expired' = expired \ d /\ sunk' = sunk \ d
        /\ slots' = Freed(slots, D)
        /\ freeSlots' = freeSlots \o emptied
        /\ ring' = (IF counted = 0 THEN ring ELSE <<>>) /\ counted' = 0
        /\ reader' = (IF counted = 0 THEN "cooling" ELSE "resetting")
        /\ poured' = poured /\ alive' = alive /\ mixed' = mixed
    BY DEF ReadEntries, Dropped, Without, Freed
  <1>3. /\ es \in Seq(RingEntries) /\ ToSet(es) \subseteq ToSet(ring)
        /\ counted = 0 => es = <<>>
    <2>1. ring \in Seq(RingEntries) /\ counted \in 0..Len(ring)
      BY <1>1 DEF FluidTypes
    <2>2. LET a == SubSeq(ring, 1, counted)  b == SubSeq(ring, counted + 1, Len(ring)) IN
          /\ a \in Seq(RingEntries) /\ b \in Seq(RingEntries) /\ Len(a) = counted /\ Len(b) = Len(ring) - counted
          /\ \A i \in 1..counted : a[i] = ring[i]
          /\ \A i \in 1..(Len(ring) - counted) : b[i] = ring[counted + i]
          /\ ToSet(a) \cup ToSet(b) = ToSet(ring)
          /\ IsInjective(ring) => IsInjective(a) /\ IsInjective(b) /\ ToSet(a) \cap ToSet(b) = {}
      BY <2>1, CutFacts, Zenon
    <2> QED BY <2>2
  <1> HIDE DEF es
  <1>4. /\ found \in Seq(RingEntries) /\ ToSet(found) \subseteq ToSet(ring)
        /\ \A i \in 1..Len(found) : found[i].slot \in SlotsIn(slots)
        /\ \A i, j \in 1..Len(found) : found[i].slot = found[j].slot => i = j
        /\ counted = 0 => found = <<>>
    BY <1>3, FindingFacts, MapOfSlots
  <1> HIDE DEF found
  <1>5. Len(found) \in Nat /\ DOMAIN found = 1..Len(found)
    BY <1>4
  <1>6. /\ ToSet(found) = {found[i] : i \in 1..Len(found)}
        /\ \A e \in ToSet(found) : e \in RingEntries /\ e.slot \in SlotsIn(slots)
        /\ \A x, y \in ToSet(found) : x.slot = y.slot => x = y
    <2>1. ToSet(found) = {found[i] : i \in 1..Len(found)}
      BY <1>5 DEF ToSet
    <2>2. \A i \in 1..Len(found) : found[i] \in RingEntries
      BY <1>4
    <2> QED BY <1>4, <2>1, <2>2
  <1>7. /\ emptied \in Seq(Parts) /\ IsInjective(emptied) /\ D = {e.slot : e \in ToSet(found)}
        /\ D \subseteq SlotsIn(slots)
        /\ counted = 0 => D = {}
    <2>1. \A i \in 1..Len(found) : emptied[i] = found[i].slot /\ emptied[i] \in Parts
      <3>1. SlotsIn(slots) \subseteq Parts
        BY <1>1, PacketFacts DEF KeptOnce
      <3> QED BY <1>4, <3>1
    <2>2. DOMAIN emptied = 1..Len(found)
      OBVIOUS
    <2>3. emptied \in [1..Len(found) -> Parts]
      BY <2>1
    <2> HIDE DEF emptied
    <2>4. emptied \in Seq(Parts)
      BY <1>5, <2>3
    <2>5. IsInjective(emptied)
      BY <1>4, <2>1, <2>2 DEF IsInjective
    <2>6. D = {emptied[i] : i \in 1..Len(found)}
      BY <2>2 DEF ToSet
    <2>7. D = {e.slot : e \in ToSet(found)}
      BY <1>6, <2>1, <2>6
    <2>8. counted = 0 => D = {}
      <3>1. found = <<>> => Len(found) = 0
        OBVIOUS
      <3> QED BY <1>4, <2>6, <3>1
    <2> QED BY <1>6, <2>4, <2>5, <2>7, <2>8
  <1> HIDE DEF D, emptied
  <1>8. /\ sucked \in Seq(RingEntries) /\ IsInjective(sucked)
        /\ ToSet(sucked) = {e \in ToSet(found) : e.port = Suction}
    <2> DEFINE into == {e \in ToSet(found) : e.port = Suction}
    <2>1. IsInjective(found)
      BY <1>4, <1>5 DEF IsInjective
    <2>2. ToSet(found) \cap into = into
      OBVIOUS
    <2> HIDE DEF into
    <2>3. /\ Only(found, into) \in Seq(RingEntries)
          /\ ToSet(Only(found, into)) = ToSet(found) \cap into
          /\ IsInjective(found) => IsInjective(Only(found, into))
      BY <1>4, OnlyFacts
    <2> QED BY <2>1, <2>2, <2>3 DEF into
  <1> HIDE DEF sucked
  <1>9. Len(sucked) \in Nat /\ DOMAIN sucked = 1..Len(sucked)
    BY <1>8
  <1>10. /\ \A s, t \in SlotsIn(slots) : PacketOf(s) = PacketOf(t) => s = t
         /\ \A s \in SlotsIn(slots) : /\ PacketOf(s) \in PacketsIn(slots) /\ PacketOf(s) \in Packets
                                      /\ PacketOf(s) = PacketIn(slots, s)
    <2>1. Matched(slots)
      BY <1>1 DEF KeptOnce
    <2> QED BY <2>1, MapOfSlots, PacketFacts
  <1>11. /\ S \in Seq(Packets) /\ IsInjective(S)
         /\ ToSet(S) = {PacketOf(e.slot) : e \in ToSet(sucked)}
    <2>1. \A i \in 1..Len(sucked) : sucked[i] \in ToSet(found) /\ sucked[i].slot \in SlotsIn(slots)
      <3>1. \A i \in 1..Len(sucked) : sucked[i] \in ToSet(sucked)
        BY <1>9 DEF ToSet
      <3> QED BY <1>6, <1>8, <3>1
    <2>2. \A i \in 1..Len(sucked) : S[i] = PacketOf(sucked[i].slot) /\ S[i] \in Packets
      BY <1>10, <2>1
    <2>3. DOMAIN S = 1..Len(sucked) /\ S \in [1..Len(sucked) -> Packets]
      BY <2>2
    <2> HIDE DEF S
    <2>4. S \in Seq(Packets)
      BY <1>9, <2>3
    <2>5. ASSUME NEW i \in 1..Len(sucked), NEW j \in 1..Len(sucked), S[i] = S[j] PROVE i = j
      <3>1. sucked[i] = sucked[j]
        BY <1>6, <1>10, <2>1, <2>2, <2>5
      <3> QED BY <1>8, <1>9, <3>1 DEF IsInjective
    <2>6. IsInjective(S)
      BY <2>3, <2>5 DEF IsInjective
    <2>7. ToSet(S) = {S[i] : i \in 1..Len(sucked)} /\ ToSet(sucked) = {sucked[i] : i \in 1..Len(sucked)}
      BY <1>9, <2>3 DEF ToSet
    <2>8. ToSet(S) = {PacketOf(e.slot) : e \in ToSet(sucked)}
      BY <2>2, <2>7
    <2> QED BY <2>4, <2>6, <2>8
  <1> HIDE DEF S
  <1>12. ToSet(S) \subseteq PacketsIn(slots)
    BY <1>6, <1>8, <1>10, <1>11
  <1>13. /\ h \in Seq(Packets) /\ IsInjective(h) /\ Len(h) <= HopperCap
         /\ ToSet(h) \cup d = ToSet(hopper) \cup ToSet(S) /\ ToSet(h) \cap d = {}
         /\ d \subseteq ToSet(S)
    <2>1. IsInjective(hopper) /\ ToSet(S) \cap ToSet(hopper) = {}
      BY <1>1, <1>12 DEF KeptOnce
    <2> QED BY <1>1, <1>11, <2>1, CarriedFacts
  <1> HIDE DEF h, d
  <1>14. /\ Matched(slots') /\ SlotsIn(slots') = SlotsIn(slots) \ D
         /\ PacketsIn(slots') = PacketsIn(slots) \ PacketsOf(slots, D)
         /\ \A s \in SlotsIn(slots') : PacketIn(slots', s) = PacketIn(slots, s)
         /\ \A s \in SlotsIn(slots') : \A t \in D : PacketIn(slots', s) # PacketIn(slots, t)
    <2>1. Matched(slots)
      BY <1>1 DEF KeptOnce
    <2>2. slots' = Freed(slots, D)
      BY <1>2
    <2> QED BY <1>7, <2>1, <2>2, FreedMap
  <1>15. /\ PacketsOf(slots, D) = {PacketOf(e.slot) : e \in ToSet(found)}
         /\ PacketsOf(slots, D) = ToSet(S) \cup Delivered(told)
         /\ ToSet(S) \cap Delivered(told) = {}
    <2>1. PacketsOf(slots, D) = {PacketOf(e.slot) : e \in ToSet(found)}
      <3>1. \A e \in ToSet(found) : PacketOf(e.slot) = PacketIn(slots, e.slot)
        BY <1>6, <1>10
      <3> QED BY <1>7, <3>1 DEF PacketsOf
    <2>2. Delivered(told) = {PacketOf(e.slot) : e \in ToSet(found) \ ToSet(sucked)}
      <3>1. \A e : <<PacketOf(e.slot), e.port>>[1] = PacketOf(e.slot)
        OBVIOUS
      <3> QED BY <3>1 DEF Delivered
    <2> HIDE DEF told
    <2>3. ToSet(sucked) \subseteq ToSet(found)
      BY <1>8
    <2>4. PacketsOf(slots, D) = ToSet(S) \cup Delivered(told)
      BY <1>11, <2>1, <2>2, <2>3
    <2>5. \A x, y \in ToSet(found) : PacketOf(x.slot) = PacketOf(y.slot) => x = y
      BY <1>6, <1>10
    <2>6. ToSet(S) \cap Delivered(told) = {}
      BY <1>11, <2>2, <2>3, <2>5
    <2> QED BY <2>1, <2>4, <2>6
  <1>16. /\ \A x, y \in told : x[1] = y[1] => x = y
         /\ told \subseteq Packets \X Outlets
         /\ counted = 0 => told = {} /\ d = {}
    <2>1. \A x, y \in ToSet(found) : PacketOf(x.slot) = PacketOf(y.slot) => x = y
      BY <1>6, <1>10
    <2>2. \A e \in ToSet(found) \ ToSet(sucked) : PacketOf(e.slot) \in Packets /\ e.port \in Outlets
      BY <1>6, <1>8, <1>10 DEF RingEntries
    <2>3. counted = 0 => ToSet(found) = {}
      <3>1. found = <<>> => Len(found) = 0
        OBVIOUS
      <3> QED BY <1>4, <1>6, <3>1
    <2>4. counted = 0 => ToSet(S) = {}
      BY <1>8, <1>11, <2>3
    <2> QED BY <1>13, <2>1, <2>2, <2>3, <2>4
  <1>17. \A e \in told : \E x \in ToSet(found) : e[1] = PacketOf(x.slot) /\ x.port \in Outlets
    BY <1>6, <1>8 DEF RingEntries
  <1> HIDE DEF told
  <1>18. taken = {} /\ Delivered({}) = {}
    BY <1>1, <1>2 DEF KeptOnce, Delivered
  <1>19. PacketsOf(slots, D) \subseteq PacketsIn(slots)
    BY <1>6, <1>10, <1>15
  <1>20. awaited' = PacketsIn(slots') \cup ToSet(hopper') \cup Delivered(told)
    <2>1. awaited = PacketsIn(slots) \cup ToSet(hopper) /\ PacketsIn(slots) \cap ToSet(hopper) = {}
      BY <1>1, <1>18 DEF KeptOnce
    <2> QED BY <1>2, <1>12, <1>13, <1>14, <1>15, <1>19, <2>1
  <1>21. FluidTypes'
    <2>1. freeSlots' \in Seq(Parts)
      BY <1>1, <1>2, <1>7, ConcatSet DEF FluidTypes
    <2>2. awaited' \subseteq Packets /\ expired' \subseteq awaited' /\ sunk' \subseteq awaited'
      BY <1>1, <1>2 DEF FluidTypes
    <2>3. ring' \in Seq(RingEntries) /\ Len(ring') <= Ring /\ counted' \in Nat /\ counted' <= Len(ring')
      <3>1. Ring \in Nat /\ Len(<<>>) = 0 /\ <<>> \in Seq(RingEntries)
        BY FluidAssumption
      <3> QED BY <1>1, <1>2, <3>1 DEF FluidTypes
    <2> QED BY <1>1, <1>2, <1>13, <1>16, <2>1, <2>2, <2>3 DEF FluidTypes
  <1>22. KeptOnce'
    <2>1. PacketsIn(slots) \cap ToSet(hopper) = {}
      BY <1>1 DEF KeptOnce
    <2>2. /\ PacketsIn(slots') \cap ToSet(hopper') = {}
          /\ PacketsIn(slots') \cap Delivered(told) = {}
          /\ ToSet(hopper') \cap Delivered(told) = {}
      BY <1>2, <1>13, <1>14, <1>15, <1>19, <2>1
    <2>3. reader' # "resetting" => taken' = {}
      BY <1>2, <1>16
    <2> QED BY <1>2, <1>13, <1>14, <1>16, <1>20, <2>2, <2>3 DEF KeptOnce
  <1>23. FreeRest'
    <2>1. /\ ToSet(freeSlots \o emptied) = ToSet(freeSlots) \cup D
          /\ IsInjective(freeSlots) /\ IsInjective(emptied) /\ ToSet(freeSlots) \cap D = {}
               => IsInjective(freeSlots \o emptied)
      BY <1>1, <1>7, ConcatSet DEF FluidTypes, D
    <2>2. ToSet(freeSlots) \cap D = {} /\ D \subseteq Parts
      <3>1. SlotsIn(slots) \subseteq Parts
        BY <1>1, PacketFacts DEF KeptOnce
      <3> QED BY <1>1, <1>7, <3>1 DEF FreeRest
    <2> QED BY <1>1, <1>2, <1>7, <1>14, <2>1, <2>2 DEF FreeRest
  <1>24. ASSUME ~mixed' PROVE OnGpu'
    <2>1. OnGpu
      BY <1>1, <1>2, <1>24
    <2>2. D \cap (alive \cup ToSet(poured)) = {}
      BY <1>4, <1>7, <2>1 DEF OnGpu
    <2>3. \A e \in told : e[1] \in sunk'
      <3> SUFFICES ASSUME NEW e \in told PROVE e[1] \in sunk'
        OBVIOUS
      <3>1. PICK x \in ToSet(found) : e[1] = PacketOf(x.slot) /\ x.port \in Outlets
        BY <1>17
      <3>2. e[1] \in sunk
        BY <1>4, <1>6, <1>10, <2>1, <3>1 DEF OnGpu
      <3>3. e[1] \notin d
        BY <1>13, <1>15 DEF Delivered
      <3> QED BY <1>2, <3>2, <3>3
    <2>4. ASSUME NEW e \in ToSet(ring')
          PROVE  /\ e.slot \in SlotsIn(slots') \ (alive' \cup ToSet(poured'))
                 /\ e.port \in Outlets => PacketIn(slots', e.slot) \in sunk'
      <3>1. CASE counted = 0
        <4>1. D = {} /\ d = {} /\ ring' = ring /\ sunk' = sunk
          BY <1>2, <1>7, <1>16, <3>1
        <4>2. e.slot \in SlotsIn(slots')
          BY <1>14, <2>1, <4>1 DEF OnGpu
        <4> QED BY <1>2, <1>14, <2>1, <4>1, <4>2 DEF OnGpu
      <3>2. CASE counted # 0
        BY <1>2, <3>2 DEF ToSet
      <3> QED BY <3>1, <3>2
    <2>5. IsInjective(poured') /\ alive' \cap ToSet(poured') = {}
      BY <1>2, <2>1 DEF OnGpu
    <2>6. ToSet(poured') \subseteq SlotsIn(slots') /\ alive' \subseteq SlotsIn(slots')
      BY <1>2, <1>14, <2>1, <2>2 DEF OnGpu
    <2> QED BY <1>2, <2>3, <2>4, <2>5, <2>6 DEF OnGpu
  <1> QED BY <1>21, <1>22, <1>23, <1>24 DEF FluidInv

(* Every step of the page and of the GPU keeps the invariant.              *)
LEMMA FluidStepKeeps ==
  ASSUME FluidInv, [FluidNext]_fluidVars
  PROVE  FluidInv'
  <1>1. FluidTypes /\ KeptOnce /\ FreeRest /\ (~mixed => OnGpu)
    BY DEF FluidInv
  <1>2. ASSUME NEW f \in Packets, Pour(f) PROVE FluidInv'
    <2> DEFINE fs == <<f>>
    <2>1. fs \in Seq(Packets) /\ IsInjective(fs) /\ ToSet(fs) = {f}
      BY DEF IsInjective, ToSet
    <2>2. /\ f \notin awaited /\ Poured(fs) /\ hopper' = hopper
          /\ UNCHANGED <<gpuVars, readVars, sweeper, mixed>>
      BY <1>2 DEF Pour
    <2> HIDE DEF fs
    <2>3. /\ hopper' \in Seq(Packets) /\ Len(hopper') <= HopperCap /\ IsInjective(hopper')
          /\ ToSet(hopper') \subseteq ToSet(hopper)
      BY <1>1, <2>2 DEF FluidTypes, KeptOnce
    <2>4. /\ ToSet(fs) \cap (PacketsIn(slots) \cup ToSet(hopper') \cup Delivered(taken)) = {}
          /\ awaited \cup ToSet(fs)
               = PacketsIn(slots) \cup ToSet(hopper') \cup Delivered(taken) \cup ToSet(fs)
      BY <1>1, <2>1, <2>2 DEF KeptOnce
    <2> QED BY <2>1, <2>2, <2>3, <2>4, PouredKeeps
  <1>3. ASSUME Dump PROVE FluidInv'
    <2>1. /\ hopper \in Seq(Packets) /\ IsInjective(hopper) /\ Poured(hopper) /\ hopper' = <<>>
          /\ UNCHANGED <<gpuVars, readVars, sweeper, mixed>>
      BY <1>1, <1>3 DEF Dump, FluidTypes, KeptOnce
    <2>2. ToSet(hopper') = {} /\ IsInjective(hopper') /\ Len(hopper') = 0 /\ hopper' \in Seq(Packets)
      BY <2>1 DEF ToSet, IsInjective
    <2>3. Len(hopper') <= HopperCap /\ ToSet(hopper') \subseteq ToSet(hopper)
      BY <2>2, FluidAssumption
    <2>4. /\ ToSet(hopper) \cap (PacketsIn(slots) \cup ToSet(hopper') \cup Delivered(taken)) = {}
          /\ awaited \cup ToSet(hopper)
               = PacketsIn(slots) \cup ToSet(hopper') \cup Delivered(taken) \cup ToSet(hopper)
      BY <1>1, <2>2 DEF KeptOnce
    <2> QED BY <2>1, <2>2, <2>3, <2>4, PouredKeeps
  <1>4. ASSUME NEW f \in Packets, Expire(f) PROVE FluidInv'
    <2>1. /\ expired' \subseteq awaited' /\ awaited' = awaited /\ sunk' = sunk
          /\ slots' = slots /\ freeSlots' = freeSlots /\ poured' = poured /\ hopper' = hopper
          /\ alive' = alive /\ ring' = ring /\ reader' = reader /\ counted' = counted
          /\ taken' = taken /\ mixed' = mixed
      BY <1>1, <1>4 DEF Expire, FluidTypes, gpuVars, readVars
    <2> QED BY <1>1, <2>1 DEF FluidInv, FluidTypes, KeptOnce, FreeRest, OnGpu
  <1>5. ASSUME Render PROVE FluidInv'
    <2> DEFINE dead == <<>>
    <2>1. dead \in Seq(Parts) /\ IsInjective(dead) /\ ToSet(dead) \subseteq SlotsIn(slots) /\ Rendered(dead)
      BY <1>5 DEF Render, IsInjective, ToSet
    <2> HIDE DEF dead
    <2> QED BY <2>1, RenderedKeeps
  <1>6. ASSUME RenderSwept PROVE FluidInv'
    <2>1. Matched(slots) /\ Rendered(Expiring)
      BY <1>1, <1>6 DEF RenderSwept, KeptOnce
    <2>2. /\ Expiring \in Seq(Parts) /\ IsInjective(Expiring)
          /\ ToSet(Expiring) \subseteq SlotsIn(slots)
      BY <2>1, ExpiringFacts
    <2> QED BY <2>1, <2>2, RenderedKeeps
  <1>7. ASSUME Fail PROVE FluidInv'
    <2>1. /\ expired' = expired /\ awaited' = awaited /\ sunk' = sunk
          /\ slots' = slots /\ freeSlots' = freeSlots /\ poured' = poured /\ hopper' = hopper
          /\ alive' = alive /\ ring' = ring /\ reader # "resetting" /\ counted' = 0
          /\ taken' = taken /\ mixed' = mixed
      BY <1>7 DEF Fail, gpuVars
    <2>2. counted' \in Nat /\ counted' <= Len(ring')
      BY <1>1, <2>1 DEF FluidTypes
    <2> QED BY <1>1, <2>1, <2>2 DEF FluidInv, FluidTypes, KeptOnce, FreeRest, OnGpu
  <1>8. ASSUME ReportTaken PROVE FluidInv'
    <2> DEFINE told == {e[1] : e \in taken}
    <2>1. /\ expired' = expired \ told /\ awaited' = awaited \ told /\ sunk' = sunk \ told
          /\ slots' = slots /\ freeSlots' = freeSlots /\ poured' = poured /\ hopper' = hopper
          /\ alive' = alive /\ ring' = ring /\ counted' = counted
          /\ taken' = {} /\ mixed' = mixed
      BY <1>8 DEF ReportTaken, gpuVars
    <2>2. told = Delivered(taken) /\ Delivered({}) = {}
      BY DEF Delivered
    <2> HIDE DEF told
    <2>3. FluidTypes'
      BY <1>1, <2>1 DEF FluidTypes
    <2>4. KeptOnce'
      BY <1>1, <2>1, <2>2 DEF KeptOnce
    <2>5. FreeRest'
      BY <1>1, <2>1 DEF FreeRest
    <2>6. ASSUME ~mixed' PROVE OnGpu'
      <3>1. OnGpu
        BY <1>1, <2>1, <2>6
      <3>2. \A s \in SlotsIn(slots) : PacketIn(slots, s) \notin told
        BY <1>1, <2>2, PacketFacts DEF KeptOnce
      <3> QED BY <2>1, <3>1, <3>2 DEF OnGpu
    <2> QED BY <2>3, <2>4, <2>5, <2>6 DEF FluidInv
  <1>9. ASSUME Cooled \/ RollOut \/ UNCHANGED fluidVars PROVE FluidInv'
    <2>1. /\ expired' = expired /\ awaited' = awaited /\ sunk' = sunk
          /\ slots' = slots /\ freeSlots' = freeSlots /\ poured' = poured /\ hopper' = hopper
          /\ alive' = alive /\ ring' = ring /\ counted' = counted
          /\ taken' = taken /\ mixed' = mixed
          /\ reader' = reader \/ reader = "cooling"
      BY <1>9 DEF Cooled, RollOut, fluidVars, gpuVars, readVars
    <2>2. KeptOnce'
      BY <1>1, <2>1 DEF KeptOnce
    <2> QED BY <1>1, <2>1, <2>2 DEF FluidInv, FluidTypes, FreeRest, OnGpu
  <1>10. ASSUME ReadEntries PROVE FluidInv'
    BY <1>10, ReadEntriesKeeps
  <1> QED
    <2>1. CASE FluidNext
      BY <1>2, <1>3, <1>4, <1>5, <1>6, <1>7, <1>8, <1>9, <1>10, <2>1 DEF FluidNext
    <2> QED BY <1>9, <2>1

(* At the start every slot is free and nothing is awaited.                 *)
LEMMA FluidInitially == FluidInit => FluidInv
  <1> SUFFICES ASSUME FluidInit PROVE FluidInv
    OBVIOUS
  <1>1. /\ awaited = {} /\ slots = <<>> /\ poured = <<>> /\ expired = {} /\ alive = {}
        /\ ring = <<>> /\ reader = "idle" /\ counted = 0 /\ taken = {} /\ hopper = <<>>
        /\ sunk = {} /\ mixed = FALSE
    BY DEF FluidInit
  <1>2. ToSet(<<>>) = {} /\ IsInjective(<<>>) /\ Len(<<>>) = 0 /\ \A E : <<>> \in Seq(E)
    BY DEF ToSet, IsInjective
  <1>3. /\ SlotsIn(slots) = {} /\ PacketsIn(slots) = {} /\ Delivered(taken) = {}
    BY <1>1, <1>2 DEF SlotsIn, PacketsIn, Delivered
  <1>4. freeSlots \in Seq(Parts) /\ IsInjective(freeSlots) /\ ToSet(freeSlots) = Parts
    <2>1. Particles \in Nat
      BY FluidAssumption
    <2>2. \A i \in Parts : /\ Particles + 1 - i \in Parts /\ freeSlots[i] = Particles + 1 - i
                           /\ Particles + 1 - (Particles + 1 - i) = i
      BY <2>1 DEF FluidInit, Parts
    <2>3. DOMAIN freeSlots = Parts /\ freeSlots = [i \in Parts |-> freeSlots[i]]
      BY DEF FluidInit
    <2>4. freeSlots \in Seq(Parts)
      <3>1. freeSlots \in [Parts -> Parts]
        BY <2>2, <2>3
      <3> QED BY <2>1, <3>1 DEF Parts
    <2>5. ASSUME NEW i \in Parts, NEW j \in Parts, freeSlots[i] = freeSlots[j] PROVE i = j
      BY <2>1, <2>2, <2>5 DEF Parts
    <2>6. IsInjective(freeSlots)
      BY <2>3, <2>5 DEF IsInjective
    <2>7. ASSUME NEW i \in Parts PROVE i \in ToSet(freeSlots)
      <3>1. freeSlots[Particles + 1 - i] = i /\ Particles + 1 - i \in Parts
        BY <2>2
      <3> QED BY <2>3, <3>1 DEF ToSet
    <2>8. ToSet(freeSlots) \subseteq Parts
      BY <2>2, <2>3 DEF ToSet
    <2> QED BY <2>4, <2>6, <2>7, <2>8
  <1>5. FluidTypes
    <2>1. Ring \in Nat /\ HopperCap \in Nat
      BY FluidAssumption
    <2>2. /\ poured \in Seq(Parts) /\ ring \in Seq(RingEntries) /\ hopper \in Seq(Packets)
          /\ Len(ring) = 0 /\ Len(hopper) = 0
      BY <1>1
    <2>3. Len(ring) <= Ring /\ Len(hopper) <= HopperCap /\ counted \in Nat /\ counted <= Len(ring)
      BY <1>1, <2>1, <2>2
    <2> QED BY <1>1, <1>4, <2>2, <2>3 DEF FluidTypes
  <1>6. Matched(slots)
    BY <1>1, <1>2 DEF Matched
  <1>7. KeptOnce
    BY <1>1, <1>2, <1>3, <1>6 DEF KeptOnce
  <1>8. FreeRest
    BY <1>3, <1>4 DEF FreeRest
  <1>9. OnGpu
    BY <1>1, <1>2, <1>3 DEF OnGpu
  <1> QED BY <1>5, <1>7, <1>8, <1>9 DEF FluidInv

(* What the invariant says of types, free slots and the GPU.               *)
LEMMA FluidHolds == FluidInv => FluidTypeOK /\ FreeOnce /\ GpuKnowsPackets
  <1> SUFFICES ASSUME FluidInv PROVE FluidTypeOK /\ FreeOnce /\ GpuKnowsPackets
    OBVIOUS
  <1>1. FluidTypes /\ KeptOnce /\ FreeRest /\ (~mixed => OnGpu) /\ SlotsIn(slots) = Taken
    BY MapOfSlots DEF FluidInv
  <1>2. FluidTypeOK
    BY <1>1 DEF FluidTypeOK, FluidTypes, KeptOnce, Matched, SlotEntries, RingEntries
  <1>3. FreeOnce
    BY <1>1 DEF FreeOnce, FreeRest
  <1>4. GpuKnowsPackets
    BY <1>1 DEF GpuKnowsPackets, OnGpu
  <1> QED BY <1>2, <1>3, <1>4

(* A packet is in one place: what KeptOnce says, counted.                  *)
LEMMA PacketInOnePlaceHolds == FluidInv => PacketInOnePlace
  <1> SUFFICES ASSUME FluidInv, NEW f \in Packets
               PROVE  Cardinality({i \in 1..Len(slots) : slots[i].packet = f})
                        + Cardinality({i \in 1..Len(hopper) : hopper[i] = f})
                        + Cardinality({e \in taken : e[1] = f}) = IF f \in awaited THEN 1 ELSE 0
    BY DEF PacketInOnePlace
  <1> DEFINE A == {i \in 1..Len(slots) : slots[i].packet = f}
             B == {i \in 1..Len(hopper) : hopper[i] = f}
             C == {e \in taken : e[1] = f}
  <1>1. FluidTypes /\ KeptOnce
    BY DEF FluidInv
  <1>2. /\ DOMAIN slots = 1..Len(slots) /\ DOMAIN hopper = 1..Len(hopper)
    BY <1>1 DEF FluidTypes, KeptOnce, Matched
  <1>3. AtMostOne(A)
    <2> SUFFICES ASSUME NEW i \in A, NEW j \in A PROVE i = j
      BY DEF AtMostOne
    <2>1. slots[i] \in ToSet(slots) /\ slots[j] \in ToSet(slots)
      BY <1>2 DEF ToSet
    <2>2. slots[i] = slots[j]
      BY <1>1, <2>1 DEF KeptOnce, Matched
    <2> QED BY <1>1, <1>2, <2>2 DEF KeptOnce, Matched, IsInjective
  <1>4. AtMostOne(B)
    BY <1>1, <1>2 DEF KeptOnce, IsInjective, AtMostOne
  <1>5. AtMostOne(C)
    BY <1>1 DEF KeptOnce, AtMostOne
  <1>6. A # {} <=> f \in PacketsIn(slots)
    BY <1>2 DEF PacketsIn, ToSet
  <1>7. B # {} <=> f \in ToSet(hopper)
    BY <1>2 DEF ToSet
  <1>8. C # {} <=> f \in Delivered(taken)
    BY DEF Delivered
  <1> HIDE DEF A, B, C
  <1>9. /\ Cardinality(A) = (IF A = {} THEN 0 ELSE 1)
        /\ Cardinality(B) = (IF B = {} THEN 0 ELSE 1)
        /\ Cardinality(C) = (IF C = {} THEN 0 ELSE 1)
    BY <1>3, <1>4, <1>5, CountOne
  <1>10. Cardinality(A) + Cardinality(B) + Cardinality(C) = IF f \in awaited THEN 1 ELSE 0
    BY <1>1, <1>6, <1>7, <1>8, <1>9 DEF KeptOnce
  <1> QED BY <1>10 DEF A, B, C

-----------------------------------------------------------------------------
(* All three parts: while one goes on, the others stand still.             *)

BallpitInv == BuildInv /\ BallInv /\ FluidInv

LEMMA BallpitInitially == Init => BallpitInv
  BY BuildInitially, BallInitially, FluidInitially DEF Init, BallpitInv

LEMMA BallpitStepKeeps ==
  ASSUME BallpitInv, [Next]_vars
  PROVE  BallpitInv'
  <1>1. BuildInv /\ BallInv /\ FluidInv
    BY DEF BallpitInv
  <1>2. [BallPitNext]_ballPitVars /\ [FluidNext]_fluidVars /\ [BuildNext]_buildVars
    BY DEF Next, InBalls, InFluid, InBuild, vars
  <1> QED BY <1>1, <1>2, BuildStepKeeps, BallStepKeeps, FluidStepKeeps DEF BallpitInv

(* The inductive invariant of the ballpit: the builder's site, the two     *)
(* threads of the balls, and the page and the GPU.                         *)
THEOREM BallpitSafety == Spec => []BallpitInv
  <1>1. BallpitInv /\ [Next]_vars => BallpitInv'
    BY BallpitStepKeeps
  <1> QED BY BallpitInitially, <1>1, PTL DEF Spec

(* Every variable of the three parts has its type; the sweep and the       *)
(* reading of the ring never give a slot back twice or lose one; and what  *)
(* lives on the GPU is a packet, and what is delivered did fall into a     *)
(* sink, unless a slot was swept while the GPU held on to it.              *)
THEOREM SlotsSoundAlways == Spec => []SlotsSound
  <1>1. BallpitInv => SlotsSound
    BY BuildInvFacts, BallTypeHolds, FluidHolds DEF BallpitInv, SlotsSound
  <1> QED BY <1>1, BallpitSafety, PTL

(* A packet the loft waits for is in one slot, the hopper, or among the    *)
(* deliveries about to be reported, whatever is read back, swept, vacuumed *)
(* and dumped when; and no other packet is kept at all.                    *)
THEOREM PacketInOnePlaceAlways == Spec => []PacketInOnePlace
  <1>1. BallpitInv => PacketInOnePlace
    BY PacketInOnePlaceHolds DEF BallpitInv
  <1> QED BY <1>1, BallpitSafety, PTL

(* A frame the loft waits for is about to be spawned, a ball, or reported  *)
(* gone, and never two of them: across the queue of messages from before   *)
(* the worker's world, its slots, and the reports on their way.            *)
THEOREM FrameInOnePlaceAlways == Spec => []FrameInOnePlace
  <1>1. BallpitInv => FrameInOnePlace
    BY FrameInOnePlaceHolds DEF BallpitInv
  <1> QED BY <1>1, BallpitSafety, PTL

(* Once nothing is on its way between them, the worker has the sinks that  *)
(* were built and the page shows the worker's balls, each in its slot.     *)
THEOREM ThreadsAgreeAlways == Spec => []ThreadsAgree
  <1>1. BallpitInv => ThreadsAgree
    BY ThreadsAgreeHolds DEF BallpitInv
  <1> QED BY <1>1, BallpitSafety, PTL

(* What stands in the physics world, runs as a belt and is stored is what  *)
(* the builder shows, however parts are placed on, erased, or built and    *)
(* taken away with the ports they are of.                                  *)
THEOREM PhysicsMirrorsAlways == Spec => []PhysicsMirrors
  <1>1. BallpitInv => PhysicsMirrors
    BY BuildInvFacts DEF BallpitInv
  <1> QED BY <1>1, BallpitSafety, PTL
=============================================================================
