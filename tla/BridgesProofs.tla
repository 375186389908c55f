---------------------------- MODULE BridgesProofs ----------------------------
(***************************************************************************)
(* Theorems about MCBridges and the four modules it composes: Link, for    *)
(* all sets of pages and every longest wait; Autoroute, for all hosts and  *)
(* any number of ports and waiting notices; SimBridge, for every number of *)
(* frames; and Shells, for all pods and any number of sessions and pieces  *)
(* of output.                                                              *)
(***************************************************************************)
EXTENDS MCBridges, FiniteSetTheorems, SequenceTheorems, TLAPS

-----------------------------------------------------------------------------
(* Link: its invariant.                                                    *)

(* A page whose socket is open has been live, and so does not fall back    *)
(* when its three seconds are over: without this OneSource is not          *)
(* inductive.                                                              *)
LinkInv ==
  /\ LinkTypeOK
  /\ OneSource
  /\ \A p \in Pages : socket[p] = "open" => everLive[p]

(* The parts of the invariant that speak of one page.                      *)
LEMMA FallBackFacts ==
  ASSUME LinkTypeOK, NEW p \in Pages, FallBack(p)
  PROVE  /\ shut' \in [Pages -> BOOLEAN] /\ triedSim' \in [Pages -> BOOLEAN]
         /\ bridge' \in [Pages -> {"ws", "sim"}]
         /\ \A q \in Pages \ {p} : shut'[q] = shut[q] /\ bridge'[q] = bridge[q]
         /\ \/ shut'[p] = shut[p] /\ bridge'[p] = bridge[p]
            \/ shut'[p] /\ bridge'[p] = "sim" /\ triedSim'[p] /\ ~triedSim[p] /\ ~everLive[p]
  <1>1. CASE everLive[p] \/ triedSim[p]
    BY <1>1 DEF FallBack, LinkTypeOK
  <1>2. CASE ~(everLive[p] \/ triedSim[p])
    BY <1>2 DEF FallBack, LinkTypeOK
  <1> QED BY <1>1, <1>2

(* The page that had the loft before loses it.                             *)
LEMMA OpensKeeps ==
  ASSUME LinkInv, NEW p \in Pages, Opens(p)
  PROVE  LinkInv'
  <1>1. LinkTypeOK'
    BY LinkAssumption DEF LinkInv, Opens, LinkTypeOK
  <1>2. OneSource'
    <2> SUFFICES ASSUME NEW q \in Pages
                 PROVE  /\ timer'[q] # NoTimer => socket'[q] = "none"
                        /\ bridge'[q] = "sim" => shut'[q] /\ socket'[q] \notin {"connecting", "open"}
                        /\ router' = q <=> socket'[q] = "open"
      BY DEF OneSource, NoTimer
    <2>1. /\ socket[p] = "connecting" /\ router' = p /\ UNCHANGED <<timer, bridge, shut>>
          /\ socket'[q] = IF q = p THEN "open" ELSE IF q = router THEN "lost" ELSE socket[q]
      BY DEF Opens
    <2>2. /\ \A r \in {p, q} :
               /\ timer[r] # NoTimer => socket[r] = "none"
               /\ bridge[r] = "sim" => shut[r] /\ socket[r] \notin {"connecting", "open"}
               /\ router = r <=> socket[r] = "open"
      BY DEF LinkInv, OneSource
    <2> QED BY <2>1, <2>2
  <1>3. \A q \in Pages : socket'[q] = "open" => everLive'[q]
    BY DEF LinkInv, Opens, LinkTypeOK
  <1> QED BY <1>1, <1>2, <1>3 DEF LinkInv

(* A closed socket may be the last straw before the sim.                   *)
LEMMA OnCloseKeeps ==
  ASSUME LinkInv, NEW p \in Pages, socket[p] \in {"connecting", "lost"}, OnClose(p)
  PROVE  LinkInv'
  <1>1. MaxWait \in Nat \ {0}
    BY LinkAssumption
  <1>2. CASE shut[p]
    BY <1>2 DEF LinkInv, OnClose, LinkTypeOK, OneSource, NoTimer
  <1>3. CASE ~shut[p]
    <2>1. /\ FallBack(p) /\ socket' = [socket EXCEPT ![p] = "none"]
          /\ timer' = [timer EXCEPT ![p] = retry[p]]
          /\ retry' = [retry EXCEPT ![p] = Later(retry[p])]
          /\ UNCHANGED <<loftUp, router, hurry, everLive, bumps>>
      BY <1>3 DEF OnClose
    <2>2. /\ shut' \in [Pages -> BOOLEAN] /\ triedSim' \in [Pages -> BOOLEAN]
          /\ bridge' \in [Pages -> {"ws", "sim"}]
          /\ \A q \in Pages \ {p} : shut'[q] = shut[q] /\ bridge'[q] = bridge[q]
          /\ \/ shut'[p] = shut[p] /\ bridge'[p] = bridge[p]
             \/ shut'[p] /\ bridge'[p] = "sim"
      BY <2>1, FallBackFacts DEF LinkInv
    <2>3. retry' \in [Pages -> 0..MaxWait] /\ timer' \in [Pages -> 0..NoTimer]
      BY <1>1, <2>1 DEF LinkInv, LinkTypeOK, Later, NoTimer
    <2>4. LinkTypeOK'
      BY <2>1, <2>2, <2>3 DEF LinkInv, LinkTypeOK
    <2>5. OneSource'
      BY <2>1, <2>2 DEF LinkInv, LinkTypeOK, OneSource
    <2> QED BY <2>1, <2>4, <2>5 DEF LinkInv, LinkTypeOK
  <1> QED BY <1>2, <1>3

(* The timer opens a socket only for a page that has none.                 *)
LEMMA TimerFiresKeeps ==
  ASSUME LinkInv, NEW p \in Pages, TimerFires(p)
  PROVE  LinkInv'
  <1>1. timer' \in [Pages -> 0..NoTimer]
    BY LinkAssumption DEF LinkInv, TimerFires, LinkTypeOK, NoTimer
  <1>2. CASE MayConnect(p)
    BY <1>1, <1>2 DEF LinkInv, TimerFires, LinkTypeOK, OneSource, MayConnect
  <1>3. CASE ~MayConnect(p)
    BY <1>1, <1>3 DEF LinkInv, TimerFires, LinkTypeOK, OneSource
  <1> QED BY <1>2, <1>3

(* Three seconds have gone by.                                             *)
LEMMA HurryFiresKeeps ==
  ASSUME LinkInv, NEW p \in Pages, HurryFires(p)
  PROVE  LinkInv'
  <1>1. /\ hurry' = [hurry EXCEPT ![p] = FALSE] /\ FallBack(p)
        /\ socket' = IF triedSim'[p] /\ ~triedSim[p] /\ socket[p] = "connecting"
                       THEN [socket EXCEPT ![p] = "lost"] ELSE socket
        /\ UNCHANGED <<loftUp, router, retry, timer, everLive, bumps>>
    BY DEF HurryFires
  <1>2. /\ shut' \in [Pages -> BOOLEAN] /\ triedSim' \in [Pages -> BOOLEAN]
        /\ bridge' \in [Pages -> {"ws", "sim"}]
        /\ \A q \in Pages \ {p} : shut'[q] = shut[q] /\ bridge'[q] = bridge[q]
        /\ \/ shut'[p] = shut[p] /\ bridge'[p] = bridge[p]
           \/ shut'[p] /\ bridge'[p] = "sim" /\ triedSim'[p] /\ ~triedSim[p] /\ ~everLive[p]
    BY <1>1, FallBackFacts DEF LinkInv
  <1>3. LinkTypeOK'
    BY <1>1, <1>2 DEF LinkInv, LinkTypeOK
  <1>4. OneSource'
    BY <1>1, <1>2 DEF LinkInv, LinkTypeOK, OneSource
  <1> QED BY <1>1, <1>3, <1>4 DEF LinkInv, LinkTypeOK

(* The loft goes and comes back.                                           *)
LEMMA LoftKeeps ==
  ASSUME LinkInv, LoftGoes \/ LoftComes \/ Peace
  PROVE  LinkInv'
  <1>1. CASE LoftGoes
    <2>1. LinkTypeOK'
      <3>1. socket' \in [Pages -> {"connecting", "open", "lost", "none"}]
        BY <1>1 DEF LinkInv, LoftGoes, LinkTypeOK
      <3>2. bumps' \in [Pages -> 0..2] /\ router' \in Pages \cup {NoPage}
        BY <1>1 DEF LoftGoes
      <3>3. loftUp' \in BOOLEAN
        BY <1>1, Zenon DEF LoftGoes
      <3>4. UNCHANGED <<shut, retry, timer, hurry, everLive, triedSim, bridge>>
        BY <1>1 DEF LoftGoes
      <3> QED BY <3>1, <3>2, <3>3, <3>4 DEF LinkInv, LinkTypeOK
    <2>2. \A p \in Pages : socket'[p] = IF p = router THEN "lost" ELSE socket[p]
      BY <1>1 DEF LoftGoes
    <2>3. OneSource'
      BY <1>1, <2>2, LinkAssumption DEF LinkInv, LoftGoes, OneSource, NoTimer
    <2>4. \A p \in Pages : socket'[p] = "open" => everLive'[p]
      BY <1>1, <2>2 DEF LinkInv, LoftGoes
    <2> QED BY <2>1, <2>3, <2>4 DEF LinkInv
  <1>2. CASE LoftComes
    BY <1>2 DEF LinkInv, LoftComes, LinkTypeOK, OneSource
  <1>3. CASE Peace
    BY <1>3 DEF LinkInv, Peace, LinkTypeOK, OneSource
  <1> QED BY <1>1, <1>2, <1>3

-----------------------------------------------------------------------------
(* Every page opens a socket first.                                        *)
LEMMA LinkInitial == LinkInit => LinkInv
  BY LinkAssumption DEF LinkInit, LinkInv, LinkTypeOK, OneSource, NoTimer

(* Every step keeps the invariant.                                         *)
LEMMA LinkInductive == LinkInv /\ [LinkNext]_linkVars => LinkInv'
  <1> SUFFICES ASSUME LinkInv, [LinkNext]_linkVars PROVE LinkInv'
    OBVIOUS
  <1>1. ASSUME NEW p \in Pages, Opens(p) PROVE LinkInv'
    BY <1>1, OpensKeeps
  <1>2. ASSUME NEW p \in Pages, Fails(p) \/ Closes(p) PROVE LinkInv'
    BY <1>2, OnCloseKeeps DEF Fails, Closes
  <1>3. ASSUME NEW p \in Pages, TimerFires(p) PROVE LinkInv'
    BY <1>3, TimerFiresKeeps
  <1>4. ASSUME NEW p \in Pages, HurryFires(p) PROVE LinkInv'
    BY <1>4, HurryFiresKeeps
  <1>5. CASE LoftGoes \/ LoftComes \/ Peace
    BY <1>5, LoftKeeps
  <1>6. CASE UNCHANGED linkVars
    BY <1>6 DEF linkVars, LinkInv, LinkTypeOK, OneSource
  <1> QED BY <1>1, <1>2, <1>3, <1>4, <1>5, <1>6 DEF LinkNext

-----------------------------------------------------------------------------
(* Autoroute: what its invariant is about.                                 *)

Addresses == Hosts \cup {Broadcast}

Tokens   == [t : {"token"}, src : Hosts, in : Ports, dst : Addresses]
Controls == [t : {"hello", "port-added", "port-removed"}, ports : SUBSET Ports]
Messages == Tokens \cup Controls

(* The messages of a queue that say something about a port.                *)
Mentions(q, i) == {k \in 1..Len(q) : q[k].t # "token" /\ i \in q[k].ports}

(* Of what the loft has still to say about a port, the last word is true;  *)
(* and where it has no more to say, the router knows.                      *)
LastWord(q, known, up) ==
  \A i \in Ports :
    /\ Mentions(q, i) = {} => (i \in known <=> i \in up)
    /\ \A k \in Mentions(q, i) :
         (\A l \in Mentions(q, i) : l <= k) => (q[k].t # "port-removed" <=> i \in up)

(* A token that waits came in at a port that is its host's, or nobody's    *)
(* any more; and none of a host that moved follows one of its new port.    *)
TokensTrue ==
  \A k \in 1..Len(notices) : notices[k].t = "token" =>
    /\ notices[k].dst # notices[k].src
    /\ \A h \in Hosts : at[h] = notices[k].in => h = notices[k].src
    /\ notices[k].src \in heard => notices[k].in = at[notices[k].src]
    /\ notices[k].in = at[notices[k].src] =>
         \A l \in k..Len(notices) :
           notices[l].t = "token" /\ notices[l].src = notices[k].src => notices[l].in = notices[k].in

(* The inductive invariant.                                                *)
RouteInv ==
  /\ AutorouteTypeOK /\ notices \in Seq(Messages) /\ ~missed
  /\ \A g, h \in Hosts : at[g] = at[h] /\ at[g] # Unknown => g = h
  /\ \A h \in heard : at[h] # Unknown /\ macTable[h] = at[h]
  /\ TokensTrue
  /\ IF attached THEN LastWord(notices, ports, Up) ELSE ports = {}

(* A message that is queued is the last.                                   *)
LEMMA QueuedFacts ==
  ASSUME NEW q \in Seq(Messages), NEW m \in Messages
  PROVE  /\ Append(q, m) \in Seq(Messages) /\ Len(q) \in Nat
         /\ Len(Append(q, m)) = Len(q) + 1
         /\ \A k \in 1..Len(q) : Append(q, m)[k] = q[k]
         /\ Append(q, m)[Len(q) + 1] = m
  OBVIOUS

(* When the oldest is handled, the others move up.                         *)
LEMMA HandledFacts ==
  ASSUME NEW q \in Seq(Messages), q # <<>>
  PROVE  /\ Head(q) \in Messages /\ Head(q) = q[1]
         /\ Tail(q) \in Seq(Messages) /\ Len(q) \in Nat /\ Len(q) > 0
         /\ Len(Tail(q)) = Len(q) - 1
         /\ \A k \in 1..(Len(q) - 1) : Tail(q)[k] = q[k + 1]
  OBVIOUS

(* The last word is kept by a token that is queued, and becomes that of a  *)
(* notice.                                                                 *)
LEMMA QueuedLastWord ==
  ASSUME NEW q \in Seq(Messages), NEW m \in Messages, NEW known, NEW up, NEW up2,
         LastWord(q, known, up),
         \/ m.t = "token" /\ up2 = up
         \/ \E j \in Ports : \/ m = Added(j) /\ up2 = up \cup {j}
                             \/ m = Removed(j) /\ up2 = up \ {j}
  PROVE  LastWord(Append(q, m), known, up2)
  <1> DEFINE r == Append(q, m)
  <1>1. /\ Len(q) \in Nat /\ Len(r) = Len(q) + 1
        /\ \A k \in 1..Len(q) : r[k] = q[k]
        /\ r[Len(q) + 1] = m
    BY QueuedFacts
  <1> HIDE DEF r
  <1> SUFFICES ASSUME NEW i \in Ports
               PROVE  /\ Mentions(r, i) = {} => (i \in known <=> i \in up2)
                      /\ \A k \in Mentions(r, i) :
                           (\A l \in Mentions(r, i) : l <= k) => (r[k].t # "port-removed" <=> i \in up2)
    BY DEF LastWord, r
  <1>2. /\ Mentions(q, i) = {} => (i \in known <=> i \in up)
        /\ \A k \in Mentions(q, i) :
             (\A l \in Mentions(q, i) : l <= k) => (q[k].t # "port-removed" <=> i \in up)
    BY DEF LastWord
  <1>3. \A k \in 1..Len(q) : k \in Mentions(r, i) <=> k \in Mentions(q, i)
    BY <1>1 DEF Mentions
  <1>4. CASE m.t # "token" /\ i \in m.ports
    <2>1. Len(q) + 1 \in Mentions(r, i)
      BY <1>1, <1>4 DEF Mentions
    <2>2. \A k \in Mentions(r, i) : (\A l \in Mentions(r, i) : l <= k) => k = Len(q) + 1
      BY <1>1, <2>1 DEF Mentions
    <2>3. m.t # "port-removed" <=> i \in up2
      BY <1>4 DEF Added, Removed
    <2> QED BY <1>1, <2>1, <2>2, <2>3
  <1>5. CASE ~(m.t # "token" /\ i \in m.ports)
    <2>1. Mentions(r, i) = Mentions(q, i)
      BY <1>1, <1>3, <1>5 DEF Mentions
    <2>2. i \in up2 <=> i \in up
      BY <1>5 DEF Added, Removed
    <2>3. \A k \in Mentions(q, i) : r[k] = q[k]
      BY <1>1 DEF Mentions
    <2> QED BY <1>2, <2>1, <2>2, <2>3
  <1> QED BY <1>4, <1>5

(* The last word is kept when the router handles the oldest message.       *)
LEMMA HandledLastWord ==
  ASSUME NEW q \in Seq(Messages), q # <<>>, NEW known, NEW up, NEW known2,
         LastWord(q, known, up),
         known2 = IF Head(q).t = "token" THEN known
                  ELSE IF Head(q).t = "port-removed" THEN known \ Head(q).ports
                  ELSE known \cup Head(q).ports
  PROVE  LastWord(Tail(q), known2, up)
  <1> DEFINE r == Tail(q)
             m == Head(q)
  <1>1. /\ m = q[1] /\ Len(q) \in Nat /\ Len(q) > 0 /\ Len(r) = Len(q) - 1
        /\ \A k \in 1..(Len(q) - 1) : r[k] = q[k + 1]
    BY HandledFacts
  <1>0. known2 = IF m.t = "token" THEN known ELSE IF m.t = "port-removed" THEN known \ m.ports
                 ELSE known \cup m.ports
    OBVIOUS
  <1> HIDE DEF r, m
  <1> SUFFICES ASSUME NEW i \in Ports
               PROVE  /\ Mentions(r, i) = {} => (i \in known2 <=> i \in up)
                      /\ \A k \in Mentions(r, i) :
                           (\A l \in Mentions(r, i) : l <= k) => (r[k].t # "port-removed" <=> i \in up)
    BY DEF LastWord, r
  <1>2. /\ Mentions(q, i) = {} => (i \in known <=> i \in up)
        /\ \A k \in Mentions(q, i) :
             (\A l \in Mentions(q, i) : l <= k) => (q[k].t # "port-removed" <=> i \in up)
    BY DEF LastWord
  <1>3. \A k \in 1..(Len(q) - 1) : k \in Mentions(r, i) <=> k + 1 \in Mentions(q, i)
    BY <1>1 DEF Mentions
  <1>4. \A l \in Mentions(q, i) : l = 1 \/ (l - 1 \in Mentions(r, i) /\ l \in Nat)
    BY <1>1, <1>3 DEF Mentions
  <1>5. \A k \in Mentions(r, i) : k \in 1..(Len(q) - 1)
    BY <1>1 DEF Mentions
  <1>6. CASE Mentions(r, i) = {}
    <2>1. CASE 1 \in Mentions(q, i)
      <3>1. \A l \in Mentions(q, i) : l <= 1
        BY <1>4, <1>6
      <3>2. m.t # "token" /\ i \in m.ports
        BY <1>1, <2>1 DEF Mentions
      <3> QED BY <1>0, <1>1, <1>2, <1>6, <2>1, <3>1, <3>2
    <2>2. CASE 1 \notin Mentions(q, i)
      <3>1. Mentions(q, i) = {}
        BY <1>4, <1>6, <2>2
      <3>2. ~(m.t # "token" /\ i \in m.ports)
        BY <1>1, <2>2 DEF Mentions
      <3> QED BY <1>0, <1>2, <1>6, <3>1, <3>2
    <2> QED BY <2>1, <2>2
  <1>7. ASSUME NEW k \in Mentions(r, i), \A l \in Mentions(r, i) : l <= k
        PROVE  r[k].t # "port-removed" <=> i \in up
    <2>1. k \in 1..(Len(q) - 1) /\ k + 1 \in Mentions(q, i) /\ r[k] = q[k + 1]
      BY <1>1, <1>3, <1>5
    <2>2. \A l \in Mentions(q, i) : l <= k + 1
      BY <1>1, <1>4, <1>5, <1>7, <2>1
    <2> QED BY <1>2, <2>1, <2>2
  <1> QED BY <1>6, <1>7

(* Up is a set of ports, and each is one host's.                           *)
LEMMA UpFacts ==
  ASSUME RouteInv
  PROVE  /\ Up \subseteq Ports /\ Unknown \notin Ports
         /\ \A h \in Hosts : at[h] # Unknown => at[h] \in Up
  BY AutorouteAssumption DEF RouteInv, AutorouteTypeOK, Up, Ports, Unknown

(* Nothing is said while the router is away.                               *)
LEMMA NoticeFacts ==
  ASSUME RouteInv, NEW m \in Messages, Notice(m)
  PROVE  /\ notices' \in Seq(Messages)
         /\ attached => notices' = Append(notices, m)
         /\ \/ notices' = notices
            \/ /\ Len(notices') = Len(notices) + 1 /\ Len(notices) \in Nat
               /\ \A k \in 1..Len(notices) : notices'[k] = notices[k]
               /\ notices'[Len(notices) + 1] = m
  <1>1. CASE attached
    <2>1. notices' = Append(notices, m) /\ notices \in Seq(Messages)
      BY <1>1 DEF Notice, RouteInv
    <2> QED BY <1>1, <2>1, QueuedFacts
  <1>2. CASE ~attached
    BY <1>2 DEF Notice, RouteInv
  <1> QED BY <1>1, <1>2

(* A port comes up that no host has, and of which no token speaks.         *)
LEMMA HostUpKeeps ==
  ASSUME RouteInv, NEW h \in Hosts, NEW i \in Ports, HostUp(h, i)
  PROVE  RouteInv'
  <1>1. /\ at[h] = Unknown /\ i \notin Up /\ at' = [at EXCEPT ![h] = i] /\ heard' = heard \ {h}
        /\ UNCHANGED <<attached, ports, macTable, missed>>
        /\ \A k \in 1..Len(notices) : notices[k].t = "token" => notices[k].in # i
    BY DEF HostUp, RouteInv
  <1>2. Added(i) \in Messages /\ Added(i).t # "token" /\ Notice(Added(i))
    BY DEF HostUp, Added, Messages, Controls
  <1>3. at \in [Hosts -> Ports \cup {Unknown}] /\ Unknown \notin Ports
    BY UpFacts DEF RouteInv, AutorouteTypeOK
  <1>4. \A g \in Hosts : at'[g] = IF g = h THEN i ELSE at[g]
    BY <1>1, <1>3
  <1>5. \A g \in Hosts : at[g] # i
    BY <1>1, <1>3, UpFacts
  <1>6. AutorouteTypeOK'
    BY <1>1 DEF RouteInv, AutorouteTypeOK
  <1>7. TokensTrue'
    <2> SUFFICES ASSUME NEW k \in 1..Len(notices'), notices'[k].t = "token"
                 PROVE  /\ notices'[k].dst # notices'[k].src
                        /\ \A g \in Hosts : at'[g] = notices'[k].in => g = notices'[k].src
                        /\ notices'[k].src \in heard' => notices'[k].in = at'[notices'[k].src]
                        /\ notices'[k].in = at'[notices'[k].src] =>
                             \A l \in k..Len(notices') :
                               notices'[l].t = "token" /\ notices'[l].src = notices'[k].src
                                 => notices'[l].in = notices'[k].in
      BY DEF TokensTrue
    <2>1. /\ k \in 1..Len(notices) /\ notices'[k] = notices[k]
          /\ \A l \in k..Len(notices') : notices'[l].t = "token" =>
               l \in k..Len(notices) /\ notices'[l] = notices[l]
      BY <1>2, NoticeFacts
    <2>2. notices[k] \in Tokens /\ notices[k].src \in Hosts /\ notices[k].in # i
      BY <1>1, <2>1 DEF RouteInv, Messages, Tokens, Controls
    <2>3. /\ notices[k].dst # notices[k].src
          /\ \A g \in Hosts : at[g] = notices[k].in => g = notices[k].src
          /\ notices[k].src \in heard => notices[k].in = at[notices[k].src]
          /\ notices[k].in = at[notices[k].src] =>
               \A l \in k..Len(notices) :
                 notices[l].t = "token" /\ notices[l].src = notices[k].src => notices[l].in = notices[k].in
      BY <2>1 DEF RouteInv, TokensTrue
    <2> QED BY <1>1, <1>4, <2>1, <2>2, <2>3
  <1>8. attached' => LastWord(notices', ports', Up')
    <2> SUFFICES ASSUME attached PROVE LastWord(notices', ports, Up')
      BY <1>1
    <2>1. Up' = Up \cup {i}
      BY <1>1, <1>3, <1>4 DEF Up
    <2>2. notices' = Append(notices, Added(i)) /\ notices \in Seq(Messages) /\ LastWord(notices, ports, Up)
      BY <1>2, NoticeFacts DEF RouteInv
    <2> QED BY <1>2, <2>1, <2>2, QueuedLastWord
  <1>9. notices' \in Seq(Messages)
    BY <1>2, NoticeFacts
  <1> QED BY <1>1, <1>3, <1>4, <1>5, <1>6, <1>7, <1>8, <1>9 DEF RouteInv, AutorouteTypeOK

(* The last word about a port that goes is that it went.                   *)
LEMMA HostDownKeeps ==
  ASSUME RouteInv, NEW h \in Hosts, HostDown(h)
  PROVE  RouteInv'
  <1>1. /\ at[h] # Unknown /\ at' = [at EXCEPT ![h] = Unknown] /\ heard' = heard \ {h}
        /\ Notice(Removed(at[h])) /\ UNCHANGED <<attached, ports, macTable, missed>>
    BY DEF HostDown
  <1>2. at \in [Hosts -> Ports \cup {Unknown}] /\ Unknown \notin Ports
    BY UpFacts DEF RouteInv, AutorouteTypeOK
  <1>3. PICK i \in Ports : i = at[h]
    BY <1>1, <1>2
  <1>4. Removed(i) \in Messages /\ Removed(i).t # "token" /\ Notice(Removed(i))
    BY <1>1, <1>3 DEF Removed, Messages, Controls
  <1>5. \A g \in Hosts : at'[g] = IF g = h THEN Unknown ELSE at[g]
    BY <1>1, <1>2
  <1>6. AutorouteTypeOK'
    BY <1>1 DEF RouteInv, AutorouteTypeOK
  <1>7. TokensTrue'
    <2> SUFFICES ASSUME NEW k \in 1..Len(notices'), notices'[k].t = "token"
                 PROVE  /\ notices'[k].dst # notices'[k].src
                        /\ \A g \in Hosts : at'[g] = notices'[k].in => g = notices'[k].src
                        /\ notices'[k].src \in heard' => notices'[k].in = at'[notices'[k].src]
                        /\ notices'[k].in = at'[notices'[k].src] =>
                             \A l \in k..Len(notices') :
                               notices'[l].t = "token" /\ notices'[l].src = notices'[k].src
                                 => notices'[l].in = notices'[k].in
      BY DEF TokensTrue
    <2>1. /\ k \in 1..Len(notices) /\ notices'[k] = notices[k]
          /\ \A l \in k..Len(notices') : notices'[l].t = "token" =>
               l \in k..Len(notices) /\ notices'[l] = notices[l]
      BY <1>4, NoticeFacts
    <2>2. notices[k] \in Tokens /\ notices[k].src \in Hosts /\ notices[k].in # Unknown
      BY <1>2, <2>1 DEF RouteInv, Messages, Tokens, Controls
    <2>3. /\ notices[k].dst # notices[k].src
          /\ \A g \in Hosts : at[g] = notices[k].in => g = notices[k].src
          /\ notices[k].src \in heard => notices[k].in = at[notices[k].src]
          /\ notices[k].in = at[notices[k].src] =>
               \A l \in k..Len(notices) :
                 notices[l].t = "token" /\ notices[l].src = notices[k].src => notices[l].in = notices[k].in
      BY <2>1 DEF RouteInv, TokensTrue
    <2> QED BY <1>1, <1>5, <2>1, <2>2, <2>3
  <1>8. attached' => LastWord(notices', ports', Up')
    <2> SUFFICES ASSUME attached PROVE LastWord(notices', ports, Up')
      BY <1>1
    <2>1. \A g \in Hosts : at[g] = i => g = h
      BY <1>2, <1>3 DEF RouteInv
    <2>2. Up' = Up \ {i}
      BY <1>2, <1>3, <1>5, <2>1 DEF Up
    <2>3. notices' = Append(notices, Removed(i)) /\ notices \in Seq(Messages) /\ LastWord(notices, ports, Up)
      BY <1>4, NoticeFacts DEF RouteInv
    <2> QED BY <1>4, <2>2, <2>3, QueuedLastWord
  <1>9. notices' \in Seq(Messages)
    BY <1>4, NoticeFacts
  <1> QED BY <1>1, <1>2, <1>5, <1>6, <1>7, <1>8, <1>9 DEF RouteInv, AutorouteTypeOK

(* A token says where its host is now.                                     *)
LEMMA SendsKeeps ==
  ASSUME RouteInv, NEW h \in Hosts, NEW d \in Addresses, Sends(h, d)
  PROVE  RouteInv'
  <1>1. /\ at[h] # Unknown /\ d # h /\ attached /\ Notice(Token(h, d))
        /\ UNCHANGED <<at, attached, ports, macTable, heard, missed>>
    BY DEF Sends
  <1> DEFINE m == Token(h, d)
  <1>2. at \in [Hosts -> Ports \cup {Unknown}] /\ Unknown \notin Ports
    BY UpFacts DEF RouteInv, AutorouteTypeOK
  <1>3. m \in Messages /\ m.t = "token" /\ m.src = h /\ m.in = at[h] /\ m.dst = d
    BY <1>1, <1>2 DEF Token, Messages, Tokens
  <1> HIDE DEF m
  <1>4. /\ notices' = Append(notices, m) /\ notices' \in Seq(Messages)
        /\ Len(notices) \in Nat /\ Len(notices') = Len(notices) + 1
        /\ \A k \in 1..Len(notices) : notices'[k] = notices[k]
        /\ notices'[Len(notices) + 1] = m
    <2>1. Notice(m)
      BY <1>1 DEF m
    <2> QED BY <1>1, <1>3, <2>1, QueuedFacts DEF Notice, RouteInv
  <1>5. TokensTrue'
    <2> SUFFICES ASSUME NEW k \in 1..Len(notices'), notices'[k].t = "token"
                 PROVE  /\ notices'[k].dst # notices'[k].src
                        /\ \A g \in Hosts : at[g] = notices'[k].in => g = notices'[k].src
                        /\ notices'[k].src \in heard => notices'[k].in = at[notices'[k].src]
                        /\ notices'[k].in = at[notices'[k].src] =>
                             \A l \in k..Len(notices') :
                               notices'[l].t = "token" /\ notices'[l].src = notices'[k].src
                                 => notices'[l].in = notices'[k].in
      BY <1>1 DEF TokensTrue
    <2>1. CASE k = Len(notices) + 1
      <3>1. notices'[k] = m /\ \A l \in k..Len(notices') : l = k
        BY <1>4, <2>1
      <3>2. \A g \in Hosts : at[g] = at[h] => g = h
        BY <1>1 DEF RouteInv
      <3> QED BY <1>1, <1>3, <3>1, <3>2
    <2>2. CASE k # Len(notices) + 1
      <3>1. k \in 1..Len(notices) /\ notices'[k] = notices[k]
        BY <1>4, <2>2
      <3>2. /\ notices[k].dst # notices[k].src
            /\ \A g \in Hosts : at[g] = notices[k].in => g = notices[k].src
            /\ notices[k].src \in heard => notices[k].in = at[notices[k].src]
            /\ notices[k].in = at[notices[k].src] =>
                 \A l \in k..Len(notices) :
                   notices[l].t = "token" /\ notices[l].src = notices[k].src => notices[l].in = notices[k].in
        BY <3>1 DEF RouteInv, TokensTrue
      <3>3. \A l \in k..Len(notices') :
              \/ l \in k..Len(notices) /\ notices'[l] = notices[l]
              \/ notices'[l] = m
        BY <1>4, <3>1
      <3> QED BY <1>3, <3>1, <3>2, <3>3
    <2> QED BY <2>1, <2>2
  <1>6. LastWord(notices', ports', Up')
    <2>1. Up' = Up /\ notices \in Seq(Messages) /\ LastWord(notices, ports, Up)
      BY <1>1 DEF Up, RouteInv
    <2> QED BY <1>1, <1>3, <1>4, <2>1, QueuedLastWord
  <1> QED BY <1>1, <1>4, <1>5, <1>6 DEF RouteInv, AutorouteTypeOK

(* The router comes and goes.                                              *)
LEMMA ConnectsKeeps ==
  ASSUME RouteInv, Connects \/ Disconnects
  PROVE  RouteInv'
  <1>1. CASE Connects
    <2>1. /\ notices' = <<Hello(Up)>> /\ attached' = TRUE
          /\ UNCHANGED <<at, ports, macTable, heard, missed>>
      BY <1>1 DEF Connects
    <2>2. Hello(Up) \in Messages /\ Hello(Up).t = "hello" /\ Hello(Up).ports = Up
      BY UpFacts DEF Hello, Messages, Controls
    <2>3. /\ notices' \in Seq(Messages) /\ Len(notices') = 1 /\ notices'[1] = Hello(Up)
      BY <2>1, <2>2
    <2>4. TokensTrue'
      BY <2>2, <2>3 DEF TokensTrue
    <2>5. ports = {} /\ Up' = Up
      BY <1>1, <2>1 DEF RouteInv, Connects, Up
    <2>6. LastWord(notices', ports', Up')
      BY <2>1, <2>2, <2>3, <2>5 DEF LastWord, Mentions
    <2> QED BY <2>1, <2>3, <2>4, <2>6, Zenon DEF RouteInv, AutorouteTypeOK
  <1>2. CASE Disconnects
    <2>1. /\ notices' = <<>> /\ attached' = FALSE /\ ports' = {}
          /\ UNCHANGED <<at, macTable, heard, missed>>
      BY <1>2 DEF Disconnects
    <2>2. TokensTrue'
      BY <2>1 DEF TokensTrue
    <2>3. notices' \in Seq(Messages)
      BY <2>1
    <2>4. AutorouteTypeOK'
      BY <2>1 DEF RouteInv, AutorouteTypeOK
    <2> QED BY <2>1, <2>2, <2>3, <2>4 DEF RouteInv
  <1> QED BY <1>1, <1>2

(* Of the tokens that wait, what is true stays so when the oldest message  *)
(* is handled.                                                             *)
LEMMA HandledTokens ==
  ASSUME RouteInv, notices # <<>>, notices' = Tail(notices), at' = at,
         \A h \in heard' \ heard : Head(notices).t = "token" /\ h = Head(notices).src
                                    /\ Head(notices).in = at[h]
  PROVE  TokensTrue'
  <1>1. /\ Head(notices) = notices[1] /\ Len(notices) \in Nat /\ Len(notices) > 0
        /\ Len(notices') = Len(notices) - 1
        /\ \A k \in 1..(Len(notices) - 1) : notices'[k] = notices[k + 1]
    BY HandledFacts DEF RouteInv
  <1> SUFFICES ASSUME NEW k \in 1..Len(notices'), notices'[k].t = "token"
               PROVE  /\ notices'[k].dst # notices'[k].src
                      /\ \A g \in Hosts : at[g] = notices'[k].in => g = notices'[k].src
                      /\ notices'[k].src \in heard' => notices'[k].in = at[notices'[k].src]
                      /\ notices'[k].in = at[notices'[k].src] =>
                           \A l \in k..Len(notices') :
                             notices'[l].t = "token" /\ notices'[l].src = notices'[k].src
                               => notices'[l].in = notices'[k].in
    BY DEF TokensTrue
  <1> DEFINE n == notices[k + 1]
  <1>2. k + 1 \in 1..Len(notices) /\ notices'[k] = n /\ n.t = "token"
    BY <1>1
  <1>3. /\ n.dst # n.src
        /\ \A g \in Hosts : at[g] = n.in => g = n.src
        /\ n.src \in heard => n.in = at[n.src]
        /\ n.in = at[n.src] =>
             \A l \in (k + 1)..Len(notices) :
               notices[l].t = "token" /\ notices[l].src = n.src => notices[l].in = n.in
    BY <1>2 DEF RouteInv, TokensTrue
  <1>4. \A l \in k..Len(notices') : l + 1 \in (k + 1)..Len(notices) /\ notices'[l] = notices[l + 1]
    BY <1>1
  <1>5. ASSUME n.src \in heard' \ heard PROVE n.in = at[n.src]
    <2>1. notices[1].t = "token" /\ notices[1].src = n.src /\ notices[1].in = at[n.src]
      BY <1>1, <1>5
    <2>2. 1 \in 1..Len(notices) /\ k + 1 \in 1..Len(notices)
      BY <1>1, <1>2
    <2>3. \A l \in 1..Len(notices) :
            notices[l].t = "token" /\ notices[l].src = notices[1].src => notices[l].in = notices[1].in
      BY <2>1, <2>2 DEF RouteInv, TokensTrue
    <2> QED BY <1>2, <2>1, <2>2, <2>3
  <1> HIDE DEF n
  <1> QED BY <1>2, <1>3, <1>4, <1>5

(* A frame for a host that was heard goes out of the host's port: the      *)
(* table says so, unless the frame came in there.                          *)
LEMMA OnTokenKeeps ==
  ASSUME RouteInv, OnToken
  PROVE  RouteInv'
  <1> DEFINE m == Head(notices)
  <1>1. /\ attached /\ notices # <<>> /\ m.t = "token" /\ notices' = Tail(notices)
        /\ macTable' = Learned(m.src, m.in)
        /\ heard' = IF at[m.src] = m.in THEN heard \cup {m.src} ELSE heard
        /\ missed' = (missed \/ (m.dst \in heard /\ at[m.dst] \notin Routed(m)))
        /\ UNCHANGED <<at, attached, ports>>
    BY DEF OnToken
  <1>2. /\ m \in Messages /\ m = notices[1] /\ 1 \in 1..Len(notices)
        /\ notices' \in Seq(Messages)
    BY <1>1, HandledFacts DEF RouteInv
  <1>3. m.src \in Hosts /\ m.in \in Ports /\ m.dst \in Addresses
    BY <1>1, <1>2 DEF Messages, Tokens, Controls
  <1>4. /\ m.dst # m.src
        /\ \A h \in Hosts : at[h] = m.in => h = m.src
        /\ m.src \in heard => m.in = at[m.src]
    BY <1>1, <1>2 DEF RouteInv, TokensTrue
  <1>5. /\ macTable \in [Addresses -> Ports \cup {Unknown}] /\ heard \subseteq Hosts
        /\ at \in [Hosts -> Ports \cup {Unknown}] /\ Unknown \notin Ports
    BY UpFacts DEF RouteInv, AutorouteTypeOK, Addresses
  <1>6. \A h \in heard' \ heard : m.t = "token" /\ h = m.src /\ m.in = at[h]
    BY <1>1
  <1>7. TokensTrue'
    BY <1>1, <1>6, HandledTokens
  <1>8. LastWord(notices', ports', Up')
    <2>1. LastWord(notices, ports, Up) /\ Up' = Up /\ notices \in Seq(Messages)
      BY <1>1 DEF RouteInv, Up
    <2> QED BY <1>1, <2>1, HandledLastWord
  <1> HIDE DEF m
  <1>9. \A a \in Addresses : macTable'[a] = IF a = m.src THEN m.in ELSE macTable[a]
    BY <1>1, <1>3, <1>5 DEF Learned, Addresses
  <1>10. macTable' \in [Hosts \cup {Broadcast} -> Ports \cup {Unknown}]
    BY <1>1, <1>3, <1>5 DEF Learned, Addresses
  <1>11. \A h \in heard' : at[h] # Unknown /\ macTable'[h] = at[h] /\ h \in Hosts
    BY <1>1, <1>3, <1>4, <1>5, <1>9 DEF RouteInv, Addresses
  <1>12. ASSUME m.dst \in heard PROVE at[m.dst] \in Routed(m)
    <2>1. at[m.dst] # m.in /\ at[m.dst] # Unknown /\ macTable[m.dst] = at[m.dst]
      BY <1>4, <1>5, <1>12 DEF RouteInv
    <2>2. Learned(m.src, m.in)[m.dst] = at[m.dst]
      BY <1>1, <1>3, <1>4, <1>9, <2>1
    <2> QED BY <2>1, <2>2 DEF Routed, Forwards
  <1>13. ~missed'
    BY <1>1, <1>12, Zenon DEF RouteInv
  <1>14. AutorouteTypeOK'
    BY <1>1, <1>10, <1>11 DEF RouteInv, AutorouteTypeOK
  <1> QED BY <1>1, <1>2, <1>7, <1>8, <1>11, <1>13, <1>14 DEF RouteInv

(* A notice that is handled is not waiting any more.                       *)
LEMMA OnControlKeeps ==
  ASSUME RouteInv, OnControl
  PROVE  RouteInv'
  <1> DEFINE m == Head(notices)
  <1>1. /\ attached /\ notices # <<>> /\ m.t # "token" /\ notices' = Tail(notices)
        /\ ports' = IF m.t = "port-removed" THEN ports \ m.ports ELSE ports \cup m.ports
        /\ UNCHANGED <<at, attached, macTable, heard, missed>>
    BY DEF OnControl
  <1>2. m \in Messages /\ notices' \in Seq(Messages)
    BY <1>1, HandledFacts DEF RouteInv
  <1>3. m.ports \subseteq Ports
    BY <1>1, <1>2 DEF Messages, Tokens, Controls
  <1>4. TokensTrue'
    BY <1>1, HandledTokens
  <1>5. LastWord(notices', ports', Up')
    <2>1. LastWord(notices, ports, Up) /\ Up' = Up /\ notices \in Seq(Messages)
      BY <1>1 DEF RouteInv, Up
    <2> QED BY <1>1, <2>1, HandledLastWord
  <1>6. AutorouteTypeOK'
    BY <1>1, <1>3 DEF RouteInv, AutorouteTypeOK
  <1> QED BY <1>1, <1>2, <1>4, <1>5, <1>6 DEF RouteInv

-----------------------------------------------------------------------------
(* Nothing waits at first.                                                 *)
LEMMA RouteInitial == AutorouteInit => RouteInv
  <1> SUFFICES ASSUME AutorouteInit PROVE RouteInv
    OBVIOUS
  <1>1. notices = <<>> /\ notices \in Seq(Messages)
    BY DEF AutorouteInit
  <1>2. TokensTrue
    BY <1>1 DEF TokensTrue
  <1>3. AutorouteTypeOK
    BY DEF AutorouteInit, AutorouteTypeOK
  <1> QED BY <1>1, <1>2, <1>3 DEF AutorouteInit, RouteInv

(* The sim's loft has two pods, and its router knows their ports.          *)
LEMMA SimRouteInitial == SimInit => RouteInv
  <1> SUFFICES ASSUME SimInit PROVE RouteInv
    OBVIOUS
  <1>1. /\ notices = <<>> /\ at = Port /\ ports = {1, 2} /\ attached = TRUE /\ missed = FALSE
        /\ heard = {} /\ macTable = [h \in Hosts \cup {Broadcast} |-> Unknown]
    BY DEF SimInit
  <1>2. notices \in Seq(Messages) /\ Len(notices) = 0
    BY <1>1
  <1>3. TokensTrue
    BY <1>2 DEF TokensTrue
  <1>4. {1, 2} \subseteq Ports /\ Unknown \notin {1, 2}
    BY SimAssumption, AutorouteAssumption DEF Ports, Unknown
  <1>5. AutorouteTypeOK
    BY <1>1, <1>4 DEF AutorouteTypeOK, Port
  <1>6. Up = {1, 2}
    BY <1>1, <1>4, SimAssumption DEF Up, Port
  <1>7. LastWord(notices, ports, Up)
    BY <1>1, <1>2, <1>6 DEF LastWord, Mentions
  <1>8. \A g, h \in Hosts : at[g] = at[h] => g = h
    BY <1>1, SimAssumption DEF Port
  <1> QED BY <1>1, <1>2, <1>3, <1>5, <1>7, <1>8 DEF RouteInv

(* Every step keeps the invariant.                                         *)
LEMMA RouteInductive == RouteInv /\ [AutorouteNext]_autorouteVars => RouteInv'
  <1> SUFFICES ASSUME RouteInv, [AutorouteNext]_autorouteVars PROVE RouteInv'
    OBVIOUS
  <1>1. CASE UNCHANGED autorouteVars
    <2>1. TokensTrue' /\ Up' = Up
      BY <1>1 DEF autorouteVars, RouteInv, TokensTrue, Up
    <2> QED BY <1>1, <2>1 DEF autorouteVars, RouteInv, AutorouteTypeOK
  <1> QED BY <1>1, HostUpKeeps, HostDownKeeps, SendsKeeps, ConnectsKeeps, OnTokenKeeps, OnControlKeeps
          DEF AutorouteNext, Addresses

(* Once the loft has no more to say, the router knows what is up.          *)
LEMMA RouteFollows == RouteInv => HeardIsReached
  <1> SUFFICES ASSUME RouteInv, attached, notices = <<>> PROVE ports = Up
    BY DEF RouteInv, HeardIsReached
  <1>1. \A i \in Ports : Mentions(notices, i) = {}
    BY DEF Mentions
  <1>2. \A i \in Ports : i \in ports <=> i \in Up
    BY <1>1 DEF RouteInv, LastWord
  <1> QED BY <1>2, UpFacts DEF RouteInv, AutorouteTypeOK

-----------------------------------------------------------------------------
(* SimBridge: what its invariant is about.                                 *)

PodStates == [arpCache : BOOLEAN, due : [Answers -> 0..2], pings : 0..4, won : BOOLEAN]

(* What must have happened before a frame of a kind is sent.               *)
Caused(k) ==
  /\ k = "is-at"      => "who-has" \in arrived
  /\ k = "echo"       => pods.arpCache
  /\ k = "echo reply" => "echo" \in arrived

(* Nothing is answered that was not asked, whichever frames are held up.   *)
Story ==
  /\ \A f \in Buffered : Caused(held[f])
  /\ \A k \in arrived : Caused(k)
  /\ \A k \in Answers : pods.due[k] > 0 => Caused(k)
  /\ pods.arpCache => "is-at" \in arrived
  /\ pods.pings > 0 \/ pods.won => "echo reply" \in arrived

SimInv ==
  /\ held \in [FrameIds -> Kinds \cup {NoKind}] /\ arrived \subseteq Kinds
  /\ IsFiniteSet(Buffered) /\ Cardinality(Buffered) <= Limit + 1
  /\ pods \in PodStates /\ Story

(* A frame that goes out of some ports may change its receiver.            *)
LEMMA DeliveredKeeps ==
  ASSUME SimInv, NEW s \in PodStates, NEW k \in Kinds, NEW out, Caused(k), Delivered(s, k, out),
         s.arpCache = pods.arpCache, s.pings = pods.pings, s.won = pods.won,
         \A a \in Answers : s.due[a] > 0 => pods.due[a] > 0,
         held' \in [FrameIds -> Kinds \cup {NoKind}],
         \A f \in Buffered' : f \in Buffered /\ held'[f] = held[f]
  PROVE  pods' \in PodStates /\ arrived' \subseteq Kinds /\ Story'
  <1>1. /\ pods' = Received(s, k, out)
        /\ arrived' = IF Reaches(k, out) THEN arrived \cup {k} ELSE arrived
    BY DEF Delivered
  <1>2. s.due \in [Answers -> 0..2] /\ s.pings \in 0..4 /\ s.won \in BOOLEAN /\ s.arpCache \in BOOLEAN
    BY DEF PodStates
  <1>3. arrived \subseteq Kinds /\ arrived' \subseteq Kinds /\ arrived \subseteq arrived'
    BY <1>1 DEF SimInv
  <1>4. /\ pods' \in PodStates
        /\ pods'.arpCache = (s.arpCache \/ (Reaches(k, out) /\ k = "is-at"))
        /\ \A a \in Answers : pods'.due[a] > 0 =>
             s.due[a] > 0 \/ (Reaches(k, out) /\ k \in DOMAIN Answer /\ a = Answer[k])
        /\ pods'.pings > 0 \/ pods'.won =>
             s.pings > 0 \/ s.won \/ (Reaches(k, out) /\ k = "echo reply")
    <2>1. CASE ~Reaches(k, out)
      BY <1>1, <1>2, <2>1 DEF Received
    <2>2. CASE Reaches(k, out) /\ k \in DOMAIN Answer
      <3>1. k \notin Answers /\ k # "is-at" /\ k # "echo reply" /\ Answer[k] \in Answers
        BY <2>2 DEF Answer, Answers
      <3>2. PICK a \in Answers : a = Answer[k]
        BY <3>1
      <3>3. pods' = [s EXCEPT !.due[Answer[k]] = IF @ < 2 THEN @ + 1 ELSE @]
        BY <1>1, <2>2, <3>1 DEF Received
      <3>4. pods' = [s EXCEPT !.due = [s.due EXCEPT ![a] = IF s.due[a] < 2 THEN s.due[a] + 1 ELSE s.due[a]]]
        BY <3>2, <3>3
      <3>5. [s.due EXCEPT ![a] = IF s.due[a] < 2 THEN s.due[a] + 1 ELSE s.due[a]] \in [Answers -> 0..2]
        BY <1>2
      <3>6. /\ pods' \in PodStates /\ pods'.arpCache = s.arpCache /\ pods'.pings = s.pings
            /\ pods'.won = s.won
            /\ \A b \in Answers : pods'.due[b] > 0 => s.due[b] > 0 \/ b = a
        BY <1>2, <3>4, <3>5 DEF PodStates
      <3> QED BY <1>2, <2>2, <3>1, <3>2, <3>6
    <2>3. CASE Reaches(k, out) /\ k = "is-at"
      <3>1. pods' = [s EXCEPT !.arpCache = TRUE]
        BY <1>1, <2>3 DEF Received, Answer
      <3> QED BY <1>2, <2>3, <3>1 DEF PodStates
    <2>4. CASE Reaches(k, out) /\ k = "echo reply"
      <3> DEFINE n == IF s.pings < 4 THEN s.pings + 1 ELSE s.pings
      <3>1. pods' = Milestone([s EXCEPT !.pings = n])
        BY <1>1, <2>4 DEF Received, Answer
      <3>2. n \in 0..4
        BY <1>2
      <3> HIDE DEF n
      <3>3. /\ [s EXCEPT !.pings = n] \in PodStates /\ [s EXCEPT !.pings = n].arpCache = s.arpCache
            /\ [s EXCEPT !.pings = n].due = s.due
        BY <3>2 DEF PodStates
      <3>4. pods' \in PodStates /\ pods'.arpCache = s.arpCache /\ pods'.due = s.due
        BY <3>1, <3>3 DEF PodStates, Milestone
      <3> QED BY <1>2, <2>4, <3>4
    <2>5. CASE Reaches(k, out) /\ k \notin DOMAIN Answer \cup {"is-at", "echo reply"}
      <3>1. pods' = s
        BY <1>1, <2>5 DEF Received
      <3> QED BY <1>2, <2>5, <3>1
    <2> QED BY <2>1, <2>2, <2>3, <2>4, <2>5
  <1>5. \A j : Caused(j) => Caused(j)'
    BY <1>3, <1>4 DEF Caused
  <1>6. \A a \in Answers : pods'.due[a] > 0 => Caused(a)'
    <2> SUFFICES ASSUME NEW a \in Answers, pods'.due[a] > 0 PROVE Caused(a)'
      OBVIOUS
    <2>1. CASE s.due[a] > 0
      BY <1>5, <2>1 DEF SimInv, Story
    <2>2. CASE Reaches(k, out) /\ k \in DOMAIN Answer /\ a = Answer[k]
      BY <1>1, <2>2 DEF Caused, Answer
    <2> QED BY <1>4, <2>1, <2>2
  <1>7. \A f \in Buffered' : Caused(held[f])'
    <2> SUFFICES ASSUME NEW f \in Buffered' PROVE Caused(held[f])'
      OBVIOUS
    <2>1. PICK j : j = held[f]
      OBVIOUS
    <2>2. Caused(j) /\ held'[f] = j
      BY <2>1 DEF SimInv, Story
    <2>3. Caused(j)'
      BY <1>5, <2>2
    <2> QED BY <2>2, <2>3 DEF Caused
  <1>8. \A j \in arrived' : Caused(j)'
    BY <1>1, <1>5 DEF SimInv, Story
  <1>9. /\ pods'.arpCache => "is-at" \in arrived'
        /\ pods'.pings > 0 \/ pods'.won => "echo reply" \in arrived'
    BY <1>1, <1>3, <1>4 DEF SimInv, Story
  <1> QED BY <1>3, <1>4, <1>6, <1>7, <1>8, <1>9 DEF Story

(* A frame is dropped at the full buffer, is held, or goes out at once.    *)
LEMMA SentKeeps ==
  ASSUME SimInv, NEW s \in PodStates, NEW k \in Kinds, Caused(k), Sent(s, k),
         s.arpCache = pods.arpCache, s.pings = pods.pings, s.won = pods.won,
         \A a \in Answers : s.due[a] > 0 => pods.due[a] > 0
  PROVE  SimInv'
  <1>1. CASE Full /\ pods' = s /\ UNCHANGED <<macTable, held, arrived>>
    <2>1. \A j : Caused(j)' <=> Caused(j)
      BY <1>1 DEF Caused
    <2>2. Buffered' = Buffered
      BY <1>1 DEF Buffered
    <2> QED BY <1>1, <2>1, <2>2 DEF SimInv, Story, Caused
  <1>2. CASE /\ ~Full /\ \E f \in FrameIds \ Buffered : held' = [held EXCEPT ![f] = k]
             /\ pods' = s /\ UNCHANGED <<macTable, arrived>>
    <2>1. PICK f \in FrameIds \ Buffered : held' = [held EXCEPT ![f] = k]
      BY <1>2
    <2>2. held' \in [FrameIds -> Kinds \cup {NoKind}] /\ held'[f] = k
          /\ \A g \in FrameIds \ {f} : held'[g] = held[g]
      BY <2>1 DEF SimInv
    <2>3. Buffered' \subseteq Buffered \cup {f}
      BY <2>2 DEF Buffered
    <2>4. /\ IsFiniteSet(Buffered \cup {f})
          /\ Cardinality(Buffered \cup {f}) = Cardinality(Buffered) + 1
          /\ Cardinality(Buffered) \in Nat
      BY <2>1, FS_AddElement, FS_CardinalityType DEF SimInv
    <2>5. /\ IsFiniteSet(Buffered') /\ Cardinality(Buffered') <= Cardinality(Buffered \cup {f})
          /\ Cardinality(Buffered') \in Nat
      BY <2>3, <2>4, FS_Subset, FS_CardinalityType
    <2>6. Limit \in Nat /\ Cardinality(Buffered) <= Limit
      BY <1>2, <2>4, SimAssumption DEF Full
    <2>7. Cardinality(Buffered') <= Limit + 1
      BY <2>4, <2>5, <2>6
    <2>8. \A j : Caused(j)' <=> Caused(j)
      BY <1>2 DEF Caused
    <2>9. \A g \in Buffered' : Caused(held[g])'
      <3> SUFFICES ASSUME NEW g \in Buffered' PROVE Caused(held[g])'
        OBVIOUS
      <3>1. PICK j : j = held'[g]
        OBVIOUS
      <3>2. Caused(j)
        BY <2>2, <2>3, <3>1 DEF SimInv, Story, Buffered
      <3> QED BY <2>8, <3>1, <3>2 DEF Caused
    <2>10. Story'
      BY <1>2, <2>8, <2>9 DEF SimInv, Story
    <2> QED BY <1>2, <2>2, <2>5, <2>7, <2>10 DEF SimInv
  <1>3. CASE Delivered(s, k, Routed(Papers(k))) /\ UNCHANGED held
    <2>1. Buffered' = Buffered /\ held' \in [FrameIds -> Kinds \cup {NoKind}]
      BY <1>3 DEF Buffered, SimInv
    <2>2. \A f \in Buffered' : f \in Buffered /\ held'[f] = held[f]
      BY <1>3, <2>1
    <2>3. pods' \in PodStates /\ arrived' \subseteq Kinds /\ Story'
      BY <1>3, <2>1, <2>2, DeliveredKeeps
    <2> QED BY <2>1, <2>3 DEF SimInv
  <1> QED BY <1>1, <1>2, <1>3 DEF Sent

(* What the benchmark learns is a port of the sim.                         *)
LEMMA SentLearns ==
  ASSUME NEW s, NEW k \in Kinds, Sent(s, k),
         macTable \in [Hosts \cup {Broadcast} -> Ports \cup {Unknown}]
  PROVE  macTable' \in [Hosts \cup {Broadcast} -> Ports \cup {Unknown}]
  <1>1. Port[From(k)] \in Ports /\ From(k) \in Hosts
    BY SimAssumption, AutorouteAssumption DEF From, Port, Ports
  <1>2. Learned(From(k), Port[From(k)]) \in [Hosts \cup {Broadcast} -> Ports \cup {Unknown}]
    BY <1>1 DEF Learned
  <1> QED BY <1>2 DEF Sent, Papers

(* Every step of the sim keeps its invariant, and the router's table a table. *)
LEMMA SimSteps ==
  ASSUME SimInv, SimNext, macTable \in [Hosts \cup {Broadcast} -> Ports \cup {Unknown}]
  PROVE  SimInv' /\ UNCHANGED outside
         /\ macTable' \in [Hosts \cup {Broadcast} -> Ports \cup {Unknown}]
  <1>0. pods \in PodStates /\ pods.due \in [Answers -> 0..2]
    BY DEF SimInv, PodStates
  <1>1. CASE AliceTick
    <2>1. NextFrame \in Kinds /\ Caused(NextFrame) /\ Sent(pods, NextFrame)
      BY <1>1, <1>0 DEF AliceTick, NextFrame, Kinds, Caused
    <2> QED BY <1>0, <1>1, <2>1, SentKeeps, SentLearns DEF AliceTick
  <1>2. CASE Storm
    <2>1. "storm" \in Kinds /\ Caused("storm") /\ Sent(pods, "storm")
      BY <1>2 DEF Storm, Kinds, Caused
    <2> QED BY <1>0, <1>2, <2>1, SentKeeps, SentLearns DEF Storm
  <1>3. ASSUME NEW k \in Answers, Answering(k)
        PROVE  SimInv' /\ UNCHANGED outside
               /\ macTable' \in [Hosts \cup {Broadcast} -> Ports \cup {Unknown}]
    <2> DEFINE s == [pods EXCEPT !.due[k] = @ - 1]
    <2>1. pods.due[k] > 0 /\ Sent(s, k) /\ UNCHANGED outside
      BY <1>3 DEF Answering
    <2>2. s = [pods EXCEPT !.due = [pods.due EXCEPT ![k] = pods.due[k] - 1]]
      BY <1>0
    <2>3. [pods.due EXCEPT ![k] = pods.due[k] - 1] \in [Answers -> 0..2]
      BY <1>0, <2>1
    <2>4. /\ s \in PodStates /\ s.arpCache = pods.arpCache /\ s.pings = pods.pings
          /\ s.won = pods.won /\ \A a \in Answers : s.due[a] > 0 => pods.due[a] > 0
      <3> HIDE DEF s
      <3> QED BY <1>0, <2>1, <2>2, <2>3 DEF PodStates
    <2> HIDE DEF s
    <2>5. k \in Kinds /\ Caused(k)
      BY <2>1 DEF Kinds, SimInv, Story
    <2> QED BY <2>1, <2>4, <2>5, SentKeeps, SentLearns
  <1>4. ASSUME NEW f \in FrameIds, DropFrame(f)
        PROVE  SimInv' /\ UNCHANGED <<outside, macTable>>
    <2>1. held' = [held EXCEPT ![f] = NoKind] /\ UNCHANGED <<outside, macTable, pods, arrived>>
      BY <1>4 DEF DropFrame
    <2>2. /\ held' \in [FrameIds -> Kinds \cup {NoKind}] /\ Buffered' \subseteq Buffered
          /\ \A g \in Buffered' : held'[g] = held[g]
      BY <2>1 DEF SimInv, Buffered
    <2>3. /\ IsFiniteSet(Buffered') /\ Cardinality(Buffered') <= Cardinality(Buffered)
          /\ Cardinality(Buffered') \in Nat /\ Cardinality(Buffered) \in Nat
      BY <2>2, FS_Subset, FS_CardinalityType DEF SimInv
    <2>4. Cardinality(Buffered') <= Limit + 1
      BY <2>3, SimAssumption DEF SimInv
    <2>5. \A j : Caused(j)' <=> Caused(j)
      BY <2>1 DEF Caused
    <2>6. \A g \in Buffered' : Caused(held[g])'
      BY <2>1, <2>2 DEF SimInv, Story, Caused
    <2> QED BY <2>1, <2>2, <2>3, <2>4, <2>5, <2>6 DEF SimInv, Story
  <1>5. ASSUME NEW f \in FrameIds, NEW port, NEW consume \in BOOLEAN, DeliverInternal(f, port, consume)
        PROVE  SimInv' /\ UNCHANGED <<outside, macTable>>
    <2>1. /\ f \in Buffered /\ held' = IF consume THEN [held EXCEPT ![f] = NoKind] ELSE held
          /\ Delivered(pods, held[f], {port}) /\ UNCHANGED <<outside, macTable>>
      BY <1>5 DEF DeliverInternal
    <2>2. /\ held' \in [FrameIds -> Kinds \cup {NoKind}] /\ Buffered' \subseteq Buffered
          /\ \A g \in Buffered' : held'[g] = held[g]
      BY <2>1 DEF SimInv, Buffered
    <2>3. /\ IsFiniteSet(Buffered') /\ Cardinality(Buffered') <= Cardinality(Buffered)
          /\ Cardinality(Buffered') \in Nat /\ Cardinality(Buffered) \in Nat
      BY <2>2, FS_Subset, FS_CardinalityType DEF SimInv
    <2>4. Cardinality(Buffered') <= Limit + 1
      BY <2>3, SimAssumption DEF SimInv
    <2>5. held[f] \in Kinds /\ Caused(held[f])
      BY <2>1 DEF SimInv, Story, Buffered
    <2>6. pods' \in PodStates /\ arrived' \subseteq Kinds /\ Story'
      BY <1>0, <2>1, <2>2, <2>5, DeliveredKeeps
    <2> QED BY <2>1, <2>2, <2>3, <2>4, <2>6 DEF SimInv
  <1> QED BY <1>1, <1>2, <1>3, <1>4, <1>5 DEF SimNext

(* What was answered was asked: the chain from pings back to ARP.          *)
LEMMA SimFollows == SimInv => SimTypeOK /\ BuiltARouter
  <1> SUFFICES ASSUME SimInv PROVE SimTypeOK /\ BuiltARouter
    OBVIOUS
  <1>1. pods.due \in [Answers -> 0..2] /\ pods.pings \in 0..4
    BY DEF SimInv, PodStates
  <1>2. pods.won => Answers \cup DOMAIN Answer \subseteq arrived
    BY DEF SimInv, Story, Caused, Answers, Answer
  <1> QED BY <1>1, <1>2 DEF SimInv, SimTypeOK, BuiltARouter

(* What the sim's pods have when nothing has happened.                     *)
LEMMA SimInitial ==
  ASSUME held = [f \in FrameIds |-> NoKind], arrived = {},
         pods = [arpCache |-> FALSE, due |-> [k \in Answers |-> 0], pings |-> 0, won |-> FALSE]
  PROVE  SimInv
  <1>1. Buffered = {}
    BY DEF Buffered
  <1>2. IsFiniteSet(Buffered) /\ Cardinality(Buffered) = 0 /\ Limit \in Nat
    BY <1>1, FS_EmptySet, SimAssumption
  <1>3. pods \in PodStates
    BY DEF PodStates
  <1>4. Story
    BY <1>1 DEF Story
  <1> QED BY <1>2, <1>3, <1>4 DEF SimInv

-----------------------------------------------------------------------------
(* Shells: what its invariant is about.                                    *)

Joining  == {"found", "attached", "live"}
Sessions ==
  [pod : Pods \cup {NoPod}, alive : BOOLEAN, client : Conns \cup {NoConn},
   detached : {"no", "now", "long ago"}, output : Nat]

PageTypes ==
  /\ window \in [Pods -> Conns \cup {NoConn}] /\ spare \in [Pods -> Conns]
  /\ saved \in [Pods -> 0..seq] /\ wanted \in [Pods -> 0..seq]
  /\ restoring \in {"no", "asked", "listed"} /\ rash \subseteq Pods
  /\ list \in [Ids -> Pods \cup {NoPod}]

ConnTypes ==
  /\ stage \in [Conns -> {"none", "asked"} \cup Joining] /\ on \in [Conns -> 0..seq]
  /\ told \subseteq Conns /\ ended \subseteq Conns \cup {NoConn}
  /\ replay \in [Conns -> Nat] /\ seen \in [Conns -> SUBSET Nat]

TowerTypes ==
  /\ seq \in 0..MaxSessions /\ registry \subseteq 1..seq /\ locked \in Ids \cup {NoId}
  /\ session \in [Ids -> Sessions]
  /\ unsent \in [Ids -> Nat] /\ \A i \in Ids : unsent[i] <= session[i].output
  /\ \A i \in Ids : i > seq => ~session[i].alive /\ unsent[i] = 0

(* Everybody means the same by a session.                                  *)
PodsMatch ==
  /\ \A p \in Pods :
       /\ window[p] # NoConn => window[p][1] = p
       /\ spare[p][1] = p
       /\ saved[p] # NoId => session[saved[p]].pod = p
       /\ wanted[p] # NoId => session[wanted[p]].pod = p
  /\ \A i \in Ids : list[i] # NoPod => i <= seq /\ list[i] = session[i].pod
  /\ \A c \in Conns :
       /\ stage[c] # "none" /\ on[c] # NoId => session[on[c]].pod = c[1]
       /\ stage[c] \in Joining => on[c] # NoId

(* A connection that nobody has ended is its window's.                     *)
WindowsMatch ==
  \A c \in Conns : stage[c] # "none" /\ c \notin ended => window[c[1]] = c

(* It is its session's viewer, and what was put out before it joined is    *)
(* on its way to it.                                                       *)
ViewersMatch ==
  \A c \in Conns : stage[c] \in {"attached", "live"} /\ c \notin ended =>
    LET s == session[on[c]] IN
    /\ s.client = c
    /\ \A n \in 1..s.output :
         n = unsent[on[c]] \/ n \in seen[c] \/ (stage[c] = "attached" /\ n \in 1..replay[c])

(* A page that restores has not touched what it remembers, and it joins    *)
(* what it remembers; but for windows opened by hand meanwhile.            *)
MemoryMatches ==
  /\ \A c \in Conns : stage[c] = "asked" => c \notin told
  /\ \A p \in Pods \ rash : restoring # "no" => window[p] = NoConn /\ saved[p] = wanted[p]
  /\ \A p \in Pods \ rash, c \in Conns :
       /\ window[p] = c /\ c \notin ended /\ on[c] # NoId
       /\ stage[c] = "asked" \/ (stage[c] \in Joining /\ c \in told)
       => saved[p] = on[c]

(* The inductive invariant.                                                *)
ShellsInv ==
  /\ PageTypes /\ ConnTypes /\ TowerTypes
  /\ PodsMatch /\ WindowsMatch /\ ViewersMatch /\ MemoryMatches

(* Connections are a pod's.                                                *)
LEMMA NoConnFacts == NoConn \notin Conns /\ \A c \in Conns : c[1] \in Pods
  BY DEF NoConn, Conns

(* Numbers and sessions.                                                   *)
LEMMA TowerFacts ==
  ASSUME ShellsInv
  PROVE  /\ PageTypes /\ ConnTypes /\ TowerTypes
         /\ session \in [Ids -> Sessions] /\ unsent \in [Ids -> Nat] /\ seq \in Nat
         /\ \A i \in Ids : session[i].output \in Nat
  <1>1. PageTypes /\ ConnTypes /\ TowerTypes
    BY DEF ShellsInv
  <1>2. session \in [Ids -> Sessions] /\ unsent \in [Ids -> Nat] /\ seq \in Nat
    BY <1>1, ShellsAssumption DEF TowerTypes
  <1>3. \A i \in Ids : session[i].output \in Nat
    BY <1>2 DEF Sessions
  <1> QED BY <1>1, <1>2, <1>3

-----------------------------------------------------------------------------
(* The page.                                                               *)

(* A new window's connection is its own, and has nothing of an old one.    *)
LEMMA OpenedFacts ==
  ASSUME ShellsInv, NEW D \in SUBSET Pods, NEW wishes \in [D -> 0..seq], Opened(wishes),
         UNCHANGED <<reapVars, towerVars>>,
         \A p \in D : wishes[p] # NoId => session[wishes[p]].pod = p
  PROVE  /\ window' \in [Pods -> Conns \cup {NoConn}] /\ spare' \in [Pods -> Conns]
         /\ ConnTypes' /\ TowerTypes' /\ WindowsMatch' /\ ViewersMatch'
         /\ \A p \in Pods : (window'[p] # NoConn => window'[p][1] = p) /\ spare'[p][1] = p
         /\ \A c \in Conns :
              /\ stage'[c] # "none" /\ on'[c] # NoId => session[on'[c]].pod = c[1]
              /\ stage'[c] \in Joining => on'[c] # NoId
              /\ stage'[c] = "asked" => c \notin told'
         /\ \A p \in Pods : window'[p] = IF p \in D /\ window[p] = NoConn THEN spare[p] ELSE window[p]
         /\ \A c \in Conns :
              IF \E p \in D : window[p] = NoConn /\ c = spare[p]
                THEN c[1] \in D /\ stage'[c] = "asked" /\ on'[c] = wishes[c[1]]
                ELSE /\ stage'[c] = stage[c] /\ on'[c] = on[c]
                     /\ (c \in told' <=> c \in told)
                     /\ (c \in ended' <=> c \in ended)
  <1> DEFINE new == {p \in D : window[p] = NoConn}
             cs  == {spare[p] : p \in new}
  <1>1. /\ \A c \in cs : stage[c] = "none"
        /\ window' = [p \in Pods |-> IF p \in new THEN spare[p] ELSE window[p]]
        /\ spare' = [p \in Pods |-> IF p \in new THEN <<p, 1 - spare[p][2]>> ELSE spare[p]]
        /\ stage' = [c \in Conns |-> IF c \in cs THEN "asked" ELSE stage[c]]
        /\ on' = [c \in Conns |-> IF c \in cs THEN wishes[c[1]] ELSE on[c]]
        /\ ended' = ended \ cs /\ told' = told \ cs
        /\ seen' = [c \in Conns |-> IF c \in cs THEN {} ELSE seen[c]]
        /\ replay' = replay
    BY DEF Opened
  <1>2. PageTypes /\ ConnTypes /\ TowerTypes /\ PodsMatch /\ WindowsMatch /\ ViewersMatch /\ MemoryMatches
    BY DEF ShellsInv
  <1>3. /\ new \subseteq Pods /\ \A p \in new : spare[p] \in Conns /\ spare[p][1] = p /\ p \in D
        /\ \A c \in cs : c \in Conns /\ c[1] \in new /\ spare[c[1]] = c
    BY <1>2 DEF PageTypes, PodsMatch
  <1>4. \A p \in Pods : spare[p][2] \in {0, 1} /\ <<p, 1 - spare[p][2]>> \in Conns
    BY <1>2 DEF PageTypes, Conns
  <1>5. \A c \in Conns : c \in cs <=> \E p \in D : window[p] = NoConn /\ c = spare[p]
    OBVIOUS
  <1>6. window' \in [Pods -> Conns \cup {NoConn}] /\ spare' \in [Pods -> Conns]
    BY <1>1, <1>2, <1>3, <1>4 DEF PageTypes
  <1> HIDE DEF cs, new
  <1>7. TowerTypes'
    BY <1>2 DEF TowerTypes, towerVars, reapVars
  <1>8. ConnTypes'
    <2>1. seq' = seq
      BY DEF towerVars
    <2>2. stage' \in [Conns -> {"none", "asked"} \cup Joining] /\ seen' \in [Conns -> SUBSET Nat]
      BY <1>1, <1>2 DEF ConnTypes
    <2>3. on' \in [Conns -> 0..seq]
      BY <1>1, <1>2, <1>3 DEF ConnTypes
    <2> QED BY <1>1, <1>2, <2>1, <2>2, <2>3 DEF ConnTypes
  <1>9. WindowsMatch'
    <2> SUFFICES ASSUME NEW c \in Conns, stage'[c] # "none", c \notin ended' PROVE window'[c[1]] = c
      BY DEF WindowsMatch
    <2>1. c[1] \in Pods
      BY NoConnFacts
    <2>2. CASE c \in cs
      BY <1>1, <1>3, <2>1, <2>2
    <2>3. CASE c \notin cs
      <3>1. window[c[1]] = c
        BY <1>1, <1>2, <2>3 DEF WindowsMatch
      <3>2. c[1] \notin new
        BY <3>1, NoConnFacts DEF new
      <3> QED BY <1>1, <2>1, <3>1, <3>2
    <2> QED BY <2>2, <2>3
  <1>10. ViewersMatch'
    <2> SUFFICES ASSUME NEW c \in Conns, stage'[c] \in {"attached", "live"}, c \notin ended'
                 PROVE  /\ session[on'[c]].client = c
                        /\ \A n \in 1..session[on'[c]].output :
                             n = unsent[on'[c]] \/ n \in seen'[c]
                               \/ (stage'[c] = "attached" /\ n \in 1..replay'[c])
      BY DEF ViewersMatch, towerVars
    <2>1. c \notin cs
      BY <1>1
    <2> QED BY <1>1, <1>2, <2>1 DEF ViewersMatch
  <1>11. \A p \in Pods : (window'[p] # NoConn => window'[p][1] = p) /\ spare'[p][1] = p
    BY <1>1, <1>2, <1>3 DEF PodsMatch
  <1>12. \A c \in Conns :
           /\ stage'[c] # "none" /\ on'[c] # NoId => session[on'[c]].pod = c[1]
           /\ stage'[c] \in Joining => on'[c] # NoId
           /\ stage'[c] = "asked" => c \notin told'
    BY <1>1, <1>2, <1>3 DEF PodsMatch, MemoryMatches, Joining
  <1>13. \A p \in Pods : window'[p] = IF p \in D /\ window[p] = NoConn THEN spare[p] ELSE window[p]
    BY <1>1 DEF new
  <1>14. \A c \in Conns :
           IF c \in cs THEN c[1] \in D /\ stage'[c] = "asked" /\ on'[c] = wishes[c[1]]
           ELSE /\ stage'[c] = stage[c] /\ on'[c] = on[c]
                /\ (c \in told' <=> c \in told)
                /\ (c \in ended' <=> c \in ended)
    BY <1>1, <1>3
  <1> QED BY <1>5, <1>6, <1>7, <1>8, <1>9, <1>10, <1>11, <1>12, <1>13, <1>14

(* A window opened by hand while the page restores is one of the rash.     *)
LEMMA OpenTerminalKeeps ==
  ASSUME ShellsInv, NEW p \in Pods, OpenTerminal(p)
  PROVE  ShellsInv'
  <1> DEFINE wishes == [q \in {p} |-> NoId]
  <1>1. /\ window[p] = NoConn /\ Opened(wishes)
        /\ rash' = IF restoring = "no" THEN rash ELSE rash \cup {p}
        /\ UNCHANGED <<saved, restoring, wanted, list, reapVars, towerVars>>
    BY DEF OpenTerminal
  <1>2. PageTypes /\ TowerTypes /\ PodsMatch /\ MemoryMatches
    BY DEF ShellsInv
  <1>3. seq \in Nat /\ NoId \in 0..seq
    BY <1>2, ShellsAssumption DEF TowerTypes, NoId
  <1>4. {p} \in SUBSET Pods /\ wishes \in [{p} -> 0..seq] /\ wishes[p] = NoId
    BY <1>3
  <1> HIDE DEF wishes
  <1>5. /\ window' \in [Pods -> Conns \cup {NoConn}] /\ spare' \in [Pods -> Conns]
        /\ ConnTypes' /\ TowerTypes' /\ WindowsMatch' /\ ViewersMatch'
        /\ \A q \in Pods : (window'[q] # NoConn => window'[q][1] = q) /\ spare'[q][1] = q
        /\ \A c \in Conns :
             /\ stage'[c] # "none" /\ on'[c] # NoId => session[on'[c]].pod = c[1]
             /\ stage'[c] \in Joining => on'[c] # NoId
             /\ stage'[c] = "asked" => c \notin told'
        /\ \A q \in Pods : window'[q] = IF q \in {p} /\ window[q] = NoConn THEN spare[q] ELSE window[q]
        /\ \A c \in Conns :
             IF \E q \in {p} : window[q] = NoConn /\ c = spare[q]
               THEN c[1] \in {p} /\ stage'[c] = "asked" /\ on'[c] = wishes[c[1]]
               ELSE /\ stage'[c] = stage[c] /\ on'[c] = on[c]
                    /\ (c \in told' <=> c \in told)
                    /\ (c \in ended' <=> c \in ended)
    BY <1>1, <1>4, OpenedFacts
  <1>6. PageTypes' /\ session' = session /\ seq' = seq
    BY <1>1, <1>2, <1>5 DEF PageTypes, towerVars
  <1>7. PodsMatch'
    BY <1>1, <1>2, <1>5, <1>6 DEF PodsMatch
  <1>8. MemoryMatches'
    <2>1. \A q \in Pods \ rash' :
            restoring' # "no" => window'[q] = NoConn /\ saved'[q] = wanted'[q]
      BY <1>1, <1>2, <1>5 DEF MemoryMatches
    <2>2. ASSUME NEW q \in Pods \ rash', NEW c \in Conns, window'[q] = c, c \notin ended', on'[c] # NoId,
                 stage'[c] = "asked" \/ (stage'[c] \in Joining /\ c \in told')
          PROVE  saved'[q] = on'[c]
      <3>1. c # spare[p]
        BY <1>1, <1>4, <1>5, <2>2
      <3>2. window[q] = c
        BY <1>5, <2>2, <3>1
      <3> QED BY <1>1, <1>2, <1>5, <2>2, <3>1, <3>2 DEF MemoryMatches
    <2> QED BY <1>5, <2>1, <2>2 DEF MemoryMatches
  <1> QED BY <1>5, <1>6, <1>7, <1>8 DEF ShellsInv

(* A closed window is forgotten, and its connection ended.                 *)
LEMMA CloseWindowKeeps ==
  ASSUME ShellsInv, NEW p \in Pods, CloseWindow(p)
  PROVE  ShellsInv'
  <1>1. /\ window[p] # NoConn /\ window' = [window EXCEPT ![p] = NoConn]
        /\ ended' = ended \cup {window[p]} /\ saved' = [saved EXCEPT ![p] = NoId]
        /\ UNCHANGED <<spare, restoring, wanted, list, rash, stage, on, told, replay, seen, reapVars, towerVars>>
    BY DEF CloseWindow
  <1>2. UNCHANGED <<session, seq, unsent, registry, locked>>
    BY <1>1 DEF towerVars, reapVars
  <1>3. PageTypes /\ ConnTypes /\ TowerTypes /\ PodsMatch /\ WindowsMatch /\ ViewersMatch /\ MemoryMatches
    BY DEF ShellsInv
  <1>4. TowerTypes' /\ ViewersMatch'
    BY <1>1, <1>2, <1>3 DEF TowerTypes, ViewersMatch
  <1>5. PageTypes'
    <2>1. NoId \in 0..seq
      BY <1>3, ShellsAssumption DEF TowerTypes, NoId
    <2> QED BY <1>1, <1>2, <1>3, <2>1 DEF PageTypes
  <1>6. ConnTypes'
    BY <1>1, <1>2, <1>3 DEF ConnTypes, PageTypes
  <1>7. PodsMatch'
    BY <1>1, <1>2, <1>3 DEF PodsMatch, PageTypes
  <1>8. WindowsMatch'
    BY <1>1, <1>3, NoConnFacts DEF WindowsMatch, PageTypes
  <1>9. MemoryMatches'
    BY <1>1, <1>3, NoConnFacts DEF MemoryMatches, PageTypes
  <1> QED BY <1>4, <1>5, <1>6, <1>7, <1>8, <1>9 DEF ShellsInv

(* A page that is loaded again has no windows, and wants what it saved.    *)
LEMMA ReloadKeeps ==
  ASSUME ShellsInv, Reload
  PROVE  ShellsInv'
  <1>1. /\ window' = [p \in Pods |-> NoConn] /\ ended' = ended \cup {window[p] : p \in Pods}
        /\ wanted' = saved /\ rash' = {} /\ list' = [i \in Ids |-> NoPod]
        /\ restoring' \in {"no", "asked"}
        /\ UNCHANGED <<spare, saved, stage, on, told, replay, seen, reapVars, towerVars>>
    BY DEF Reload
  <1>2. UNCHANGED <<session, seq, unsent, registry, locked>>
    BY <1>1 DEF towerVars, reapVars
  <1>3. PageTypes /\ ConnTypes /\ TowerTypes /\ PodsMatch /\ WindowsMatch /\ ViewersMatch /\ MemoryMatches
    BY DEF ShellsInv
  <1>4. TowerTypes' /\ ViewersMatch'
    BY <1>1, <1>2, <1>3 DEF TowerTypes, ViewersMatch
  <1>5. PageTypes' /\ ConnTypes'
    BY <1>1, <1>2, <1>3 DEF PageTypes, ConnTypes
  <1>7. PodsMatch'
    BY <1>1, <1>2, <1>3 DEF PodsMatch, PageTypes
  <1>8. WindowsMatch'
    <2> SUFFICES ASSUME NEW c \in Conns, stage[c] # "none", c \notin ended' PROVE FALSE
      BY <1>1 DEF WindowsMatch
    <2>1. window[c[1]] = c /\ c[1] \in Pods
      BY <1>1, <1>3, NoConnFacts DEF WindowsMatch
    <2> QED BY <1>1, <2>1
  <1>9. MemoryMatches'
    BY <1>1, <1>3, NoConnFacts DEF MemoryMatches
  <1> QED BY <1>4, <1>5, <1>7, <1>8, <1>9 DEF ShellsInv

(* The list says of a live session whose it is.                            *)
LEMMA ListedKeeps ==
  ASSUME ShellsInv, Listed \/ Unlisted
  PROVE  ShellsInv'
  <1>1. /\ UNCHANGED <<window, spare, saved, wanted, rash, connVars, reapVars, towerVars>>
        /\ restoring' \in {"no", "listed"} /\ restoring = "asked"
        /\ \/ list' = list
           \/ list' = [i \in Ids |-> IF i \in registry THEN session[i].pod ELSE NoPod]
    BY DEF Listed, Unlisted
  <1>2. UNCHANGED <<session, seq, unsent, registry, locked, stage, on, told, ended, replay, seen>>
    BY <1>1 DEF towerVars, reapVars, connVars
  <1>3. PageTypes /\ ConnTypes /\ TowerTypes /\ PodsMatch /\ WindowsMatch /\ ViewersMatch /\ MemoryMatches
    BY DEF ShellsInv
  <1>4. TowerTypes' /\ ViewersMatch' /\ WindowsMatch' /\ ConnTypes'
    BY <1>1, <1>2, <1>3 DEF TowerTypes, ViewersMatch, WindowsMatch, ConnTypes
  <1>5. list' \in [Ids -> Pods \cup {NoPod}] /\ \A i \in Ids : list'[i] # NoPod => i <= seq /\ list'[i] = session[i].pod
    <2>1. \A i \in Ids : session[i].pod \in Pods \cup {NoPod}
      BY <1>3 DEF TowerTypes, Sessions
    <2>2. \A i \in registry : i <= seq
      BY <1>3 DEF TowerTypes
    <2> QED BY <1>1, <1>3, <2>1, <2>2 DEF PageTypes, PodsMatch
  <1>6. PageTypes'
    BY <1>1, <1>2, <1>3, <1>5 DEF PageTypes
  <1>7. PodsMatch'
    BY <1>1, <1>2, <1>3, <1>5 DEF PodsMatch
  <1>9. MemoryMatches'
    BY <1>1, <1>2, <1>3 DEF MemoryMatches
  <1> QED BY <1>4, <1>6, <1>7, <1>9 DEF ShellsInv

(* What is joined again is what was saved for the pod, for a session's pod *)
(* is the one it was saved for.                                            *)
LEMMA RestoreKeeps ==
  ASSUME ShellsInv, Restore
  PROVE  ShellsInv'
  <1> DEFINE joined == {wanted[p] : p \in Pods} \ {NoId}
             D == {list[i] : i \in joined} \ {NoPod}
             wishes == [p \in D |-> CHOOSE i \in joined : list[i] = p]
  <1>1. /\ restoring = "listed" /\ restoring' = "no" /\ Opened(wishes)
        /\ saved' = [p \in Pods |-> IF p \in Forgotten THEN NoId ELSE saved[p]]
        /\ UNCHANGED <<wanted, list, rash, reapVars, towerVars>>
    BY DEF Restore
  <1>2. PageTypes /\ ConnTypes /\ TowerTypes /\ PodsMatch /\ MemoryMatches
    BY DEF ShellsInv
  <1>3. seq \in 0..MaxSessions /\ MaxSessions \in Nat /\ NoId \in 0..seq /\ 1..seq \subseteq Ids
    BY <1>2, ShellsAssumption DEF TowerTypes, NoId, Ids
  <1>4. \A i \in joined : i \in 1..seq /\ i \in Ids /\ \E q \in Pods : wanted[q] = i /\ session[i].pod = q
    BY <1>2, <1>3 DEF PageTypes, PodsMatch, NoId
  <1>5. \A p \in D : p \in Pods /\ \E i \in joined : list[i] = p
    BY <1>2, <1>4 DEF PageTypes
  <1>6. \A p \in D : wishes[p] \in joined /\ list[wishes[p]] = p
    BY <1>5
  <1>7. \A p \in D : wishes[p] \in 0..seq /\ wishes[p] # NoId /\ wanted[p] = wishes[p]
                     /\ session[wishes[p]].pod = p
    <2> SUFFICES ASSUME NEW p \in D
                 PROVE  wishes[p] \in 0..seq /\ wishes[p] # NoId /\ wanted[p] = wishes[p]
                        /\ session[wishes[p]].pod = p
      OBVIOUS
    <2>1. PICK i \in joined : i = wishes[p] /\ list[i] = p
      BY <1>6
    <2>2. p # NoPod /\ i # NoId
      BY <1>4
    <2>3. session[i].pod = p
      BY <1>2, <1>4, <2>1, <2>2 DEF PodsMatch
    <2>4. i \in 0..seq /\ wanted[p] = i
      BY <1>3, <1>4, <2>3
    <2> QED BY <2>1, <2>2, <2>3, <2>4
  <1>8. D \in SUBSET Pods /\ wishes \in [D -> 0..seq]
    BY <1>5, <1>7
  <1>9. \A p \in D : p \notin Forgotten
    BY <1>6, <1>7 DEF Forgotten
  <1> HIDE DEF wishes, D
  <1>10. /\ window' \in [Pods -> Conns \cup {NoConn}] /\ spare' \in [Pods -> Conns]
         /\ ConnTypes' /\ TowerTypes' /\ WindowsMatch' /\ ViewersMatch'
         /\ \A q \in Pods : (window'[q] # NoConn => window'[q][1] = q) /\ spare'[q][1] = q
         /\ \A c \in Conns :
              /\ stage'[c] # "none" /\ on'[c] # NoId => session[on'[c]].pod = c[1]
              /\ stage'[c] \in Joining => on'[c] # NoId
              /\ stage'[c] = "asked" => c \notin told'
         /\ \A q \in Pods : window'[q] = IF q \in D /\ window[q] = NoConn THEN spare[q] ELSE window[q]
         /\ \A c \in Conns :
              IF \E q \in D : window[q] = NoConn /\ c = spare[q]
                THEN c[1] \in D /\ stage'[c] = "asked" /\ on'[c] = wishes[c[1]]
                ELSE /\ stage'[c] = stage[c] /\ on'[c] = on[c]
                     /\ (c \in told' <=> c \in told)
                     /\ (c \in ended' <=> c \in ended)
    <2>1. \A p \in D : wishes[p] # NoId => session[wishes[p]].pod = p
      BY <1>7
    <2>2. Opened(wishes) /\ UNCHANGED <<reapVars, towerVars>>
      BY <1>1
    <2> QED BY <1>8, <2>1, <2>2, OpenedFacts
  <1>11. UNCHANGED <<session, seq>>
    BY <1>1 DEF towerVars
  <1>12. PageTypes'
    BY <1>1, <1>2, <1>3, <1>10, <1>11 DEF PageTypes
  <1>13. PodsMatch'
    BY <1>1, <1>2, <1>10, <1>11 DEF PodsMatch, NoId, PageTypes
  <1>14. MemoryMatches'
    <2>1. ASSUME NEW q \in Pods \ rash', NEW c \in Conns, window'[q] = c
          PROVE  saved'[q] = on'[c]
      <3>1. window[q] = NoConn /\ saved[q] = wanted[q]
        BY <1>1, <1>2, <2>1 DEF MemoryMatches
      <3>2. q \in D /\ c = spare[q]
        BY <1>10, <2>1, <3>1, NoConnFacts
      <3>3. on'[c] = wishes[q] /\ c[1] = q
        BY <1>2, <1>10, <2>1, <3>1, <3>2 DEF PodsMatch
      <3> QED BY <1>1, <1>7, <1>9, <2>1, <3>1, <3>2, <3>3
    <2> QED BY <1>1, <1>10, <2>1 DEF MemoryMatches
  <1> QED BY <1>10, <1>12, <1>13, <1>14 DEF ShellsInv

(* The announcement comes to a window that is open, and so is not one that *)
(* the page still restores.                                                *)
LEMMA AnnouncedKeeps ==
  ASSUME ShellsInv, NEW c \in Conns, Announced(c)
  PROVE  ShellsInv'
  <1>1. /\ stage[c] \in Joining /\ c \notin told \cup ended
        /\ told' = told \cup {c} /\ saved' = [saved EXCEPT ![c[1]] = on[c]]
        /\ UNCHANGED <<window, spare, restoring, wanted, list, rash, stage, on, ended, replay, seen,
                       reapVars, towerVars>>
    BY DEF Announced, Joining
  <1>2. UNCHANGED <<session, seq, unsent, registry, locked>>
    BY <1>1 DEF towerVars, reapVars
  <1>3. PageTypes /\ ConnTypes /\ TowerTypes /\ PodsMatch /\ WindowsMatch /\ ViewersMatch /\ MemoryMatches
    BY DEF ShellsInv
  <1>4. TowerTypes' /\ ViewersMatch' /\ WindowsMatch' /\ ConnTypes'
    BY <1>1, <1>2, <1>3 DEF TowerTypes, ViewersMatch, WindowsMatch, ConnTypes
  <1>5. c[1] \in Pods /\ c # NoConn /\ window[c[1]] = c /\ on[c] \in 0..seq /\ on[c] # NoId
        /\ session[on[c]].pod = c[1]
    BY <1>1, <1>3, NoConnFacts DEF WindowsMatch, ConnTypes, PodsMatch, Joining
  <1>6. PageTypes'
    BY <1>1, <1>2, <1>3, <1>5 DEF PageTypes
  <1>7. PodsMatch'
    BY <1>1, <1>2, <1>3, <1>5 DEF PodsMatch, PageTypes
  <1>8. MemoryMatches'
    <2>1. \A d \in Conns : stage'[d] = "asked" => d \notin told'
      BY <1>1, <1>3 DEF MemoryMatches, Joining
    <2>2. \A p \in Pods \ rash' : restoring' # "no" => window'[p] = NoConn /\ saved'[p] = wanted'[p]
      BY <1>1, <1>3, <1>5 DEF MemoryMatches, PageTypes
    <2>3. ASSUME NEW p \in Pods \ rash', NEW d \in Conns, window'[p] = d, d \notin ended', on'[d] # NoId,
                 stage'[d] = "asked" \/ (stage'[d] \in Joining /\ d \in told')
          PROVE  saved'[p] = on'[d]
      <3>1. CASE p = c[1]
        BY <1>1, <1>3, <1>5, <2>3, <3>1 DEF PageTypes
      <3>2. CASE p # c[1]
        <4>1. d # c
          BY <1>1, <1>3, <1>5, <2>3, <3>2 DEF PodsMatch
        <4> QED BY <1>1, <1>3, <2>3, <3>2, <4>1 DEF MemoryMatches, PageTypes
      <3> QED BY <3>1, <3>2
    <2> QED BY <2>1, <2>2, <2>3 DEF MemoryMatches
  <1> QED BY <1>4, <1>6, <1>7, <1>8 DEF ShellsInv

-----------------------------------------------------------------------------
(* The tower: a connection.                                                *)

(* A session that is not there any more ends the connection.               *)
LEMMA FindKeeps ==
  ASSUME ShellsInv, NEW c \in Conns, Find(c)
  PROVE  ShellsInv'
  <1>1. /\ stage[c] = "asked" /\ on[c] # NoId
        /\ \/ /\ stage' = [stage EXCEPT ![c] = "found"] /\ told' = told \cup {c} /\ UNCHANGED <<ended, on>>
           \/ /\ stage' = [stage EXCEPT ![c] = "none"] /\ on' = [on EXCEPT ![c] = NoId]
              /\ ended' = ended \cup {c} /\ UNCHANGED told
        /\ UNCHANGED <<pageVars, replay, seen, reapVars, towerVars>>
    BY DEF Find
  <1>2. /\ UNCHANGED <<session, seq, unsent, registry, locked>>
        /\ UNCHANGED <<window, spare, saved, restoring, wanted, list, rash>>
    BY <1>1 DEF towerVars, reapVars, pageVars
  <1>3. PageTypes /\ ConnTypes /\ TowerTypes /\ PodsMatch /\ WindowsMatch /\ ViewersMatch /\ MemoryMatches
    BY DEF ShellsInv
  <1>4. NoId \in 0..seq
    BY <1>3, ShellsAssumption DEF TowerTypes, NoId
  <1>5. PageTypes' /\ ConnTypes' /\ TowerTypes'
    BY <1>1, <1>2, <1>3, <1>4 DEF PageTypes, ConnTypes, TowerTypes, Joining
  <1>6. \A d \in Conns : d # c => stage'[d] = stage[d] /\ on'[d] = on[d]
                                   /\ (d \in told' <=> d \in told) /\ (d \in ended' <=> d \in ended)
    BY <1>1, <1>3 DEF ConnTypes
  <1>7. \/ stage'[c] = "found" /\ on'[c] = on[c] /\ (c \in ended' <=> c \in ended)
        \/ stage'[c] = "none" /\ c \in ended'
    BY <1>1, <1>3 DEF ConnTypes
  <1>8. PodsMatch'
    BY <1>1, <1>2, <1>3, <1>6, <1>7 DEF PodsMatch, Joining
  <1>9. WindowsMatch'
    BY <1>1, <1>2, <1>3, <1>6, <1>7 DEF WindowsMatch
  <1>10. ViewersMatch'
    <2> SUFFICES ASSUME NEW d \in Conns, stage'[d] \in {"attached", "live"}, d \notin ended'
                 PROVE  /\ session[on'[d]].client = d
                        /\ \A n \in 1..session[on'[d]].output :
                             n = unsent[on'[d]] \/ n \in seen[d]
                               \/ (stage'[d] = "attached" /\ n \in 1..replay[d])
      BY <1>1, <1>2 DEF ViewersMatch
    <2>1. d # c
      BY <1>7
    <2> QED BY <1>3, <1>6, <2>1 DEF ViewersMatch
  <1>11. MemoryMatches'
    BY <1>1, <1>2, <1>3, <1>6, <1>7 DEF MemoryMatches
  <1> QED BY <1>5, <1>8, <1>9, <1>10, <1>11 DEF ShellsInv

(* A new session is one that nobody remembers yet.                         *)
LEMMA NewShellSessionKeeps ==
  ASSUME ShellsInv, NEW c \in Conns, NewShellSession(c)
  PROVE  ShellsInv'
  <1> DEFINE i == seq + 1
  <1>1. /\ stage[c] = "asked" /\ on[c] = NoId /\ seq < MaxSessions /\ seq' = i
        /\ registry' = registry \cup {i}
        /\ session' = [session EXCEPT ![i] =
             [pod |-> c[1], alive |-> TRUE, client |-> NoConn, detached |-> "now", output |-> 0]]
        /\ stage' = [stage EXCEPT ![c] = "found"] /\ on' = [on EXCEPT ![c] = i]
        /\ UNCHANGED <<pageVars, told, ended, replay, seen, reapVars, unsent>>
    BY DEF NewShellSession
  <1>2. UNCHANGED <<locked, window, spare, saved, restoring, wanted, list, rash>>
    BY <1>1 DEF reapVars, pageVars
  <1>3. PageTypes /\ ConnTypes /\ TowerTypes /\ PodsMatch /\ WindowsMatch /\ ViewersMatch /\ MemoryMatches
    BY DEF ShellsInv
  <1>4. /\ seq \in Nat /\ MaxSessions \in Nat /\ i \in 1..MaxSessions /\ i \in Ids /\ i > seq
        /\ i # NoId /\ 0..seq \subseteq 0..i /\ 1..seq \subseteq 1..i
    BY <1>1, <1>3, ShellsAssumption DEF TowerTypes, NoId, Ids
  <1>5. c[1] \in Pods
    BY NoConnFacts
  <1> HIDE DEF i
  <1>6. PageTypes'
    BY <1>1, <1>2, <1>3, <1>4 DEF PageTypes
  <1>7. ConnTypes'
    BY <1>1, <1>3, <1>4 DEF ConnTypes, Joining
  <1>8. TowerTypes'
    <2>1. unsent[i] = 0 /\ \A j \in Ids : j > i => j > seq /\ j # i
      BY <1>3, <1>4 DEF TowerTypes, Ids
    <2>2. session' \in [Ids -> Sessions]
      BY <1>1, <1>3, <1>5 DEF TowerTypes, Sessions
    <2> QED BY <1>1, <1>2, <1>3, <1>4, <2>1, <2>2 DEF TowerTypes
  <1>9. \A j \in 1..seq : j \in Ids /\ session'[j] = session[j]
    BY <1>1, <1>3, <1>4 DEF TowerTypes, Ids
  <1>10. \A d \in Conns : d # c => stage'[d] = stage[d] /\ on'[d] = on[d]
    BY <1>1, <1>3 DEF ConnTypes
  <1>11. stage'[c] = "found" /\ on'[c] = i /\ session'[i].pod = c[1] /\ on' \in [Conns -> 0..i]
    BY <1>1, <1>3, <1>4, <1>7 DEF ConnTypes, TowerTypes
  <1>12. PodsMatch'
    <2>1. \A p \in Pods :
            /\ saved[p] # NoId => session'[saved[p]].pod = p
            /\ wanted[p] # NoId => session'[wanted[p]].pod = p
      BY <1>3, <1>4, <1>9 DEF PageTypes, PodsMatch, NoId
    <2>2. \A j \in Ids : list[j] # NoPod => j <= seq' /\ list[j] = session'[j].pod
      BY <1>1, <1>3, <1>4, <1>9 DEF PodsMatch, Ids
    <2>3. \A d \in Conns : d # c /\ on[d] # NoId => session'[on[d]] = session[on[d]]
      BY <1>3, <1>4, <1>9 DEF ConnTypes, NoId
    <2>4. \A d \in Conns :
            /\ stage'[d] # "none" /\ on'[d] # NoId => session'[on'[d]].pod = d[1]
            /\ stage'[d] \in Joining => on'[d] # NoId
      BY <1>3, <1>4, <1>10, <1>11, <2>3 DEF PodsMatch
    <2>5. \A p \in Pods : (window[p] # NoConn => window[p][1] = p) /\ spare[p][1] = p
      BY <1>3 DEF PodsMatch
    <2> QED BY <1>2, <2>1, <2>2, <2>4, <2>5 DEF PodsMatch
  <1>13. WindowsMatch'
    BY <1>1, <1>2, <1>3, <1>10 DEF WindowsMatch
  <1>14. ViewersMatch'
    <2> SUFFICES ASSUME NEW d \in Conns, stage'[d] \in {"attached", "live"}, d \notin ended
                 PROVE  /\ session'[on'[d]].client = d
                        /\ \A n \in 1..session'[on'[d]].output :
                             n = unsent[on'[d]] \/ n \in seen[d]
                               \/ (stage'[d] = "attached" /\ n \in 1..replay[d])
      BY <1>1 DEF ViewersMatch
    <2>1. d # c /\ stage'[d] = stage[d] /\ on'[d] = on[d]
      BY <1>10, <1>11
    <2>2. on[d] \in 1..seq
      BY <1>3, <1>4, <2>1 DEF ConnTypes, PodsMatch, Joining, NoId
    <2> QED BY <1>3, <1>9, <2>1, <2>2 DEF ViewersMatch
  <1>15. MemoryMatches'
    <2>1. c \notin told
      BY <1>1, <1>3 DEF MemoryMatches
    <2> QED BY <1>1, <1>2, <1>3, <1>10, <1>11, <2>1 DEF MemoryMatches
  <1> QED BY <1>6, <1>7, <1>8, <1>12, <1>13, <1>14, <1>15 DEF ShellsInv

(* The viewer before is sent away, and what was put out is copied.         *)
LEMMA AttachKeeps ==
  ASSUME ShellsInv, NEW c \in Conns, Attach(c)
  PROVE  ShellsInv'
  <1>1. /\ stage[c] = "found" /\ stage' = [stage EXCEPT ![c] = "attached"]
        /\ ended' = ended \cup ({session[on[c]].client} \ {NoConn})
        /\ session' = [session EXCEPT ![on[c]] = Joined(session[on[c]], c)]
        /\ replay' = [replay EXCEPT ![c] = session[on[c]].output]
        /\ UNCHANGED <<pageVars, on, told, seen, reapVars, registry, seq, unsent>>
    BY DEF Attach
  <1>2. UNCHANGED <<locked, window, spare, saved, restoring, wanted, list, rash>>
    BY <1>1 DEF reapVars, pageVars
  <1>3. PageTypes /\ ConnTypes /\ TowerTypes /\ PodsMatch /\ WindowsMatch /\ ViewersMatch /\ MemoryMatches
    BY DEF ShellsInv
  <1>4. PICK i \in 1..seq : i = on[c] /\ i \in Ids
    BY <1>1, <1>3, ShellsAssumption DEF ConnTypes, PodsMatch, TowerTypes, Joining, Ids, NoId
  <1>5. session[i] \in Sessions /\ session[i].client \in Conns \cup {NoConn} /\ session[i].output \in Nat
    BY <1>3, <1>4 DEF TowerTypes, Sessions
  <1>6. Joined(session[i], c) \in Sessions /\ Joined(session[i], c).client = c
        /\ Joined(session[i], c).output = session[i].output /\ Joined(session[i], c).pod = session[i].pod
        /\ Joined(session[i], c).alive = session[i].alive
    BY <1>5 DEF Joined, Sessions
  <1>7. \A j \in Ids :
          /\ session'[j].output = session[j].output /\ session'[j].pod = session[j].pod
          /\ session'[j].alive = session[j].alive
          /\ session'[j].client = IF j = i THEN c ELSE session[j].client
    BY <1>1, <1>3, <1>4, <1>6 DEF TowerTypes
  <1>8. PageTypes'
    BY <1>1, <1>2, <1>3 DEF PageTypes
  <1>9. ConnTypes'
    BY <1>1, <1>3, <1>4, <1>5 DEF ConnTypes, Joining
  <1>10. TowerTypes'
    <2>1. session' \in [Ids -> Sessions]
      BY <1>1, <1>3, <1>4, <1>6 DEF TowerTypes
    <2> QED BY <1>1, <1>2, <1>3, <1>7, <2>1 DEF TowerTypes
  <1>11. \A d \in Conns :
           /\ stage'[d] = IF d = c THEN "attached" ELSE stage[d]
           /\ d # c => replay'[d] = replay[d]
    BY <1>1, <1>3 DEF ConnTypes
  <1>12. 1..seq \subseteq Ids /\ seq \in Nat
    BY <1>3, ShellsAssumption DEF TowerTypes, Ids
  <1>13. PodsMatch'
    <2>1. \A j \in 0..seq : j # NoId => session'[j].pod = session[j].pod
      BY <1>7, <1>12 DEF NoId
    <2> QED BY <1>1, <1>2, <1>3, <1>7, <1>11, <2>1 DEF PodsMatch, PageTypes, ConnTypes, Joining
  <1>14. WindowsMatch'
    BY <1>1, <1>2, <1>3, <1>11 DEF WindowsMatch
  <1>15. ViewersMatch'
    <2> SUFFICES ASSUME NEW d \in Conns, stage'[d] \in {"attached", "live"}, d \notin ended'
                 PROVE  /\ session'[on[d]].client = d
                        /\ \A n \in 1..session'[on[d]].output :
                             n = unsent[on[d]] \/ n \in seen[d]
                               \/ (stage'[d] = "attached" /\ n \in 1..replay'[d])
      BY <1>1 DEF ViewersMatch
    <2>1. CASE d = c
      BY <1>1, <1>3, <1>4, <1>5, <1>7, <1>11, <2>1 DEF ConnTypes
    <2>2. CASE d # c
      <3>1. stage[d] \in {"attached", "live"} /\ d \notin ended /\ session[on[d]].client = d
        BY <1>1, <1>3, <1>11, <2>2 DEF ViewersMatch
      <3>2. on[d] \in 1..seq
        BY <1>3, <1>12, <3>1 DEF ConnTypes, PodsMatch, Joining, NoId
      <3>3. on[d] # i
        BY <1>1, <1>4, <3>1, NoConnFacts
      <3> QED BY <1>3, <1>7, <1>11, <1>12, <2>2, <3>1, <3>2, <3>3 DEF ViewersMatch
    <2> QED BY <2>1, <2>2
  <1>16. MemoryMatches'
    BY <1>1, <1>2, <1>3, <1>11 DEF MemoryMatches, Joining
  <1> QED BY <1>8, <1>9, <1>10, <1>13, <1>14, <1>15, <1>16 DEF ShellsInv

(* What was copied has been seen.                                          *)
LEMMA ReplayKeeps ==
  ASSUME ShellsInv, NEW c \in Conns, Replay(c)
  PROVE  ShellsInv'
  <1>1. /\ stage[c] = "attached" /\ stage' = [stage EXCEPT ![c] = "live"]
        /\ seen' = [seen EXCEPT ![c] = seen[c] \cup 1..replay[c]] /\ replay' = [replay EXCEPT ![c] = 0]
        /\ UNCHANGED <<pageVars, on, told, ended, reapVars, towerVars>>
    BY DEF Replay
  <1>2. /\ UNCHANGED <<locked, window, spare, saved, restoring, wanted, list, rash>>
        /\ UNCHANGED <<session, seq, unsent, registry>>
    BY <1>1 DEF reapVars, pageVars, towerVars
  <1>3. PageTypes /\ ConnTypes /\ TowerTypes /\ PodsMatch /\ WindowsMatch /\ ViewersMatch /\ MemoryMatches
    BY DEF ShellsInv
  <1>4. PageTypes' /\ TowerTypes'
    BY <1>1, <1>2, <1>3 DEF PageTypes, TowerTypes
  <1>5. ConnTypes'
    BY <1>1, <1>2, <1>3 DEF ConnTypes, Joining
  <1>6. \A d \in Conns :
          /\ stage'[d] = IF d = c THEN "live" ELSE stage[d]
          /\ seen'[d] = IF d = c THEN seen[c] \cup 1..replay[c] ELSE seen[d]
          /\ d # c => replay'[d] = replay[d]
    BY <1>1, <1>3 DEF ConnTypes
  <1>7. PodsMatch' /\ WindowsMatch' /\ MemoryMatches'
    BY <1>1, <1>2, <1>3, <1>6 DEF PodsMatch, WindowsMatch, MemoryMatches, Joining
  <1>8. ViewersMatch'
    BY <1>1, <1>2, <1>3, <1>6 DEF ViewersMatch
  <1> QED BY <1>4, <1>5, <1>7, <1>8 DEF ShellsInv

(* Who leaves takes nobody else's view away.                               *)
LEMMA LeaveKeeps ==
  ASSUME ShellsInv, NEW c \in Conns, Leave(c)
  PROVE  ShellsInv'
  <1>1. /\ stage[c] = "live" /\ stage' = [stage EXCEPT ![c] = "none"] /\ ended' = ended \cup {c}
        /\ session' = [session EXCEPT ![on[c]] = Detached(session[on[c]], c)]
        /\ on' = [on EXCEPT ![c] = NoId] /\ told' = told \ {c} /\ seen' = [seen EXCEPT ![c] = {}]
        /\ UNCHANGED <<pageVars, replay, reapVars, registry, seq, unsent>>
    BY DEF Leave
  <1>2. UNCHANGED <<locked, window, spare, saved, restoring, wanted, list, rash>>
    BY <1>1 DEF reapVars, pageVars
  <1>3. PageTypes /\ ConnTypes /\ TowerTypes /\ PodsMatch /\ WindowsMatch /\ ViewersMatch /\ MemoryMatches
    BY DEF ShellsInv
  <1>4. PICK i \in 1..seq : i = on[c] /\ i \in Ids
    BY <1>1, <1>3, ShellsAssumption DEF ConnTypes, PodsMatch, TowerTypes, Joining, Ids, NoId
  <1>5. session[i] \in Sessions /\ session[i].client \in Conns \cup {NoConn} /\ session[i].output \in Nat
    BY <1>3, <1>4 DEF TowerTypes, Sessions
  <1> DEFINE left == Detached(session[i], c)
  <1>6. /\ left \in Sessions /\ left.output = session[i].output /\ left.pod = session[i].pod
        /\ left.alive = session[i].alive
        /\ session[i].client # c => left.client = session[i].client
    BY <1>5 DEF Detached, Sessions
  <1>7. session' = [session EXCEPT ![i] = left]
    BY <1>1, <1>4
  <1> HIDE DEF left
  <1>8. \A j \in Ids :
          /\ session'[j].output = session[j].output /\ session'[j].pod = session[j].pod
          /\ session'[j].alive = session[j].alive
          /\ session[j].client # c => session'[j].client = session[j].client
    BY <1>3, <1>4, <1>6, <1>7 DEF TowerTypes
  <1>9. PageTypes'
    BY <1>1, <1>2, <1>3 DEF PageTypes
  <1>10. NoId \in 0..seq /\ 1..seq \subseteq Ids /\ seq \in Nat
    BY <1>3, ShellsAssumption DEF TowerTypes, NoId, Ids
  <1>11. ConnTypes'
    BY <1>1, <1>3, <1>10 DEF ConnTypes
  <1>12. TowerTypes'
    <2>1. session' \in [Ids -> Sessions]
      BY <1>3, <1>4, <1>6, <1>7 DEF TowerTypes
    <2> QED BY <1>1, <1>2, <1>3, <1>8, <2>1 DEF TowerTypes
  <1>13. \A d \in Conns :
           /\ stage'[d] = IF d = c THEN "none" ELSE stage[d]
           /\ d # c => on'[d] = on[d] /\ seen'[d] = seen[d]
    BY <1>1, <1>3 DEF ConnTypes
  <1>14. PodsMatch'
    <2>1. \A j \in 0..seq : j # NoId => session'[j].pod = session[j].pod
      BY <1>8, <1>10 DEF NoId
    <2> QED BY <1>1, <1>2, <1>3, <1>8, <1>13, <2>1 DEF PodsMatch, PageTypes, ConnTypes, Joining
  <1>15. WindowsMatch'
    BY <1>1, <1>2, <1>3, <1>13 DEF WindowsMatch
  <1>16. ViewersMatch'
    <2> SUFFICES ASSUME NEW d \in Conns, stage'[d] \in {"attached", "live"}, d \notin ended'
                 PROVE  /\ session'[on'[d]].client = d
                        /\ \A n \in 1..session'[on'[d]].output :
                             n = unsent[on'[d]] \/ n \in seen'[d]
                               \/ (stage'[d] = "attached" /\ n \in 1..replay[d])
      BY <1>1 DEF ViewersMatch
    <2>1. d # c /\ d \notin ended /\ stage'[d] = stage[d] /\ on'[d] = on[d] /\ seen'[d] = seen[d]
      BY <1>1, <1>13
    <2>2. on[d] \in Ids
      BY <1>3, <1>10, <2>1 DEF ConnTypes, PodsMatch, Joining, NoId
    <2>3. session[on[d]].client = d
      BY <1>3, <2>1 DEF ViewersMatch
    <2> QED BY <1>3, <1>8, <2>1, <2>2, <2>3 DEF ViewersMatch
  <1>17. MemoryMatches'
    BY <1>1, <1>2, <1>3, <1>13 DEF MemoryMatches, Joining
  <1> QED BY <1>9, <1>11, <1>12, <1>14, <1>15, <1>16, <1>17 DEF ShellsInv

-----------------------------------------------------------------------------
(* The tower: the shell and its output, and the reaper.                    *)

(* A step that touches nothing but the tower's sessions, and changes of    *)
(* them neither the pod nor, unless its connection is ended, the viewer.   *)
LEMMA TowerStepKeeps ==
  ASSUME ShellsInv, TowerTypes', seq' = seq,
         UNCHANGED <<pageVars, stage, on, told, replay>>,
         seen' \in [Conns -> SUBSET Nat], ended' \subseteq Conns \cup {NoConn}, ended \subseteq ended',
         \A i \in Ids :
           /\ session'[i].pod = session[i].pod
           /\ session[i].client \notin ended' => session'[i].client = session[i].client,
         \A c \in Conns, i \in Ids : session[i].client = c =>
           \A n \in 1..session'[i].output :
             n = unsent'[i] \/ n \in seen'[c] \/ (n \in 1..session[i].output /\ n # unsent[i] /\ seen[c] \subseteq seen'[c])
  PROVE  ShellsInv'
  <1>2. UNCHANGED <<window, spare, saved, restoring, wanted, list, rash>>
    BY DEF pageVars
  <1>3. PageTypes /\ ConnTypes /\ TowerTypes /\ PodsMatch /\ WindowsMatch /\ ViewersMatch /\ MemoryMatches
    BY DEF ShellsInv
  <1>4. PageTypes' /\ ConnTypes'
    BY <1>2, <1>3 DEF PageTypes, ConnTypes
  <1>5. 1..seq \subseteq Ids /\ seq \in Nat
    BY <1>3, ShellsAssumption DEF TowerTypes, Ids
  <1>6. PodsMatch'
    <2>1. \A j \in 0..seq : j # NoId => session'[j].pod = session[j].pod
      BY <1>5 DEF NoId
    <2> QED BY <1>2, <1>3, <2>1 DEF PodsMatch, PageTypes, ConnTypes
  <1>7. WindowsMatch' /\ MemoryMatches'
    BY <1>2, <1>3 DEF WindowsMatch, MemoryMatches
  <1>8. ViewersMatch'
    <2> SUFFICES ASSUME NEW c \in Conns, stage[c] \in {"attached", "live"}, c \notin ended',
                        NEW i, i = on[c]
                 PROVE  /\ session'[i].client = c
                        /\ \A n \in 1..session'[i].output :
                             n = unsent'[i] \/ n \in seen'[c]
                               \/ (stage[c] = "attached" /\ n \in 1..replay[c])
      BY DEF ViewersMatch
    <2>1. i \in Ids
      BY <1>3, <1>5 DEF ConnTypes, PodsMatch, Joining, NoId
    <2>2. /\ session[i].client = c
          /\ \A n \in 1..session[i].output :
               n = unsent[i] \/ n \in seen[c] \/ (stage[c] = "attached" /\ n \in 1..replay[c])
      BY <1>3 DEF ViewersMatch
    <2> QED BY <2>1, <2>2
  <1> QED BY <1>4, <1>6, <1>7, <1>8 DEF ShellsInv

(* What is put out goes to the viewer, if there is one.                    *)
LEMMA OutputKeeps ==
  ASSUME ShellsInv, NEW i \in Ids, Output(i) \/ Broadcasts(i)
  PROVE  ShellsInv'
  <1>1. /\ PageTypes /\ ConnTypes /\ TowerTypes
        /\ session \in [Ids -> Sessions] /\ unsent \in [Ids -> Nat] /\ seq \in Nat
        /\ session[i].output \in Nat
    BY TowerFacts
  <1>2. CASE Output(i)
    <2> DEFINE n == session[i].output + 1
    <2>1. /\ session[i].alive /\ unsent[i] = 0
          /\ session' = [session EXCEPT ![i].output = n]
          /\ unsent' = [unsent EXCEPT ![i] = session'[i].output]
          /\ UNCHANGED <<pageVars, connVars, reapVars, registry, seq>>
      BY <1>2 DEF Output
    <2>2. n \in Nat
      BY <1>1
    <2> HIDE DEF n
    <2>3. /\ session' \in [Ids -> Sessions] /\ session'[i].output = n
          /\ \A j \in Ids : /\ session'[j].pod = session[j].pod /\ session'[j].client = session[j].client
                            /\ session'[j].alive = session[j].alive
                            /\ (j # i => session'[j] = session[j])
      BY <1>1, <2>1, <2>2 DEF Sessions
    <2>4. unsent' \in [Ids -> Nat] /\ unsent'[i] = n /\ \A j \in Ids : j # i => unsent'[j] = unsent[j]
      BY <1>1, <2>1, <2>2, <2>3
    <2>5. TowerTypes'
      BY <1>1, <2>1, <2>2, <2>3, <2>4 DEF TowerTypes, reapVars
    <2>6. \A k \in 1..n : k = n \/ (k \in 1..session[i].output /\ k # 0)
      BY <1>1, <2>2 DEF n
    <2>7. UNCHANGED <<stage, on, told, ended, replay, seen, seq, pageVars>>
      BY <2>1 DEF connVars
    <2>8. ASSUME NEW c \in Conns, NEW j \in Ids, session[j].client = c, NEW k \in 1..session'[j].output
          PROVE  k = unsent'[j] \/ k \in seen'[c]
                   \/ (k \in 1..session[j].output /\ k # unsent[j] /\ seen[c] \subseteq seen'[c])
      <3>1. CASE j = i
        BY <2>1, <2>3, <2>4, <2>6, <2>7, <2>8, <3>1
      <3>2. CASE j # i
        BY <2>3, <2>4, <2>7, <2>8, <3>2
      <3> QED BY <3>1, <3>2
    <2>9. seen' \in [Conns -> SUBSET Nat] /\ ended' \subseteq Conns \cup {NoConn} /\ ended \subseteq ended'
      BY <1>1, <2>7 DEF ConnTypes
    <2> QED BY <2>3, <2>5, <2>7, <2>8, <2>9, TowerStepKeeps
  <1>3. CASE Broadcasts(i)
    <2>1. /\ unsent[i] # 0 /\ unsent' = [unsent EXCEPT ![i] = 0]
          /\ seen' = IF session[i].client = NoConn THEN seen
                     ELSE [seen EXCEPT ![session[i].client] = seen[session[i].client] \cup {unsent[i]}]
          /\ UNCHANGED <<pageVars, stage, on, told, ended, replay, reapVars, registry, seq, session>>
      BY <1>3 DEF Broadcasts
    <2>2. TowerTypes'
      BY <1>1, <2>1 DEF TowerTypes, reapVars
    <2>3. seen' \in [Conns -> SUBSET Nat] /\ ended' \subseteq Conns \cup {NoConn} /\ ended \subseteq ended'
      BY <1>1, <2>1 DEF ConnTypes, Sessions
    <2>4. \A c \in Conns : seen[c] \subseteq seen'[c]
      BY <1>1, <2>1 DEF ConnTypes
    <2>5. session[i].client \in Conns => unsent[i] \in seen'[session[i].client]
      BY <1>1, <2>1, NoConnFacts DEF ConnTypes
    <2>6. ASSUME NEW c \in Conns, NEW j \in Ids, session[j].client = c, NEW k \in 1..session'[j].output
          PROVE  k = unsent'[j] \/ k \in seen'[c]
                   \/ (k \in 1..session[j].output /\ k # unsent[j] /\ seen[c] \subseteq seen'[c])
      BY <1>1, <2>1, <2>4, <2>5, <2>6
    <2> QED BY <2>1, <2>2, <2>3, <2>6, TowerStepKeeps
  <1> QED BY <1>2, <1>3

(* Neither exits, nor time, nor the reaper's look change who views what.   *)
LEMMA ExitsKeeps ==
  ASSUME ShellsInv, NEW i \in Ids, ShellExits(i) \/ HalfAnHour(i) \/ Judge(i)
  PROVE  ShellsInv'
  <1>1. /\ PageTypes /\ ConnTypes /\ TowerTypes
        /\ session \in [Ids -> Sessions] /\ unsent \in [Ids -> Nat] /\ seq \in Nat
    BY TowerFacts
  <1>2. /\ UNCHANGED <<pageVars, stage, on, told, ended, replay, seen, registry, seq, unsent>>
        /\ \/ session' = session
           \/ session' = [session EXCEPT ![i].alive = FALSE]
           \/ session' = [session EXCEPT ![i].detached = "long ago"]
        /\ locked' \in {locked, i}
    BY DEF ShellExits, HalfAnHour, Judge, connVars, reapVars, towerVars
  <1>3. /\ session' \in [Ids -> Sessions]
        /\ \A j \in Ids :
             /\ session'[j].pod = session[j].pod /\ session'[j].client = session[j].client
             /\ session'[j].output = session[j].output
             /\ session'[j].alive => session[j].alive
    <2>1. PICK s \in Sessions :
            /\ session' = [session EXCEPT ![i] = s] /\ s.pod = session[i].pod
            /\ s.client = session[i].client /\ s.output = session[i].output
            /\ s.alive => session[i].alive
      <3>1. session[i] \in Sessions /\ session = [session EXCEPT ![i] = session[i]]
        BY <1>1
      <3>2. [session[i] EXCEPT !.alive = FALSE] \in Sessions
        BY <3>1 DEF Sessions
      <3>3. [session[i] EXCEPT !.detached = "long ago"] \in Sessions
        BY <3>1 DEF Sessions
      <3>4. CASE session' = session
        BY <3>1, <3>4
      <3>5. CASE session' = [session EXCEPT ![i].alive = FALSE]
        BY <3>1, <3>2, <3>5 DEF Sessions
      <3>6. CASE session' = [session EXCEPT ![i].detached = "long ago"]
        BY <3>1, <3>3, <3>6 DEF Sessions
      <3> QED BY <1>2, <3>4, <3>5, <3>6
    <2> QED BY <1>1, <2>1
  <1>4. TowerTypes'
    BY <1>1, <1>2, <1>3 DEF TowerTypes
  <1>5. seen' \in [Conns -> SUBSET Nat] /\ ended' \subseteq Conns \cup {NoConn} /\ ended \subseteq ended'
    BY <1>1, <1>2 DEF ConnTypes
  <1>6. ASSUME NEW c \in Conns, NEW j \in Ids, session[j].client = c, NEW k \in 1..session'[j].output
        PROVE  k = unsent'[j] \/ k \in seen'[c]
                 \/ (k \in 1..session[j].output /\ k # unsent[j] /\ seen[c] \subseteq seen'[c])
    BY <1>2, <1>3
  <1> QED BY <1>2, <1>3, <1>4, <1>5, <1>6, TowerStepKeeps

(* The reaper sends the viewer of a session it kills away.                 *)
LEMMA ActKeeps ==
  ASSUME ShellsInv, Act
  PROVE  ShellsInv'
  <1>1. /\ PageTypes /\ ConnTypes /\ TowerTypes
        /\ session \in [Ids -> Sessions] /\ unsent \in [Ids -> Nat] /\ seq \in Nat
    BY TowerFacts
  <1>2. PICK i \in Ids : i = locked
    BY <1>1 DEF Act, TowerTypes
  <1>3. /\ UNCHANGED <<pageVars, stage, on, told, replay, seen, seq, unsent>> /\ locked' = NoId
        /\ \/ UNCHANGED <<ended, session, registry>>
           \/ /\ ended' = ended \cup ({session[i].client} \ {NoConn})
              /\ session' = [session EXCEPT ![i].alive = FALSE] /\ registry' = registry \ {i}
    BY <1>2 DEF Act, Killed
  <1>4. /\ session' \in [Ids -> Sessions]
        /\ \A j \in Ids :
             /\ session'[j].pod = session[j].pod /\ session'[j].client = session[j].client
             /\ session'[j].output = session[j].output
             /\ session'[j].alive => session[j].alive
    <2>1. session[i] \in Sessions /\ [session[i] EXCEPT !.alive = FALSE] \in Sessions
      BY <1>1 DEF Sessions
    <2> DEFINE s == [session[i] EXCEPT !.alive = FALSE]
    <2>2. s.pod = session[i].pod /\ s.client = session[i].client /\ s.output = session[i].output /\ s.alive = FALSE
      BY <2>1 DEF Sessions
    <2>3. session' = session \/ session' = [session EXCEPT ![i] = s]
      BY <1>3
    <2> HIDE DEF s
    <2>4. s \in Sessions
      BY <2>1 DEF s
    <2> QED BY <1>1, <2>2, <2>3, <2>4
  <1>5. TowerTypes'
    BY <1>1, <1>3, <1>4 DEF TowerTypes
  <1>6. seen' \in [Conns -> SUBSET Nat] /\ ended' \subseteq Conns \cup {NoConn} /\ ended \subseteq ended'
    BY <1>1, <1>3 DEF ConnTypes, Sessions
  <1>7. ASSUME NEW c \in Conns, NEW j \in Ids, session[j].client = c, NEW k \in 1..session'[j].output
        PROVE  k = unsent'[j] \/ k \in seen'[c]
                 \/ (k \in 1..session[j].output /\ k # unsent[j] /\ seen[c] \subseteq seen'[c])
    BY <1>3, <1>4
  <1> QED BY <1>3, <1>4, <1>5, <1>6, <1>7, TowerStepKeeps

-----------------------------------------------------------------------------
(* No session and no window.                                               *)
LEMMA ShellsInitial == ShellsInit => ShellsInv
  <1> SUFFICES ASSUME ShellsInit PROVE ShellsInv
    OBVIOUS
  <1>1. MaxSessions \in Nat
    BY ShellsAssumption
  <1>2. TowerTypes
    BY <1>1 DEF ShellsInit, TowerTypes, Sessions, NoSession
  <1>3. spare \in [Pods -> Conns] /\ \A p \in Pods : spare[p][1] = p
    BY DEF ShellsInit, Conns
  <1>4. PageTypes /\ ConnTypes
    BY <1>3 DEF ShellsInit, PageTypes, ConnTypes, NoId
  <1>5. PodsMatch /\ WindowsMatch /\ ViewersMatch /\ MemoryMatches
    BY <1>3, NoConnFacts DEF ShellsInit, PodsMatch, WindowsMatch, ViewersMatch, MemoryMatches, Joining
  <1> QED BY <1>2, <1>4, <1>5 DEF ShellsInv

(* Every step keeps the invariant.                                         *)
LEMMA ShellsInductive == ShellsInv /\ [ShellsNext]_shellVars => ShellsInv'
  <1> SUFFICES ASSUME ShellsInv, [ShellsNext]_shellVars PROVE ShellsInv'
    OBVIOUS
  <1>1. CASE UNCHANGED shellVars
    <2>1. /\ UNCHANGED <<window, spare, saved, restoring, wanted, list, rash>>
          /\ UNCHANGED <<stage, on, told, ended, replay, seen, locked, registry, seq, session, unsent>>
      BY <1>1 DEF shellVars, pageVars, connVars, reapVars, towerVars
    <2>2. PageTypes' /\ ConnTypes' /\ TowerTypes'
      BY <2>1 DEF ShellsInv, PageTypes, ConnTypes, TowerTypes
    <2>3. PodsMatch' /\ WindowsMatch' /\ ViewersMatch' /\ MemoryMatches'
      BY <2>1 DEF ShellsInv, PodsMatch, WindowsMatch, ViewersMatch, MemoryMatches
    <2> QED BY <2>2, <2>3 DEF ShellsInv
  <1> QED BY <1>1, OpenTerminalKeeps, CloseWindowKeeps, ReloadKeeps, ListedKeeps, RestoreKeeps,
             AnnouncedKeeps, FindKeeps, NewShellSessionKeeps, AttachKeeps, ReplayKeeps, LeaveKeeps,
             OutputKeeps, ExitsKeeps, ActKeeps DEF ShellsNext

(* What the run checks follows.                                            *)
LEMMA ShellsFollow == ShellsInv => ShellsTypeOK /\ NothingMissed /\ OpenIsRemembered
  <1> SUFFICES ASSUME ShellsInv PROVE ShellsTypeOK /\ NothingMissed /\ OpenIsRemembered
    OBVIOUS
  <1>1. PageTypes /\ ConnTypes /\ TowerTypes /\ PodsMatch /\ WindowsMatch /\ ViewersMatch /\ MemoryMatches
    BY DEF ShellsInv
  <1>2. MaxSessions \in Nat /\ seq \in 0..MaxSessions /\ 0..seq \subseteq Ids \cup {NoId}
    BY <1>1, ShellsAssumption DEF TowerTypes, Ids, NoId
  <1>3. ShellsTypeOK
    <2>1. window \in [Pods -> Conns \cup {NoConn}] /\ saved \in [Pods -> Ids \cup {NoId}]
      BY <1>1, <1>2 DEF PageTypes
    <2>2. /\ stage \in [Conns -> {"none", "asked", "found", "attached", "live"}]
          /\ on \in [Conns -> Ids \cup {NoId}]
      BY <1>1, <1>2 DEF ConnTypes, Joining
    <2>3. registry \subseteq 1..seq /\ seq <= MaxSessions
      BY <1>1, <1>2 DEF TowerTypes
    <2>4. \A i \in Ids : session[i].client \in Conns \cup {NoConn} /\ unsent[i] <= session[i].output
      BY <1>1 DEF TowerTypes, Sessions
    <2> QED BY <2>1, <2>2, <2>3, <2>4 DEF ShellsTypeOK
  <1>4. NothingMissed
    BY <1>1 DEF PodsMatch, ViewersMatch, Joining, NothingMissed
  <1>5. OpenIsRemembered
    BY <1>1, <1>2, NoConnFacts DEF PageTypes, PodsMatch, MemoryMatches, Joining, OpenIsRemembered
  <1> QED BY <1>3, <1>4, <1>5

-----------------------------------------------------------------------------
(* All parts together.                                                     *)

(* No part disturbs what another relies on; the sim's router, which shares *)
(* a table with the headless one, has a loft that stands still.            *)
BridgesInv ==
  /\ LinkInv /\ RouteInv /\ SimInv /\ ShellsInv
  /\ part # "route" => heard = {}

(* Whichever part a behaviour is one of.                                   *)
LEMMA BridgesInitial == Init => BridgesInv
  <1> SUFFICES ASSUME Init PROVE BridgesInv
    OBVIOUS
  <1>1. LinkInv /\ ShellsInv
    BY LinkInitial, ShellsInitial DEF Init
  <1>2. CASE SimInit /\ part # "route"
    <2>1. SimInv /\ heard = {}
      BY <1>2, SimInitial DEF SimInit
    <2> QED BY <1>1, <1>2, <2>1, SimRouteInitial DEF BridgesInv
  <1>3. CASE AutorouteInit /\ part = "route"
    <2>1. SimInv
      BY <1>3, SimInitial DEF Init, SimInit
    <2> QED BY <1>1, <1>3, <2>1, RouteInitial DEF BridgesInv
  <1> QED BY <1>2, <1>3 DEF Init

(* The sim's state is its own.                                             *)
LEMMA SimStays == SimInv /\ UNCHANGED simOnly => SimInv'
  BY DEF simOnly, SimInv, Story, Caused, Buffered

(* The sim's page routes by the same table, for no host that was heard.    *)
LEMMA SimKeepsRoute ==
  ASSUME RouteInv, heard = {}, UNCHANGED outside,
         macTable' \in [Hosts \cup {Broadcast} -> Ports \cup {Unknown}]
  PROVE  RouteInv'
  <1>1. UNCHANGED <<at, notices, attached, ports, heard, missed>>
    BY DEF outside
  <1>2. TokensTrue' /\ Up' = Up
    BY <1>1 DEF RouteInv, TokensTrue, Up
  <1> QED BY <1>1, <1>2 DEF RouteInv, AutorouteTypeOK

(* A step is one of one part.                                              *)
LEMMA BridgesInductive == BridgesInv /\ [Next]_vars => BridgesInv'
  <1> SUFFICES ASSUME BridgesInv, [Next]_vars PROVE BridgesInv'
    OBVIOUS
  <1>1. LinkInv /\ RouteInv /\ SimInv /\ ShellsInv /\ (part # "route" => heard = {})
    BY DEF BridgesInv
  <1>2. CASE part = "link" /\ LinkNext /\ UNCHANGED linkRest /\ part' = part
    <2>1. UNCHANGED autorouteVars /\ UNCHANGED simOnly /\ UNCHANGED shellVars
      BY <1>2 DEF linkRest
    <2>2. LinkInv' /\ RouteInv' /\ ShellsInv'
      BY <1>1, <1>2, <2>1, LinkInductive, RouteInductive, ShellsInductive
    <2> QED BY <1>1, <1>2, <2>1, <2>2, SimStays DEF BridgesInv, autorouteVars
  <1>3. CASE part = "route" /\ AutorouteNext /\ UNCHANGED routeRest /\ part' = part
    <2>1. UNCHANGED linkVars /\ UNCHANGED simOnly /\ UNCHANGED shellVars
      BY <1>3 DEF routeRest
    <2>2. LinkInv' /\ RouteInv' /\ ShellsInv'
      BY <1>1, <1>3, <2>1, LinkInductive, RouteInductive, ShellsInductive
    <2> QED BY <1>1, <1>3, <2>1, <2>2, SimStays DEF BridgesInv
  <1>4. CASE part = "sim" /\ SimNext /\ UNCHANGED simRest /\ part' = part
    <2>1. UNCHANGED linkVars /\ UNCHANGED shellVars
      BY <1>4 DEF simRest
    <2>2. macTable \in [Hosts \cup {Broadcast} -> Ports \cup {Unknown}] /\ heard = {}
      BY <1>1, <1>4 DEF RouteInv, AutorouteTypeOK
    <2>3. /\ SimInv' /\ UNCHANGED outside
          /\ macTable' \in [Hosts \cup {Broadcast} -> Ports \cup {Unknown}]
      BY <1>1, <1>4, <2>2, SimSteps
    <2>4. LinkInv' /\ RouteInv' /\ ShellsInv'
      BY <1>1, <2>1, <2>2, <2>3, LinkInductive, SimKeepsRoute, ShellsInductive
    <2> QED BY <2>2, <2>3, <2>4 DEF BridgesInv, outside
  <1>5. CASE part = "shells" /\ ShellsNext /\ UNCHANGED shellRest /\ part' = part
    <2>1. UNCHANGED linkVars /\ UNCHANGED autorouteVars /\ UNCHANGED simOnly
      BY <1>5 DEF shellRest
    <2>2. LinkInv' /\ RouteInv' /\ ShellsInv'
      BY <1>1, <1>5, <2>1, LinkInductive, RouteInductive, ShellsInductive
    <2> QED BY <1>1, <1>5, <2>1, <2>2, SimStays DEF BridgesInv, autorouteVars
  <1>6. CASE UNCHANGED vars
    <2>1. /\ UNCHANGED linkVars /\ UNCHANGED autorouteVars /\ UNCHANGED simOnly /\ UNCHANGED shellVars
          /\ part' = part
      BY <1>6 DEF vars, simVars, simOnly, outside
    <2>2. LinkInv' /\ RouteInv' /\ ShellsInv'
      BY <1>1, <2>1, LinkInductive, RouteInductive, ShellsInductive
    <2> QED BY <1>1, <2>1, <2>2, SimStays DEF BridgesInv, autorouteVars
  <1> QED BY <1>2, <1>3, <1>4, <1>5, <1>6 DEF Next

(* Whatever sockets, timers, lofts, pods, pages and shells do.             *)
THEOREM BridgesSafety == Spec => []BridgesInv
  BY BridgesInitial, BridgesInductive, PTL DEF Spec

(* A page never has two sources of frames, nor a socket and a timer for    *)
(* the next one, and the loft's router is a page that knows it is, for any *)
(* number of pages that contend (wsbridge.ts connect, onclose; main.ts     *)
(* onState); and every variable of the four parts has its type.            *)
THEOREM OneSourceAlways == Spec => []OneSourceEach
  <1>1. LinkInv => LinkTypeOK /\ OneSource
    BY DEF LinkInv
  <1>2. RouteInv => AutorouteTypeOK
    BY DEF RouteInv
  <1>3. BridgesInv => OneSourceEach
    BY <1>1, <1>2, SimFollows, ShellsFollow DEF BridgesInv, OneSourceEach
  <1> QED BY <1>3, BridgesSafety, PTL

(* A host that was heard behind its port is reached there, and once the    *)
(* loft has no more to say the headless router knows its very ports,       *)
(* however hosts move and however much is said meanwhile (autoroute.mjs    *)
(* onMessage, onclose).                                                    *)
THEOREM HeardIsReachedAlways == Spec => []HeardIsReached
  <1>1. BridgesInv => HeardIsReached
    BY RouteFollows DEF BridgesInv
  <1> QED BY <1>1, BridgesSafety, PTL

(* The sim says that a router was built only to a page that did, with any  *)
(* number of frames held up and answers due (simbridge.ts podReceive).     *)
THEOREM MilestoneIsEarned == Spec => []BuiltARouter
  <1>1. BridgesInv => BuiltARouter
    BY SimFollows DEF BridgesInv
  <1> QED BY <1>1, BridgesSafety, PTL

(* A viewer of a shell gets all of its output, and is the only one, for    *)
(* any number of sessions (shell.go attach, Write, broadcast, reaper).     *)
THEOREM NothingMissedAlways == Spec => []NothingMissed
  <1>1. BridgesInv => NothingMissed
    BY ShellsFollow DEF BridgesInv
  <1> QED BY <1>1, BridgesSafety, PTL

(* A page remembers the shells it shows, through every order of reloads,   *)
(* closes, lists and announcements (terminal.ts restoreSessions).          *)
THEOREM OpenIsRememberedAlways == Spec => []OpenIsRemembered
  <1>1. BridgesInv => OpenIsRemembered
    BY ShellsFollow DEF BridgesInv
  <1> QED BY <1>1, BridgesSafety, PTL
=============================================================================
