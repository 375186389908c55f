---------------------------- MODULE NoticesProofs ----------------------------
(***************************************************************************)
(* Theorems about Trunk and ConsumerView, which MCNotices explores, for    *)
(* all pods and consumers and any number of connections, ports, tokens and *)
(* lives of the edge.                                                      *)
(***************************************************************************)
EXTENDS MCNotices, FiniteSetTheorems, SequenceTheorems, TLAPS

-----------------------------------------------------------------------------
(* Trunk: what its variables hold, beyond what TrunkTypeOK says of them:   *)
(* notices are of one port each, no list names a port twice, ids are given *)
(* once, and a connection that was not dialled yet is untouched.           *)
Notice == [t : {"added", "removed"}, ports : {{x} : x \in EdgePort}]

Report ==
  {m \in [t : {"hello", "added", "removed"}, ports : SUBSET EdgePort] :
     /\ \A x, y \in m.ports : x.id = y.id => x = y
     /\ m.t # "hello" => \E x \in EdgePort : m.ports = {x}}

EdgeTyped ==
  /\ nextEdgeID \in Nat \ {0} /\ past \in Nat /\ past + nextEdgeID <= MaxEdgePorts + 1
  /\ boots \in 1..MaxBoots
  /\ DOMAIN ports \subseteq 1..(nextEdgeID - 1) /\ \A i \in DOMAIN ports : ports[i] \in Pods
  /\ unsent \in Seq(Notice)
  /\ run \in {"dial", "snapshot", "hello", "read"} /\ greeting \subseteq EdgePort
  /\ \A x, y \in greeting : x.id = y.id => x = y
  /\ dialled \in 0..MaxConns /\ mine \in 0..dialled /\ cur \in {mine, NoConn}

NetworkTyped ==
  /\ broken \subseteq 1..dialled /\ up \in [Conns -> Seq(Report)]
  /\ \A k \in Conns : k > dialled => up[k] = <<>>

GatewayTyped ==
  /\ serving \subseteq 1..dialled /\ greeted \subseteq serving
  /\ nextSynth \in Nat \ {0} /\ DOMAIN remotePorts \subseteq 1..(nextSynth - 1)
  /\ DOMAIN portMap = Conns /\ \A k \in Conns : DOMAIN portMap[k] \subseteq EdgeIds
  /\ \A s \in DOMAIN remotePorts :
       remotePorts[s] \in [conn : Conns, id : EdgeIds, pod : Pods, addr : BOOLEAN]
  /\ tooEarly \in [Conns -> SUBSET ({"added", "removed"} \X EdgeIds)]
  /\ \A k \in Conns : k > dialled => DOMAIN portMap[k] = {} /\ tooEarly[k] = {}

Has(infos, i) == \E x \in infos : x.id = i
Gives(m, i) == m.t # "removed" /\ Has(m.ports, i)
Takes(m, i) == m.t = "removed" /\ Has(m.ports, i)

(* What the edge is about to report is true of its ports.                  *)
ReportsTrue ==
  /\ \A n \in DOMAIN unsent : \A x \in unsent[n].ports :
       /\ x.id < nextEdgeID
       /\ unsent[n].t = "added" => x.id \in DOMAIN ports /\ ports[x.id] = x.pod
       /\ unsent[n].t = "removed" => x.id \notin DOMAIN ports
  /\ \A x \in greeting : x.id < nextEdgeID /\ (x.id \in DOMAIN ports => x.pod = ports[x.id])
  /\ greeting # {} => run = "hello"

(* The connection t.run dialled last, while it is not broken.              *)
Active == mine # NoConn /\ mine \notin broken

ActiveHeld ==
  /\ run # "dial" => mine # NoConn
  /\ Active => cur = mine /\ run # "dial" /\ mine \in serving

(* All that is said of a port on it is of the port that has the id now.    *)
SaysTrue ==
  Active =>
    /\ \A n \in DOMAIN up[mine] : \A x \in up[mine][n].ports :
         /\ x.id < nextEdgeID
         /\ x.id \in DOMAIN ports => x.pod = ports[x.id] /\ up[mine][n].t # "removed"
    /\ \A i \in DOMAIN portMap[mine] :
         /\ i < nextEdgeID
         /\ i \in DOMAIN ports => remotePorts[portMap[mine][i]].pod = ports[i]

(* A port of the edge is known to the gateway, or will be told of.         *)
Coming(i) ==
  \/ i \in DOMAIN portMap[mine] \/ run = "snapshot" \/ Has(greeting, i)
  \/ \E n \in DOMAIN up[mine] : Gives(up[mine][n], i)
  \/ \E n \in DOMAIN unsent : Gives(unsent[n], i)

NoneMissed == Active => \A i \in DOMAIN ports : Coming(i)

(* The last that is said of a port on its way to the gateway is that it is *)
(* gone, or nothing is said of it and the gateway does not know it.        *)
Gone(i) ==
  \/ i \notin DOMAIN portMap[mine] /\ \A n \in DOMAIN up[mine] : ~Gives(up[mine][n], i)
  \/ \E n \in DOMAIN up[mine] :
       Takes(up[mine][n], i) /\ \A m \in DOMAIN up[mine] : m > n => ~Gives(up[mine][m], i)

NoneTooMany ==
  Active => \A i \in EdgeIds \ DOMAIN ports :
    \/ <<"removed", i>> \in tooEarly[mine]
    \/ \E n \in DOMAIN unsent : Takes(unsent[n], i)
    \/ ~Has(greeting, i) /\ Gone(i)

(* Only a port told of before the hello is registered without an address.  *)
AddressKnown ==
  Active =>
    /\ run = "read" => mine \in greeted \/ \E n \in DOMAIN up[mine] : up[mine][n].t = "hello"
    /\ \A n \in DOMAIN up[mine] :
         \/ mine \in greeted \/ \E m \in 1..n : up[mine][m].t = "hello"
         \/ \A x \in up[mine][n].ports : <<up[mine][n].t, x.id>> \in tooEarly[mine]
    /\ \A i \in DOMAIN portMap[mine] :
         remotePorts[portMap[mine][i]].addr \/ <<"added", i>> \in tooEarly[mine]

TrunkTyped == EdgeTyped /\ NetworkTyped /\ GatewayTyped

TrunkInv ==
  /\ TrunkTyped /\ MapsAgree /\ ReportsTrue /\ ActiveHeld
  /\ SaysTrue /\ NoneMissed /\ NoneTooMany /\ AddressKnown

-----------------------------------------------------------------------------
(* ConsumerView: what its variables hold, beyond what TypeOK says of them. *)
Note == [t : {"added", "removed", "token", "reply"}, ids : {{p} : p \in PortIds}]
Post == [t : {"hello", "added", "removed", "token"}, ids : SUBSET PortIds]
Given == 1..(nextID - 1)

ViewTyped ==
  /\ nextID \in 1..(MaxPorts + 1) /\ live \subseteq Given /\ agents \subseteq Given
  /\ reading \subseteq Given /\ tokens \in [PortIds -> 0..MaxTokens]
  /\ todo \in [Workers -> Seq(Note)]
  /\ stage \in [Workers -> {"lookup", "router", "observers"}]
  /\ dest \in [Workers -> SUBSET Consumers]
  /\ client \in Routers \cup {NoRouter} /\ observers \subseteq Observers
  /\ conn \in [Consumers -> {"new", "attached", "greeted", "closed", "gone"}]
  /\ snap \in [Consumers -> SUBSET PortIds] /\ view \in [Consumers -> SUBSET PortIds]
  /\ told \in [Consumers -> SUBSET PortIds] /\ strange \in [Consumers -> SUBSET Given]
  /\ overtaken \in [Consumers -> SUBSET PortIds]
  /\ chan \in [Consumers -> Seq(Post)]

(* What a goroutine has still to send is true of the ports: an added port  *)
(* is announced by the goroutine that added it and not read from yet, and  *)
(* only a reader has tokens to send.                                       *)
TodoTrue(w) ==
  \A n \in DOMAIN todo[w] : \A p \in todo[w][n].ids :
    /\ p < nextID
    /\ todo[w][n].t = "added" =>
         /\ n = 1 /\ p \in live /\ p \notin reading
         /\ w = IF p \in agents THEN p ELSE Scanner
    /\ todo[w][n].t = "removed" => p \notin live
    /\ todo[w][n].t = "reply" => p = w /\ p \in agents
    /\ todo[w][n].t = "token" => p = w /\ p \in reading

(* No list of consumers is left over from an earlier message.              *)
StageTrue(w) ==
  /\ todo[w] = <<>> \/ todo[w][1].t = "reply" => stage[w] = "lookup"
  /\ stage[w] = "lookup" => dest[w] = {}
  /\ w >= nextID => todo[w] = <<>>

WorkTrue == \A w \in Workers : TodoTrue(w) /\ StageTrue(w)

(* The consumers of the loft are the open connections, and one that has    *)
(* not attached yet knows nothing.                                         *)
ConnsHeld ==
  /\ \A c \in Routers : Open(c) <=> client = c
  /\ \A c \in Observers : Open(c) <=> c \in observers
  /\ \A c \in Consumers : conn[c] = "new" =>
       chan[c] = <<>> /\ view[c] = {} /\ told[c] = {} /\ strange[c] = {}

(* A consumer is greeted once, and what it hears before that is recorded.  *)
HelloIn(c) == \E n \in DOMAIN chan[c] : chan[c][n].t = "hello"
Unsynced(c) == conn[c] = "attached" \/ HelloIn(c)
BeforeHello(c, n) ==
  conn[c] = "attached" \/ \E m \in DOMAIN chan[c] : m > n /\ chan[c][m].t = "hello"

GreetedOnce(c) ==
  /\ \A m, n \in DOMAIN chan[c] : chan[c][m].t = "hello" /\ chan[c][n].t = "hello" => m = n
  /\ conn[c] = "attached" => ~HelloIn(c)
  /\ Unsynced(c) => view[c] \cup told[c] \subseteq overtaken[c]
  /\ \A n \in DOMAIN chan[c] :
       chan[c][n].t \in {"added", "removed"} /\ BeforeHello(c, n) => chan[c][n].ids \subseteq overtaken[c]

Shows(m, p) == m.t \in {"hello", "added"} /\ p \in m.ids
Hides(m, p) == m.t = "removed" /\ p \in m.ids

(* What is on its way is about ports that were given out, and no departure *)
(* is of a port that is there.                                             *)
ChanTrue(c) ==
  \A n \in DOMAIN chan[c] :
    /\ chan[c][n].t # "hello" => chan[c][n].ids \subseteq Given
    /\ \A p \in live : ~Hides(chan[c][n], p)

(* A message about port p that some goroutine will yet write to c.         *)
Pending(w, n, c) ==
  n > 1 \/ stage[w] = "lookup" \/ c \in dest[w] \/ (stage[w] = "router" /\ c \in Observers)

Awaits(c, t, p) ==
  \E w \in Workers : \E n \in DOMAIN todo[w] :
    todo[w][n].t = t /\ p \in todo[w][n].ids /\ Pending(w, n, c)

(* A port that is there is known, or will be told of.                      *)
NonePassedOver(c) ==
  \A p \in live \ overtaken[c] :
    \/ p \in view[c] /\ p \in told[c]
    \/ \E n \in DOMAIN chan[c] : Shows(chan[c][n], p)
    \/ conn[c] = "attached" /\ p \in snap[c]
    \/ Awaits(c, "added", p)

(* A port that is gone is not known, or its departure will be told of.     *)
Departs(c, p) ==
  \/ p \notin view[c] /\ \A n \in DOMAIN chan[c] : ~Shows(chan[c][n], p)
  \/ \E n \in DOMAIN chan[c] :
       Hides(chan[c][n], p) /\ \A m \in DOMAIN chan[c] : m > n => ~Shows(chan[c][m], p)

NoneLeftOver(c) ==
  \A p \in PortIds \ (live \cup overtaken[c]) :
    \/ Awaits(c, "removed", p)
    \/ ~(conn[c] = "attached" /\ p \in snap[c]) /\ Departs(c, p)

(* Before a token of a port comes word of the port.                        *)
TokensFollow(c) ==
  /\ \A n \in DOMAIN chan[c] : \A p \in (chan[c][n].ids \cap live) \ overtaken[c] :
       chan[c][n].t = "token" =>
         BeforeHello(c, n) \/ p \in told[c] \/ \E m \in 1..n : Shows(chan[c][m], p)
  /\ ~Unsynced(c) => strange[c] \cap live \subseteq overtaken[c]

Abreast(c) ==
  GreetedOnce(c) /\ ChanTrue(c) /\ NonePassedOver(c) /\ NoneLeftOver(c) /\ TokensFollow(c)

ViewInv == ViewTyped /\ WorkTrue /\ ConnsHeld /\ \A c \in Consumers : Open(c) => Abreast(c)

NoticesInv == TrunkInv /\ ViewInv
-----------------------------------------------------------------------------
(* Trunk: sequences and the two maps.                                      *)

LEMMA AppendedFacts ==
  ASSUME NEW S, NEW q \in Seq(S), NEW m \in S
  PROVE  /\ Append(q, m) \in Seq(S) /\ Len(q) \in Nat
         /\ DOMAIN q = 1..Len(q) /\ DOMAIN Append(q, m) = 1..(Len(q) + 1)
         /\ \A n \in 1..Len(q) : Append(q, m)[n] = q[n]
         /\ Append(q, m)[Len(q) + 1] = m
  OBVIOUS

LEMMA ReadFacts ==
  ASSUME NEW S, NEW q \in Seq(S), q # <<>>
  PROVE  /\ Head(q) \in S /\ Head(q) = q[1]
         /\ Tail(q) \in Seq(S) /\ Len(q) \in Nat /\ Len(q) > 0
         /\ DOMAIN q = 1..Len(q) /\ DOMAIN Tail(q) = 1..(Len(q) - 1)
         /\ \A n \in 1..(Len(q) - 1) : Tail(q)[n] = q[n + 1]
  OBVIOUS

(* A list of ports that names none twice can be counted out.               *)
LEMMA ListFacts ==
  ASSUME NEW infos \in SUBSET EdgePort, \A x, y \in infos : x.id = y.id => x = y
  PROVE  LET q == SetToSeq(infos) IN
         /\ q \in Seq(infos) /\ DOMAIN q = 1..Len(q) /\ Len(q) \in Nat
         /\ \A m, n \in DOMAIN q : q[m] = q[n] => m = n
         /\ \A x \in infos : \E n \in DOMAIN q : q[n] = x
  <1> DEFINE f == [x \in infos |-> x.id]
             N == Cardinality(infos)
             q == SetToSeq(infos)
  <1>1. f \in Injection(infos, EdgeIds)
    <2>1. f \in [infos -> EdgeIds]
      BY DEF EdgePort
    <2>2. \A a, b \in DOMAIN f : f[a] = f[b] => a = b
      OBVIOUS
    <2> QED BY <2>1, <2>2 DEF Injection, IsInjective
  <1>2. IsFiniteSet(EdgeIds)
    BY FS_Interval, TrunkAssumption DEF EdgeIds
  <1>3. IsFiniteSet(infos)
    BY <1>1, <1>2, FS_Injection
  <1>4. PICK n \in Nat : ExistsBijection(1..n, infos)
    BY <1>3, FS_NatBijection
  <1>5. N = n
    BY <1>4, FS_CountingElements
  <1>6. \E g \in [1..N -> infos] : IsInjective(g)
    BY <1>4, <1>5 DEF ExistsBijection, Bijection, Injection
  <1>7. q \in [1..N -> infos] /\ IsInjective(q)
    BY <1>6 DEF SetToSeq
  <1>8. q \in Seq(infos) /\ DOMAIN q = 1..Len(q) /\ Len(q) = N /\ N \in Nat
    BY <1>5, <1>7
  <1>9. q \in Injection(1..N, infos)
    BY <1>7 DEF Injection
  <1>10. Cardinality(1..N) = N /\ IsFiniteSet(1..N)
    BY <1>8, FS_Interval
  <1>11. q \in Surjection(1..N, infos)
    BY <1>3, <1>9, <1>10, FS_Injection
  <1>12. \A x \in infos : \E m \in DOMAIN q : q[m] = x
    BY <1>7, <1>11 DEF Surjection
  <1>13. \A m, o \in DOMAIN q : q[m] = q[o] => m = o
    BY <1>7 DEF IsInjective
  <1> HIDE DEF q
  <1> QED BY <1>8, <1>12, <1>13 DEF q

(* An order of a finite set has all of it.                                 *)
LEMMA OrderFacts ==
  ASSUME NEW S, IsFiniteSet(S), NEW q \in SetToSeqs(S)
  PROVE  /\ q \in Seq(S) /\ DOMAIN q = 1..Len(q) /\ Len(q) \in Nat
         /\ \A x \in S : \E n \in DOMAIN q : q[n] = x
  <1> DEFINE N == Cardinality(S)
  <1>1. N \in Nat
    BY FS_CardinalityType
  <1>2. q \in [1..N -> S] /\ \A m, n \in 1..N : m # n => q[m] # q[n]
    BY DEF SetToSeqs
  <1>3. q \in Injection(1..N, S)
    BY <1>2 DEF Injection, IsInjective
  <1>4. Cardinality(1..N) = N /\ IsFiniteSet(1..N)
    BY <1>1, FS_Interval
  <1>5. q \in Surjection(1..N, S)
    BY <1>3, <1>4, FS_Injection
  <1>6. \A x \in S : \E n \in DOMAIN q : q[n] = x
    BY <1>2, <1>5 DEF Surjection
  <1>7. q \in Seq(S) /\ DOMAIN q = 1..Len(q) /\ Len(q) \in Nat
    BY <1>1, <1>2
  <1> QED BY <1>6, <1>7

(* What registerRemotePort makes of a list: a new id for each port that    *)
(* was not mapped, and nothing else.                                       *)
LEMMA RegisterFacts ==
  ASSUME TrunkTyped, NEW k \in Conns, NEW infos \in SUBSET EdgePort,
         \A x, y \in infos : x.id = y.id => x = y, Register(k, infos)
  PROVE  /\ nextSynth' \in Nat \ {0} /\ nextSynth' >= nextSynth
         /\ DOMAIN portMap' = Conns /\ \A j \in Conns \ {k} : portMap'[j] = portMap[j]
         /\ DOMAIN portMap'[k] = DOMAIN portMap[k] \cup {x.id : x \in infos}
         /\ \A i \in DOMAIN portMap[k] : portMap'[k][i] = portMap[k][i]
         /\ DOMAIN remotePorts \subseteq DOMAIN remotePorts'
         /\ \A s \in DOMAIN remotePorts : remotePorts'[s] = remotePorts[s]
         /\ \A s \in DOMAIN remotePorts' \ DOMAIN remotePorts : \E x \in infos :
              /\ s \in nextSynth..(nextSynth' - 1) /\ x.id \notin DOMAIN portMap[k]
              /\ portMap'[k][x.id] = s
              /\ remotePorts'[s] = [conn |-> k, id |-> x.id, pod |-> x.pod, addr |-> k \in greeted']
         /\ \A x \in infos : x.id \notin DOMAIN portMap[k] =>
              /\ portMap'[k][x.id] \in DOMAIN remotePorts' \ DOMAIN remotePorts
              /\ remotePorts'[portMap'[k][x.id]]
                 = [conn |-> k, id |-> x.id, pod |-> x.pod, addr |-> k \in greeted']
  <1> DEFINE new == {x \in infos : x.id \notin DOMAIN portMap[k]}
             fresh == SetToSeq(new)
             given == {nextSynth + n - 1 : n \in DOMAIN fresh}
             of(s) == fresh[s - nextSynth + 1]
             news == {fresh[n].id : n \in DOMAIN fresh}
             num(i) == CHOOSE s \in given : of(s).id = i
  <1>1. /\ fresh \in Seq(new) /\ DOMAIN fresh = 1..Len(fresh) /\ Len(fresh) \in Nat
        /\ \A m, n \in DOMAIN fresh : fresh[m] = fresh[n] => m = n
        /\ \A x \in new : \E n \in DOMAIN fresh : fresh[n] = x
    <2>1. new \in SUBSET EdgePort /\ \A x, y \in new : x.id = y.id => x = y
      OBVIOUS
    <2> HIDE DEF new
    <2> QED BY <2>1, ListFacts
  <1>2. given = {[o \in DOMAIN fresh |-> nextSynth + o - 1][n] : n \in DOMAIN fresh}
    OBVIOUS
  <1>3. /\ nextSynth' = nextSynth + Len(fresh)
        /\ portMap' = [portMap EXCEPT ![k] =
             [i \in DOMAIN @ \cup news |-> IF i \in news THEN num(i) ELSE portMap[k][i]]]
        /\ remotePorts' = [s \in DOMAIN remotePorts \cup given |->
             IF s \in given
             THEN [conn |-> k, id |-> of(s).id, pod |-> of(s).pod, addr |-> k \in greeted']
             ELSE remotePorts[s]]
    BY <1>2 DEF Register
  <1>4. /\ nextSynth \in Nat \ {0} /\ DOMAIN remotePorts \subseteq 1..(nextSynth - 1)
        /\ DOMAIN portMap = Conns
    BY DEF TrunkTyped, GatewayTyped
  <1>5. \A s \in given : /\ s \in nextSynth..(nextSynth' - 1)
                         /\ s - nextSynth + 1 \in DOMAIN fresh /\ of(s) \in new
    <2> SUFFICES ASSUME NEW n \in DOMAIN fresh
                 PROVE  /\ nextSynth + n - 1 \in nextSynth..(nextSynth' - 1)
                        /\ (nextSynth + n - 1) - nextSynth + 1 \in DOMAIN fresh
                        /\ of(nextSynth + n - 1) \in new
      OBVIOUS
    <2>1. n \in 1..Len(fresh) /\ n \in Nat /\ fresh[n] \in new
      BY <1>1
    <2>2. (nextSynth + n - 1) - nextSynth + 1 = n
      BY <1>4, <2>1
    <2> HIDE DEF fresh, new
    <2> QED BY <1>1, <1>3, <1>4, <2>1, <2>2
  <1>6. \A x \in new : \E s \in given : of(s) = x
    <2> SUFFICES ASSUME NEW x \in new PROVE \E s \in given : of(s) = x
      OBVIOUS
    <2>1. PICK n \in DOMAIN fresh : fresh[n] = x
      BY <1>1
    <2>2. (nextSynth + n - 1) - nextSynth + 1 = n
      BY <1>1, <1>4
    <2> QED BY <2>1, <2>2
  <1>7. \A s, r \in given : of(s).id = of(r).id => s = r
    <2> SUFFICES ASSUME NEW s \in given, NEW r \in given, of(s).id = of(r).id PROVE s = r
      OBVIOUS
    <2>1. of(s) \in infos /\ of(r) \in infos
      BY <1>5
    <2>2. of(s) = of(r)
      BY <2>1
    <2>3. s - nextSynth + 1 = r - nextSynth + 1
      BY <1>1, <1>5, <2>2
    <2>4. s \in Int /\ r \in Int
      BY <1>5
    <2> QED BY <1>4, <2>3, <2>4
  <1>8. news = {x.id : x \in new}
    <2>1. \A n \in DOMAIN fresh : fresh[n] \in new
      BY <1>1
    <2> HIDE DEF fresh, new
    <2> QED BY <1>1, <2>1
  <1> HIDE DEF fresh
  <1>9. \A s \in given : num(of(s).id) = s
    BY <1>7
  <1> HIDE DEF num, of, given
  <1>10. DOMAIN portMap'[k] = DOMAIN portMap[k] \cup {x.id : x \in infos}
    BY <1>3, <1>4, <1>8
  <1>11. \A i \in DOMAIN portMap[k] : i \notin news
    BY <1>8
  <1>12. given \cap DOMAIN remotePorts = {}
    BY <1>4, <1>5
  <1>13. \A s \in given : portMap'[k][of(s).id] = s /\ of(s).id \notin DOMAIN portMap[k]
    <2> SUFFICES ASSUME NEW s \in given
                 PROVE  portMap'[k][of(s).id] = s /\ of(s).id \notin DOMAIN portMap[k]
      OBVIOUS
    <2>1. of(s).id \in news
      BY <1>5, <1>8
    <2>2. portMap'[k][of(s).id] = num(of(s).id)
      BY <1>3, <1>4, <2>1
    <2> QED BY <1>9, <1>11, <2>1, <2>2
  <1>14. \A j \in Conns \ {k} : portMap'[j] = portMap[j]
    BY <1>3, <1>4
  <1>15. \A i \in DOMAIN portMap[k] : portMap'[k][i] = portMap[k][i]
    BY <1>3, <1>4, <1>11
  <1>16. /\ DOMAIN remotePorts' = DOMAIN remotePorts \cup given
         /\ \A s \in DOMAIN remotePorts : remotePorts'[s] = remotePorts[s]
         /\ \A s \in given : remotePorts'[s] =
              [conn |-> k, id |-> of(s).id, pod |-> of(s).pod, addr |-> k \in greeted']
    BY <1>3, <1>12
  <1>17. \A s \in DOMAIN remotePorts' \ DOMAIN remotePorts : \E x \in infos :
              /\ s \in nextSynth..(nextSynth' - 1) /\ x.id \notin DOMAIN portMap[k]
              /\ portMap'[k][x.id] = s
              /\ remotePorts'[s] = [conn |-> k, id |-> x.id, pod |-> x.pod, addr |-> k \in greeted']
    BY <1>5, <1>13, <1>16
  <1>18. \A x \in infos : x.id \notin DOMAIN portMap[k] =>
              /\ portMap'[k][x.id] \in DOMAIN remotePorts' \ DOMAIN remotePorts
              /\ remotePorts'[portMap'[k][x.id]]
                 = [conn |-> k, id |-> x.id, pod |-> x.pod, addr |-> k \in greeted']
    <2> SUFFICES ASSUME NEW x \in infos, x.id \notin DOMAIN portMap[k]
                 PROVE  /\ portMap'[k][x.id] \in DOMAIN remotePorts' \ DOMAIN remotePorts
                        /\ remotePorts'[portMap'[k][x.id]]
                           = [conn |-> k, id |-> x.id, pod |-> x.pod, addr |-> k \in greeted']
      OBVIOUS
    <2>1. PICK s \in given : of(s) = x
      BY <1>6
    <2> QED BY <1>12, <1>13, <1>16, <2>1
  <1>19. nextSynth' \in Nat \ {0} /\ nextSynth' >= nextSynth /\ DOMAIN portMap' = Conns
    BY <1>1, <1>3, <1>4
  <1> QED BY <1>10, <1>14, <1>15, <1>16, <1>17, <1>18, <1>19

(* What is forgotten of one port, and nothing else.                        *)
LEMMA UnregisterFacts ==
  ASSUME TrunkTyped, MapsAgree, NEW k \in Conns, NEW id, Unregister(k, id)
  PROVE  /\ DOMAIN portMap' = Conns /\ \A j \in Conns \ {k} : portMap'[j] = portMap[j]
         /\ DOMAIN portMap'[k] = DOMAIN portMap[k] \ {id}
         /\ \A i \in DOMAIN portMap'[k] : portMap'[k][i] = portMap[k][i]
         /\ DOMAIN remotePorts' \subseteq DOMAIN remotePorts
         /\ \A s \in DOMAIN remotePorts' : remotePorts'[s] = remotePorts[s]
         /\ \A s \in DOMAIN remotePorts : s \in DOMAIN remotePorts' <=>
              ~(remotePorts[s].conn = k /\ remotePorts[s].id = id)
  <1>1. DOMAIN portMap = Conns
    BY DEF TrunkTyped, GatewayTyped
  <1>2. CASE id \in DOMAIN portMap[k]
    <2>1. /\ portMap' = [portMap EXCEPT ![k] = Minus(portMap[k], {id})]
          /\ remotePorts' = Minus(remotePorts, {portMap[k][id]})
      BY <1>2 DEF Unregister
    <2>2. \A s \in DOMAIN remotePorts :
            s = portMap[k][id] <=> remotePorts[s].conn = k /\ remotePorts[s].id = id
      BY <1>2 DEF MapsAgree
    <2>3. DOMAIN remotePorts' = DOMAIN remotePorts \ {portMap[k][id]}
      BY <2>1 DEF Minus
    <2>4. \A s \in DOMAIN remotePorts' : remotePorts'[s] = remotePorts[s]
      BY <2>1, <2>3 DEF Minus
    <2> QED BY <1>1, <2>1, <2>2, <2>3, <2>4 DEF Minus
  <1>3. CASE id \notin DOMAIN portMap[k]
    <2>1. UNCHANGED <<portMap, remotePorts>>
      BY <1>3 DEF Unregister
    <2>2. \A s \in DOMAIN remotePorts : ~(remotePorts[s].conn = k /\ remotePorts[s].id = id)
      BY <1>3 DEF MapsAgree
    <2> QED BY <1>1, <1>3, <2>1, <2>2
  <1> QED BY <1>2, <1>3

(* A message is of some ports, and other than a hello of one.              *)
LEMMA ReportFacts ==
  ASSUME NEW m \in Report
  PROVE  /\ m.t \in {"hello", "added", "removed"} /\ m.ports \in SUBSET EdgePort
         /\ \A x, y \in m.ports : x.id = y.id => x = y
         /\ \A x \in m.ports : x.id \in EdgeIds /\ x.pod \in Pods
         /\ m.t # "hello" => \E x \in EdgePort : m.ports = {x}
  BY DEF Report, EdgePort

LEMMA NoticesAreReports ==
  ASSUME NEW m \in Notice
  PROVE  m \in Report /\ m.t \in {"added", "removed"}
  BY DEF Notice, Report

(* The gateway reads one message: a list or one departure.                 *)
LEMMA GatewayReadsFacts ==
  ASSUME TrunkTyped, NEW k \in Conns, GatewayReads(k)
  PROVE  /\ k \in serving /\ up[k] # <<>> /\ Head(up[k]) \in Report /\ Head(up[k]) = up[k][1]
         /\ up' = [up EXCEPT ![k] = Tail(up[k])]
         /\ greeted' = IF Head(up[k]).t = "hello" THEN greeted \cup {k} ELSE greeted
         /\ UNCHANGED <<edgePorts, edgeTrunk, dialled, broken, serving, tooEarly>>
         /\ \/ Head(up[k]).t # "removed" /\ Register(k, Head(up[k]).ports)
            \/ /\ Head(up[k]).t = "removed" /\ nextSynth' = nextSynth
               /\ \E x \in EdgePort : Head(up[k]).ports = {x} /\ Unregister(k, x.id)
  <1> DEFINE m == Head(up[k])
  <1>1. up[k] \in Seq(Report) /\ up[k] # <<>>
    BY DEF TrunkTyped, NetworkTyped, GatewayReads
  <1>2. m \in Report /\ m = up[k][1]
    BY <1>1, ReadFacts
  <1>3. /\ k \in serving /\ up' = [up EXCEPT ![k] = Tail(up[k])]
        /\ greeted' = IF m.t = "hello" THEN greeted \cup {k} ELSE greeted
        /\ UNCHANGED <<edgePorts, edgeTrunk, dialled, broken, serving, tooEarly>>
    BY DEF GatewayReads
  <1>4. \/ m.t \in {"hello", "added"} /\ Register(k, m.ports)
        \/ /\ m.t = "removed" /\ UNCHANGED nextSynth
           /\ \A i \in m.ports : Unregister(k, i.id)
    BY DEF GatewayReads
  <1> HIDE DEF m
  <1>5. CASE m.t \in {"hello", "added"} /\ Register(k, m.ports)
    BY <1>1, <1>2, <1>3, <1>5 DEF m
  <1>6. CASE m.t = "removed" /\ UNCHANGED nextSynth /\ \A i \in m.ports : Unregister(k, i.id)
    <2>1. PICK x \in EdgePort : m.ports = {x}
      BY <1>2, <1>6, ReportFacts
    <2>2. Unregister(k, x.id)
      BY <1>6, <2>1
    <2> QED BY <1>1, <1>2, <1>3, <1>6, <2>1, <2>2 DEF m
  <1> QED BY <1>4, <1>5, <1>6

(* A message is written to an open connection, or lost.                    *)
LEMMA SendFacts ==
  ASSUME TrunkTyped, NEW m \in Report, Send(m)
  PROVE  /\ cur' \in {cur, NoConn} /\ up' \in [Conns -> Seq(Report)]
         /\ \A k \in Conns : k > dialled => up'[k] = up[k]
         /\ cur' # cur => cur \in broken
         /\ \A k \in Conns : k # cur \/ k \in broken => up'[k] = up[k]
         /\ cur \in Conns \ broken => cur' = cur /\ up'[cur] = Append(up[cur], m)
  <1>1. up \in [Conns -> Seq(Report)] /\ cur \in 0..dialled /\ dialled \in 0..MaxConns /\ broken \subseteq Conns
    BY TrunkAssumption DEF TrunkTyped, NetworkTyped, EdgeTyped, NoConn, Conns
  <1>2. CASE cur = NoConn /\ UNCHANGED <<cur, up>>
    BY <1>1, <1>2 DEF Conns, NoConn
  <1>3. CASE cur \in Conns \ broken /\ up' = [up EXCEPT ![cur] = Append(up[cur], m)] /\ UNCHANGED cur
    <2>1. Append(up[cur], m) \in Seq(Report)
      BY <1>1, <1>3, AppendedFacts
    <2>2. \A k \in Conns : k > dialled => k # cur
      BY <1>1 DEF Conns
    <2> QED BY <1>1, <1>3, <2>1, <2>2
  <1>4. CASE cur \in broken /\ cur' \in {cur, NoConn} /\ UNCHANGED up
    BY <1>1, <1>4
  <1> QED BY <1>2, <1>3, <1>4 DEF Send

(* The snapshot names each port once, with its pod.                        *)
LEMMA InfosFacts ==
  ASSUME EdgeTyped
  PROVE  /\ Infos \in SUBSET EdgePort /\ \A x, y \in Infos : x.id = y.id => x = y
         /\ \A x \in Infos : x.id \in DOMAIN ports /\ x.pod = ports[x.id]
         /\ \A i \in DOMAIN ports : Has(Infos, i)
         /\ DOMAIN ports \subseteq EdgeIds
  <1>1. DOMAIN ports \subseteq EdgeIds /\ \A i \in DOMAIN ports : ports[i] \in Pods
    BY TrunkAssumption DEF EdgeTyped, EdgeIds
  <1>2. \A x \in Infos : x.id \in DOMAIN ports /\ x = [id |-> x.id, pod |-> ports[x.id]]
    BY DEF Infos
  <1>3. \A i \in DOMAIN ports : [id |-> i, pod |-> ports[i]] \in Infos
    BY DEF Infos
  <1>4. \A x \in Infos : x.pod = ports[x.id]
    BY <1>2
  <1>5. Infos \in SUBSET EdgePort
    BY <1>1, <1>2 DEF EdgePort
  <1>6. \A x, y \in Infos : x.id = y.id => x = y
    BY <1>2
  <1>7. \A i \in DOMAIN ports : Has(Infos, i)
    BY <1>3 DEF Has
  <1> QED BY <1>1, <1>2, <1>4, <1>5, <1>6, <1>7

-----------------------------------------------------------------------------
(* Trunk: types and maps are kept.                                         *)

LEMMA AddPortKeepsTypes ==
  ASSUME EdgeTyped, NEW pod \in Pods, AddPort(pod)
  PROVE  EdgeTyped'
  <1> DEFINE note == TrunkMessage("added", {[id |-> nextEdgeID, pod |-> pod]})
  <1>1. /\ past + nextEdgeID <= MaxEdgePorts /\ nextEdgeID' = nextEdgeID + 1
        /\ ports' = [i \in DOMAIN ports \cup {nextEdgeID} |-> IF i = nextEdgeID THEN pod ELSE ports[i]]
        /\ unsent' = <<note>>
        /\ UNCHANGED <<boots, past, cur, run, mine, greeting, dialled>>
    BY DEF AddPort, edgeTrunk, network
  <1>2. note \in Notice
    <2>1. [id |-> nextEdgeID, pod |-> pod] \in EdgePort
      BY <1>1, TrunkAssumption DEF EdgeTyped, EdgePort, EdgeIds
    <2> QED BY <2>1 DEF Notice, TrunkMessage
  <1> HIDE DEF note
  <1>3. unsent' \in Seq(Notice)
    BY <1>1, <1>2
  <1>4. DOMAIN ports' \subseteq 1..(nextEdgeID' - 1) /\ \A i \in DOMAIN ports' : ports'[i] \in Pods
    BY <1>1 DEF EdgeTyped
  <1>5. nextEdgeID' \in Nat \ {0} /\ past' \in Nat /\ past' + nextEdgeID' <= MaxEdgePorts + 1
    BY <1>1, TrunkAssumption DEF EdgeTyped
  <1> QED BY <1>1, <1>3, <1>4, <1>5 DEF EdgeTyped

LEMMA ScanGoneKeepsTypes ==
  ASSUME EdgeTyped, EdgeScanGone
  PROVE  EdgeTyped'
  <1>1. PICK gone \in SUBSET DOMAIN ports \ {{}} : \E order \in SetToSeqs(gone) :
          /\ ports' = Minus(ports, gone)
          /\ unsent' = [n \in DOMAIN order |->
                        TrunkMessage("removed", {[id |-> order[n], pod |-> ports[order[n]]]})]
    BY DEF EdgeScanGone
  <1>2. PICK order \in SetToSeqs(gone) :
          /\ ports' = Minus(ports, gone)
          /\ unsent' = [n \in DOMAIN order |->
                        TrunkMessage("removed", {[id |-> order[n], pod |-> ports[order[n]]]})]
    BY <1>1
  <1>3. IsFiniteSet(gone)
    <2>1. IsFiniteSet(1..(nextEdgeID - 1))
      BY FS_Interval DEF EdgeTyped
    <2>2. gone \in SUBSET (1..(nextEdgeID - 1))
      BY <1>1 DEF EdgeTyped
    <2> QED BY <2>1, <2>2, FS_Subset
  <1>4. Cardinality(gone) \in Nat /\ order \in [1..Cardinality(gone) -> gone]
    BY <1>3, FS_CardinalityType DEF SetToSeqs
  <1>5. \A n \in DOMAIN order :
          TrunkMessage("removed", {[id |-> order[n], pod |-> ports[order[n]]]}) \in Notice
    <2> SUFFICES ASSUME NEW n \in DOMAIN order
                 PROVE  TrunkMessage("removed", {[id |-> order[n], pod |-> ports[order[n]]]}) \in Notice
      OBVIOUS
    <2>1. [id |-> order[n], pod |-> ports[order[n]]] \in EdgePort
      BY <1>1, <1>4, InfosFacts DEF EdgeTyped, EdgePort
    <2> QED BY <2>1 DEF Notice, TrunkMessage
  <1>6. unsent' \in Seq(Notice)
    <2>1. unsent' \in [1..Cardinality(gone) -> Notice]
      BY <1>2, <1>4, <1>5
    <2> QED BY <1>4, <2>1
  <1>7. UNCHANGED <<nextEdgeID, boots, past, cur, run, mine, greeting, dialled>>
    BY DEF EdgeScanGone, edgeTrunk, network
  <1>8. DOMAIN ports' \subseteq DOMAIN ports /\ \A i \in DOMAIN ports' : ports'[i] = ports[i]
    BY <1>2 DEF Minus
  <1> QED BY <1>6, <1>7, <1>8 DEF EdgeTyped

(* A step of the edge's end of the trunk, of the network or of the gateway. *)
LEMMA EdgeTypesKept ==
  ASSUME TrunkTyped, TrunkNext
  PROVE  EdgeTyped'
  <1> USE DEF TrunkTyped
  <1>1. ASSUME NEW pod \in Pods, AddPort(pod) PROVE EdgeTyped'
    BY <1>1, AddPortKeepsTypes
  <1>2. CASE EdgeScanGone
    BY <1>2, ScanGoneKeepsTypes
  <1>3. CASE SendNotice
    <2>1. /\ Head(unsent) \in Notice /\ Tail(unsent) \in Seq(Notice)
          /\ unsent' = Tail(unsent) /\ Send(Head(unsent))
          /\ UNCHANGED <<ports, nextEdgeID, boots, past, run, mine, greeting, dialled>>
      BY <1>3, ReadFacts DEF SendNotice, EdgeTyped
    <2>2. cur' \in {cur, NoConn}
      BY <2>1, NoticesAreReports, SendFacts
    <2> QED BY <2>1, <2>2 DEF EdgeTyped
  <1>4. CASE Dial
    BY <1>4, TrunkAssumption DEF Dial, EdgeTyped, edgePorts, NoConn
  <1>5. CASE Snapshot
    BY <1>5, InfosFacts DEF Snapshot, EdgeTyped, edgePorts, network
  <1>6. CASE TrunkHello
    <2>1. TrunkMessage("hello", greeting) \in Report
      BY DEF EdgeTyped, TrunkMessage, Report
    <2>2. cur' \in {cur, NoConn}
      BY <1>6, <2>1, SendFacts DEF TrunkHello
    <2> QED BY <1>6, <2>2 DEF TrunkHello, EdgeTyped, edgePorts
  <1>7. CASE EdgeNotices
    BY <1>7 DEF EdgeNotices, EdgeTyped, edgePorts, network
  <1>8. CASE Restart
    BY <1>8, TrunkAssumption DEF Restart, EdgeTyped, NoConn
  <1>9. ASSUME NEW k \in Conns, Break(k) PROVE EdgeTyped'
    BY <1>9 DEF Break, EdgeTyped, edgePorts, edgeTrunk
  <1>10. ASSUME NEW k \in Conns, GatewayReads(k) PROVE EdgeTyped'
    BY <1>10 DEF GatewayReads, EdgeTyped, edgePorts, edgeTrunk
  <1>11. ASSUME NEW k \in Conns, EdgeGone(k) PROVE EdgeTyped'
    BY <1>11 DEF EdgeGone, EdgeTyped, edgePorts, edgeTrunk, network
  <1> QED BY <1>1, <1>2, <1>3, <1>4, <1>5, <1>6, <1>7, <1>8, <1>9, <1>10, <1>11 DEF TrunkNext

LEMMA NetworkTypesKept ==
  ASSUME TrunkTyped, TrunkNext
  PROVE  NetworkTyped'
  <1> USE DEF TrunkTyped
  <1>0. dialled \in 0..MaxConns /\ mine \in 0..dialled /\ cur \in 0..dialled
    BY DEF EdgeTyped, NoConn
  <1>1. ASSUME NEW pod \in Pods, AddPort(pod) PROVE NetworkTyped'
    BY <1>1 DEF AddPort, NetworkTyped, network
  <1>2. CASE EdgeScanGone
    BY <1>2 DEF EdgeScanGone, NetworkTyped, network
  <1>3. CASE SendNotice
    <2>1. Head(unsent) \in Notice /\ Send(Head(unsent)) /\ UNCHANGED <<dialled, broken>>
      BY <1>3, ReadFacts DEF SendNotice, EdgeTyped
    <2> QED BY <2>1, NoticesAreReports, SendFacts DEF NetworkTyped
  <1>4. CASE Dial
    BY <1>0, <1>4, TrunkAssumption DEF Dial, NetworkTyped
  <1>5. CASE Snapshot
    BY <1>5 DEF Snapshot, NetworkTyped, network
  <1>6. CASE TrunkHello
    <2>1. TrunkMessage("hello", greeting) \in Report
      BY DEF EdgeTyped, TrunkMessage, Report
    <2>2. Send(TrunkMessage("hello", greeting)) /\ UNCHANGED <<dialled, broken>>
      BY <1>6 DEF TrunkHello
    <2> QED BY <2>1, <2>2, SendFacts DEF NetworkTyped
  <1>7. CASE EdgeNotices
    BY <1>7 DEF EdgeNotices, NetworkTyped, network
  <1>8. CASE Restart
    BY <1>8, TrunkAssumption DEF Restart, NetworkTyped
  <1>9. ASSUME NEW k \in Conns, Break(k) PROVE NetworkTyped'
    <2>1. PICK n \in 0..Len(up[k]) : up' = [up EXCEPT ![k] = SubSeq(@, 1, n)]
      BY <1>9 DEF Break
    <2>2. k <= dialled /\ broken' = broken \cup {k} /\ dialled' = dialled
      BY <1>9 DEF Break
    <2>3. up[k] \in Seq(Report)
      BY DEF NetworkTyped
    <2>4. SubSeq(up[k], 1, n) \in Seq(Report)
      BY <2>3
    <2> QED BY <1>0, <2>1, <2>2, <2>4 DEF NetworkTyped, Conns
  <1>10. ASSUME NEW k \in Conns, GatewayReads(k) PROVE NetworkTyped'
    <2>1. up[k] # <<>> /\ up' = [up EXCEPT ![k] = Tail(up[k])] /\ UNCHANGED <<dialled, broken>>
      BY <1>10, GatewayReadsFacts
    <2>2. Tail(up[k]) \in Seq(Report)
      BY <2>1, ReadFacts DEF NetworkTyped
    <2> QED BY <2>1, <2>2 DEF NetworkTyped
  <1>11. ASSUME NEW k \in Conns, EdgeGone(k) PROVE NetworkTyped'
    BY <1>11 DEF EdgeGone, NetworkTyped, network
  <1> QED BY <1>1, <1>2, <1>3, <1>4, <1>5, <1>6, <1>7, <1>8, <1>9, <1>10, <1>11 DEF TrunkNext

(* Synthetic ids are given once, and each by one registration.             *)
LEMMA RegisterKeepsMaps ==
  ASSUME TrunkTyped, MapsAgree, NEW k \in serving, NEW infos \in SUBSET EdgePort,
         \A x, y \in infos : x.id = y.id => x = y,
         \A x \in infos : x.id \in EdgeIds /\ x.pod \in Pods,
         Register(k, infos), serving' = serving, greeted' \in {greeted, greeted \cup {k}},
         dialled' = dialled, tooEarly' = tooEarly
  PROVE  GatewayTyped' /\ MapsAgree'
  <1>0. k \in Conns /\ k <= dialled /\ serving \subseteq Conns
    BY TrunkAssumption DEF TrunkTyped, EdgeTyped, GatewayTyped, Conns
  <1>1. /\ nextSynth' \in Nat \ {0} /\ nextSynth' >= nextSynth
        /\ DOMAIN portMap' = Conns /\ \A j \in Conns \ {k} : portMap'[j] = portMap[j]
        /\ DOMAIN portMap'[k] = DOMAIN portMap[k] \cup {x.id : x \in infos}
        /\ \A i \in DOMAIN portMap[k] : portMap'[k][i] = portMap[k][i]
        /\ DOMAIN remotePorts \subseteq DOMAIN remotePorts'
        /\ \A s \in DOMAIN remotePorts : remotePorts'[s] = remotePorts[s]
        /\ \A s \in DOMAIN remotePorts' \ DOMAIN remotePorts : \E x \in infos :
              /\ s \in nextSynth..(nextSynth' - 1) /\ x.id \notin DOMAIN portMap[k]
              /\ portMap'[k][x.id] = s
              /\ remotePorts'[s] = [conn |-> k, id |-> x.id, pod |-> x.pod, addr |-> k \in greeted']
        /\ \A x \in infos : x.id \notin DOMAIN portMap[k] =>
              /\ portMap'[k][x.id] \in DOMAIN remotePorts' \ DOMAIN remotePorts
              /\ remotePorts'[portMap'[k][x.id]]
                 = [conn |-> k, id |-> x.id, pod |-> x.pod, addr |-> k \in greeted']
    BY <1>0, RegisterFacts
  <1>2. /\ greeted \subseteq serving /\ nextSynth \in Nat \ {0}
        /\ DOMAIN remotePorts \subseteq 1..(nextSynth - 1)
        /\ \A j \in Conns : DOMAIN portMap[j] \subseteq EdgeIds
        /\ \A s \in DOMAIN remotePorts :
             remotePorts[s] \in [conn : Conns, id : EdgeIds, pod : Pods, addr : BOOLEAN]
        /\ tooEarly \in [Conns -> SUBSET ({"added", "removed"} \X EdgeIds)]
        /\ \A j \in Conns : j > dialled => DOMAIN portMap[j] = {} /\ tooEarly[j] = {}
    BY DEF TrunkTyped, GatewayTyped
  <1>3. GatewayTyped'
    <2>1. serving' \subseteq 1..dialled' /\ greeted' \subseteq serving'
      BY <1>2 DEF TrunkTyped, GatewayTyped
    <2>2. DOMAIN remotePorts' \subseteq 1..(nextSynth' - 1)
      <3> SUFFICES ASSUME NEW s \in DOMAIN remotePorts' PROVE s \in 1..(nextSynth' - 1)
        OBVIOUS
      <3>1. CASE s \in DOMAIN remotePorts
        <4>1. s \in 1..(nextSynth - 1)
          BY <1>2, <3>1
        <4> QED BY <1>1, <1>2, <4>1
      <3>2. CASE s \notin DOMAIN remotePorts
        <4>1. s \in nextSynth..(nextSynth' - 1)
          BY <1>1, <3>2
        <4> QED BY <1>2, <4>1
      <3> QED BY <3>1, <3>2
    <2>3. \A j \in Conns : DOMAIN portMap'[j] \subseteq EdgeIds
      BY <1>1, <1>2
    <2>4. \A s \in DOMAIN remotePorts' :
             remotePorts'[s] \in [conn : Conns, id : EdgeIds, pod : Pods, addr : BOOLEAN]
      <3> SUFFICES ASSUME NEW s \in DOMAIN remotePorts' \ DOMAIN remotePorts
                   PROVE  remotePorts'[s] \in [conn : Conns, id : EdgeIds, pod : Pods, addr : BOOLEAN]
        BY <1>1, <1>2
      <3>1. PICK x \in infos :
              remotePorts'[s] = [conn |-> k, id |-> x.id, pod |-> x.pod, addr |-> k \in greeted']
        BY <1>1
      <3> QED BY <1>0, <3>1
    <2>5. \A j \in Conns : j > dialled' => DOMAIN portMap'[j] = {} /\ tooEarly'[j] = {}
      <3>1. dialled \in Nat /\ k \in Nat
        BY <1>0 DEF TrunkTyped, EdgeTyped, Conns
      <3>2. \A j \in Conns : j > dialled => j # k
        BY <1>0, <3>1 DEF Conns
      <3> QED BY <1>1, <1>2, <3>2
    <2> QED BY <1>1, <1>2, <2>1, <2>2, <2>3, <2>4, <2>5 DEF GatewayTyped
  <1>4. \A s \in DOMAIN remotePorts' :
          /\ remotePorts'[s].conn \in serving'
          /\ remotePorts'[s].id \in DOMAIN portMap'[remotePorts'[s].conn]
          /\ portMap'[remotePorts'[s].conn][remotePorts'[s].id] = s
    <2> SUFFICES ASSUME NEW s \in DOMAIN remotePorts'
                 PROVE  /\ remotePorts'[s].conn \in serving'
                        /\ remotePorts'[s].id \in DOMAIN portMap'[remotePorts'[s].conn]
                        /\ portMap'[remotePorts'[s].conn][remotePorts'[s].id] = s
      OBVIOUS
    <2>1. CASE s \in DOMAIN remotePorts
      <3>1. /\ remotePorts[s].conn \in serving /\ remotePorts[s].id \in DOMAIN portMap[remotePorts[s].conn]
            /\ portMap[remotePorts[s].conn][remotePorts[s].id] = s
        BY <2>1 DEF MapsAgree
      <3> QED BY <1>0, <1>1, <2>1, <3>1
    <2>2. CASE s \notin DOMAIN remotePorts
      <3>1. PICK x \in infos :
              /\ x.id \notin DOMAIN portMap[k] /\ portMap'[k][x.id] = s
              /\ remotePorts'[s] = [conn |-> k, id |-> x.id, pod |-> x.pod, addr |-> k \in greeted']
        BY <1>1, <2>2
      <3>2. x.id \in DOMAIN portMap'[k]
        BY <1>1
      <3> QED BY <3>1, <3>2
    <2> QED BY <2>1, <2>2
  <1>5. \A j \in Conns : \A i \in DOMAIN portMap'[j] :
          /\ portMap'[j][i] \in DOMAIN remotePorts'
          /\ remotePorts'[portMap'[j][i]].conn = j /\ remotePorts'[portMap'[j][i]].id = i
    <2> SUFFICES ASSUME NEW j \in Conns, NEW i \in DOMAIN portMap'[j]
                 PROVE  /\ portMap'[j][i] \in DOMAIN remotePorts'
                        /\ remotePorts'[portMap'[j][i]].conn = j /\ remotePorts'[portMap'[j][i]].id = i
      OBVIOUS
    <2>1. CASE i \in DOMAIN portMap[j]
      <3>1. portMap'[j][i] = portMap[j][i]
        BY <1>1, <2>1
      <3>2. /\ portMap[j][i] \in DOMAIN remotePorts
            /\ remotePorts[portMap[j][i]].conn = j /\ remotePorts[portMap[j][i]].id = i
        BY <2>1 DEF MapsAgree
      <3> QED BY <1>1, <3>1, <3>2
    <2>2. CASE i \notin DOMAIN portMap[j]
      <3>1. j = k
        BY <1>1, <2>2
      <3>2. PICK x \in infos : x.id = i
        BY <1>1, <2>2, <3>1
      <3>3. /\ portMap'[k][x.id] \in DOMAIN remotePorts'
            /\ remotePorts'[portMap'[k][x.id]]
               = [conn |-> k, id |-> x.id, pod |-> x.pod, addr |-> k \in greeted']
        BY <1>1, <2>2, <3>1, <3>2
      <3> QED BY <3>1, <3>2, <3>3
    <2> QED BY <2>1, <2>2
  <1>6. MapsAgree'
    BY <1>4, <1>5 DEF MapsAgree
  <1> QED BY <1>3, <1>6

LEMMA UnregisterKeepsMaps ==
  ASSUME TrunkTyped, MapsAgree, NEW k \in Conns, NEW id, Unregister(k, id),
         UNCHANGED <<serving, greeted, nextSynth, dialled, tooEarly>>
  PROVE  GatewayTyped' /\ MapsAgree'
  <1>1. /\ DOMAIN portMap' = Conns /\ \A j \in Conns \ {k} : portMap'[j] = portMap[j]
        /\ DOMAIN portMap'[k] = DOMAIN portMap[k] \ {id}
        /\ \A i \in DOMAIN portMap'[k] : portMap'[k][i] = portMap[k][i]
        /\ DOMAIN remotePorts' \subseteq DOMAIN remotePorts
        /\ \A s \in DOMAIN remotePorts' : remotePorts'[s] = remotePorts[s]
        /\ \A s \in DOMAIN remotePorts : s \in DOMAIN remotePorts' <=>
              ~(remotePorts[s].conn = k /\ remotePorts[s].id = id)
    BY UnregisterFacts
  <1>2. GatewayTyped'
    <2>1. \A j \in Conns : DOMAIN portMap'[j] \subseteq DOMAIN portMap[j]
      BY <1>1
    <2> QED BY <1>1, <2>1 DEF TrunkTyped, GatewayTyped
  <1>3. \A s \in DOMAIN remotePorts' :
          /\ remotePorts'[s].conn \in serving'
          /\ remotePorts'[s].id \in DOMAIN portMap'[remotePorts'[s].conn]
          /\ portMap'[remotePorts'[s].conn][remotePorts'[s].id] = s
    <2> SUFFICES ASSUME NEW s \in DOMAIN remotePorts'
                 PROVE  /\ remotePorts[s].conn \in serving
                        /\ remotePorts[s].id \in DOMAIN portMap'[remotePorts[s].conn]
                        /\ portMap'[remotePorts[s].conn][remotePorts[s].id] = s
      BY <1>1
    <2>1. /\ remotePorts[s].conn \in serving /\ remotePorts[s].id \in DOMAIN portMap[remotePorts[s].conn]
          /\ portMap[remotePorts[s].conn][remotePorts[s].id] = s
      BY <1>1 DEF MapsAgree
    <2>2. remotePorts[s].conn \in Conns
      BY <1>1 DEF TrunkTyped, GatewayTyped
    <2> QED BY <1>1, <2>1, <2>2
  <1>4. \A j \in Conns : \A i \in DOMAIN portMap'[j] :
          /\ portMap'[j][i] \in DOMAIN remotePorts'
          /\ remotePorts'[portMap'[j][i]].conn = j /\ remotePorts'[portMap'[j][i]].id = i
    <2> SUFFICES ASSUME NEW j \in Conns, NEW i \in DOMAIN portMap'[j]
                 PROVE  /\ portMap'[j][i] \in DOMAIN remotePorts'
                        /\ remotePorts'[portMap'[j][i]].conn = j /\ remotePorts'[portMap'[j][i]].id = i
      OBVIOUS
    <2>1. i \in DOMAIN portMap[j] /\ portMap'[j][i] = portMap[j][i] /\ (j = k => i # id)
      BY <1>1
    <2>2. /\ portMap[j][i] \in DOMAIN remotePorts
          /\ remotePorts[portMap[j][i]].conn = j /\ remotePorts[portMap[j][i]].id = i
      BY <2>1 DEF MapsAgree
    <2> QED BY <1>1, <2>1, <2>2
  <1> QED BY <1>2, <1>3, <1>4 DEF MapsAgree

LEMMA EdgeGoneFacts ==
  ASSUME TrunkTyped, MapsAgree, NEW k \in Conns, EdgeGone(k)
  PROVE  /\ serving' = serving \ {k} /\ greeted' = greeted \ {k} /\ DOMAIN portMap' = Conns
         /\ k \in broken /\ up[k] = <<>>
         /\ DOMAIN portMap'[k] = {} /\ \A j \in Conns \ {k} : portMap'[j] = portMap[j]
         /\ \A s \in DOMAIN remotePorts : s \in DOMAIN remotePorts' <=> remotePorts[s].conn # k
         /\ DOMAIN remotePorts' \subseteq DOMAIN remotePorts
         /\ \A s \in DOMAIN remotePorts' : remotePorts'[s] = remotePorts[s]
         /\ tooEarly' = [tooEarly EXCEPT ![k] = {}]
         /\ UNCHANGED <<edgePorts, edgeTrunk, network, nextSynth>>
  <1> DEFINE its == {portMap[k][i] : i \in DOMAIN portMap[k]}
  <1>1. /\ serving' = serving \ {k} /\ greeted' = greeted \ {k} /\ portMap' = [portMap EXCEPT ![k] = <<>>]
        /\ remotePorts' = Minus(remotePorts, its)
        /\ k \in broken /\ up[k] = <<>> /\ tooEarly' = [tooEarly EXCEPT ![k] = {}]
        /\ UNCHANGED <<edgePorts, edgeTrunk, network, nextSynth>>
    BY DEF EdgeGone
  <1>2. \A s \in DOMAIN remotePorts : s \in its <=> remotePorts[s].conn = k
    BY DEF MapsAgree
  <1> HIDE DEF its
  <1>3. /\ DOMAIN remotePorts' = DOMAIN remotePorts \ its
        /\ \A s \in DOMAIN remotePorts' : remotePorts'[s] = remotePorts[s]
    BY <1>1 DEF Minus
  <1>4. DOMAIN portMap = Conns
    BY DEF TrunkTyped, GatewayTyped
  <1>5. DOMAIN portMap' = Conns /\ portMap'[k] = <<>> /\ \A j \in Conns \ {k} : portMap'[j] = portMap[j]
    BY <1>1, <1>4
  <1>6. DOMAIN portMap'[k] = {}
    BY <1>5
  <1> QED BY <1>1, <1>2, <1>3, <1>5, <1>6

LEMMA EdgeGoneKeepsMaps ==
  ASSUME TrunkTyped, MapsAgree, NEW k \in Conns, EdgeGone(k)
  PROVE  GatewayTyped' /\ MapsAgree'
  <1>1. /\ serving' = serving \ {k} /\ greeted' = greeted \ {k} /\ DOMAIN portMap' = Conns
        /\ DOMAIN portMap'[k] = {} /\ \A j \in Conns \ {k} : portMap'[j] = portMap[j]
        /\ \A s \in DOMAIN remotePorts : s \in DOMAIN remotePorts' <=> remotePorts[s].conn # k
        /\ DOMAIN remotePorts' \subseteq DOMAIN remotePorts
        /\ \A s \in DOMAIN remotePorts' : remotePorts'[s] = remotePorts[s]
        /\ tooEarly' = [tooEarly EXCEPT ![k] = {}]
        /\ nextSynth' = nextSynth /\ dialled' = dialled
    BY EdgeGoneFacts DEF network
  <1>2. GatewayTyped'
    <2>1. \A j \in Conns : DOMAIN portMap'[j] \subseteq DOMAIN portMap[j]
      BY <1>1
    <2>2. /\ tooEarly' \in [Conns -> SUBSET ({"added", "removed"} \X EdgeIds)]
          /\ \A j \in Conns : tooEarly'[j] \subseteq tooEarly[j]
      BY <1>1 DEF TrunkTyped, GatewayTyped
    <2> QED BY <1>1, <2>1, <2>2 DEF TrunkTyped, GatewayTyped
  <1>3. \A s \in DOMAIN remotePorts' :
          /\ remotePorts'[s].conn \in serving'
          /\ remotePorts'[s].id \in DOMAIN portMap'[remotePorts'[s].conn]
          /\ portMap'[remotePorts'[s].conn][remotePorts'[s].id] = s
    <2> SUFFICES ASSUME NEW s \in DOMAIN remotePorts'
                 PROVE  /\ remotePorts[s].conn \in serving'
                        /\ remotePorts[s].id \in DOMAIN portMap'[remotePorts[s].conn]
                        /\ portMap'[remotePorts[s].conn][remotePorts[s].id] = s
      BY <1>1
    <2>1. /\ remotePorts[s].conn \in serving /\ remotePorts[s].id \in DOMAIN portMap[remotePorts[s].conn]
          /\ portMap[remotePorts[s].conn][remotePorts[s].id] = s
      BY <1>1 DEF MapsAgree
    <2>2. remotePorts[s].conn \in Conns \ {k}
      BY <1>1 DEF TrunkTyped, GatewayTyped
    <2> QED BY <1>1, <2>1, <2>2
  <1>4. \A j \in Conns : \A i \in DOMAIN portMap'[j] :
          /\ portMap'[j][i] \in DOMAIN remotePorts'
          /\ remotePorts'[portMap'[j][i]].conn = j /\ remotePorts'[portMap'[j][i]].id = i
    <2> SUFFICES ASSUME NEW j \in Conns, NEW i \in DOMAIN portMap'[j]
                 PROVE  /\ portMap'[j][i] \in DOMAIN remotePorts'
                        /\ remotePorts'[portMap'[j][i]].conn = j /\ remotePorts'[portMap'[j][i]].id = i
      OBVIOUS
    <2>1. j # k /\ portMap'[j] = portMap[j]
      BY <1>1
    <2>2. /\ portMap[j][i] \in DOMAIN remotePorts
          /\ remotePorts[portMap[j][i]].conn = j /\ remotePorts[portMap[j][i]].id = i
      BY <2>1 DEF MapsAgree
    <2> QED BY <1>1, <2>1, <2>2
  <1> QED BY <1>2, <1>3, <1>4 DEF MapsAgree

(* What was written too early is told of the right ports.                  *)
LEMMA TooEarlyFacts ==
  ASSUME TrunkTyped, SendNotice
  PROVE  /\ Head(unsent) \in Notice /\ Head(unsent) = unsent[1] /\ Head(unsent) \in Report
         /\ Head(unsent).t \in {"added", "removed"} /\ unsent # <<>>
         /\ unsent' = Tail(unsent) /\ Tail(unsent) \in Seq(Notice) /\ Send(Head(unsent))
         /\ \E x \in EdgePort :
              /\ Head(unsent).ports = {x} /\ x.id \in EdgeIds
              /\ tooEarly' = IF cur # NoConn /\ run # "read"
                             THEN [tooEarly EXCEPT ![cur] = tooEarly[cur] \cup {<<Head(unsent).t, x.id>>}]
                             ELSE tooEarly
         /\ UNCHANGED <<ports, nextEdgeID, boots, past, run, mine, greeting, dialled, broken, gateway>>
  <1>1. unsent # <<>> /\ unsent \in Seq(Notice)
    BY DEF SendNotice, TrunkTyped, EdgeTyped
  <1>2. Head(unsent) \in Notice /\ Head(unsent) = unsent[1] /\ Tail(unsent) \in Seq(Notice)
    BY <1>1, ReadFacts
  <1>3. PICK x \in EdgePort : Head(unsent).ports = {x}
    BY <1>2 DEF Notice
  <1>4. {<<Head(unsent).t, i.id>> : i \in Head(unsent).ports} = {<<Head(unsent).t, x.id>>}
    BY <1>3
  <1>5. x.id \in EdgeIds
    BY DEF EdgePort
  <1> QED BY <1>1, <1>2, <1>3, <1>4, <1>5, NoticesAreReports DEF SendNotice

LEMMA GatewayKept ==
  ASSUME TrunkTyped, MapsAgree, TrunkNext
  PROVE  GatewayTyped' /\ MapsAgree'
  <1>0. ASSUME UNCHANGED <<gateway, dialled, tooEarly>> PROVE GatewayTyped' /\ MapsAgree'
    BY <1>0 DEF gateway, TrunkTyped, GatewayTyped, MapsAgree
  <1>1. ASSUME NEW pod \in Pods, AddPort(pod) PROVE GatewayTyped' /\ MapsAgree'
    BY <1>0, <1>1 DEF AddPort, network
  <1>2. CASE EdgeScanGone
    BY <1>0, <1>2 DEF EdgeScanGone, network
  <1>3. CASE SendNotice
    <2>1. PICK x \in EdgePort : 
            /\ Head(unsent).t \in {"added", "removed"} /\ x.id \in EdgeIds
            /\ tooEarly' = IF cur # NoConn /\ run # "read"
                           THEN [tooEarly EXCEPT ![cur] = tooEarly[cur] \cup {<<Head(unsent).t, x.id>>}]
                           ELSE tooEarly
            /\ UNCHANGED <<gateway, dialled>>
      BY <1>3, TooEarlyFacts
    <2>2. MapsAgree'
      BY <2>1 DEF MapsAgree, gateway
    <2>3. /\ tooEarly \in [Conns -> SUBSET ({"added", "removed"} \X EdgeIds)]
          /\ cur \in 0..dialled /\ dialled \in Nat
      BY DEF TrunkTyped, GatewayTyped, EdgeTyped, NoConn
    <2>4. \A j \in Conns : j > dialled => tooEarly'[j] = tooEarly[j]
      BY <2>1, <2>3 DEF Conns
    <2>5. <<Head(unsent).t, x.id>> \in {"added", "removed"} \X EdgeIds
      BY <2>1
    <2>6. tooEarly' \in [Conns -> SUBSET ({"added", "removed"} \X EdgeIds)]
      BY <2>1, <2>3, <2>5
    <2>7. GatewayTyped'
      BY <2>1, <2>4, <2>6 DEF TrunkTyped, GatewayTyped, gateway
    <2> QED BY <2>2, <2>7
  <1>4. CASE Dial
    <2>1. /\ dialled' = dialled + 1 /\ serving' = serving \cup {dialled'}
          /\ UNCHANGED <<greeted, portMap, remotePorts, nextSynth, tooEarly>>
      BY <1>4 DEF Dial
    <2>2. dialled \in Nat
      BY DEF TrunkTyped, EdgeTyped
    <2>3. /\ serving' \subseteq 1..dialled' /\ greeted' \subseteq serving'
          /\ \A j \in Conns : j > dialled' => j > dialled
      <3>1. serving \subseteq 1..dialled /\ greeted \subseteq serving
        BY DEF TrunkTyped, GatewayTyped
      <3>2. \A j \in Conns : j \in Nat
        BY TrunkAssumption DEF Conns
      <3>3. 1..dialled \subseteq 1..dialled' /\ dialled' \in 1..dialled'
        BY <2>1, <2>2
      <3> QED BY <2>1, <2>2, <3>1, <3>2, <3>3
    <2>4. GatewayTyped'
      BY <2>1, <2>3 DEF TrunkTyped, GatewayTyped
    <2>5. MapsAgree'
      BY <2>1 DEF MapsAgree
    <2> QED BY <2>4, <2>5
  <1>5. CASE Snapshot
    BY <1>0, <1>5 DEF Snapshot, network
  <1>6. CASE TrunkHello
    BY <1>0, <1>6 DEF TrunkHello
  <1>7. CASE EdgeNotices
    BY <1>0, <1>7 DEF EdgeNotices, network
  <1>8. CASE Restart
    BY <1>0, <1>8 DEF Restart
  <1>9. ASSUME NEW k \in Conns, Break(k) PROVE GatewayTyped' /\ MapsAgree'
    BY <1>0, <1>9 DEF Break
  <1>10. ASSUME NEW k \in Conns, GatewayReads(k) PROVE GatewayTyped' /\ MapsAgree'
    <2> DEFINE m == Head(up[k])
    <2>1. /\ k \in serving /\ m \in Report
          /\ greeted' = IF m.t = "hello" THEN greeted \cup {k} ELSE greeted
          /\ UNCHANGED <<dialled, serving, tooEarly>>
          /\ \/ m.t # "removed" /\ Register(k, m.ports)
             \/ m.t = "removed" /\ nextSynth' = nextSynth /\ \E x \in EdgePort : Unregister(k, x.id)
      BY <1>10, GatewayReadsFacts
    <2>2. /\ m.ports \in SUBSET EdgePort /\ \A x, y \in m.ports : x.id = y.id => x = y
          /\ \A x \in m.ports : x.id \in EdgeIds /\ x.pod \in Pods
      BY <2>1, ReportFacts
    <2> HIDE DEF m
    <2>3. CASE m.t # "removed" /\ Register(k, m.ports)
      BY <2>1, <2>2, <2>3, RegisterKeepsMaps
    <2>4. CASE m.t = "removed" /\ nextSynth' = nextSynth /\ \E x \in EdgePort : Unregister(k, x.id)
      BY <2>1, <2>4, UnregisterKeepsMaps
    <2> QED BY <2>1, <2>3, <2>4
  <1>11. ASSUME NEW k \in Conns, EdgeGone(k) PROVE GatewayTyped' /\ MapsAgree'
    BY <1>11, EdgeGoneKeepsMaps
  <1> QED BY <1>1, <1>2, <1>3, <1>4, <1>5, <1>6, <1>7, <1>8, <1>9, <1>10, <1>11 DEF TrunkNext

-----------------------------------------------------------------------------
(* Trunk: what is said on the way is kept true.                            *)
Said == ReportsTrue /\ ActiveHeld /\ SaysTrue /\ NoneMissed /\ NoneTooMany /\ AddressKnown

LEMMA ActiveFacts ==
  ASSUME TrunkInv, Active
  PROVE  /\ mine \in Conns /\ mine \in serving /\ mine \in 1..dialled /\ mine \notin broken
         /\ cur = mine /\ run # "dial"
         /\ up[mine] \in Seq(Report)
  BY TrunkAssumption DEF TrunkInv, TrunkTyped, EdgeTyped, NetworkTyped, Active, ActiveHeld, NoConn, Conns

(* A step that concerns other connections.                                 *)
LEMMA OthersKeepSaid ==
  ASSUME TrunkInv,
         UNCHANGED <<ports, nextEdgeID, unsent, run, mine, cur, greeting>>,
         broken \subseteq broken',
         Active' => /\ up'[mine] = up[mine] /\ portMap'[mine] = portMap[mine]
                    /\ tooEarly'[mine] = tooEarly[mine]
                    /\ mine \in serving' /\ (mine \in greeted => mine \in greeted')
                    /\ \A i \in DOMAIN portMap[mine] :
                         remotePorts'[portMap[mine][i]] = remotePorts[portMap[mine][i]]
  PROVE  Said'
  <1>1. Active' => Active
    BY DEF Active
  <1>2. ReportsTrue'
    BY DEF TrunkInv, ReportsTrue
  <1>3. ActiveHeld'
    BY <1>1 DEF TrunkInv, ActiveHeld
  <1>4. SaysTrue'
    BY <1>1 DEF TrunkInv, SaysTrue
  <1>5. NoneMissed'
    BY <1>1 DEF TrunkInv, NoneMissed, Coming
  <1>6. NoneTooMany'
    BY <1>1 DEF TrunkInv, NoneTooMany, Gone
  <1>7. AddressKnown'
    BY <1>1 DEF TrunkInv, AddressKnown
  <1> QED BY <1>2, <1>3, <1>4, <1>5, <1>6, <1>7 DEF Said

LEMMA AddPortKeepsSaid ==
  ASSUME TrunkInv, NEW pod \in Pods, AddPort(pod)
  PROVE  Said'
  <1> DEFINE note == TrunkMessage("added", {[id |-> nextEdgeID, pod |-> pod]})
  <1>1. /\ unsent = <<>> /\ nextEdgeID' = nextEdgeID + 1
        /\ ports' = [i \in DOMAIN ports \cup {nextEdgeID} |-> IF i = nextEdgeID THEN pod ELSE ports[i]]
        /\ unsent' = <<note>>
        /\ UNCHANGED <<cur, run, mine, greeting, broken, up, serving, greeted, portMap, remotePorts, tooEarly>>
    BY DEF AddPort, edgeTrunk, network, gateway
  <1>2. /\ nextEdgeID \in Nat /\ DOMAIN unsent' = {1} /\ DOMAIN unsent = {} /\ unsent'[1] = note
        /\ note.t = "added" /\ note.ports = {[id |-> nextEdgeID, pod |-> pod]}
    BY <1>1 DEF TrunkInv, TrunkTyped, EdgeTyped, TrunkMessage
  <1>3. /\ DOMAIN ports' = DOMAIN ports \cup {nextEdgeID} /\ ports'[nextEdgeID] = pod
        /\ \A i \in DOMAIN ports : i < nextEdgeID /\ ports'[i] = ports[i]
    BY <1>1 DEF TrunkInv, TrunkTyped, EdgeTyped
  <1> HIDE DEF note
  <1>4. Active' <=> Active
    BY <1>1 DEF Active
  <1>5. ReportsTrue'
    <2>1. \A n \in DOMAIN unsent' : \A x \in unsent'[n].ports :
            /\ x.id < nextEdgeID'
            /\ unsent'[n].t = "added" => x.id \in DOMAIN ports' /\ ports'[x.id] = x.pod
            /\ unsent'[n].t = "removed" => x.id \notin DOMAIN ports'
      BY <1>1, <1>2, <1>3
    <2>2. \A x \in greeting' : x.id < nextEdgeID' /\ (x.id \in DOMAIN ports' => x.pod = ports'[x.id])
      <3> SUFFICES ASSUME NEW x \in greeting
                   PROVE  x.id < nextEdgeID' /\ (x.id \in DOMAIN ports' => x.pod = ports'[x.id])
        BY <1>1
      <3>1. x.id \in Nat /\ x.id < nextEdgeID /\ (x.id \in DOMAIN ports => x.pod = ports[x.id])
        BY TrunkAssumption DEF TrunkInv, TrunkTyped, EdgeTyped, EdgePort, EdgeIds, ReportsTrue
      <3> QED BY <1>1, <1>2, <1>3, <3>1
    <2> QED BY <1>1, <2>1, <2>2 DEF TrunkInv, ReportsTrue
  <1>6. ActiveHeld'
    BY <1>1, <1>4 DEF TrunkInv, ActiveHeld
  <1>7. SaysTrue'
    <2> SUFFICES ASSUME Active
                 PROVE  /\ \A n \in DOMAIN up[mine] : \A x \in up[mine][n].ports :
                             /\ x.id < nextEdgeID'
                             /\ x.id \in DOMAIN ports' => x.pod = ports'[x.id] /\ up[mine][n].t # "removed"
                        /\ \A i \in DOMAIN portMap[mine] :
                             /\ i < nextEdgeID'
                             /\ i \in DOMAIN ports' => remotePorts[portMap[mine][i]].pod = ports'[i]
      BY <1>1, <1>4 DEF SaysTrue
    <2>1. \A n \in DOMAIN up[mine] : \A x \in up[mine][n].ports : x.id \in Nat
      <3> SUFFICES ASSUME NEW n \in DOMAIN up[mine] PROVE \A x \in up[mine][n].ports : x.id \in Nat
        OBVIOUS
      <3>1. up[mine][n] \in Report
        BY ActiveFacts
      <3> QED BY <3>1, ReportFacts, TrunkAssumption DEF EdgeIds
    <2>2. \A i \in DOMAIN portMap[mine] : i \in Nat
      BY ActiveFacts, TrunkAssumption DEF TrunkInv, TrunkTyped, GatewayTyped, EdgeIds
    <2> QED BY <1>1, <1>2, <1>3, <2>1, <2>2 DEF TrunkInv, SaysTrue
  <1>8. NoneMissed'
    <2> SUFFICES ASSUME Active, NEW i \in DOMAIN ports' PROVE Coming(i)'
      BY <1>4 DEF NoneMissed
    <2>1. CASE i = nextEdgeID
      <3>1. Gives(unsent'[1], i)
        BY <1>2, <2>1 DEF Gives, Has
      <3> QED BY <1>2, <3>1 DEF Coming
    <2>2. CASE i # nextEdgeID
      <3>1. i \in DOMAIN ports
        BY <1>3, <2>2
      <3>2. Coming(i)
        BY <3>1 DEF TrunkInv, NoneMissed
      <3> QED BY <1>1, <1>2, <3>2 DEF Coming
    <2> QED BY <2>1, <2>2
  <1>9. NoneTooMany'
    <2> SUFFICES ASSUME Active, NEW i \in EdgeIds \ DOMAIN ports'
                 PROVE  <<"removed", i>> \in tooEarly'[mine'] \/ (~Has(greeting', i) /\ Gone(i)')
      BY <1>4 DEF NoneTooMany
    <2>1. <<"removed", i>> \in tooEarly[mine] \/ (~Has(greeting, i) /\ Gone(i))
      BY <1>2, <1>3 DEF TrunkInv, NoneTooMany
    <2> QED BY <1>1, <2>1 DEF Gone
  <1>10. AddressKnown'
    BY <1>1, <1>4 DEF TrunkInv, AddressKnown
  <1> QED BY <1>5, <1>6, <1>7, <1>8, <1>9, <1>10 DEF Said

LEMMA ScanGoneKeepsSaid ==
  ASSUME TrunkInv, EdgeScanGone
  PROVE  Said'
  <1>1. PICK gone \in SUBSET DOMAIN ports \ {{}} : \E order \in SetToSeqs(gone) :
          /\ ports' = Minus(ports, gone)
          /\ unsent' = [n \in DOMAIN order |->
                        TrunkMessage("removed", {[id |-> order[n], pod |-> ports[order[n]]]})]
    BY DEF EdgeScanGone
  <1>2. PICK order \in SetToSeqs(gone) :
          /\ ports' = Minus(ports, gone)
          /\ unsent' = [n \in DOMAIN order |->
                        TrunkMessage("removed", {[id |-> order[n], pod |-> ports[order[n]]]})]
    BY <1>1
  <1>3. /\ unsent = <<>>
        /\ UNCHANGED <<nextEdgeID, cur, run, mine, greeting, broken, up, serving, greeted, portMap,
                       remotePorts, tooEarly>>
    BY DEF EdgeScanGone, edgeTrunk, network, gateway
  <1>4. \A n \in DOMAIN order : order[n] \in gone
    BY DEF SetToSeqs
  <1>5. \A i \in gone : \E n \in DOMAIN order : order[n] = i
    <2>1. IsFiniteSet(gone)
      <3>1. IsFiniteSet(1..(nextEdgeID - 1))
        BY FS_Interval DEF TrunkInv, TrunkTyped, EdgeTyped
      <3>2. gone \in SUBSET (1..(nextEdgeID - 1))
        BY <1>1 DEF TrunkInv, TrunkTyped, EdgeTyped
      <3> QED BY <3>1, <3>2, FS_Subset
    <2> QED BY <2>1, OrderFacts
  <1>6. /\ DOMAIN unsent' = DOMAIN order /\ DOMAIN unsent = {}
        /\ \A n \in DOMAIN order :
             /\ unsent'[n].t = "removed"
             /\ unsent'[n].ports = {[id |-> order[n], pod |-> ports[order[n]]]}
    BY <1>2, <1>3 DEF TrunkMessage
  <1>7. DOMAIN ports' = DOMAIN ports \ gone /\ \A i \in DOMAIN ports' : ports'[i] = ports[i]
    BY <1>2 DEF Minus
  <1>8. Active' <=> Active
    BY <1>3 DEF Active
  <1>9. ReportsTrue'
    <2>1. \A n \in DOMAIN unsent' : \A x \in unsent'[n].ports :
            x.id \in gone /\ x.id < nextEdgeID /\ unsent'[n].t = "removed"
      BY <1>1, <1>4, <1>6 DEF TrunkInv, TrunkTyped, EdgeTyped
    <2>2. \A x \in greeting : x.id < nextEdgeID /\ (x.id \in DOMAIN ports' => x.pod = ports'[x.id])
      BY <1>7 DEF TrunkInv, ReportsTrue
    <2>3. greeting # {} => run = "hello"
      BY DEF TrunkInv, ReportsTrue
    <2> QED BY <1>3, <1>7, <2>1, <2>2, <2>3 DEF ReportsTrue
  <1>10. ActiveHeld'
    BY <1>3, <1>8 DEF TrunkInv, ActiveHeld
  <1>11. SaysTrue'
    BY <1>3, <1>7, <1>8 DEF TrunkInv, SaysTrue
  <1>12. NoneMissed'
    <2> SUFFICES ASSUME Active, NEW i \in DOMAIN ports' PROVE Coming(i)'
      BY <1>8 DEF NoneMissed
    <2>1. Coming(i)
      BY <1>7 DEF TrunkInv, NoneMissed
    <2> QED BY <1>3, <1>6, <2>1 DEF Coming
  <1>13. NoneTooMany'
    <2> SUFFICES ASSUME Active, NEW i \in EdgeIds \ DOMAIN ports'
                 PROVE  \/ <<"removed", i>> \in tooEarly'[mine']
                        \/ \E n \in DOMAIN unsent' : Takes(unsent'[n], i)
                        \/ ~Has(greeting', i) /\ Gone(i)'
      BY <1>8 DEF NoneTooMany
    <2>1. CASE i \in gone
      <3>1. PICK n \in DOMAIN order : order[n] = i
        BY <1>5, <2>1
      <3>2. Takes(unsent'[n], i)
        <4>1. [id |-> order[n], pod |-> ports[order[n]]] \in unsent'[n].ports
          BY <1>6
        <4>2. [id |-> order[n], pod |-> ports[order[n]]].id = i
          BY <3>1
        <4> QED BY <1>6, <4>1, <4>2 DEF Takes, Has
      <3> QED BY <1>6, <3>2
    <2>2. CASE i \notin gone
      <3>1. <<"removed", i>> \in tooEarly[mine] \/ (~Has(greeting, i) /\ Gone(i))
        BY <1>6, <1>7, <2>2 DEF TrunkInv, NoneTooMany
      <3> QED BY <1>3, <3>1 DEF Gone
    <2> QED BY <2>1, <2>2
  <1>14. AddressKnown'
    BY <1>3, <1>8 DEF TrunkInv, AddressKnown
  <1> QED BY <1>9, <1>10, <1>11, <1>12, <1>13, <1>14 DEF Said

LEMMA SendNoticeKeepsSaid ==
  ASSUME TrunkInv, SendNotice
  PROVE  Said'
  <1> DEFINE m == Head(unsent)
  <1>1. /\ m \in Report /\ m = unsent[1] /\ m.t \in {"added", "removed"} /\ unsent # <<>>
        /\ unsent' = Tail(unsent) /\ Send(m)
        /\ UNCHANGED <<ports, nextEdgeID, run, mine, greeting, dialled, broken, serving, greeted, portMap,
                       remotePorts>>
    BY TooEarlyFacts DEF TrunkInv, gateway
  <1>2. PICK x \in EdgePort :
          /\ m.ports = {x} /\ x.id \in EdgeIds
          /\ tooEarly' = IF cur # NoConn /\ run # "read"
                         THEN [tooEarly EXCEPT ![cur] = tooEarly[cur] \cup {<<m.t, x.id>>}]
                         ELSE tooEarly
    BY TooEarlyFacts DEF TrunkInv
  <1>3. /\ DOMAIN unsent = 1..Len(unsent) /\ Len(unsent) \in Nat /\ Len(unsent) > 0
        /\ DOMAIN unsent' = 1..(Len(unsent) - 1)
        /\ \A n \in 1..(Len(unsent) - 1) : unsent'[n] = unsent[n + 1]
    <2>1. unsent \in Seq(Notice)
      BY DEF TrunkInv, TrunkTyped, EdgeTyped
    <2> QED BY <1>1, <2>1, ReadFacts
  <1> HIDE DEF m
  <1>4. /\ cur' \in {cur, NoConn}
        /\ cur' # cur => cur \in broken
        /\ cur \in Conns \ broken => cur' = cur /\ up'[cur] = Append(up[cur], m)
    BY <1>1, SendFacts DEF TrunkInv
  <1>5. Active' <=> Active
    BY <1>1 DEF Active
  <1>6. /\ x.id < nextEdgeID
        /\ m.t = "added" => x.id \in DOMAIN ports /\ ports[x.id] = x.pod
        /\ m.t = "removed" => x.id \notin DOMAIN ports
    <2>1. 1 \in DOMAIN unsent
      BY <1>3
    <2> QED BY <1>1, <1>2, <2>1 DEF TrunkInv, ReportsTrue
  <1>7. ReportsTrue'
    BY <1>1, <1>3 DEF TrunkInv, ReportsTrue
  <1>8. ActiveHeld'
    <2>1. Active => cur' = mine
      BY <1>4, ActiveFacts
    <2> QED BY <1>1, <1>5, <2>1 DEF TrunkInv, ActiveHeld
  <1>9. ASSUME Active
        PROVE  SaysTrue' /\ NoneMissed' /\ NoneTooMany' /\ AddressKnown'
    <2> DEFINE q == up[mine]
               r == up'[mine]
    <2>1. /\ mine \in Conns /\ cur = mine /\ q \in Seq(Report) /\ r = Append(q, m) /\ mine # NoConn
      BY <1>4, <1>9, ActiveFacts DEF NoConn, Conns
    <2>2. /\ Len(q) \in Nat /\ DOMAIN q = 1..Len(q) /\ DOMAIN r = 1..(Len(q) + 1)
          /\ \A n \in 1..Len(q) : r[n] = q[n]
          /\ r[Len(q) + 1] = m
      BY <1>1, <2>1, AppendedFacts
    <2>3. /\ tooEarly[mine] \subseteq tooEarly'[mine]
          /\ run # "read" => <<m.t, x.id>> \in tooEarly'[mine]
      <3>1. tooEarly \in [Conns -> SUBSET ({"added", "removed"} \X EdgeIds)]
        BY DEF TrunkInv, TrunkTyped, GatewayTyped
      <3> QED BY <1>2, <2>1, <3>1
    <2>4. Active' /\ mine' = mine
      BY <1>1, <1>5, <1>9
    <2> HIDE DEF q, r
    <2>5. SaysTrue'
      <3>1. /\ \A n \in DOMAIN q : \A y \in q[n].ports :
                 /\ y.id < nextEdgeID
                 /\ y.id \in DOMAIN ports => y.pod = ports[y.id] /\ q[n].t # "removed"
            /\ \A i \in DOMAIN portMap[mine] :
                 /\ i < nextEdgeID
                 /\ i \in DOMAIN ports => remotePorts[portMap[mine][i]].pod = ports[i]
        BY <1>9 DEF TrunkInv, SaysTrue, q
      <3>2. \A n \in DOMAIN r : \A y \in r[n].ports :
              /\ y.id < nextEdgeID
              /\ y.id \in DOMAIN ports => y.pod = ports[y.id] /\ r[n].t # "removed"
        <4> SUFFICES ASSUME NEW n \in DOMAIN r, NEW y \in r[n].ports
                     PROVE  /\ y.id < nextEdgeID
                            /\ y.id \in DOMAIN ports => y.pod = ports[y.id] /\ r[n].t # "removed"
          OBVIOUS
        <4>1. CASE n \in DOMAIN q
          BY <2>2, <3>1, <4>1
        <4>2. CASE n \notin DOMAIN q
          <5>1. r[n] = m /\ y = x
            BY <1>2, <2>2, <4>2
          <5> QED BY <1>1, <1>6, <5>1
        <4> QED BY <4>1, <4>2
      <3> QED BY <1>1, <3>1, <3>2 DEF SaysTrue, r
    <2>6. NoneMissed'
      <3> SUFFICES ASSUME NEW i \in DOMAIN ports PROVE Coming(i)'
        BY <1>1 DEF NoneMissed
      <3>1. Coming(i)
        BY <1>9 DEF TrunkInv, NoneMissed
      <3>2. CASE \E n \in DOMAIN q : Gives(q[n], i)
        <4>1. \E n \in DOMAIN r : Gives(r[n], i)
          BY <2>2, <3>2
        <4> QED BY <1>1, <4>1 DEF Coming, r
      <3>3. CASE \E n \in DOMAIN unsent : Gives(unsent[n], i)
        <4>1. PICK n \in DOMAIN unsent : Gives(unsent[n], i)
          BY <3>3
        <4>2. CASE n = 1
          <5>1. Len(q) + 1 \in DOMAIN r /\ Gives(r[Len(q) + 1], i)
            BY <1>1, <2>2, <4>1, <4>2
          <5> QED BY <1>1, <5>1 DEF Coming, r
        <4>3. CASE n # 1
          <5>1. n - 1 \in DOMAIN unsent' /\ unsent'[n - 1] = unsent[n]
            BY <1>3, <4>3
          <5> QED BY <4>1, <5>1 DEF Coming
        <4> QED BY <4>2, <4>3
      <3>4. CASE i \in DOMAIN portMap[mine] \/ run = "snapshot" \/ Has(greeting, i)
        BY <1>1, <3>4 DEF Coming
      <3> QED BY <3>1, <3>2, <3>3, <3>4 DEF Coming, q
    <2>7. NoneTooMany'
      <3> SUFFICES ASSUME NEW i \in EdgeIds \ DOMAIN ports
                   PROVE  \/ <<"removed", i>> \in tooEarly'[mine]
                          \/ \E n \in DOMAIN unsent' : Takes(unsent'[n], i)
                          \/ ~Has(greeting, i) /\ Gone(i)'
        BY <1>1 DEF NoneTooMany
      <3>0. \/ <<"removed", i>> \in tooEarly[mine]
            \/ \E n \in DOMAIN unsent : Takes(unsent[n], i)
            \/ ~Has(greeting, i) /\ Gone(i)
        BY <1>9 DEF TrunkInv, NoneTooMany
      <3>1. CASE \E n \in DOMAIN unsent : Takes(unsent[n], i)
        <4>1. PICK n \in DOMAIN unsent : Takes(unsent[n], i)
          BY <3>1
        <4>2. CASE n = 1
          <5>1. m.t = "removed" /\ x.id = i
            BY <1>1, <1>2, <4>1, <4>2 DEF Takes, Has
          <5>2. CASE run = "read"
            <6>1. ~Has(greeting, i)
              BY <5>2 DEF TrunkInv, ReportsTrue, Has
            <6>2. Len(q) + 1 \in DOMAIN r /\ Takes(r[Len(q) + 1], i)
              BY <1>1, <2>2, <4>1, <4>2
            <6>3. \A o \in DOMAIN r : ~(o > Len(q) + 1)
              BY <2>2
            <6>4. Gone(i)'
              BY <1>1, <6>2, <6>3 DEF Gone, r
            <6> QED BY <6>1, <6>4
          <5>3. CASE run # "read"
            BY <2>3, <5>1, <5>3
          <5> QED BY <5>2, <5>3
        <4>3. CASE n # 1
          <5>1. n - 1 \in DOMAIN unsent' /\ unsent'[n - 1] = unsent[n]
            BY <1>3, <4>3
          <5> QED BY <4>1, <5>1
        <4> QED BY <4>2, <4>3
      <3>2. CASE ~Has(greeting, i) /\ Gone(i)
        <4>1. ~Gives(m, i)
          BY <1>1, <1>2, <1>6 DEF Gives, Has
        <4>2. CASE i \notin DOMAIN portMap[mine] /\ \A n \in DOMAIN q : ~Gives(q[n], i)
          <5>1. \A n \in DOMAIN r : ~Gives(r[n], i)
            BY <2>2, <4>1, <4>2
          <5> QED BY <1>1, <3>2, <4>2, <5>1 DEF Gone, r
        <4>3. CASE \E n \in DOMAIN q : /\ Takes(q[n], i)
                                       /\ \A o \in DOMAIN q : o > n => ~Gives(q[o], i)
          <5>1. \E n \in DOMAIN r : Takes(r[n], i) /\ \A o \in DOMAIN r : o > n => ~Gives(r[o], i)
            BY <2>2, <4>1, <4>3
          <5> QED BY <1>1, <3>2, <5>1 DEF Gone, r
        <4> QED BY <3>2, <4>2, <4>3 DEF Gone, q
      <3> QED BY <2>3, <3>0, <3>1, <3>2
    <2>8. AddressKnown'
      <3>0. /\ run = "read" => mine \in greeted \/ \E n \in DOMAIN q : q[n].t = "hello"
            /\ \A n \in DOMAIN q :
                 \/ mine \in greeted \/ \E o \in 1..n : q[o].t = "hello"
                 \/ \A y \in q[n].ports : <<q[n].t, y.id>> \in tooEarly[mine]
            /\ \A i \in DOMAIN portMap[mine] :
                 remotePorts[portMap[mine][i]].addr \/ <<"added", i>> \in tooEarly[mine]
        BY <1>9 DEF TrunkInv, AddressKnown, q
      <3>1. run = "read" => mine \in greeted \/ \E n \in DOMAIN r : r[n].t = "hello"
        BY <2>2, <3>0
      <3>2. \A n \in DOMAIN r :
              \/ mine \in greeted \/ \E o \in 1..n : r[o].t = "hello"
              \/ \A y \in r[n].ports : <<r[n].t, y.id>> \in tooEarly'[mine]
        <4> SUFFICES ASSUME NEW n \in DOMAIN r, mine \notin greeted
                     PROVE  \/ \E o \in 1..n : r[o].t = "hello"
                            \/ \A y \in r[n].ports : <<r[n].t, y.id>> \in tooEarly'[mine]
          OBVIOUS
        <4>1. CASE n \in DOMAIN q
          <5>1. \A o \in 1..n : r[o] = q[o]
            BY <2>2, <4>1
          <5> QED BY <2>2, <2>3, <3>0, <4>1, <5>1
        <4>2. CASE n \notin DOMAIN q
          <5>1. n = Len(q) + 1 /\ r[n] = m
            BY <2>2, <4>2
          <5>2. CASE run = "read"
            <6>1. PICK o \in DOMAIN q : q[o].t = "hello"
              BY <3>0, <5>2
            <6>2. o \in 1..n /\ r[o].t = "hello"
              BY <2>2, <5>1, <6>1
            <6> QED BY <6>2
          <5>3. CASE run # "read"
            BY <1>2, <2>3, <5>1, <5>3
          <5> QED BY <5>2, <5>3
        <4> QED BY <4>1, <4>2
      <3>3. \A i \in DOMAIN portMap[mine] :
                 remotePorts[portMap[mine][i]].addr \/ <<"added", i>> \in tooEarly'[mine]
        BY <2>3, <3>0
      <3> QED BY <1>1, <3>1, <3>2, <3>3 DEF AddressKnown, r
    <2> QED BY <2>5, <2>6, <2>7, <2>8
  <1>10. CASE ~Active
    BY <1>5, <1>7, <1>8, <1>10 DEF Said, SaysTrue, NoneMissed, NoneTooMany, AddressKnown
  <1> QED BY <1>7, <1>8, <1>9, <1>10 DEF Said

LEMMA DialKeepsSaid ==
  ASSUME TrunkInv, Dial
  PROVE  Said'
  <1>1. /\ run = "dial" /\ dialled < MaxConns /\ dialled' = dialled + 1
        /\ cur' = dialled' /\ mine' = dialled' /\ run' = "snapshot"
        /\ serving' = serving \cup {dialled'}
        /\ UNCHANGED <<ports, nextEdgeID, unsent, greeting, up, portMap, tooEarly>>
    BY DEF Dial, edgePorts
  <1>2. /\ dialled' \in Conns /\ dialled' > dialled /\ dialled' # NoConn
    BY <1>1, TrunkAssumption DEF TrunkInv, TrunkTyped, EdgeTyped, Conns, NoConn
  <1>3. DOMAIN up[dialled'] = {} /\ DOMAIN portMap[dialled'] = {}
    <2>1. up[dialled'] = <<>>
      BY <1>2 DEF TrunkInv, TrunkTyped, NetworkTyped
    <2>2. DOMAIN portMap[dialled'] = {}
      BY <1>2 DEF TrunkInv, TrunkTyped, GatewayTyped
    <2> QED BY <2>1, <2>2
  <1>4. DOMAIN up'[mine'] = {} /\ DOMAIN portMap'[mine'] = {}
    BY <1>1, <1>3
  <1>5. greeting = {}
    BY <1>1 DEF TrunkInv, ReportsTrue
  <1>6. ReportsTrue'
    BY <1>1, <1>5 DEF TrunkInv, ReportsTrue
  <1>7. ActiveHeld'
    BY <1>1, <1>2 DEF ActiveHeld
  <1>8. SaysTrue'
    BY <1>4 DEF SaysTrue
  <1>9. NoneMissed'
    BY <1>1 DEF NoneMissed, Coming
  <1>10. NoneTooMany'
    BY <1>1, <1>4, <1>5 DEF NoneTooMany, Gone, Has
  <1>11. AddressKnown'
    BY <1>1, <1>4 DEF AddressKnown
  <1> QED BY <1>6, <1>7, <1>8, <1>9, <1>10, <1>11 DEF Said

LEMMA SnapshotKeepsSaid ==
  ASSUME TrunkInv, Snapshot
  PROVE  Said'
  <1>1. /\ run = "snapshot" /\ run' = "hello" /\ greeting' = Infos
        /\ UNCHANGED <<ports, nextEdgeID, unsent, cur, mine, broken, up, serving, greeted, portMap,
                       remotePorts, tooEarly>>
    BY DEF Snapshot, edgePorts, network, gateway
  <1>2. Active' <=> Active
    BY <1>1 DEF Active
  <1>3. /\ \A x \in Infos : x.id \in DOMAIN ports /\ x.pod = ports[x.id]
        /\ \A i \in DOMAIN ports : Has(Infos, i) /\ i < nextEdgeID
    BY InfosFacts DEF TrunkInv, TrunkTyped, EdgeTyped
  <1>4. ReportsTrue'
    BY <1>1, <1>3 DEF TrunkInv, ReportsTrue
  <1>5. ActiveHeld'
    BY <1>1, <1>2 DEF TrunkInv, ActiveHeld
  <1>6. SaysTrue'
    BY <1>1, <1>2 DEF TrunkInv, SaysTrue
  <1>7. NoneMissed'
    BY <1>1, <1>3 DEF NoneMissed, Coming
  <1>8. NoneTooMany'
    <2> SUFFICES ASSUME Active, NEW i \in EdgeIds \ DOMAIN ports
                 PROVE  \/ <<"removed", i>> \in tooEarly[mine]
                        \/ \E n \in DOMAIN unsent : Takes(unsent[n], i)
                        \/ ~Has(greeting', i) /\ Gone(i)'
      BY <1>1, <1>2 DEF NoneTooMany
    <2>1. \/ <<"removed", i>> \in tooEarly[mine]
          \/ \E n \in DOMAIN unsent : Takes(unsent[n], i)
          \/ Gone(i)
      BY DEF TrunkInv, NoneTooMany
    <2>2. ~Has(greeting', i)
      BY <1>1, <1>3 DEF Has
    <2> QED BY <1>1, <2>1, <2>2 DEF Gone
  <1>9. AddressKnown'
    BY <1>1, <1>2 DEF TrunkInv, AddressKnown
  <1> QED BY <1>4, <1>5, <1>6, <1>7, <1>8, <1>9 DEF Said

LEMMA HelloKeepsSaid ==
  ASSUME TrunkInv, TrunkHello
  PROVE  Said'
  <1> DEFINE m == TrunkMessage("hello", greeting)
  <1>1. /\ run = "hello" /\ run' = "read" /\ greeting' = {} /\ Send(m)
        /\ UNCHANGED <<ports, nextEdgeID, unsent, mine, dialled, broken, serving, greeted, portMap,
                       remotePorts, tooEarly>>
    BY DEF TrunkHello, edgePorts, gateway
  <1>2. m \in Report /\ m.t = "hello" /\ m.ports = greeting
    BY DEF TrunkInv, TrunkTyped, EdgeTyped, TrunkMessage, Report
  <1> HIDE DEF m
  <1>3. /\ cur' \in {cur, NoConn}
        /\ cur \in Conns \ broken => cur' = cur /\ up'[cur] = Append(up[cur], m)
    BY <1>1, <1>2, SendFacts DEF TrunkInv
  <1>4. Active' <=> Active
    BY <1>1 DEF Active
  <1>5. ReportsTrue'
    BY <1>1 DEF TrunkInv, ReportsTrue
  <1>6. ActiveHeld'
    <2>1. Active => cur' = mine
      BY <1>3, ActiveFacts
    <2> QED BY <1>1, <1>4, <2>1 DEF TrunkInv, ActiveHeld
  <1>7. ASSUME Active
        PROVE  SaysTrue' /\ NoneMissed' /\ NoneTooMany' /\ AddressKnown'
    <2> DEFINE q == up[mine]
               r == up'[mine]
    <2>1. /\ mine \in Conns /\ cur = mine /\ q \in Seq(Report) /\ r = Append(q, m)
      BY <1>3, <1>7, ActiveFacts
    <2>2. /\ Len(q) \in Nat /\ DOMAIN q = 1..Len(q) /\ DOMAIN r = 1..(Len(q) + 1)
          /\ \A n \in 1..Len(q) : r[n] = q[n]
          /\ r[Len(q) + 1] = m
      BY <1>2, <2>1, AppendedFacts
    <2>3. Active' /\ mine' = mine
      BY <1>1, <1>4, <1>7
    <2> HIDE DEF q, r
    <2>4. SaysTrue'
      <3>1. /\ \A n \in DOMAIN q : \A y \in q[n].ports :
                 /\ y.id < nextEdgeID
                 /\ y.id \in DOMAIN ports => y.pod = ports[y.id] /\ q[n].t # "removed"
            /\ \A i \in DOMAIN portMap[mine] :
                 /\ i < nextEdgeID
                 /\ i \in DOMAIN ports => remotePorts[portMap[mine][i]].pod = ports[i]
        BY <1>7 DEF TrunkInv, SaysTrue, q
      <3>2. \A y \in greeting : y.id < nextEdgeID /\ (y.id \in DOMAIN ports => y.pod = ports[y.id])
        BY DEF TrunkInv, ReportsTrue
      <3>3. \A n \in DOMAIN r : \A y \in r[n].ports :
              /\ y.id < nextEdgeID
              /\ y.id \in DOMAIN ports => y.pod = ports[y.id] /\ r[n].t # "removed"
        <4> SUFFICES ASSUME NEW n \in DOMAIN r, NEW y \in r[n].ports
                     PROVE  /\ y.id < nextEdgeID
                            /\ y.id \in DOMAIN ports => y.pod = ports[y.id] /\ r[n].t # "removed"
          OBVIOUS
        <4>1. CASE n \in DOMAIN q
          BY <2>2, <3>1, <4>1
        <4>2. CASE n \notin DOMAIN q
          <5>1. r[n] = m
            BY <2>2, <4>2
          <5> QED BY <1>2, <3>2, <5>1
        <4> QED BY <4>1, <4>2
      <3> QED BY <1>1, <3>1, <3>3 DEF SaysTrue, r
    <2>5. NoneMissed'
      <3> SUFFICES ASSUME NEW i \in DOMAIN ports PROVE Coming(i)'
        BY <1>1 DEF NoneMissed
      <3>1. Coming(i)
        BY <1>7 DEF TrunkInv, NoneMissed
      <3>2. CASE \E n \in DOMAIN q : Gives(q[n], i)
        <4>1. \E n \in DOMAIN r : Gives(r[n], i)
          BY <2>2, <3>2
        <4> QED BY <1>1, <4>1 DEF Coming, r
      <3>3. CASE Has(greeting, i)
        <4>1. Len(q) + 1 \in DOMAIN r /\ Gives(r[Len(q) + 1], i)
          BY <1>2, <2>2, <3>3 DEF Gives
        <4> QED BY <1>1, <4>1 DEF Coming, r
      <3>4. CASE i \in DOMAIN portMap[mine] \/ \E n \in DOMAIN unsent : Gives(unsent[n], i)
        BY <1>1, <3>4 DEF Coming
      <3> QED BY <1>1, <3>1, <3>2, <3>3, <3>4 DEF Coming, q
    <2>6. NoneTooMany'
      <3> SUFFICES ASSUME NEW i \in EdgeIds \ DOMAIN ports
                   PROVE  \/ <<"removed", i>> \in tooEarly[mine]
                          \/ \E n \in DOMAIN unsent : Takes(unsent[n], i)
                          \/ ~Has(greeting', i) /\ Gone(i)'
        BY <1>1 DEF NoneTooMany
      <3>0. \/ <<"removed", i>> \in tooEarly[mine]
            \/ \E n \in DOMAIN unsent : Takes(unsent[n], i)
            \/ ~Has(greeting, i) /\ Gone(i)
        BY <1>7 DEF TrunkInv, NoneTooMany
      <3>1. ~Has(greeting', i)
        BY <1>1 DEF Has
      <3>2. CASE ~Has(greeting, i) /\ Gone(i)
        <4>1. ~Gives(m, i)
          BY <1>2, <3>2 DEF Gives
        <4>2. CASE i \notin DOMAIN portMap[mine] /\ \A n \in DOMAIN q : ~Gives(q[n], i)
          <5>1. \A n \in DOMAIN r : ~Gives(r[n], i)
            BY <2>2, <4>1, <4>2
          <5> QED BY <1>1, <3>1, <4>2, <5>1 DEF Gone, r
        <4>3. CASE \E n \in DOMAIN q : /\ Takes(q[n], i)
                                       /\ \A o \in DOMAIN q : o > n => ~Gives(q[o], i)
          <5>1. \E n \in DOMAIN r : Takes(r[n], i) /\ \A o \in DOMAIN r : o > n => ~Gives(r[o], i)
            BY <2>2, <4>1, <4>3
          <5> QED BY <1>1, <3>1, <5>1 DEF Gone, r
        <4> QED BY <3>2, <4>2, <4>3 DEF Gone, q
      <3> QED BY <3>0, <3>2
    <2>7. AddressKnown'
      <3>0. /\ \A n \in DOMAIN q :
                 \/ mine \in greeted \/ \E o \in 1..n : q[o].t = "hello"
                 \/ \A y \in q[n].ports : <<q[n].t, y.id>> \in tooEarly[mine]
            /\ \A i \in DOMAIN portMap[mine] :
                 remotePorts[portMap[mine][i]].addr \/ <<"added", i>> \in tooEarly[mine]
        BY <1>7 DEF TrunkInv, AddressKnown, q
      <3>1. Len(q) + 1 \in DOMAIN r /\ r[Len(q) + 1].t = "hello"
        BY <1>2, <2>2
      <3>2. \A n \in DOMAIN r :
              \/ mine \in greeted \/ \E o \in 1..n : r[o].t = "hello"
              \/ \A y \in r[n].ports : <<r[n].t, y.id>> \in tooEarly[mine]
        <4> SUFFICES ASSUME NEW n \in DOMAIN r, mine \notin greeted
                     PROVE  \/ \E o \in 1..n : r[o].t = "hello"
                            \/ \A y \in r[n].ports : <<r[n].t, y.id>> \in tooEarly[mine]
          OBVIOUS
        <4>1. CASE n \in DOMAIN q
          <5>1. \A o \in 1..n : r[o] = q[o]
            BY <2>2, <4>1
          <5> QED BY <2>2, <3>0, <4>1, <5>1
        <4>2. CASE n \notin DOMAIN q
          <5>1. n = Len(q) + 1 /\ n \in 1..n
            BY <2>2, <4>2
          <5> QED BY <3>1, <5>1
        <4> QED BY <4>1, <4>2
      <3> QED BY <1>1, <3>0, <3>1, <3>2 DEF AddressKnown, r
    <2> QED BY <2>4, <2>5, <2>6, <2>7
  <1>8. CASE ~Active
    BY <1>4, <1>5, <1>6, <1>8 DEF Said, SaysTrue, NoneMissed, NoneTooMany, AddressKnown
  <1> QED BY <1>5, <1>6, <1>7, <1>8 DEF Said

(* The trunk goes down, or the edge with it.                               *)
LEMMA TrunkDownKeepsSaid ==
  ASSUME TrunkInv, EdgeNotices \/ Restart \/ \E k \in Conns : Break(k) \/ EdgeGone(k)
  PROVE  Said'
  <1>1. CASE EdgeNotices
    <2>1. /\ run = "read" /\ mine \in broken /\ run' = "dial" /\ mine' = mine /\ broken' = broken
          /\ UNCHANGED <<ports, nextEdgeID, unsent, greeting>>
      BY <1>1 DEF EdgeNotices, edgePorts, network
    <2>2. ~Active'
      BY <2>1 DEF Active
    <2>3. ReportsTrue'
      BY <2>1 DEF TrunkInv, ReportsTrue
    <2> QED BY <2>1, <2>2, <2>3 DEF Said, ActiveHeld, SaysTrue, NoneMissed, NoneTooMany, AddressKnown
  <1>2. CASE Restart
    <2>1. mine' = NoConn /\ run' = "dial" /\ unsent' = <<>> /\ greeting' = {}
      BY <1>2 DEF Restart
    <2>2. ~Active'
      BY <2>1 DEF Active
    <2>3. ReportsTrue'
      BY <2>1 DEF ReportsTrue
    <2> QED BY <2>1, <2>2, <2>3 DEF Said, ActiveHeld, SaysTrue, NoneMissed, NoneTooMany, AddressKnown
  <1>3. ASSUME NEW k \in Conns, Break(k) PROVE Said'
    <2>1. /\ broken' = broken \cup {k} /\ \E n \in 0..Len(up[k]) : up' = [up EXCEPT ![k] = SubSeq(@, 1, n)]
          /\ UNCHANGED <<ports, nextEdgeID, unsent, run, mine, cur, greeting, serving, greeted, portMap,
                         remotePorts, tooEarly>>
      BY <1>3 DEF Break, edgePorts, edgeTrunk, gateway
    <2>2. Active' => mine # k /\ Active
      BY <2>1 DEF Active
    <2>3. Active' => up'[mine] = up[mine] /\ mine \in serving
      BY <2>1, <2>2, ActiveFacts
    <2> QED BY <2>1, <2>3, OthersKeepSaid
  <1>4. ASSUME NEW k \in Conns, EdgeGone(k) PROVE Said'
    <2>1. /\ serving' = serving \ {k} /\ greeted' = greeted \ {k} /\ k \in broken
          /\ \A j \in Conns \ {k} : portMap'[j] = portMap[j]
          /\ \A s \in DOMAIN remotePorts : s \in DOMAIN remotePorts' <=> remotePorts[s].conn # k
          /\ \A s \in DOMAIN remotePorts' : remotePorts'[s] = remotePorts[s]
          /\ tooEarly' = [tooEarly EXCEPT ![k] = {}]
          /\ UNCHANGED <<ports, nextEdgeID, unsent, run, mine, cur, greeting, up, broken>>
      BY <1>4, EdgeGoneFacts DEF TrunkInv, edgePorts, edgeTrunk, network
    <2>2. Active' => Active
      BY <2>1 DEF Active
    <2>3. ASSUME Active
          PROVE  /\ portMap'[mine] = portMap[mine] /\ tooEarly'[mine] = tooEarly[mine]
                 /\ mine \in serving' /\ (mine \in greeted => mine \in greeted')
                 /\ \A i \in DOMAIN portMap[mine] :
                      remotePorts'[portMap[mine][i]] = remotePorts[portMap[mine][i]]
      <3>1. mine \in Conns \ {k} /\ mine \in serving
        BY <2>1, <2>3, ActiveFacts
      <3>2. \A i \in DOMAIN portMap[mine] :
              portMap[mine][i] \in DOMAIN remotePorts /\ remotePorts[portMap[mine][i]].conn = mine
        BY <3>1 DEF TrunkInv, MapsAgree
      <3>3. DOMAIN tooEarly = Conns
        BY DEF TrunkInv, TrunkTyped, GatewayTyped
      <3> QED BY <2>1, <3>1, <3>2, <3>3
    <2> QED BY <2>1, <2>2, <2>3, OthersKeepSaid
  <1> QED BY <1>1, <1>2, <1>3, <1>4

(* What the gateway makes of a message of this connection.                 *)
LEMMA ReadsMineFacts ==
  ASSUME TrunkInv, Active, GatewayReads(mine)
  PROVE  LET m == up[mine][1] IN
         /\ m.t # "removed" =>
              DOMAIN portMap'[mine] = DOMAIN portMap[mine] \cup {x.id : x \in m.ports}
         /\ m.t = "removed" =>
              DOMAIN portMap'[mine] = DOMAIN portMap[mine] \ {x.id : x \in m.ports}
         /\ \A i \in DOMAIN portMap'[mine] \cap DOMAIN portMap[mine] :
              remotePorts'[portMap'[mine][i]] = remotePorts[portMap[mine][i]]
         /\ \A i \in DOMAIN portMap'[mine] \ DOMAIN portMap[mine] : \E x \in m.ports :
              /\ x.id = i /\ m.t # "removed"
              /\ remotePorts'[portMap'[mine][i]].pod = x.pod
              /\ remotePorts'[portMap'[mine][i]].addr = (mine \in greeted')
  <1> DEFINE m == up[mine][1]
  <1>0. mine \in Conns /\ TrunkTyped /\ MapsAgree
    BY ActiveFacts DEF TrunkInv
  <1>1. /\ m \in Report
        /\ \/ m.t # "removed" /\ Register(mine, m.ports)
           \/ m.t = "removed" /\ \E x \in EdgePort : m.ports = {x} /\ Unregister(mine, x.id)
    BY <1>0, GatewayReadsFacts
  <1>2. /\ m.ports \in SUBSET EdgePort /\ \A x, y \in m.ports : x.id = y.id => x = y
    BY <1>1, ReportFacts
  <1>3. \A i \in DOMAIN portMap[mine] : portMap[mine][i] \in DOMAIN remotePorts
    BY <1>0 DEF MapsAgree
  <1> HIDE DEF m
  <1>4. CASE m.t # "removed" /\ Register(mine, m.ports)
    <2>1. /\ DOMAIN portMap'[mine] = DOMAIN portMap[mine] \cup {x.id : x \in m.ports}
          /\ \A i \in DOMAIN portMap[mine] : portMap'[mine][i] = portMap[mine][i]
          /\ \A s \in DOMAIN remotePorts : remotePorts'[s] = remotePorts[s]
          /\ \A x \in m.ports : x.id \notin DOMAIN portMap[mine] =>
               remotePorts'[portMap'[mine][x.id]]
               = [conn |-> mine, id |-> x.id, pod |-> x.pod, addr |-> mine \in greeted']
      BY <1>0, <1>2, <1>4, RegisterFacts
    <2>2. \A i \in DOMAIN portMap'[mine] \ DOMAIN portMap[mine] : \E x \in m.ports :
              /\ x.id = i
              /\ remotePorts'[portMap'[mine][i]].pod = x.pod
              /\ remotePorts'[portMap'[mine][i]].addr = (mine \in greeted')
      <3> SUFFICES ASSUME NEW i \in DOMAIN portMap'[mine] \ DOMAIN portMap[mine]
                   PROVE  \E x \in m.ports :
                            /\ x.id = i
                            /\ remotePorts'[portMap'[mine][i]].pod = x.pod
                            /\ remotePorts'[portMap'[mine][i]].addr = (mine \in greeted')
        OBVIOUS
      <3>1. PICK x \in m.ports : x.id = i
        BY <2>1
      <3>2. remotePorts'[portMap'[mine][i]]
            = [conn |-> mine, id |-> i, pod |-> x.pod, addr |-> mine \in greeted']
        BY <2>1, <3>1
      <3> QED BY <3>1, <3>2
    <2> QED BY <1>3, <1>4, <2>1, <2>2 DEF m
  <1>5. CASE m.t = "removed" /\ \E x \in EdgePort : m.ports = {x} /\ Unregister(mine, x.id)
    <2>1. PICK x \in EdgePort : m.ports = {x} /\ Unregister(mine, x.id)
      BY <1>5
    <2>2. /\ DOMAIN portMap'[mine] = DOMAIN portMap[mine] \ {x.id}
          /\ \A i \in DOMAIN portMap'[mine] : portMap'[mine][i] = portMap[mine][i]
          /\ \A s \in DOMAIN remotePorts' : remotePorts'[s] = remotePorts[s]
          /\ \A s \in DOMAIN remotePorts : s \in DOMAIN remotePorts' <=>
               ~(remotePorts[s].conn = mine /\ remotePorts[s].id = x.id)
      BY <1>0, <2>1, UnregisterFacts
    <2>3. \A i \in DOMAIN portMap'[mine] : portMap[mine][i] \in DOMAIN remotePorts'
      BY <1>0, <2>2 DEF MapsAgree
    <2>4. {y.id : y \in m.ports} = {x.id}
      BY <2>1
    <2> QED BY <1>5, <2>2, <2>3, <2>4 DEF m
  <1> QED BY <1>1, <1>4, <1>5

LEMMA GatewayReadsKeepsSaid ==
  ASSUME TrunkInv, NEW k \in Conns, GatewayReads(k)
  PROVE  Said'
  <1>1. /\ k \in serving /\ up[k] # <<>> /\ up' = [up EXCEPT ![k] = Tail(up[k])]
        /\ greeted' = IF Head(up[k]).t = "hello" THEN greeted \cup {k} ELSE greeted
        /\ UNCHANGED <<ports, nextEdgeID, unsent, cur, run, mine, greeting, broken, serving, tooEarly>>
        /\ \/ Head(up[k]).t # "removed" /\ Register(k, Head(up[k]).ports)
           \/ Head(up[k]).t = "removed" /\ \E x \in EdgePort : Unregister(k, x.id)
        /\ Head(up[k]) \in Report
    BY GatewayReadsFacts DEF TrunkInv, edgePorts, edgeTrunk
  <1>2. Active' <=> Active
    BY <1>1 DEF Active
  <1>3. CASE ~Active
    BY <1>1, <1>2, <1>3, OthersKeepSaid
  <1>4. CASE Active /\ k # mine
    <2>0. mine \in Conns \ {k} /\ mine \in serving
      BY <1>4, ActiveFacts
    <2>1. up'[mine] = up[mine]
      BY <1>1, <2>0
    <2>2. \A i \in DOMAIN portMap[mine] :
            portMap[mine][i] \in DOMAIN remotePorts /\ remotePorts[portMap[mine][i]].conn = mine
      BY <2>0 DEF TrunkInv, MapsAgree
    <2>3. /\ portMap'[mine] = portMap[mine]
          /\ \A i \in DOMAIN portMap[mine] : remotePorts'[portMap[mine][i]] = remotePorts[portMap[mine][i]]
      <3>1. CASE Register(k, Head(up[k]).ports)
        <4>1. /\ portMap'[mine] = portMap[mine]
              /\ \A s \in DOMAIN remotePorts : remotePorts'[s] = remotePorts[s]
          BY <1>1, <2>0, <3>1, ReportFacts, RegisterFacts DEF TrunkInv
        <4> QED BY <2>2, <4>1
      <3>2. CASE \E x \in EdgePort : Unregister(k, x.id)
        <4>1. PICK x \in EdgePort : Unregister(k, x.id)
          BY <3>2
        <4>2. /\ portMap'[mine] = portMap[mine]
              /\ \A s \in DOMAIN remotePorts' : remotePorts'[s] = remotePorts[s]
              /\ \A s \in DOMAIN remotePorts : s \in DOMAIN remotePorts' <=>
                   ~(remotePorts[s].conn = k /\ remotePorts[s].id = x.id)
          BY <2>0, <4>1, UnregisterFacts DEF TrunkInv
        <4> QED BY <1>4, <2>2, <4>2
      <3> QED BY <1>1, <3>1, <3>2
    <2> QED BY <1>1, <2>0, <2>1, <2>3, OthersKeepSaid
  <1>5. CASE Active /\ k = mine
    <2> DEFINE q == up[mine]
               r == up'[mine]
               m == up[mine][1]
               ids == {x.id : x \in m.ports}
    <2>0. mine \in Conns /\ q \in Seq(Report) /\ q # <<>> /\ mine \in serving
      BY <1>1, <1>5, ActiveFacts
    <2>1. /\ Len(q) \in Nat /\ Len(q) > 0 /\ DOMAIN q = 1..Len(q) /\ DOMAIN r = 1..(Len(q) - 1)
          /\ \A n \in 1..(Len(q) - 1) : r[n] = q[n + 1]
          /\ Head(q) = m
      <3>1. r = Tail(q)
        BY <1>1, <1>5, <2>0 DEF TrunkInv, TrunkTyped, NetworkTyped
      <3> HIDE DEF q, r
      <3>2. /\ Len(q) \in Nat /\ Len(q) > 0 /\ DOMAIN q = 1..Len(q) /\ DOMAIN r = 1..(Len(q) - 1)
            /\ \A n \in 1..(Len(q) - 1) : r[n] = q[n + 1]
            /\ Head(q) = q[1]
        BY <2>0, <3>1, ReadFacts
      <3> QED BY <3>2 DEF q
    <2>2. /\ m.t # "removed" => DOMAIN portMap'[mine] = DOMAIN portMap[mine] \cup ids
          /\ m.t = "removed" => DOMAIN portMap'[mine] = DOMAIN portMap[mine] \ ids
          /\ \A i \in DOMAIN portMap'[mine] \cap DOMAIN portMap[mine] :
               remotePorts'[portMap'[mine][i]] = remotePorts[portMap[mine][i]]
          /\ \A i \in DOMAIN portMap'[mine] \ DOMAIN portMap[mine] : \E x \in m.ports :
               /\ x.id = i /\ m.t # "removed"
               /\ remotePorts'[portMap'[mine][i]].pod = x.pod
               /\ remotePorts'[portMap'[mine][i]].addr = (mine \in greeted')
      BY <1>5, ReadsMineFacts
    <2>3. greeted' = IF m.t = "hello" THEN greeted \cup {mine} ELSE greeted
      BY <1>1, <1>5, <2>1
    <2>4. m \in Report
      BY <1>1, <1>5, <2>1
    <2>5. \A i : i \in ids <=> Has(m.ports, i)
      BY DEF Has
    <2> HIDE DEF q, r, m, ids
    <2>6. q[1] = m /\ 1 \in DOMAIN q
      BY <2>1 DEF q, m
    <2>7. ReportsTrue' /\ ActiveHeld'
      BY <1>1, <1>2 DEF TrunkInv, ReportsTrue, ActiveHeld
    <2>8. SaysTrue'
      <3>1. /\ \A n \in DOMAIN q : \A x \in q[n].ports :
                 /\ x.id < nextEdgeID
                 /\ x.id \in DOMAIN ports => x.pod = ports[x.id] /\ q[n].t # "removed"
            /\ \A i \in DOMAIN portMap[mine] :
                 /\ i < nextEdgeID
                 /\ i \in DOMAIN ports => remotePorts[portMap[mine][i]].pod = ports[i]
        BY <1>5 DEF TrunkInv, SaysTrue, q
      <3>2. \A n \in DOMAIN r : \A x \in r[n].ports :
                 /\ x.id < nextEdgeID
                 /\ x.id \in DOMAIN ports => x.pod = ports[x.id] /\ r[n].t # "removed"
        <4> SUFFICES ASSUME NEW n \in DOMAIN r
                     PROVE  \A x \in r[n].ports :
                              /\ x.id < nextEdgeID
                              /\ x.id \in DOMAIN ports => x.pod = ports[x.id] /\ r[n].t # "removed"
          OBVIOUS
        <4>1. n + 1 \in DOMAIN q /\ r[n] = q[n + 1]
          BY <2>1
        <4> QED BY <3>1, <4>1
      <3>3. \A i \in DOMAIN portMap'[mine] :
                 /\ i < nextEdgeID
                 /\ i \in DOMAIN ports => remotePorts'[portMap'[mine][i]].pod = ports[i]
        <4> SUFFICES ASSUME NEW i \in DOMAIN portMap'[mine]
                     PROVE  /\ i < nextEdgeID
                            /\ i \in DOMAIN ports => remotePorts'[portMap'[mine][i]].pod = ports[i]
          OBVIOUS
        <4>1. CASE i \in DOMAIN portMap[mine]
          BY <2>2, <3>1, <4>1
        <4>2. CASE i \notin DOMAIN portMap[mine]
          <5>1. PICK x \in m.ports : x.id = i /\ remotePorts'[portMap'[mine][i]].pod = x.pod
            BY <2>2, <4>2
          <5> QED BY <2>6, <3>1, <5>1
        <4> QED BY <4>1, <4>2
      <3> QED BY <1>1, <3>2, <3>3 DEF SaysTrue, r
    <2>9. NoneMissed'
      <3> SUFFICES ASSUME NEW i \in DOMAIN ports PROVE Coming(i)'
        BY <1>1 DEF NoneMissed
      <3>1. Coming(i)
        BY <1>5 DEF TrunkInv, NoneMissed
      <3>2. i \in ids => m.t # "removed"
        BY <1>5, <2>5, <2>6 DEF TrunkInv, SaysTrue, q, Has
      <3>3. CASE i \in DOMAIN portMap[mine] \/ Gives(q[1], i)
        <4>1. i \in DOMAIN portMap'[mine]
          BY <2>2, <2>5, <2>6, <3>2, <3>3 DEF Gives
        <4> QED BY <1>1, <4>1 DEF Coming
      <3>4. CASE \E n \in DOMAIN q \ {1} : Gives(q[n], i)
        <4>1. PICK n \in DOMAIN q \ {1} : Gives(q[n], i)
          BY <3>4
        <4>2. n - 1 \in DOMAIN r /\ r[n - 1] = q[n]
          BY <2>1
        <4> QED BY <1>1, <4>1, <4>2 DEF Coming, r
      <3>5. CASE run = "snapshot" \/ Has(greeting, i) \/ \E n \in DOMAIN unsent : Gives(unsent[n], i)
        BY <1>1, <3>5 DEF Coming
      <3> QED BY <3>1, <3>3, <3>4, <3>5 DEF Coming, q
    <2>10. NoneTooMany'
      <3> SUFFICES ASSUME NEW i \in EdgeIds \ DOMAIN ports, Gone(i) PROVE Gone(i)'
        BY <1>1, <1>5 DEF TrunkInv, NoneTooMany
      <3>1. CASE i \notin DOMAIN portMap[mine] /\ \A n \in DOMAIN q : ~Gives(q[n], i)
        <4>1. i \notin DOMAIN portMap'[mine]
          BY <2>2, <2>5, <2>6, <3>1 DEF Gives
        <4>2. \A n \in DOMAIN r : ~Gives(r[n], i)
          <5> SUFFICES ASSUME NEW n \in DOMAIN r PROVE ~Gives(r[n], i)
            OBVIOUS
          <5>1. n + 1 \in DOMAIN q /\ r[n] = q[n + 1]
            BY <2>1
          <5> QED BY <3>1, <5>1
        <4> QED BY <1>1, <4>1, <4>2 DEF Gone, r
      <3>2. ASSUME NEW n \in DOMAIN q, Takes(q[n], i), \A o \in DOMAIN q : o > n => ~Gives(q[o], i)
            PROVE  Gone(i)'
        <4>0. \A o \in DOMAIN r : o + 1 \in DOMAIN q /\ r[o] = q[o + 1]
          BY <2>1
        <4>1. CASE n = 1
          <5>1. i \notin DOMAIN portMap'[mine]
            BY <2>2, <2>5, <2>6, <3>2, <4>1 DEF Takes
          <5>2. \A o \in DOMAIN r : ~Gives(r[o], i)
            <6> SUFFICES ASSUME NEW o \in DOMAIN r PROVE ~Gives(r[o], i)
              OBVIOUS
            <6>1. o + 1 \in DOMAIN q /\ r[o] = q[o + 1] /\ o + 1 > 1
              BY <2>1
            <6> QED BY <3>2, <4>1, <6>1
          <5> QED BY <1>1, <5>1, <5>2 DEF Gone, r
        <4>2. CASE n # 1
          <5>1. n - 1 \in DOMAIN r /\ r[n - 1] = q[n]
            BY <2>1, <4>2
          <5>2. \A o \in DOMAIN r : o > n - 1 => ~Gives(r[o], i)
            <6> SUFFICES ASSUME NEW o \in DOMAIN r, o > n - 1 PROVE ~Gives(r[o], i)
              OBVIOUS
            <6>1. o + 1 \in DOMAIN q /\ r[o] = q[o + 1] /\ o + 1 > n
              BY <2>1
            <6> QED BY <3>2, <6>1
          <5> QED BY <1>1, <3>2, <5>1, <5>2 DEF Gone, r
        <4> QED BY <4>1, <4>2
      <3> QED BY <3>1, <3>2 DEF Gone, q
    <2>11. AddressKnown'
      <3>0. /\ run = "read" => mine \in greeted \/ \E n \in DOMAIN q : q[n].t = "hello"
            /\ \A n \in DOMAIN q :
                 \/ mine \in greeted \/ \E o \in 1..n : q[o].t = "hello"
                 \/ \A x \in q[n].ports : <<q[n].t, x.id>> \in tooEarly[mine]
            /\ \A i \in DOMAIN portMap[mine] :
                 remotePorts[portMap[mine][i]].addr \/ <<"added", i>> \in tooEarly[mine]
        BY <1>5 DEF TrunkInv, AddressKnown, q
      <3>1. mine \in greeted' \/ (m.t # "hello" /\ mine \notin greeted)
        BY <2>3
      <3>2. run = "read" => mine \in greeted' \/ \E n \in DOMAIN r : r[n].t = "hello"
        <4> SUFFICES ASSUME run = "read", m.t # "hello", mine \notin greeted
                     PROVE  \E n \in DOMAIN r : r[n].t = "hello"
          BY <3>1
        <4>1. PICK n \in DOMAIN q : q[n].t = "hello"
          BY <3>0
        <4>2. n - 1 \in DOMAIN r /\ r[n - 1] = q[n]
          BY <2>1, <2>6, <4>1
        <4> QED BY <4>1, <4>2
      <3>3. \A n \in DOMAIN r :
                 \/ mine \in greeted' \/ \E o \in 1..n : r[o].t = "hello"
                 \/ \A x \in r[n].ports : <<r[n].t, x.id>> \in tooEarly[mine]
        <4> SUFFICES ASSUME NEW n \in DOMAIN r, m.t # "hello", mine \notin greeted
                     PROVE  \/ \E o \in 1..n : r[o].t = "hello"
                            \/ \A x \in r[n].ports : <<r[n].t, x.id>> \in tooEarly[mine]
          BY <3>1
        <4>1. n + 1 \in DOMAIN q /\ r[n] = q[n + 1]
          BY <2>1
        <4>2. CASE \E o \in 1..(n + 1) : q[o].t = "hello"
          <5>1. PICK o \in 1..(n + 1) : q[o].t = "hello"
            BY <4>2
          <5>2. o - 1 \in 1..n /\ r[o - 1] = q[o]
            BY <2>1, <2>6, <4>1, <5>1
          <5> QED BY <5>1, <5>2
        <4> QED BY <3>0, <4>1, <4>2
      <3>4. \A i \in DOMAIN portMap'[mine] :
                 remotePorts'[portMap'[mine][i]].addr \/ <<"added", i>> \in tooEarly[mine]
        <4> SUFFICES ASSUME NEW i \in DOMAIN portMap'[mine]
                     PROVE  remotePorts'[portMap'[mine][i]].addr \/ <<"added", i>> \in tooEarly[mine]
          OBVIOUS
        <4>1. CASE i \in DOMAIN portMap[mine]
          BY <2>2, <3>0, <4>1
        <4>2. CASE i \notin DOMAIN portMap[mine]
          <5>1. PICK x \in m.ports : /\ x.id = i /\ m.t # "removed"
                                     /\ remotePorts'[portMap'[mine][i]].addr = (mine \in greeted')
            BY <2>2, <4>2
          <5>2. CASE mine \in greeted'
            BY <5>1, <5>2
          <5>3. CASE mine \notin greeted'
            <6>1. m.t = "added" /\ mine \notin greeted
              BY <2>4, <3>1, <5>1, <5>3, ReportFacts
            <6>2. \A o \in 1..1 : o = 1
              OBVIOUS
            <6>3. <<m.t, x.id>> \in tooEarly[mine]
              BY <2>6, <3>0, <6>1, <6>2
            <6> QED BY <5>1, <6>1, <6>3
          <5> QED BY <5>2, <5>3
        <4> QED BY <4>1, <4>2
      <3> QED BY <1>1, <3>2, <3>3, <3>4 DEF AddressKnown, r
    <2> QED BY <2>7, <2>8, <2>9, <2>10, <2>11 DEF Said
  <1> QED BY <1>3, <1>4, <1>5

LEMMA TrunkInitial == TrunkInit => TrunkInv
  <1> SUFFICES ASSUME TrunkInit PROVE TrunkInv
    OBVIOUS
  <1>0. /\ ports = <<>> /\ nextEdgeID = 1 /\ boots = 1 /\ past = 0 /\ unsent = <<>>
        /\ cur = NoConn /\ run = "dial" /\ mine = NoConn /\ greeting = {}
        /\ dialled = 0 /\ broken = {} /\ up = [k \in Conns |-> <<>>]
        /\ serving = {} /\ greeted = {}
        /\ portMap = [k \in Conns |-> <<>>] /\ remotePorts = <<>> /\ nextSynth = 1
        /\ tooEarly = [k \in Conns |-> {}]
    BY DEF TrunkInit
  <1>1. EdgeTyped
    BY <1>0, TrunkAssumption DEF EdgeTyped, NoConn
  <1>2. NetworkTyped
    BY <1>0 DEF NetworkTyped
  <1>3. GatewayTyped
    BY <1>0 DEF GatewayTyped
  <1>4. MapsAgree
    BY <1>0 DEF MapsAgree
  <1>5. ReportsTrue
    BY <1>0 DEF ReportsTrue
  <1>6. ~Active
    BY <1>0 DEF Active
  <1>7. ActiveHeld
    BY <1>0, <1>6 DEF ActiveHeld
  <1> QED BY <1>1, <1>2, <1>3, <1>4, <1>5, <1>6, <1>7
          DEF TrunkInv, TrunkTyped, SaysTrue, NoneMissed, NoneTooMany, AddressKnown

LEMMA TrunkInductive == TrunkInv /\ [TrunkNext]_trunkVars => TrunkInv'
  <1> SUFFICES ASSUME TrunkInv, [TrunkNext]_trunkVars PROVE TrunkInv'
    OBVIOUS
  <1>1. CASE TrunkNext
    <2>1. EdgeTyped' /\ NetworkTyped' /\ GatewayTyped' /\ MapsAgree'
      BY <1>1, EdgeTypesKept, NetworkTypesKept, GatewayKept DEF TrunkInv
    <2>2. Said'
      BY <1>1, AddPortKeepsSaid, ScanGoneKeepsSaid, SendNoticeKeepsSaid, DialKeepsSaid, SnapshotKeepsSaid,
         HelloKeepsSaid, TrunkDownKeepsSaid, GatewayReadsKeepsSaid
      DEF TrunkNext
    <2> QED BY <2>1, <2>2 DEF TrunkInv, TrunkTyped, Said
  <1>2. CASE UNCHANGED trunkVars
    <2> USE <1>2 DEF trunkVars, edgePorts, edgeTrunk, network, gateway
    <2>1. EdgeTyped'
      BY DEF TrunkInv, TrunkTyped, EdgeTyped
    <2>2. NetworkTyped'
      BY DEF TrunkInv, TrunkTyped, NetworkTyped
    <2>3. GatewayTyped'
      BY DEF TrunkInv, TrunkTyped, GatewayTyped
    <2>4. MapsAgree'
      BY DEF TrunkInv, MapsAgree
    <2>5. Active' => mine \in serving
      BY ActiveFacts DEF Active
    <2>6. Said'
      BY <2>5, OthersKeepSaid
    <2> QED BY <2>1, <2>2, <2>3, <2>4, <2>6 DEF TrunkInv, TrunkTyped, Said
  <1> QED BY <1>1, <1>2

LEMMA TrunkFollows == TrunkInv => TrunkTypeOK /\ MapsAgree /\ NoPortMissed
  <1> SUFFICES ASSUME TrunkInv PROVE TrunkTypeOK /\ NoPortMissed
    BY DEF TrunkInv
  <1>1. TrunkTypeOK
    <2>1. /\ nextEdgeID \in 1..(MaxEdgePorts + 1) /\ boots \in 1..MaxBoots /\ past \in 0..MaxEdgePorts
          /\ DOMAIN ports \subseteq EdgeIds /\ Known \subseteq Pods
          /\ cur \in Conns \cup {NoConn} /\ mine \in Conns \cup {NoConn}
          /\ run \in {"dial", "snapshot", "hello", "read"} /\ greeting \subseteq EdgePort
          /\ dialled \in 0..MaxConns
      BY TrunkAssumption DEF TrunkInv, TrunkTyped, EdgeTyped, EdgeIds, Conns, NoConn, Known
    <2>2. \A n \in DOMAIN unsent : unsent[n] \in [t : {"added", "removed"}, ports : SUBSET EdgePort]
      <3> SUFFICES ASSUME NEW n \in DOMAIN unsent
                   PROVE  unsent[n] \in [t : {"added", "removed"}, ports : SUBSET EdgePort]
        OBVIOUS
      <3>1. unsent[n] \in Notice
        BY DEF TrunkInv, TrunkTyped, EdgeTyped
      <3> QED BY <3>1 DEF Notice
    <2>3. \A k \in Conns : \A n \in DOMAIN up[k] :
            up[k][n] \in [t : {"hello", "added", "removed"}, ports : SUBSET EdgePort]
      <3> SUFFICES ASSUME NEW k \in Conns, NEW n \in DOMAIN up[k]
                   PROVE  up[k][n] \in [t : {"hello", "added", "removed"}, ports : SUBSET EdgePort]
        OBVIOUS
      <3>1. up[k][n] \in Report
        BY DEF TrunkInv, TrunkTyped, NetworkTyped
      <3> QED BY <3>1 DEF Report
    <2>4. broken \subseteq Conns /\ serving \subseteq Conns /\ greeted \subseteq serving /\ nextSynth \in Nat
      BY TrunkAssumption DEF TrunkInv, TrunkTyped, EdgeTyped, NetworkTyped, GatewayTyped, Conns
    <2> QED BY <2>1, <2>2, <2>3, <2>4 DEF TrunkInv, TrunkTyped, GatewayTyped, TrunkTypeOK
  <1>2. NoPortMissed
    <2> SUFFICES ASSUME TrunkSettled
                 PROVE  /\ DOMAIN ports \subseteq DOMAIN portMap[mine]
                        /\ \A i \in DOMAIN portMap[mine] \ DOMAIN ports : <<"removed", i>> \in tooEarly[mine]
                        /\ \A i \in DOMAIN ports :
                             /\ remotePorts[portMap[mine][i]].pod = ports[i]
                             /\ remotePorts[portMap[mine][i]].addr \/ <<"added", i>> \in tooEarly[mine]
      BY DEF NoPortMissed
    <2>1. Active /\ greeting = {} /\ run = "read" /\ DOMAIN unsent = {} /\ DOMAIN up[mine] = {}
      BY DEF TrunkInv, TrunkSettled, Active, ActiveHeld, ReportsTrue
    <2>2. DOMAIN ports \subseteq DOMAIN portMap[mine]
      BY <2>1 DEF TrunkInv, NoneMissed, Coming, Has
    <2>3. DOMAIN portMap[mine] \subseteq EdgeIds
      BY <2>1, ActiveFacts DEF TrunkInv, TrunkTyped, GatewayTyped
    <2>4. \A i \in DOMAIN portMap[mine] \ DOMAIN ports : <<"removed", i>> \in tooEarly[mine]
      BY <2>1, <2>3 DEF TrunkInv, NoneTooMany, Gone
    <2>5. \A i \in DOMAIN ports :
            /\ remotePorts[portMap[mine][i]].pod = ports[i]
            /\ remotePorts[portMap[mine][i]].addr \/ <<"added", i>> \in tooEarly[mine]
      BY <2>1, <2>2 DEF TrunkInv, SaysTrue, AddressKnown
    <2> QED BY <2>2, <2>4, <2>5
  <1> QED BY <1>1, <1>2

-----------------------------------------------------------------------------
(* ConsumerView: types are kept.                                           *)

LEMMA GivenFacts ==
  ASSUME ViewTyped
  PROVE  Given \subseteq PortIds /\ nextID \in Nat /\ \A p \in Given : p < nextID
  BY ViewAssumption DEF ViewTyped, Given, PortIds

LEMMA WorkFacts ==
  ASSUME ViewTyped, NEW w \in Workers
  PROVE  /\ todo[w] \in Seq(Note) /\ Len(todo[w]) \in Nat /\ DOMAIN todo[w] = 1..Len(todo[w])
         /\ todo[w] # <<>> =>
              /\ Len(todo[w]) > 0 /\ Head(todo[w]) = todo[w][1] /\ Head(todo[w]) \in Note
              /\ Tail(todo[w]) \in Seq(Note) /\ DOMAIN Tail(todo[w]) = 1..(Len(todo[w]) - 1)
              /\ \A n \in 1..(Len(todo[w]) - 1) : Tail(todo[w])[n] = todo[w][n + 1]
  <1>1. todo[w] \in Seq(Note)
    BY DEF ViewTyped
  <1> QED BY <1>1, ReadFacts

LEMMA NoteFacts ==
  ASSUME NEW m \in Note
  PROVE  /\ m.t \in {"added", "removed", "token", "reply"} /\ m.ids \in SUBSET PortIds
         /\ m.t # "reply" => m \in Post
  BY DEF Note, Post

LEMMA MessageIsNote ==
  ASSUME NEW t \in {"added", "removed", "token", "reply"}, NEW p \in PortIds
  PROVE  /\ Message(t, {p}) \in Note /\ Message(t, {p}).t = t /\ Message(t, {p}).ids = {p}
         /\ <<Message(t, {p})>> \in Seq(Note)
  <1>1. Message(t, {p}) \in Note /\ Message(t, {p}).t = t /\ Message(t, {p}).ids = {p}
    BY DEF Message, Note
  <1>2. \A m \in Note : <<m>> \in Seq(Note)
    OBVIOUS
  <1> QED BY <1>1, <1>2

LEMMA TwoNotes ==
  ASSUME NEW l \in Note, NEW m \in Note
  PROVE  <<l, m>> \in Seq(Note) /\ DOMAIN <<l, m>> = 1..2 /\ <<l, m>>[1] = l /\ <<l, m>>[2] = m
  OBVIOUS

(* What a scan or an agent adds, or a port's reader releases.              *)
LEMMA AddVethFacts ==
  ASSUME ViewTyped, AddVeth
  PROVE  /\ nextID \in PortIds /\ live' = live \cup {nextID} /\ nextID' = nextID + 1
         /\ todo[Scanner] = <<>> /\ Scanner \in Workers
         /\ todo' = [todo EXCEPT ![Scanner] = <<Message("added", {nextID})>>]
         /\ UNCHANGED <<agents, reading, tokens, stage, dest, client, observers, conn, snap, chan, view, told,
                        strange, overtaken>>
  BY ViewAssumption DEF AddVeth, Insert, Idle, ViewTyped, PortIds, Workers, Scanner, consumerVars, viewVars

LEMMA AddAgentFacts ==
  ASSUME ViewTyped, AddAgent
  PROVE  /\ nextID \in PortIds /\ live' = live \cup {nextID} /\ nextID' = nextID + 1
         /\ agents' = agents \cup {nextID}
         /\ todo' = [todo EXCEPT ![nextID] = <<Message("added", {nextID}), Message("reply", {nextID})>>]
         /\ UNCHANGED <<reading, tokens, stage, dest, client, observers, conn, snap, chan, view, told,
                        strange, overtaken>>
  BY ViewAssumption DEF AddAgent, Insert, ViewTyped, PortIds, consumerVars, viewVars

(* The ports that are gone, and what the scan has to say about them.       *)
LEMMA ScanFacts ==
  ASSUME ViewTyped, ScanGone
  PROVE  \E gone \in SUBSET (live \ agents) :
           /\ live' = live \ gone /\ todo[Scanner] = <<>> /\ Scanner \in Workers
           /\ todo' = [todo EXCEPT ![Scanner] = todo'[Scanner]] /\ todo'[Scanner] \in Seq(Note)
           /\ \A n \in DOMAIN todo'[Scanner] : \E p \in gone :
                todo'[Scanner][n].t = "removed" /\ todo'[Scanner][n].ids = {p}
           /\ \A p \in gone : \E n \in DOMAIN todo'[Scanner] :
                todo'[Scanner][n].t = "removed" /\ p \in todo'[Scanner][n].ids
           /\ UNCHANGED <<nextID, agents, reading, tokens, stage, dest, client, observers, conn, snap, chan,
                          view, told, strange, overtaken>>
  <1>1. PICK gone \in SUBSET (live \ agents) \ {{}} : \E order \in SetToSeqs(gone) :
          /\ live' = live \ gone
          /\ todo' = [todo EXCEPT ![Scanner] = [i \in DOMAIN order |-> Message("removed", {order[i]})]]
    BY DEF ScanGone
  <1>2. PICK order \in SetToSeqs(gone) :
          /\ live' = live \ gone
          /\ todo' = [todo EXCEPT ![Scanner] = [i \in DOMAIN order |-> Message("removed", {order[i]})]]
    BY <1>1
  <1>3. gone \subseteq PortIds
    BY <1>1, GivenFacts DEF ViewTyped
  <1>4. IsFiniteSet(gone)
    <2>1. IsFiniteSet(PortIds)
      BY FS_Interval, ViewAssumption DEF PortIds
    <2> QED BY <1>3, <2>1, FS_Subset
  <1>5. /\ order \in Seq(gone) /\ DOMAIN order = 1..Len(order) /\ Len(order) \in Nat
        /\ \A x \in gone : \E n \in DOMAIN order : order[n] = x
    BY <1>4, OrderFacts
  <1> DEFINE list == [i \in DOMAIN order |-> Message("removed", {order[i]})]
  <1>6. \A n \in DOMAIN order : order[n] \in gone
    BY <1>5
  <1>7. \A n \in DOMAIN order : /\ list[n] \in Note /\ list[n].t = "removed" /\ list[n].ids = {order[n]}
    BY <1>3, <1>6, MessageIsNote
  <1>8. DOMAIN list = DOMAIN order
    OBVIOUS
  <1>9. list \in Seq(Note)
    <2>1. list \in [1..Len(order) -> Note]
      BY <1>5, <1>7
    <2> QED BY <1>5, <2>1
  <1>10. Scanner \in Workers /\ todo'[Scanner] = list /\ todo' = [todo EXCEPT ![Scanner] = list]
    BY <1>2 DEF ViewTyped, Workers
  <1> HIDE DEF list
  <1>11. \A n \in DOMAIN list : \E p \in gone : list[n].t = "removed" /\ list[n].ids = {p}
    BY <1>6, <1>7, <1>8
  <1>12. \A p \in gone : \E n \in DOMAIN list : list[n].t = "removed" /\ p \in list[n].ids
    BY <1>5, <1>7, <1>8
  <1>13. todo[Scanner] = <<>>
    BY DEF ScanGone, Idle
  <1>14. UNCHANGED <<nextID, agents, reading, tokens, stage, dest, client, observers, conn, snap, chan,
                     view, told, strange, overtaken>>
    BY DEF ScanGone, consumerVars, viewVars
  <1>15. gone \in SUBSET (live \ agents) /\ live' = live \ gone
    BY <1>1, <1>2
  <1>16. todo' = [todo EXCEPT ![Scanner] = todo'[Scanner]]
    BY <1>10
  <1> WITNESS gone \in SUBSET (live \ agents)
  <1> QED BY <1>9, <1>10, <1>11, <1>12, <1>13, <1>14, <1>15, <1>16
LEMMA AddedTypes ==
  ASSUME ViewTyped, nextID \in PortIds, live' = live \cup {nextID}, nextID' = nextID + 1,
         agents' \in {agents, agents \cup {nextID}}, todo' \in [Workers -> Seq(Note)],
         UNCHANGED <<reading, tokens, stage, dest, client, observers, conn, snap, chan, view, told,
                     strange, overtaken>>
  PROVE  ViewTyped'
  <1>1. /\ nextID \in Nat /\ Given' = Given \cup {nextID} /\ Given \subseteq Given'
        /\ nextID' \in 1..(MaxPorts + 1)
    BY ViewAssumption DEF ViewTyped, Given, PortIds
  <1>2. strange' \in [Consumers -> SUBSET Given']
    BY <1>1 DEF ViewTyped
  <1>3. live' \subseteq Given' /\ agents' \subseteq Given' /\ reading' \subseteq Given'
    BY <1>1 DEF ViewTyped
  <1> QED BY <1>1, <1>2, <1>3 DEF ViewTyped

(* A router's arrival closes the connection before it.                     *)
LEMMA AttachFacts ==
  ASSUME ViewTyped, ConnsHeld, NEW c \in Consumers, Attach(c)
  PROVE  /\ conn[c] = "new" /\ conn'[c] = "attached" /\ snap'[c] = live
         /\ chan'[c] = <<>> /\ view'[c] = {} /\ told'[c] = {} /\ strange'[c] = {}
         /\ \A d \in Consumers \ {c} :
              \/ /\ conn'[d] = conn[d] /\ snap'[d] = snap[d] /\ chan'[d] = chan[d] /\ view'[d] = view[d]
                 /\ told'[d] = told[d] /\ strange'[d] = strange[d] /\ overtaken'[d] = overtaken[d]
                 /\ c \notin Observers => d # client
              \/ conn'[d] = "closed" /\ d = client /\ c \notin Observers
         /\ c \in Observers => observers' = observers \cup {c} /\ client' = client
         /\ c \notin Observers => client' = c /\ observers' = observers
         /\ UNCHANGED <<live, nextID, agents, reading, tokens, todo, stage, dest>>
  <1>1. conn[c] = "new" /\ chan[c] = <<>> /\ view[c] = {} /\ told[c] = {} /\ strange[c] = {}
    BY DEF Attach, ConnsHeld
  <1>2. UNCHANGED <<live, nextID, agents, reading, tokens, todo, stage, dest>>
    BY DEF Attach, portVars, sendVars
  <1>3. CASE c \in Observers
    <2>1. /\ observers' = observers \cup {c} /\ client' = client
          /\ conn' = [conn EXCEPT ![c] = "attached"] /\ snap' = [snap EXCEPT ![c] = live]
          /\ UNCHANGED <<chan, view, told, strange, overtaken>>
      BY <1>3 DEF Attach, viewVars
    <2> QED BY <1>1, <1>2, <1>3, <2>1 DEF ViewTyped
  <1>4. CASE c \notin Observers
    <2>1. /\ client' = c /\ observers' = observers
          /\ conn' = [d \in Consumers |-> IF d = c THEN "attached" ELSE IF d = client THEN "closed" ELSE conn[d]]
          /\ snap' = [Without(snap, client) EXCEPT ![c] = live]
          /\ chan' = [d \in Consumers |-> IF d = client THEN <<>> ELSE chan[d]]
          /\ view' = Without(view, client) /\ told' = Without(told, client)
          /\ strange' = Without(strange, client) /\ overtaken' = Without(overtaken, client)
      BY <1>4 DEF Attach, Forgotten
    <2>2. c # client
      BY <1>1, <1>4 DEF ConnsHeld, Open, Consumers
    <2> QED BY <1>1, <1>2, <1>4, <2>1, <2>2 DEF Without
  <1> QED BY <1>3, <1>4

LEMMA AttachTypes ==
  ASSUME ViewTyped, NEW c \in Consumers, Attach(c)
  PROVE  ViewTyped'
  <1>1. live \subseteq PortIds
    BY GivenFacts DEF ViewTyped
  <1>2. /\ UNCHANGED <<live, nextID, agents, reading, tokens, todo, stage, dest>>
    BY DEF Attach, portVars, sendVars
  <1>3. CASE c \in Observers
    <2>1. /\ observers' = observers \cup {c} /\ client' = client
          /\ conn' = [conn EXCEPT ![c] = "attached"] /\ snap' = [snap EXCEPT ![c] = live]
          /\ UNCHANGED <<chan, view, told, strange, overtaken>>
      BY <1>3 DEF Attach, viewVars
    <2> QED BY <1>1, <1>2, <1>3, <2>1 DEF ViewTyped, Given
  <1>4. CASE c \notin Observers
    <2>1. /\ client' = c /\ observers' = observers /\ c \in Routers
          /\ conn' = [d \in Consumers |-> IF d = c THEN "attached" ELSE IF d = client THEN "closed" ELSE conn[d]]
          /\ snap' = [Without(snap, client) EXCEPT ![c] = live]
          /\ chan' = [d \in Consumers |-> IF d = client THEN <<>> ELSE chan[d]]
          /\ view' = Without(view, client) /\ told' = Without(told, client)
          /\ strange' = Without(strange, client) /\ overtaken' = Without(overtaken, client)
      BY <1>4 DEF Attach, Forgotten, Consumers
    <2>2. chan' \in [Consumers -> Seq(Post)]
      BY <2>1 DEF ViewTyped
    <2>3. snap' \in [Consumers -> SUBSET PortIds]
      BY <1>1, <2>1 DEF ViewTyped, Without
    <2>4. /\ view' \in [Consumers -> SUBSET PortIds] /\ told' \in [Consumers -> SUBSET PortIds]
          /\ strange' \in [Consumers -> SUBSET Given] /\ overtaken' \in [Consumers -> SUBSET PortIds]
      BY <2>1 DEF ViewTyped, Without
    <2>5. conn' \in [Consumers -> {"new", "attached", "greeted", "closed", "gone"}]
      BY <2>1 DEF ViewTyped
    <2> QED BY <1>2, <2>1, <2>2, <2>3, <2>4, <2>5 DEF ViewTyped, Given
  <1> QED BY <1>3, <1>4

(* What a consumer makes of one message.                                   *)
LEMMA ReceiveFacts ==
  ASSUME ViewTyped, NEW c \in Consumers, Receive(c)
  PROVE  LET m == chan[c][1] IN
         /\ Open(c) /\ chan[c] # <<>> /\ m \in Post
         /\ chan' = [chan EXCEPT ![c] = Tail(chan[c])] /\ Tail(chan[c]) \in Seq(Post)
         /\ Len(chan[c]) \in Nat /\ Len(chan[c]) > 0
         /\ DOMAIN chan[c] = 1..Len(chan[c]) /\ DOMAIN chan'[c] = 1..(Len(chan[c]) - 1)
         /\ \A n \in 1..(Len(chan[c]) - 1) : chan'[c][n] = chan[c][n + 1]
         /\ view' = [view EXCEPT ![c] = view'[c]] /\ told' = [told EXCEPT ![c] = told'[c]]
         /\ strange' = [strange EXCEPT ![c] = strange'[c]]
         /\ m.t = "hello" => view'[c] = m.ids /\ told'[c] = m.ids /\ strange'[c] = {}
         /\ m.t = "added" =>
              view'[c] = view[c] \cup m.ids /\ told'[c] = told[c] \cup m.ids /\ strange'[c] = strange[c]
         /\ m.t = "removed" => view'[c] = view[c] \ m.ids /\ told'[c] = told[c] /\ strange'[c] = strange[c]
         /\ m.t = "token" =>
              view'[c] = view[c] /\ told'[c] = told[c] /\ strange'[c] = strange[c] \cup (m.ids \ told[c])
         /\ UNCHANGED <<live, nextID, agents, reading, tokens, todo, stage, dest, client, observers, conn, snap,
                        overtaken>>
  <1> DEFINE m == chan[c][1]
  <1>1. Open(c) /\ chan[c] # <<>> /\ chan[c] \in Seq(Post)
    BY DEF Receive, ViewTyped
  <1>2. /\ m \in Post /\ m = Head(chan[c]) /\ Tail(chan[c]) \in Seq(Post)
        /\ Len(chan[c]) \in Nat /\ Len(chan[c]) > 0
        /\ DOMAIN chan[c] = 1..Len(chan[c]) /\ DOMAIN Tail(chan[c]) = 1..(Len(chan[c]) - 1)
        /\ \A n \in 1..(Len(chan[c]) - 1) : Tail(chan[c])[n] = chan[c][n + 1]
    BY <1>1, ReadFacts
  <1>3. /\ chan' = [chan EXCEPT ![c] = Tail(chan[c])]
        /\ view' = [view EXCEPT ![c] = Applied(m, view[c])]
        /\ told' = [told EXCEPT ![c] = IF m.t = "removed" THEN told[c] ELSE Applied(m, told[c])]
        /\ strange' = [strange EXCEPT ![c] = CASE m.t = "hello" -> {}
                                              [] m.t = "token" -> strange[c] \cup (m.ids \ told[c])
                                              [] OTHER         -> strange[c]]
        /\ UNCHANGED <<live, nextID, agents, reading, tokens, todo, stage, dest, client, observers, conn, snap,
                       overtaken>>
    BY <1>2 DEF Receive, portVars, sendVars, consumerVars
  <1>4. m.t \in {"hello", "added", "removed", "token"}
    BY <1>2 DEF Post
  <1> HIDE DEF m
  <1>5. /\ DOMAIN chan = Consumers /\ DOMAIN view = Consumers /\ DOMAIN told = Consumers
        /\ DOMAIN strange = Consumers
    BY DEF ViewTyped
  <1>6. /\ view'[c] = Applied(m, view[c])
        /\ told'[c] = IF m.t = "removed" THEN told[c] ELSE Applied(m, told[c])
        /\ strange'[c] = CASE m.t = "hello" -> {}
                           [] m.t = "token" -> strange[c] \cup (m.ids \ told[c])
                           [] OTHER         -> strange[c]
        /\ chan'[c] = Tail(chan[c])
    BY <1>3, <1>5
  <1>7. /\ view' = [view EXCEPT ![c] = view'[c]] /\ told' = [told EXCEPT ![c] = told'[c]]
        /\ strange' = [strange EXCEPT ![c] = strange'[c]]
    BY <1>3, <1>6
  <1>8. m.t = "hello" => view'[c] = m.ids /\ told'[c] = m.ids /\ strange'[c] = {}
    BY <1>6 DEF Applied
  <1>9. m.t = "added" =>
          view'[c] = view[c] \cup m.ids /\ told'[c] = told[c] \cup m.ids /\ strange'[c] = strange[c]
    BY <1>6 DEF Applied
  <1>10. m.t = "removed" => view'[c] = view[c] \ m.ids /\ told'[c] = told[c] /\ strange'[c] = strange[c]
    BY <1>6 DEF Applied
  <1>11. m.t = "token" =>
           view'[c] = view[c] /\ told'[c] = told[c] /\ strange'[c] = strange[c] \cup (m.ids \ told[c])
    BY <1>6 DEF Applied
  <1> QED BY <1>1, <1>2, <1>3, <1>6, <1>7, <1>8, <1>9, <1>10, <1>11 DEF m

LEMMA ReceiveTypes ==
  ASSUME ViewTyped, NEW c \in Consumers, Receive(c), ChanTrue(c)
  PROVE  ViewTyped'
  <1> DEFINE m == chan[c][1]
  <1>1. /\ m \in Post /\ 1 \in DOMAIN chan[c]
        /\ chan' = [chan EXCEPT ![c] = Tail(chan[c])] /\ Tail(chan[c]) \in Seq(Post)
        /\ view' = [view EXCEPT ![c] = view'[c]] /\ told' = [told EXCEPT ![c] = told'[c]]
        /\ strange' = [strange EXCEPT ![c] = strange'[c]]
        /\ m.t = "hello" => view'[c] = m.ids /\ told'[c] = m.ids /\ strange'[c] = {}
        /\ m.t = "added" =>
             view'[c] = view[c] \cup m.ids /\ told'[c] = told[c] \cup m.ids /\ strange'[c] = strange[c]
        /\ m.t = "removed" => view'[c] = view[c] \ m.ids /\ told'[c] = told[c] /\ strange'[c] = strange[c]
        /\ m.t = "token" =>
             view'[c] = view[c] /\ told'[c] = told[c] /\ strange'[c] = strange[c] \cup (m.ids \ told[c])
        /\ UNCHANGED <<live, nextID, agents, reading, tokens, todo, stage, dest, client, observers, conn, snap,
                       overtaken>>
    BY ReceiveFacts
  <1>2. m.t \in {"hello", "added", "removed", "token"} /\ m.ids \in SUBSET PortIds
    BY <1>1 DEF Post
  <1>3. m.t = "token" => m.ids \subseteq Given
    BY <1>1 DEF ChanTrue
  <1>4. view[c] \subseteq PortIds /\ told[c] \subseteq PortIds /\ strange[c] \subseteq Given
    BY DEF ViewTyped
  <1> HIDE DEF m
  <1>5. view'[c] \subseteq PortIds /\ told'[c] \subseteq PortIds
    BY <1>1, <1>2, <1>4
  <1>6. strange'[c] \subseteq Given
    BY <1>1, <1>2, <1>3, <1>4
  <1>7. /\ view' \in [Consumers -> SUBSET PortIds] /\ told' \in [Consumers -> SUBSET PortIds]
        /\ strange' \in [Consumers -> SUBSET Given] /\ chan' \in [Consumers -> Seq(Post)]
    BY <1>1, <1>5, <1>6 DEF ViewTyped
  <1> QED BY <1>1, <1>7 DEF ViewTyped, Given

LEMMA ViewTypesKept ==
  ASSUME ViewInv, Next
  PROVE  ViewTyped'
  <1>i. ViewTyped /\ WorkTrue /\ ConnsHeld /\ \A c \in Consumers : Open(c) => ChanTrue(c)
    BY DEF ViewInv, Abreast
  <1> USE <1>i DEF ViewTyped
  <1>0. /\ Given \subseteq PortIds /\ nextID \in Nat /\ Scanner \in Workers /\ PortIds \subseteq Workers
        /\ nextID' >= nextID /\ nextID' \in Nat => Given \subseteq Given'
    BY GivenFacts DEF Workers, Given
  <1>1. CASE AddVeth
    <2>1. /\ nextID \in PortIds /\ live' = live \cup {nextID} /\ nextID' = nextID + 1
          /\ todo' = [todo EXCEPT ![Scanner] = <<Message("added", {nextID})>>]
          /\ UNCHANGED <<agents, reading, tokens, stage, dest, client, observers, conn, snap, chan, view, told,
                         strange, overtaken>>
      BY <1>1, AddVethFacts
    <2>2. <<Message("added", {nextID})>> \in Seq(Note)
      BY <2>1, MessageIsNote
    <2>3. todo' \in [Workers -> Seq(Note)]
      BY <1>0, <2>1, <2>2
    <2> HIDE DEF ViewTyped
    <2> QED BY <2>1, <2>3, AddedTypes
  <1>2. CASE AddAgent
    <2>1. /\ nextID \in PortIds /\ live' = live \cup {nextID} /\ nextID' = nextID + 1
          /\ agents' = agents \cup {nextID}
          /\ todo' = [todo EXCEPT ![nextID] = <<Message("added", {nextID}), Message("reply", {nextID})>>]
          /\ UNCHANGED <<reading, tokens, stage, dest, client, observers, conn, snap, chan, view, told,
                         strange, overtaken>>
      BY <1>2, AddAgentFacts
    <2>2. <<Message("added", {nextID}), Message("reply", {nextID})>> \in Seq(Note)
      BY <2>1, MessageIsNote, TwoNotes
    <2>3. todo' \in [Workers -> Seq(Note)]
      BY <1>0, <2>1, <2>2
    <2> HIDE DEF ViewTyped
    <2> QED BY <2>1, <2>3, AddedTypes
  <1>3. CASE ScanGone
    <2>1. PICK gone \in SUBSET (live \ agents) :
           /\ live' = live \ gone
           /\ todo' = [todo EXCEPT ![Scanner] = todo'[Scanner]] /\ todo'[Scanner] \in Seq(Note)
           /\ UNCHANGED <<nextID, agents, reading, tokens, stage, dest, client, observers, conn, snap, chan,
                          view, told, strange, overtaken>>
      BY <1>3, ScanFacts
    <2>2. todo' \in [Workers -> Seq(Note)]
      BY <1>0, <2>1
    <2> QED BY <2>1, <2>2 DEF Given
  <1>4. ASSUME NEW p \in PortIds, AgentLeft(p) PROVE ViewTyped'
    <2>1. <<Message("removed", {p})>> \in Seq(Note)
      BY MessageIsNote
    <2>2. todo' \in [Workers -> Seq(Note)]
      BY <1>0, <1>4, <2>1 DEF AgentLeft
    <2> QED BY <1>4, <2>2 DEF AgentLeft, consumerVars, viewVars, Given
  <1>5. ASSUME NEW p \in PortIds, Release(p) PROVE ViewTyped'
    <2>1. <<Message("token", {p})>> \in Seq(Note)
      BY MessageIsNote
    <2>2. todo' \in [Workers -> Seq(Note)]
      BY <1>0, <1>5, <2>1 DEF Release
    <2>3. tokens' \in [PortIds -> 0..MaxTokens]
      BY <1>5, ViewAssumption DEF Release
    <2> QED BY <1>5, <2>2, <2>3 DEF Release, portVars, consumerVars, viewVars, Given
  <1>6. ASSUME NEW p \in PortIds, ReaderStops(p) PROVE ViewTyped'
    BY <1>6 DEF ReaderStops, sendVars, consumerVars, viewVars, Given
  <1>7. ASSUME NEW p \in PortIds, Reply(p) PROVE ViewTyped'
    <2>1. todo[p] # <<>> /\ Tail(todo[p]) \in Seq(Note) /\ Head(todo[p]) = todo[p][1]
          /\ 1 \in DOMAIN todo[p] /\ Head(todo[p]) \in Note
      BY <1>0, <1>7, WorkFacts DEF Reply, Current, Idle
    <2>2. p \in Given
      <3>1. Head(todo[p]).t = "reply"
        BY <1>7 DEF Reply, Current
      <3>2. PICK i \in PortIds : Head(todo[p]).ids = {i}
        BY <2>1 DEF Note
      <3>3. TodoTrue(p)
        BY <1>0 DEF WorkTrue
      <3>4. todo[p][1].t = "reply" /\ i \in todo[p][1].ids
        BY <2>1, <3>1, <3>2
      <3> HIDE DEF ViewTyped
      <3>5. i = p /\ i \in agents
        BY <2>1, <3>3, <3>4 DEF TodoTrue
      <3> QED BY <1>i, <3>5 DEF ViewTyped
    <2>3. todo' \in [Workers -> Seq(Note)]
      BY <1>0, <1>7, <2>1 DEF Reply
    <2> QED BY <1>7, <2>2, <2>3 DEF Reply, consumerVars, viewVars, Given
  <1>8. ASSUME NEW w \in Workers, LookupRouter(w) PROVE ViewTyped'
    <2>1. {client} \ {NoRouter} \subseteq Consumers
      BY DEF Consumers
    <2> QED BY <1>8, <2>1 DEF LookupRouter, portVars, consumerVars, viewVars, Given
  <1>9. ASSUME NEW w \in Workers, LookupObservers(w) PROVE ViewTyped'
    <2>1. observers \subseteq Consumers
      BY DEF Consumers
    <2> QED BY <1>9, <2>1 DEF LookupObservers, portVars, consumerVars, viewVars, Given
  <1>10. ASSUME NEW w \in Workers, Sent(w) PROVE ViewTyped'
    <2>1. todo[w] # <<>> /\ Tail(todo[w]) \in Seq(Note) /\ Head(todo[w]) = todo[w][1]
          /\ 1 \in DOMAIN todo[w]
      BY <1>10, WorkFacts DEF Sent, WorkTrue, StageTrue
    <2>2. Head(todo[w]).ids \subseteq Given
      <3>1. Head(todo[w]).ids \subseteq PortIds
        BY <2>1, NoteFacts, WorkFacts
      <3>2. \A p \in Head(todo[w]).ids : p < nextID
        BY <2>1 DEF WorkTrue, TodoTrue
      <3> QED BY <1>0, <3>1, <3>2, ViewAssumption DEF Given, PortIds
    <2>3. todo' \in [Workers -> Seq(Note)]
      BY <1>10, <2>1 DEF Sent
    <2> QED BY <1>10, <2>2, <2>3 DEF Sent, consumerVars, viewVars, Given
  <1>11. ASSUME NEW w \in Workers, NEW c \in Consumers, Write(w, c) PROVE ViewTyped'
    <2>1. /\ c \in dest[w] /\ dest' = [dest EXCEPT ![w] = dest[w] \ {c}]
          /\ chan' = IF Open(c) THEN [chan EXCEPT ![c] = Append(chan[c], Head(todo[w]))] ELSE chan
          /\ overtaken' = IF conn[c] = "attached" /\ Head(todo[w]).t # "token"
                  THEN [overtaken EXCEPT ![c] = overtaken[c] \cup Head(todo[w]).ids] ELSE overtaken
          /\ UNCHANGED <<portVars, tokens, todo, stage, consumerVars, viewVars>>
      BY <1>11 DEF Write
    <2>2. todo[w] # <<>> /\ Head(todo[w]) = todo[w][1] /\ Head(todo[w]) \in Note /\ Head(todo[w]).t # "reply"
      BY <2>1, WorkFacts DEF WorkTrue, StageTrue
    <2>3. Head(todo[w]) \in Post /\ Head(todo[w]).ids \in SUBSET PortIds
      BY <2>2, NoteFacts
    <2>4. Append(chan[c], Head(todo[w])) \in Seq(Post)
      BY <2>3, AppendedFacts
    <2>5. chan' \in [Consumers -> Seq(Post)] /\ overtaken' \in [Consumers -> SUBSET PortIds]
      BY <2>1, <2>3, <2>4
    <2>6. dest' \in [Workers -> SUBSET Consumers]
      BY <2>1
    <2> QED BY <2>1, <2>5, <2>6 DEF portVars, consumerVars, viewVars, Given
  <1>12. ASSUME NEW c \in Consumers, Attach(c) PROVE ViewTyped'
    BY <1>12, AttachTypes
  <1>13. ASSUME NEW c \in Consumers, SendHello(c) PROVE ViewTyped'
    <2>1. Message("hello", snap[c]) \in Post
      BY DEF Message, Post
    <2>2. Append(chan[c], Message("hello", snap[c])) \in Seq(Post)
      BY <2>1, AppendedFacts
    <2>3. chan' \in [Consumers -> Seq(Post)]
      BY <1>13, <2>2 DEF SendHello
    <2> QED BY <1>13, <2>3 DEF SendHello, portVars, sendVars, viewVars, Without, Given
  <1>14. ASSUME NEW c \in Consumers, HangUp(c) PROVE ViewTyped'
    <2>1. chan' \in [Consumers -> Seq(Post)]
      BY <1>14 DEF HangUp, Forgotten
    <2> QED BY <1>14, <2>1 DEF HangUp, Forgotten, portVars, sendVars, Without, Given
  <1>15. ASSUME NEW c \in Consumers, Receive(c) PROVE ViewTyped'
    <2>1. Open(c)
      BY <1>15 DEF Receive
    <2> HIDE DEF ViewTyped
    <2> QED BY <1>15, <2>1, ReceiveTypes
  <1> QED BY <1>1, <1>2, <1>3, <1>4, <1>5, <1>6, <1>7, <1>8, <1>9, <1>10, <1>11, <1>12, <1>13, <1>14, <1>15 DEF Next

-----------------------------------------------------------------------------
(* ConsumerView: what is still to be sent is true.                         *)

(* A goroutine whose own work does not change has it stay true, unless the *)
(* ports it has added go or are read from, or its reader stops.            *)
LEMMA OthersTrue ==
  ASSUME ViewTyped, NEW w \in Workers, TodoTrue(w), StageTrue(w),
         todo'[w] = todo[w], stage'[w] = stage[w], dest'[w] = dest[w],
         nextID' \in Nat, nextID' >= nextID,
         \A p \in Nat : p < nextID => (p \in live' => p \in live),
         \A p \in Nat : p < nextID => (p \in agents' <=> p \in agents),
         \A p \in Nat : todo[w] # <<>> /\ todo[w][1].t = "added" /\ p \in todo[w][1].ids
                           => p \in live' /\ p \notin reading',
         todo[w] # <<>> /\ w \in reading => w \in reading'
  PROVE  TodoTrue(w)' /\ StageTrue(w)'
  <1>1. todo[w] \in Seq(Note) /\ DOMAIN todo[w] = 1..Len(todo[w]) /\ Len(todo[w]) \in Nat
    BY WorkFacts
  <1>2. StageTrue(w)'
    <2>1. w \in Nat /\ nextID \in Nat
      BY GivenFacts DEF Workers, Scanner, PortIds
    <2> QED BY <2>1 DEF StageTrue
  <1>3. TodoTrue(w)'
    <2>1. SUFFICES ASSUME NEW n \in DOMAIN todo[w], NEW p \in todo[w][n].ids
                   PROVE  /\ p < nextID'
                          /\ todo[w][n].t = "added" =>
                               /\ n = 1 /\ p \in live' /\ p \notin reading'
                               /\ w = IF p \in agents' THEN p ELSE Scanner
                          /\ todo[w][n].t = "removed" => p \notin live'
                          /\ todo[w][n].t = "reply" => p = w /\ p \in agents'
                          /\ todo[w][n].t = "token" => p = w /\ p \in reading'
      BY DEF TodoTrue
    <2>2. p \in PortIds /\ p \in Nat /\ todo[w] # <<>>
      <3>1. todo[w][n] \in Note
        BY <1>1
      <3> QED BY <1>1, <3>1, NoteFacts DEF PortIds
    <2>3. /\ p < nextID
          /\ todo[w][n].t = "added" =>
               /\ n = 1 /\ p \in live /\ p \notin reading
               /\ w = IF p \in agents THEN p ELSE Scanner
          /\ todo[w][n].t = "removed" => p \notin live
          /\ todo[w][n].t = "reply" => p = w /\ p \in agents
          /\ todo[w][n].t = "token" => p = w /\ p \in reading
      BY DEF TodoTrue
    <2>4. p < nextID'
      BY <2>2, <2>3, GivenFacts
    <2>5. (p \in agents' <=> p \in agents) /\ (p \in live' => p \in live)
      BY <2>2, <2>3
    <2> QED BY <2>2, <2>3, <2>4, <2>5
  <1> QED BY <1>2, <1>3

(* A goroutine that has only just found what it is to send.                *)
LEMMA NewWork ==
  ASSUME NEW w \in Workers, StageTrue(w), todo[w] = <<>>, stage'[w] = stage[w], dest'[w] = dest[w],
         w >= nextID' => todo'[w] = <<>>
  PROVE  StageTrue(w)'
  BY DEF StageTrue

LEMMA WorkKept ==
  ASSUME ViewInv, Next
  PROVE  WorkTrue'
  <1>i. ViewTyped /\ (\A w \in Workers : TodoTrue(w) /\ StageTrue(w)) /\ ViewTyped'
    BY ViewTypesKept DEF ViewInv, WorkTrue
  <1>g. /\ Given \subseteq PortIds /\ nextID \in Nat /\ nextID' \in Nat /\ nextID \notin Given
        /\ Scanner \in Workers /\ PortIds \subseteq Workers /\ PortIds \subseteq Nat /\ Scanner \notin PortIds
        /\ agents \subseteq Given /\ reading \subseteq Given /\ live \subseteq Given
        /\ \A p \in Given : p < nextID
    BY <1>i, GivenFacts DEF Workers, Given, Scanner, PortIds, ViewTyped
  <1>w. DOMAIN todo = Workers /\ DOMAIN stage = Workers /\ DOMAIN dest = Workers
    BY <1>i DEF ViewTyped
  <1> SUFFICES ASSUME NEW w \in Workers PROVE TodoTrue(w)' /\ StageTrue(w)'
    BY DEF WorkTrue
  <1>t. TodoTrue(w) /\ StageTrue(w)
    BY <1>i
  <1>m. \A p \in Nat : todo[w] # <<>> /\ todo[w][1].t = "added" /\ p \in todo[w][1].ids
          => p \in live /\ p \notin reading /\ w = IF p \in agents THEN p ELSE Scanner
    <2>1. todo[w] # <<>> => 1 \in DOMAIN todo[w]
      BY <1>i, WorkFacts
    <2> QED BY <1>t, <2>1 DEF TodoTrue
  <1>1. CASE AddVeth
    <2>1. /\ nextID \in PortIds /\ live' = live \cup {nextID} /\ nextID' = nextID + 1
          /\ todo[Scanner] = <<>>
          /\ todo' = [todo EXCEPT ![Scanner] = <<Message("added", {nextID})>>]
          /\ UNCHANGED <<agents, reading, tokens, stage, dest, client, observers, conn, snap, chan, view, told,
                         strange, overtaken>>
      BY <1>i, <1>1, AddVethFacts
    <2>2. CASE w = Scanner
      <3>1. todo'[w] = <<Message("added", {nextID})>>
        BY <1>w, <2>1, <2>2
      <3>2. TodoTrue(w)'
        <4>1. \A n \in DOMAIN todo'[w] : n = 1 /\ todo'[w][n] = Message("added", {nextID})
          BY <3>1
        <4>2. Message("added", {nextID}).t = "added" /\ Message("added", {nextID}).ids = {nextID}
          BY DEF Message
        <4>3. nextID < nextID' /\ nextID \in live' /\ nextID \notin reading' /\ nextID \notin agents'
          BY <1>g, <2>1
        <4> QED BY <2>2, <4>1, <4>2, <4>3 DEF TodoTrue
      <3>3. ~(w >= nextID')
        BY <1>g, <2>1, <2>2 DEF Scanner
      <3> QED BY <1>t, <2>1, <2>2, <3>2, <3>3, NewWork
    <2>3. CASE w # Scanner
      <3>1. todo'[w] = todo[w]
        BY <1>w, <2>1, <2>3
      <3>2. \A p \in Nat : todo[w] # <<>> /\ todo[w][1].t = "added" /\ p \in todo[w][1].ids
              => p \in live' /\ p \notin reading'
        BY <1>m, <2>1
      <3> QED BY <1>i, <1>g, <1>t, <2>1, <3>1, <3>2, OthersTrue
    <2> QED BY <2>2, <2>3
  <1>2. CASE AddAgent
    <2>1. /\ nextID \in PortIds /\ live' = live \cup {nextID} /\ nextID' = nextID + 1
          /\ agents' = agents \cup {nextID}
          /\ todo' = [todo EXCEPT ![nextID] = <<Message("added", {nextID}), Message("reply", {nextID})>>]
          /\ UNCHANGED <<reading, tokens, stage, dest, client, observers, conn, snap, chan, view, told,
                         strange, overtaken>>
      BY <1>i, <1>2, AddAgentFacts
    <2>2. CASE w = nextID
      <3>1. todo'[w] = <<Message("added", {nextID}), Message("reply", {nextID})>>
        BY <1>w, <2>1, <2>2
      <3>2. TodoTrue(w)'
        <4>1. /\ DOMAIN todo'[w] = 1..2 /\ todo'[w][1] = Message("added", {nextID})
              /\ todo'[w][2] = Message("reply", {nextID})
          <5>1. Message("added", {nextID}) \in Note /\ Message("reply", {nextID}) \in Note
            BY <2>1, MessageIsNote
          <5> QED BY <3>1, <5>1, TwoNotes
        <4>2. /\ Message("added", {nextID}).t = "added" /\ Message("added", {nextID}).ids = {nextID}
              /\ Message("reply", {nextID}).t = "reply" /\ Message("reply", {nextID}).ids = {nextID}
          BY DEF Message
        <4>3. nextID < nextID' /\ nextID \in live' /\ nextID \notin reading' /\ nextID \in agents'
          BY <1>g, <2>1
        <4> QED BY <2>2, <4>1, <4>2, <4>3 DEF TodoTrue
      <3>3. ~(w >= nextID') /\ todo[w] = <<>>
        BY <1>g, <1>t, <2>1, <2>2 DEF StageTrue
      <3> QED BY <1>t, <2>1, <3>2, <3>3, NewWork
    <2>3. CASE w # nextID
      <3>1. todo'[w] = todo[w]
        BY <1>w, <2>1, <2>3
      <3>2. \A p \in Nat : todo[w] # <<>> /\ todo[w][1].t = "added" /\ p \in todo[w][1].ids
              => p \in live' /\ p \notin reading'
        BY <1>m, <2>1
      <3> QED BY <1>i, <1>g, <1>t, <2>1, <3>1, <3>2, OthersTrue
    <2> QED BY <2>2, <2>3
  <1>3. CASE ScanGone
    <2>1. PICK gone \in SUBSET (live \ agents) :
           /\ live' = live \ gone /\ todo[Scanner] = <<>>
           /\ todo' = [todo EXCEPT ![Scanner] = todo'[Scanner]]
           /\ \A n \in DOMAIN todo'[Scanner] : \E p \in gone :
                todo'[Scanner][n].t = "removed" /\ todo'[Scanner][n].ids = {p}
           /\ UNCHANGED <<nextID, agents, reading, tokens, stage, dest, client, observers, conn, snap, chan,
                          view, told, strange, overtaken>>
      BY <1>i, <1>3, ScanFacts
    <2>2. CASE w = Scanner
      <3>1. TodoTrue(w)'
        <4>1. \A n \in DOMAIN todo'[w] : \A p \in todo'[w][n].ids :
                todo'[w][n].t = "removed" /\ p < nextID' /\ p \notin live'
          BY <1>g, <2>1, <2>2
        <4> QED BY <4>1 DEF TodoTrue
      <3>2. ~(w >= nextID')
        BY <1>i, <2>2 DEF Scanner, ViewTyped
      <3> QED BY <1>t, <2>1, <2>2, <3>1, <3>2, NewWork
    <2>3. CASE w # Scanner
      <3>1. todo'[w] = todo[w]
        BY <1>w, <2>1, <2>3
      <3>2. \A p \in Nat : todo[w] # <<>> /\ todo[w][1].t = "added" /\ p \in todo[w][1].ids
              => p \in live' /\ p \notin reading'
        BY <1>m, <2>1, <2>3
      <3> QED BY <1>i, <1>g, <1>t, <2>1, <3>1, <3>2, OthersTrue
    <2> QED BY <2>2, <2>3
  <1>4. ASSUME NEW q \in PortIds, AgentLeft(q) PROVE TodoTrue(w)' /\ StageTrue(w)'
    <2>1. /\ q \in agents /\ q \in reading /\ todo[q] = <<>>
          /\ live' = live \ {q} /\ reading' = reading \ {q}
          /\ todo' = [todo EXCEPT ![q] = <<Message("removed", {q})>>]
          /\ UNCHANGED <<nextID, agents, tokens, stage, dest>>
      BY <1>4 DEF AgentLeft, Idle
    <2>2. CASE w = q
      <3>1. todo'[w] = <<Message("removed", {q})>>
        BY <1>w, <2>1, <2>2
      <3>2. TodoTrue(w)'
        <4>1. \A n \in DOMAIN todo'[w] : n = 1 /\ todo'[w][n] = Message("removed", {q})
          BY <3>1
        <4>2. Message("removed", {q}).t = "removed" /\ Message("removed", {q}).ids = {q}
          BY DEF Message
        <4>3. q < nextID' /\ q \notin live'
          BY <1>g, <2>1
        <4> QED BY <4>1, <4>2, <4>3 DEF TodoTrue
      <3>3. ~(w >= nextID')
        BY <1>g, <2>1, <2>2
      <3> QED BY <1>t, <2>1, <2>2, <3>2, <3>3, NewWork
    <2>3. CASE w # q
      <3>1. todo'[w] = todo[w]
        BY <1>w, <2>1, <2>3
      <3>2. \A p \in Nat : todo[w] # <<>> /\ todo[w][1].t = "added" /\ p \in todo[w][1].ids
              => p \in live' /\ p \notin reading'
        BY <1>m, <2>1, <2>3
      <3> QED BY <1>i, <1>g, <1>t, <2>1, <2>3, <3>1, <3>2, OthersTrue
    <2> QED BY <2>2, <2>3
  <1>5. ASSUME NEW q \in PortIds, Release(q) PROVE TodoTrue(w)' /\ StageTrue(w)'
    <2>1. /\ q \in reading /\ todo[q] = <<>>
          /\ todo' = [todo EXCEPT ![q] = <<Message("token", {q})>>]
          /\ UNCHANGED <<live, reading, nextID, agents, stage, dest>>
      BY <1>5 DEF Release, Idle, portVars
    <2>2. CASE w = q
      <3>1. todo'[w] = <<Message("token", {q})>>
        BY <1>w, <2>1, <2>2
      <3>2. TodoTrue(w)'
        <4>1. \A n \in DOMAIN todo'[w] : n = 1 /\ todo'[w][n] = Message("token", {q})
          BY <3>1
        <4>2. Message("token", {q}).t = "token" /\ Message("token", {q}).ids = {q}
          BY DEF Message
        <4>3. q < nextID' /\ q \in reading'
          BY <1>g, <2>1
        <4> QED BY <2>2, <4>1, <4>2, <4>3 DEF TodoTrue
      <3>3. ~(w >= nextID')
        BY <1>g, <2>1, <2>2
      <3> QED BY <1>t, <2>1, <2>2, <3>2, <3>3, NewWork
    <2>3. CASE w # q
      <3>1. todo'[w] = todo[w]
        BY <1>w, <2>1, <2>3
      <3>2. \A p \in Nat : todo[w] # <<>> /\ todo[w][1].t = "added" /\ p \in todo[w][1].ids
              => p \in live' /\ p \notin reading'
        BY <1>m, <2>1, <2>3
      <3> QED BY <1>i, <1>g, <1>t, <2>1, <2>3, <3>1, <3>2, OthersTrue
    <2> QED BY <2>2, <2>3
  <1>6. ASSUME NEW q \in PortIds, ReaderStops(q) PROVE TodoTrue(w)' /\ StageTrue(w)'
    <2>1. /\ todo[q] = <<>> /\ reading' = reading \ {q}
          /\ UNCHANGED <<live, nextID, agents, todo, stage, dest>>
      BY <1>6 DEF ReaderStops, Idle, sendVars
    <2>2. \A p \in Nat : todo[w] # <<>> /\ todo[w][1].t = "added" /\ p \in todo[w][1].ids
            => p \in live' /\ p \notin reading'
      BY <1>m, <2>1
    <2> QED BY <1>i, <1>g, <1>t, <2>1, <2>2, OthersTrue
  <1>7. ASSUME NEW q \in PortIds, Reply(q) PROVE TodoTrue(w)' /\ StageTrue(w)'
    <2>1. /\ todo[q] # <<>> /\ Head(todo[q]).t = "reply"
          /\ todo' = [todo EXCEPT ![q] = Tail(todo[q])] /\ reading' = reading \cup {q}
          /\ UNCHANGED <<live, nextID, agents, stage, dest>>
      BY <1>7 DEF Reply, Current, Idle
    <2>2. /\ q \in Workers /\ Head(todo[q]) = todo[q][1] /\ 1 \in DOMAIN todo[q] /\ Len(todo[q]) \in Nat
          /\ DOMAIN todo[q] = 1..Len(todo[q]) /\ DOMAIN Tail(todo[q]) = 1..(Len(todo[q]) - 1)
          /\ \A n \in 1..(Len(todo[q]) - 1) : Tail(todo[q])[n] = todo[q][n + 1]
          /\ todo[q][1] \in Note
      BY <1>i, <1>g, <2>1, WorkFacts
    <2>3. q \in agents /\ q \in Nat
      <3>1. PICK x \in PortIds : todo[q][1].ids = {x}
        BY <2>2 DEF Note
      <3>2. TodoTrue(q)
        BY <1>i, <2>2
      <3> QED BY <1>g, <2>1, <2>2, <3>1, <3>2 DEF TodoTrue
    <2>4. CASE w = q
      <3>1. todo'[w] = Tail(todo[q])
        BY <1>w, <2>1, <2>4
      <3>2. TodoTrue(w)'
        <4>1. SUFFICES ASSUME NEW n \in DOMAIN todo'[w], NEW p \in todo'[w][n].ids
                       PROVE  /\ p < nextID'
                              /\ todo'[w][n].t # "added"
                              /\ todo'[w][n].t = "removed" => p \notin live'
                              /\ todo'[w][n].t = "reply" => p = w /\ p \in agents'
                              /\ todo'[w][n].t = "token" => p = w /\ p \in reading'
          BY DEF TodoTrue
        <4>2. n \in Nat /\ n + 1 \in DOMAIN todo[w] /\ n + 1 # 1 /\ todo'[w][n] = todo[w][n + 1]
          BY <2>2, <2>4, <3>1
        <4> QED BY <1>t, <2>1, <4>2 DEF TodoTrue
      <3>3. StageTrue(w)'
        <4>1. stage[w] = "lookup" /\ dest[w] = {}
          BY <1>t, <2>1, <2>2, <2>4 DEF StageTrue
        <4>2. ~(w >= nextID')
          BY <1>g, <2>1, <2>3, <2>4
        <4> QED BY <2>1, <4>1, <4>2 DEF StageTrue
      <3> QED BY <3>2, <3>3
    <2>5. CASE w # q
      <3>1. todo'[w] = todo[w]
        BY <1>w, <2>1, <2>5
      <3>2. \A p \in Nat : todo[w] # <<>> /\ todo[w][1].t = "added" /\ p \in todo[w][1].ids
              => p \in live' /\ p \notin reading'
        BY <1>m, <2>1, <2>3, <2>5
      <3> QED BY <1>i, <1>g, <1>t, <2>1, <3>1, <3>2, OthersTrue
    <2> QED BY <2>4, <2>5
  <1>8. ASSUME NEW v \in Workers, LookupRouter(v) PROVE TodoTrue(w)' /\ StageTrue(w)'
    <2>1. /\ todo[v] # <<>> /\ Head(todo[v]).t # "reply"
          /\ stage' = [stage EXCEPT ![v] = "router"] /\ dest' = [dest EXCEPT ![v] = {client} \ {NoRouter}]
          /\ UNCHANGED <<live, reading, nextID, agents, todo>>
      BY <1>8 DEF LookupRouter, Current, Idle, portVars
    <2>2. CASE w = v
      <3>1. TodoTrue(w)'
        BY <1>t, <2>1 DEF TodoTrue
      <3>2. todo[w][1].t # "reply"
        BY <1>i, <2>1, <2>2, WorkFacts
      <3> QED BY <1>t, <1>w, <2>1, <2>2, <3>1, <3>2 DEF StageTrue
    <2>3. CASE w # v
      <3>1. todo'[w] = todo[w] /\ stage'[w] = stage[w] /\ dest'[w] = dest[w]
        BY <1>w, <2>1, <2>3
      <3> QED BY <1>t, <2>1, <3>1 DEF TodoTrue, StageTrue
    <2> QED BY <2>2, <2>3
  <1>9. ASSUME NEW v \in Workers, LookupObservers(v) PROVE TodoTrue(w)' /\ StageTrue(w)'
    <2>1. /\ stage[v] = "router"
          /\ stage' = [stage EXCEPT ![v] = "observers"] /\ dest' = [dest EXCEPT ![v] = observers]
          /\ UNCHANGED <<live, reading, nextID, agents, todo>>
      BY <1>9 DEF LookupObservers, portVars
    <2>2. CASE w = v
      <3>1. TodoTrue(w)'
        BY <1>t, <2>1 DEF TodoTrue
      <3> QED BY <1>t, <1>w, <2>1, <2>2, <3>1 DEF StageTrue
    <2>3. CASE w # v
      <3>1. todo'[w] = todo[w] /\ stage'[w] = stage[w] /\ dest'[w] = dest[w]
        BY <1>w, <2>1, <2>3
      <3> QED BY <1>t, <2>1, <3>1 DEF TodoTrue, StageTrue
    <2> QED BY <2>2, <2>3
  <1>10. ASSUME NEW v \in Workers, Sent(v) PROVE TodoTrue(w)' /\ StageTrue(w)'
    <2>1. /\ stage[v] = "observers" /\ dest[v] = {}
          /\ stage' = [stage EXCEPT ![v] = "lookup"] /\ todo' = [todo EXCEPT ![v] = Tail(todo[v])]
          /\ reading' = IF Head(todo[v]).t = "added" /\ v = Scanner THEN reading \cup Head(todo[v]).ids ELSE reading
          /\ UNCHANGED <<live, nextID, agents, dest>>
      BY <1>10 DEF Sent
    <2>2. /\ todo[v] # <<>> /\ Head(todo[v]) = todo[v][1] /\ 1 \in DOMAIN todo[v] /\ Len(todo[v]) \in Nat
          /\ DOMAIN todo[v] = 1..Len(todo[v]) /\ DOMAIN Tail(todo[v]) = 1..(Len(todo[v]) - 1)
          /\ \A n \in 1..(Len(todo[v]) - 1) : Tail(todo[v])[n] = todo[v][n + 1]
          /\ todo[v][1] \in Note
      BY <1>i, <2>1, WorkFacts DEF StageTrue
    <2>3. TodoTrue(v)
      BY <1>i
    <2>4. CASE w = v
      <3>1. todo'[w] = Tail(todo[v])
        BY <1>w, <2>1, <2>4
      <3>2. TodoTrue(w)'
        <4>1. SUFFICES ASSUME NEW n \in DOMAIN todo'[w], NEW p \in todo'[w][n].ids
                       PROVE  /\ p < nextID'
                              /\ todo'[w][n].t # "added"
                              /\ todo'[w][n].t = "removed" => p \notin live'
                              /\ todo'[w][n].t = "reply" => p = w /\ p \in agents'
                              /\ todo'[w][n].t = "token" => p = w /\ p \in reading'
          BY DEF TodoTrue
        <4>2. n \in Nat /\ n + 1 \in DOMAIN todo[w] /\ n + 1 # 1 /\ todo'[w][n] = todo[w][n + 1]
          BY <2>2, <2>4, <3>1
        <4> QED BY <1>t, <2>1, <4>2 DEF TodoTrue
      <3>3. StageTrue(w)'
        <4>1. stage'[w] = "lookup" /\ dest'[w] = {}
          BY <1>w, <2>1, <2>4
        <4>2. ~(w >= nextID')
          BY <1>t, <2>1, <2>2, <2>4 DEF StageTrue
        <4> QED BY <2>1, <4>1, <4>2 DEF StageTrue
      <3> QED BY <3>2, <3>3
    <2>5. CASE w # v
      <3>1. todo'[w] = todo[w] /\ stage'[w] = stage[w]
        BY <1>w, <2>1, <2>5
      <3>2. ASSUME NEW p \in Nat, todo[w] # <<>>, todo[w][1].t = "added", p \in todo[w][1].ids
            PROVE  p \in live' /\ p \notin reading'
        <4>1. p \in live /\ p \notin reading /\ w = IF p \in agents THEN p ELSE Scanner
          BY <1>m, <3>2
        <4>2. ASSUME Head(todo[v]).t = "added", v = Scanner, p \in Head(todo[v]).ids
              PROVE  FALSE
          <5>1. v = IF p \in agents THEN p ELSE Scanner
            BY <2>2, <2>3, <4>2 DEF TodoTrue
          <5> QED BY <2>5, <4>1, <5>1
        <4> QED BY <2>1, <4>1, <4>2
      <3>3. reading \subseteq reading'
        BY <2>1
      <3> QED BY <1>i, <1>g, <1>t, <2>1, <3>1, <3>2, <3>3, OthersTrue
    <2> QED BY <2>4, <2>5
  <1>11. ASSUME NEW v \in Workers, NEW c \in Consumers, Write(v, c) PROVE TodoTrue(w)' /\ StageTrue(w)'
    <2>1. /\ c \in dest[v] /\ dest' = [dest EXCEPT ![v] = dest[v] \ {c}]
          /\ UNCHANGED <<live, reading, nextID, agents, todo, stage>>
      BY <1>11 DEF Write, portVars
    <2>2. TodoTrue(w)'
      BY <1>t, <2>1 DEF TodoTrue
    <2>3. dest'[w] \subseteq dest[w]
      BY <1>w, <2>1
    <2> QED BY <1>t, <2>1, <2>2, <2>3 DEF StageTrue
  <1>12. ASSUME NEW c \in Consumers, Attach(c) \/ SendHello(c) \/ HangUp(c) \/ Receive(c)
         PROVE  TodoTrue(w)' /\ StageTrue(w)'
    <2>1. UNCHANGED <<live, reading, nextID, agents, todo, stage, dest>>
      BY <1>12 DEF Attach, SendHello, HangUp, Receive, portVars, sendVars
    <2> QED BY <1>t, <2>1 DEF TodoTrue, StageTrue
  <1> QED BY <1>1, <1>2, <1>3, <1>4, <1>5, <1>6, <1>7, <1>8, <1>9, <1>10, <1>11, <1>12 DEF Next

-----------------------------------------------------------------------------
(* ConsumerView: the consumers of the loft are the open connections.       *)

LEMMA HangUpFacts ==
  ASSUME ViewTyped, NEW c \in Consumers, HangUp(c)
  PROVE  /\ conn[c] \in {"greeted", "closed"} /\ conn'[c] = "gone"
         /\ observers' = observers \ {c} /\ client' = IF client = c THEN NoRouter ELSE client
         /\ \A d \in Consumers \ {c} :
              /\ conn'[d] = conn[d] /\ snap'[d] = snap[d] /\ chan'[d] = chan[d] /\ view'[d] = view[d]
              /\ told'[d] = told[d] /\ strange'[d] = strange[d] /\ overtaken'[d] = overtaken[d]
         /\ UNCHANGED <<live, nextID, agents, reading, tokens, todo, stage, dest>>
  BY DEF HangUp, Forgotten, Without, portVars, sendVars, ViewTyped

LEMMA SendHelloFacts ==
  ASSUME ViewTyped, NEW c \in Consumers, SendHello(c)
  PROVE  /\ conn[c] = "attached" /\ conn' = [conn EXCEPT ![c] = "greeted"] /\ conn'[c] = "greeted"
         /\ snap'[c] = {} /\ chan'[c] = Append(chan[c], Message("hello", snap[c]))
         /\ \A d \in Consumers \ {c} : conn'[d] = conn[d] /\ snap'[d] = snap[d] /\ chan'[d] = chan[d]
         /\ UNCHANGED <<live, nextID, agents, reading, tokens, todo, stage, dest, client, observers, view, told,
                        strange, overtaken>>
  BY DEF SendHello, Without, portVars, sendVars, viewVars, ViewTyped

LEMMA WriteFacts ==
  ASSUME ViewTyped, WorkTrue, NEW w \in Workers, NEW c \in Consumers, Write(w, c)
  PROVE  /\ c \in dest[w] /\ dest' = [dest EXCEPT ![w] = dest[w] \ {c}]
         /\ stage[w] # "lookup" /\ todo[w] # <<>> /\ Head(todo[w]) = todo[w][1] /\ 1 \in DOMAIN todo[w]
         /\ todo[w][1] \in Note /\ todo[w][1] \in Post /\ todo[w][1].t # "reply"
         /\ Open(c) => chan'[c] = Append(chan[c], todo[w][1])
         /\ \A d \in Consumers : d # c \/ ~Open(c) => chan'[d] = chan[d]
         /\ overtaken'[c] = IF conn[c] = "attached" /\ todo[w][1].t # "token"
                            THEN overtaken[c] \cup todo[w][1].ids ELSE overtaken[c]
         /\ \A d \in Consumers \ {c} : overtaken'[d] = overtaken[d]
         /\ UNCHANGED <<live, nextID, agents, reading, tokens, todo, stage, client, observers, conn, snap, view,
                        told, strange>>
  <1>1. c \in dest[w] /\ dest' = [dest EXCEPT ![w] = dest[w] \ {c}]
    BY DEF Write
  <1>2. stage[w] # "lookup" /\ todo[w] # <<>> /\ todo[w][1].t # "reply"
    BY <1>1 DEF WorkTrue, StageTrue
  <1>3. /\ Head(todo[w]) = todo[w][1] /\ 1 \in DOMAIN todo[w]
        /\ todo[w][1] \in Note /\ todo[w][1] \in Post
    BY <1>2, WorkFacts, NoteFacts
  <1>4. DOMAIN chan = Consumers /\ DOMAIN overtaken = Consumers
    BY DEF ViewTyped
  <1>5. /\ chan' = IF Open(c) THEN [chan EXCEPT ![c] = Append(chan[c], todo[w][1])] ELSE chan
        /\ overtaken' = IF conn[c] = "attached" /\ todo[w][1].t # "token"
                        THEN [overtaken EXCEPT ![c] = overtaken[c] \cup todo[w][1].ids] ELSE overtaken
    BY <1>3 DEF Write
  <1>6. UNCHANGED <<live, nextID, agents, reading, tokens, todo, stage, client, observers, conn, snap, view,
                    told, strange>>
    BY DEF Write, portVars, consumerVars, viewVars
  <1> QED BY <1>1, <1>2, <1>3, <1>4, <1>5, <1>6

LEMMA ConnsKept ==
  ASSUME ViewInv, Next
  PROVE  ConnsHeld'
  <1>i. ViewTyped /\ WorkTrue /\ ConnsHeld
    BY DEF ViewInv
  <1>d. Routers \cap Observers = {} /\ NoRouter \notin Routers /\ Consumers = Routers \cup Observers
    BY ViewAssumption DEF Consumers
  <1>u. ASSUME UNCHANGED <<client, observers, conn, chan, view, told, strange>>
        PROVE  ConnsHeld'
    BY <1>u, <1>i DEF ConnsHeld, Open
  <1>1. CASE AddVeth \/ AddAgent \/ ScanGone
    BY <1>1, <1>u DEF AddVeth, AddAgent, ScanGone, consumerVars, viewVars
  <1>2. ASSUME NEW p \in PortIds, AgentLeft(p) \/ Release(p) \/ ReaderStops(p) \/ Reply(p)
        PROVE  ConnsHeld'
    BY <1>2, <1>u DEF AgentLeft, Release, ReaderStops, Reply, consumerVars, viewVars
  <1>3. ASSUME NEW w \in Workers, LookupRouter(w) \/ LookupObservers(w) \/ Sent(w)
        PROVE  ConnsHeld'
    BY <1>3, <1>u DEF LookupRouter, LookupObservers, Sent, consumerVars, viewVars
  <1>4. ASSUME NEW w \in Workers, NEW c \in Consumers, Write(w, c)
        PROVE  ConnsHeld'
    <2>1. /\ \A d \in Consumers : d # c \/ ~Open(c) => chan'[d] = chan[d]
          /\ UNCHANGED <<client, observers, conn, view, told, strange>>
      BY <1>i, <1>4, WriteFacts
    <2>2. \A d \in Consumers : conn[d] = "new" => chan'[d] = chan[d]
      BY <2>1 DEF Open
    <2> QED BY <1>i, <2>1, <2>2 DEF ConnsHeld, Open
  <1>5. ASSUME NEW c \in Consumers, Attach(c)
        PROVE  ConnsHeld'
    <2>1. /\ conn[c] = "new" /\ conn'[c] = "attached"
          /\ \A d \in Consumers \ {c} :
              \/ /\ conn'[d] = conn[d] /\ chan'[d] = chan[d] /\ view'[d] = view[d]
                 /\ told'[d] = told[d] /\ strange'[d] = strange[d]
                 /\ c \notin Observers => d # client
              \/ conn'[d] = "closed" /\ d = client /\ c \notin Observers
          /\ c \in Observers => observers' = observers \cup {c} /\ client' = client
          /\ c \notin Observers => client' = c /\ observers' = observers
      BY <1>i, <1>5, AttachFacts
    <2>2. ASSUME NEW d \in Routers
          PROVE  conn'[d] \in {"attached", "greeted"} <=> client' = d
      <3>1. conn[d] \in {"attached", "greeted"} <=> client = d
        BY <1>i DEF ConnsHeld, Open
      <3>2. CASE d = c
        BY <1>d, <2>1, <3>2
      <3>3. CASE d # c
        BY <1>d, <2>1, <3>1, <3>3
      <3> QED BY <3>2, <3>3
    <2>3. ASSUME NEW d \in Observers
          PROVE  conn'[d] \in {"attached", "greeted"} <=> d \in observers'
      <3>1. /\ conn[d] \in {"attached", "greeted"} <=> d \in observers
        BY <1>i DEF ConnsHeld, Open
      <3>2. d # client
        BY <1>i, <1>d, ViewAssumption DEF ViewTyped
      <3>3. CASE d = c
        BY <1>d, <2>1, <3>3
      <3>4. CASE d # c
        BY <1>d, <2>1, <3>1, <3>2, <3>4
      <3> QED BY <3>3, <3>4
    <2>4. ASSUME NEW d \in Consumers, conn'[d] = "new"
          PROVE  chan'[d] = <<>> /\ view'[d] = {} /\ told'[d] = {} /\ strange'[d] = {}
      BY <1>i, <2>1, <2>4 DEF ConnsHeld
    <2> QED BY <2>2, <2>3, <2>4 DEF ConnsHeld, Open
  <1>6. ASSUME NEW c \in Consumers, SendHello(c)
        PROVE  ConnsHeld'
    <2>1. /\ conn[c] = "attached" /\ conn'[c] = "greeted"
          /\ \A d \in Consumers \ {c} : conn'[d] = conn[d] /\ chan'[d] = chan[d]
          /\ UNCHANGED <<client, observers, view, told, strange>>
      BY <1>i, <1>6, SendHelloFacts
    <2>2. \A d \in Consumers : conn'[d] \in {"attached", "greeted"} <=> conn[d] \in {"attached", "greeted"}
      BY <2>1
    <2>3. ASSUME NEW d \in Consumers, conn'[d] = "new"
          PROVE  chan'[d] = <<>> /\ view'[d] = {} /\ told'[d] = {} /\ strange'[d] = {}
      BY <1>i, <2>1, <2>3 DEF ConnsHeld
    <2> QED BY <1>i, <1>d, <2>1, <2>2, <2>3 DEF ConnsHeld, Open
  <1>7. ASSUME NEW c \in Consumers, HangUp(c)
        PROVE  ConnsHeld'
    <2>1. /\ conn[c] \in {"greeted", "closed"} /\ conn'[c] = "gone"
          /\ observers' = observers \ {c} /\ client' = IF client = c THEN NoRouter ELSE client
          /\ \A d \in Consumers \ {c} :
               /\ conn'[d] = conn[d] /\ chan'[d] = chan[d] /\ view'[d] = view[d]
               /\ told'[d] = told[d] /\ strange'[d] = strange[d]
      BY <1>i, <1>7, HangUpFacts
    <2>2. ASSUME NEW d \in Routers
          PROVE  conn'[d] \in {"attached", "greeted"} <=> client' = d
      <3>1. conn[d] \in {"attached", "greeted"} <=> client = d
        BY <1>i DEF ConnsHeld, Open
      <3>2. CASE d = c
        BY <1>d, <2>1, <3>1, <3>2
      <3>3. CASE d # c
        BY <1>d, <2>1, <3>1, <3>3
      <3> QED BY <3>2, <3>3
    <2>3. ASSUME NEW d \in Observers
          PROVE  conn'[d] \in {"attached", "greeted"} <=> d \in observers'
      <3>1. conn[d] \in {"attached", "greeted"} <=> d \in observers
        BY <1>i DEF ConnsHeld, Open
      <3> QED BY <1>d, <2>1, <3>1
    <2>4. ASSUME NEW d \in Consumers, conn'[d] = "new"
          PROVE  chan'[d] = <<>> /\ view'[d] = {} /\ told'[d] = {} /\ strange'[d] = {}
      BY <1>i, <2>1, <2>4 DEF ConnsHeld
    <2> QED BY <2>2, <2>3, <2>4 DEF ConnsHeld, Open
  <1>8. ASSUME NEW c \in Consumers, Receive(c)
        PROVE  ConnsHeld'
    <2>1. /\ Open(c) /\ chan' = [chan EXCEPT ![c] = Tail(chan[c])]
          /\ view' = [view EXCEPT ![c] = view'[c]] /\ told' = [told EXCEPT ![c] = told'[c]]
          /\ strange' = [strange EXCEPT ![c] = strange'[c]]
          /\ UNCHANGED <<client, observers, conn>>
      BY <1>i, <1>8, ReceiveFacts
    <2>2. \A d \in Consumers : d # c =>
            chan'[d] = chan[d] /\ view'[d] = view[d] /\ told'[d] = told[d] /\ strange'[d] = strange[d]
      BY <1>i, <2>1 DEF ViewTyped
    <2>3. conn[c] # "new"
      BY <2>1 DEF Open
    <2> QED BY <1>i, <2>1, <2>2, <2>3 DEF ConnsHeld, Open
  <1> QED BY <1>1, <1>2, <1>3, <1>4, <1>5, <1>6, <1>7, <1>8 DEF Next

-----------------------------------------------------------------------------
(* ConsumerView: a consumer stays abreast of what others do.               *)

(* Nothing about the consumer changes; of a port that comes or goes it     *)
(* will be told, and no word it waits for is dropped.                      *)
LEMMA AbreastKept ==
  ASSUME ViewTyped, NEW c \in Consumers, Abreast(c),
         conn'[c] = conn[c], snap'[c] = snap[c], chan'[c] = chan[c], view'[c] = view[c],
         told'[c] = told[c], strange'[c] = strange[c], overtaken'[c] = overtaken[c],
         Given \subseteq Given', \A p \in live' : p \in live \/ p = nextID,
         \A p \in PortIds : p \in live' /\ Awaits(c, "added", p) => Awaits(c, "added", p)',
         \A p \in PortIds : p \notin live' /\ Awaits(c, "removed", p) => Awaits(c, "removed", p)',
         \A p \in live' : p \notin live => Awaits(c, "added", p)',
         \A p \in live : p \notin live' => Awaits(c, "removed", p)'
  PROVE  Abreast(c)'
  <1>i. GreetedOnce(c) /\ ChanTrue(c) /\ NonePassedOver(c) /\ NoneLeftOver(c) /\ TokensFollow(c)
    BY DEF Abreast
  <1>g. nextID \notin Given /\ strange[c] \subseteq Given /\ live \subseteq PortIds
    BY GivenFacts DEF ViewTyped, Given
  <1>1. GreetedOnce(c)'
    BY <1>i DEF GreetedOnce, HelloIn, Unsynced, BeforeHello
  <1>2. ChanTrue(c)'
    <2>1. ASSUME NEW n \in DOMAIN chan[c], NEW p \in live'
          PROVE  ~Hides(chan[c][n], p)
      <3>1. CASE p \in live
        BY <1>i, <3>1 DEF ChanTrue
      <3>2. CASE p \notin live
        <4>1. p \notin Given
          BY <1>g, <3>2
        <4>2. chan[c][n].t = "removed" => chan[c][n].ids \subseteq Given
          BY <1>i DEF ChanTrue
        <4> QED BY <4>1, <4>2 DEF Hides
      <3> QED BY <3>1, <3>2
    <2> QED BY <1>i, <2>1 DEF ChanTrue, Hides
  <1>3. NonePassedOver(c)'
    <2> SUFFICES ASSUME NEW p \in live', p \notin overtaken[c]
                 PROVE  \/ p \in view[c] /\ p \in told[c]
                        \/ \E n \in DOMAIN chan[c] : Shows(chan[c][n], p)
                        \/ conn[c] = "attached" /\ p \in snap[c]
                        \/ Awaits(c, "added", p)'
      BY DEF NonePassedOver, Shows
    <2>1. CASE p \in live
      BY <1>i, <1>g, <2>1 DEF NonePassedOver
    <2>2. CASE p \notin live
      BY <2>2
    <2> QED BY <2>1, <2>2
  <1>4. NoneLeftOver(c)'
    <2> SUFFICES ASSUME NEW p \in PortIds, p \notin live', p \notin overtaken[c]
                 PROVE  \/ Awaits(c, "removed", p)'
                        \/ ~(conn[c] = "attached" /\ p \in snap[c]) /\ Departs(c, p)
      BY DEF NoneLeftOver, Departs, Shows, Hides
    <2>1. CASE p \in live
      BY <2>1
    <2>2. CASE p \notin live
      BY <1>i, <2>2 DEF NoneLeftOver
    <2> QED BY <2>1, <2>2
  <1>5. TokensFollow(c)'
    <2>1. ASSUME NEW n \in DOMAIN chan[c], chan[c][n].t = "token", NEW p \in chan[c][n].ids \cap live',
                 p \notin overtaken[c]
          PROVE  BeforeHello(c, n) \/ p \in told[c] \/ \E m \in 1..n : Shows(chan[c][m], p)
      <3>1. p \in live
        BY <1>i, <1>g, <2>1 DEF ChanTrue
      <3> QED BY <1>i, <2>1, <3>1 DEF TokensFollow
    <2>2. ~Unsynced(c) => strange[c] \cap live' \subseteq overtaken[c]
      BY <1>i, <1>g DEF TokensFollow
    <2> QED BY <2>1, <2>2 DEF TokensFollow, Unsynced, HelloIn, BeforeHello, Shows
  <1> QED BY <1>1, <1>2, <1>3, <1>4, <1>5 DEF Abreast

(* A goroutine that has work keeps it, so what was to be told still is.    *)
LEMMA WorkStays ==
  ASSUME NEW c, NEW t, NEW p, Awaits(c, t, p),
         \A w \in Workers : todo[w] = <<>> \/
           (todo'[w] = todo[w] /\ stage'[w] = stage[w] /\ dest'[w] = dest[w])
  PROVE  Awaits(c, t, p)'
  <1>1. PICK w \in Workers : \E n \in DOMAIN todo[w] :
          todo[w][n].t = t /\ p \in todo[w][n].ids /\ Pending(w, n, c)
    BY DEF Awaits
  <1>2. PICK n \in DOMAIN todo[w] : todo[w][n].t = t /\ p \in todo[w][n].ids /\ Pending(w, n, c)
    BY <1>1
  <1>3. todo[w] # <<>>
    BY <1>2
  <1>4. todo'[w] = todo[w] /\ stage'[w] = stage[w] /\ dest'[w] = dest[w]
    BY <1>3
  <1> QED BY <1>2, <1>4 DEF Awaits, Pending

(* Who has just found that a port came or went will tell of it.            *)
LEMMA WillTell ==
  ASSUME NEW c, NEW t, NEW p, NEW w \in Workers, NEW n, n \in DOMAIN todo'[w],
         todo'[w][n].t = t, p \in todo'[w][n].ids, stage'[w] = "lookup"
  PROVE  Awaits(c, t, p)'
  BY DEF Awaits, Pending

(* The port set changes: whoever changed it will tell of it.               *)
LEMMA PortsMove ==
  ASSUME ViewInv, NEW c \in Consumers, Abreast(c),
         AddVeth \/ AddAgent \/ ScanGone
         \/ \E p \in PortIds : AgentLeft(p) \/ Release(p) \/ ReaderStops(p)
  PROVE  Abreast(c)'
  <1>i. ViewTyped /\ \A w \in Workers : TodoTrue(w) /\ StageTrue(w)
    BY DEF ViewInv, WorkTrue
  <1>g. /\ Given \subseteq PortIds /\ nextID \in Nat /\ nextID \notin Given /\ live \subseteq PortIds
        /\ Scanner \in Workers /\ PortIds \subseteq Workers
        /\ nextID' \in Nat /\ nextID' >= nextID => Given \subseteq Given'
    BY <1>i, GivenFacts DEF Workers, Given, ViewTyped
  <1>w. DOMAIN todo = Workers /\ DOMAIN stage = Workers /\ DOMAIN dest = Workers
    BY <1>i DEF ViewTyped
  <1>l. \A w \in Workers : todo[w] = <<>> => stage[w] = "lookup"
    BY <1>i DEF StageTrue
  <1>1. CASE AddVeth
    <2>1. /\ nextID \in PortIds /\ live' = live \cup {nextID} /\ nextID' = nextID + 1
          /\ todo[Scanner] = <<>>
          /\ todo' = [todo EXCEPT ![Scanner] = <<Message("added", {nextID})>>]
          /\ UNCHANGED <<agents, reading, tokens, stage, dest, client, observers, conn, snap, chan, view, told,
                         strange, overtaken>>
      BY <1>i, <1>1, AddVethFacts
    <2>2. \A w \in Workers : todo[w] = <<>> \/
           (todo'[w] = todo[w] /\ stage'[w] = stage[w] /\ dest'[w] = dest[w])
      BY <1>w, <2>1
    <2>3. \A t : \A p : Awaits(c, t, p) => Awaits(c, t, p)'
      BY <2>2, WorkStays
    <2>4. ASSUME NEW p, p = nextID
          PROVE  Awaits(c, "added", p)'
      <3>1. todo'[Scanner] = <<Message("added", {p})>>
        BY <1>g, <1>w, <2>1, <2>4
      <3>2. 1 \in DOMAIN todo'[Scanner] /\ todo'[Scanner][1].t = "added" /\ p \in todo'[Scanner][1].ids
        BY <3>1 DEF Message
      <3>3. stage'[Scanner] = "lookup"
        BY <1>g, <1>l, <2>1
      <3> QED BY <1>g, <3>2, <3>3, WillTell
    <2>5. \A p \in live' : p \notin live => Awaits(c, "added", p)'
      BY <2>1, <2>4
    <2>6. Given \subseteq Given' /\ live \subseteq live' /\ \A p \in live' : p \in live \/ p = nextID
      BY <1>g, <2>1
    <2> QED BY <1>i, <2>1, <2>3, <2>5, <2>6, AbreastKept
  <1>2. CASE AddAgent
    <2>1. /\ nextID \in PortIds /\ live' = live \cup {nextID} /\ nextID' = nextID + 1
          /\ agents' = agents \cup {nextID}
          /\ todo' = [todo EXCEPT ![nextID] = <<Message("added", {nextID}), Message("reply", {nextID})>>]
          /\ UNCHANGED <<reading, tokens, stage, dest, client, observers, conn, snap, chan, view, told,
                         strange, overtaken>>
      BY <1>i, <1>2, AddAgentFacts
    <2>0. todo[nextID] = <<>>
      BY <1>i, <1>g, <2>1 DEF StageTrue
    <2>2. \A w \in Workers : todo[w] = <<>> \/
           (todo'[w] = todo[w] /\ stage'[w] = stage[w] /\ dest'[w] = dest[w])
      BY <1>w, <2>0, <2>1
    <2>3. \A t : \A p : Awaits(c, t, p) => Awaits(c, t, p)'
      BY <2>2, WorkStays
    <2>4. ASSUME NEW p, p = nextID
          PROVE  Awaits(c, "added", p)'
      <3>1. todo'[p] = <<Message("added", {p}), Message("reply", {p})>>
        BY <1>g, <1>w, <2>1, <2>4
      <3>2. 1 \in DOMAIN todo'[p] /\ todo'[p][1].t = "added" /\ p \in todo'[p][1].ids
        BY <3>1 DEF Message
      <3>3. stage'[p] = "lookup" /\ p \in Workers
        BY <1>g, <1>l, <2>0, <2>1, <2>4
      <3> QED BY <3>2, <3>3, WillTell
    <2>5. \A p \in live' : p \notin live => Awaits(c, "added", p)'
      BY <2>1, <2>4
    <2>6. Given \subseteq Given' /\ live \subseteq live' /\ \A p \in live' : p \in live \/ p = nextID
      BY <1>g, <2>1
    <2> QED BY <1>i, <2>1, <2>3, <2>5, <2>6, AbreastKept
  <1>3. CASE ScanGone
    <2>1. PICK gone \in SUBSET (live \ agents) :
           /\ live' = live \ gone /\ todo[Scanner] = <<>>
           /\ todo' = [todo EXCEPT ![Scanner] = todo'[Scanner]]
           /\ \A p \in gone : \E n \in DOMAIN todo'[Scanner] :
                todo'[Scanner][n].t = "removed" /\ p \in todo'[Scanner][n].ids
           /\ UNCHANGED <<nextID, agents, reading, tokens, stage, dest, client, observers, conn, snap, chan,
                          view, told, strange, overtaken>>
      BY <1>i, <1>3, ScanFacts
    <2>2. \A w \in Workers : todo[w] = <<>> \/
           (todo'[w] = todo[w] /\ stage'[w] = stage[w] /\ dest'[w] = dest[w])
      BY <1>w, <2>1
    <2>3. \A t : \A p : Awaits(c, t, p) => Awaits(c, t, p)'
      BY <2>2, WorkStays
    <2>4. ASSUME NEW p \in gone
          PROVE  Awaits(c, "removed", p)'
      <3>1. PICK n \in DOMAIN todo'[Scanner] : todo'[Scanner][n].t = "removed" /\ p \in todo'[Scanner][n].ids
        BY <2>1
      <3>2. stage'[Scanner] = "lookup"
        BY <1>g, <1>l, <2>1
      <3> QED BY <1>g, <3>1, <3>2, WillTell
    <2>5. \A p \in live : p \notin live' => Awaits(c, "removed", p)'
      BY <2>1, <2>4
    <2>6. Given \subseteq Given' /\ live' \subseteq live
      BY <2>1 DEF Given
    <2> QED BY <1>i, <2>1, <2>3, <2>5, <2>6, AbreastKept
  <1>4. ASSUME NEW q \in PortIds, AgentLeft(q) PROVE Abreast(c)'
    <2>1. /\ todo[q] = <<>> /\ live' = live \ {q}
          /\ todo' = [todo EXCEPT ![q] = <<Message("removed", {q})>>]
          /\ UNCHANGED <<nextID, stage, dest, conn, snap, chan, view, told, strange, overtaken>>
      BY <1>4 DEF AgentLeft, Idle, consumerVars, viewVars
    <2>2. \A w \in Workers : todo[w] = <<>> \/
           (todo'[w] = todo[w] /\ stage'[w] = stage[w] /\ dest'[w] = dest[w])
      BY <1>w, <2>1
    <2>3. \A t : \A p : Awaits(c, t, p) => Awaits(c, t, p)'
      BY <2>2, WorkStays
    <2>4. Awaits(c, "removed", q)'
      <3>1. todo'[q] = <<Message("removed", {q})>>
        BY <1>g, <1>w, <2>1
      <3>2. 1 \in DOMAIN todo'[q] /\ todo'[q][1].t = "removed" /\ q \in todo'[q][1].ids
        BY <3>1 DEF Message
      <3>3. stage'[q] = "lookup"
        BY <1>g, <1>l, <2>1
      <3> QED BY <1>g, <3>2, <3>3, WillTell
    <2>5. \A p \in live : p \notin live' => Awaits(c, "removed", p)'
      BY <2>1, <2>4
    <2>6. Given \subseteq Given' /\ live' \subseteq live
      BY <2>1 DEF Given
    <2> QED BY <1>i, <2>1, <2>3, <2>5, <2>6, AbreastKept
  <1>5. ASSUME NEW q \in PortIds, Release(q) \/ ReaderStops(q) PROVE Abreast(c)'
    <2>1. /\ todo[q] = <<>>
          /\ \A w \in Workers : w # q => todo'[w] = todo[w]
          /\ UNCHANGED <<live, nextID, stage, dest, conn, snap, chan, view, told, strange, overtaken>>
      BY <1>5, <1>w DEF Release, ReaderStops, Idle, portVars, sendVars, consumerVars, viewVars
    <2>2. \A w \in Workers : todo[w] = <<>> \/
           (todo'[w] = todo[w] /\ stage'[w] = stage[w] /\ dest'[w] = dest[w])
      BY <1>w, <2>1
    <2>3. \A t : \A p : Awaits(c, t, p) => Awaits(c, t, p)'
      BY <2>2, WorkStays
    <2>4. Given \subseteq Given'
      BY <2>1 DEF Given
    <2> QED BY <1>i, <2>1, <2>3, <2>4, AbreastKept
  <1> QED BY <1>1, <1>2, <1>3, <1>4, <1>5

(* A goroutine goes on with what it has to tell, and skips nobody who is   *)
(* still to be told.                                                       *)
LEMMA WorkMoves ==
  ASSUME ViewInv, NEW c \in Consumers, Open(c), Abreast(c), NEW v \in Workers,
         LookupRouter(v) \/ LookupObservers(v) \/ Sent(v) \/ (v \in PortIds /\ Reply(v))
  PROVE  Abreast(c)'
  <1>i. ViewTyped /\ ConnsHeld /\ \A w \in Workers : TodoTrue(w) /\ StageTrue(w)
    BY DEF ViewInv, WorkTrue
  <1>w. DOMAIN todo = Workers /\ DOMAIN stage = Workers /\ DOMAIN dest = Workers
    BY <1>i DEF ViewTyped
  <1>1. UNCHANGED <<live, nextID, conn, snap, chan, view, told, strange, overtaken>>
    BY DEF LookupRouter, LookupObservers, Sent, Reply, portVars, consumerVars, viewVars
  <1>2. \A w \in Workers \ {v} : todo'[w] = todo[w] /\ stage'[w] = stage[w] /\ dest'[w] = dest[w]
    BY <1>w DEF LookupRouter, LookupObservers, Sent, Reply
  <1>3. ASSUME NEW t \in {"added", "removed"}, NEW p, NEW n \in DOMAIN todo[v],
               todo[v][n].t = t, p \in todo[v][n].ids, Pending(v, n, c)
        PROVE  Awaits(c, t, p)'
    <2>1. CASE LookupRouter(v)
      <3>1. /\ todo'[v] = todo[v] /\ stage'[v] = "router" /\ dest'[v] = {client} \ {NoRouter}
        BY <1>w, <2>1 DEF LookupRouter
      <3>2. c \in Observers \/ c \in dest'[v]
        BY <1>i, <3>1, ViewAssumption DEF ConnsHeld, Consumers
      <3> QED BY <1>3, <3>1, <3>2 DEF Awaits, Pending
    <2>2. CASE LookupObservers(v)
      <3>1. /\ stage[v] = "router" /\ dest[v] = {}
            /\ todo'[v] = todo[v] /\ stage'[v] = "observers" /\ dest'[v] = observers
        BY <1>w, <2>2 DEF LookupObservers
      <3>2. n > 1 \/ c \in dest'[v]
        BY <1>i, <1>3, <3>1 DEF ConnsHeld, Pending
      <3> QED BY <1>3, <3>1, <3>2 DEF Awaits, Pending
    <2>3. CASE Sent(v) \/ (v \in PortIds /\ Reply(v))
      <3>1. todo'[v] = Tail(todo[v])
        BY <1>w, <2>3 DEF Sent, Reply
      <3>2. /\ todo[v] # <<>> /\ Head(todo[v]) = todo[v][1] /\ Len(todo[v]) \in Nat
            /\ DOMAIN todo[v] = 1..Len(todo[v]) /\ DOMAIN Tail(todo[v]) = 1..(Len(todo[v]) - 1)
            /\ \A k \in 1..(Len(todo[v]) - 1) : Tail(todo[v])[k] = todo[v][k + 1]
        BY <1>i, <1>3, WorkFacts
      <3>3. stage'[v] = "lookup"
        <4>1. CASE Sent(v)
          BY <1>w, <4>1 DEF Sent
        <4>2. CASE v \in PortIds /\ Reply(v)
          BY <1>i, <3>2, <4>2 DEF Reply, Current, StageTrue
        <4> QED BY <2>3, <4>1, <4>2
      <3>4. n # 1
        <4>1. CASE Sent(v)
          BY <1>3, <4>1 DEF Sent, Pending
        <4>2. CASE v \in PortIds /\ Reply(v)
          BY <1>3, <3>2, <4>2 DEF Reply, Current
        <4> QED BY <2>3, <4>1, <4>2
      <3>5. n - 1 \in DOMAIN todo'[v] /\ todo'[v][n - 1] = todo[v][n]
        <4>1. n - 1 \in 1..(Len(todo[v]) - 1) /\ (n - 1) + 1 = n
          BY <3>2, <3>4
        <4> QED BY <3>1, <3>2, <4>1
      <3> QED BY <1>3, <3>3, <3>5, WillTell
    <2> QED BY <2>1, <2>2, <2>3
  <1>4. ASSUME NEW t \in {"added", "removed"}, NEW p, Awaits(c, t, p)
        PROVE  Awaits(c, t, p)'
    <2>1. PICK w \in Workers : \E n \in DOMAIN todo[w] :
            todo[w][n].t = t /\ p \in todo[w][n].ids /\ Pending(w, n, c)
      BY <1>4 DEF Awaits
    <2>2. PICK n \in DOMAIN todo[w] : todo[w][n].t = t /\ p \in todo[w][n].ids /\ Pending(w, n, c)
      BY <2>1
    <2>3. CASE w = v
      BY <1>3, <2>2, <2>3
    <2>4. CASE w # v
      <3>1. todo'[w] = todo[w] /\ stage'[w] = stage[w] /\ dest'[w] = dest[w]
        BY <1>2, <2>4
      <3> QED BY <2>2, <3>1 DEF Awaits, Pending
    <2> QED BY <2>3, <2>4
  <1>5. Given \subseteq Given'
    BY <1>1 DEF Given
  <1> QED BY <1>i, <1>1, <1>4, <1>5, AbreastKept

(* Whatever happens to other consumers leaves this one as it was.          *)
LEMMA OthersMove ==
  ASSUME ViewInv, NEW c \in Consumers, Abreast(c), NEW d \in Consumers, c # d,
         \/ Attach(d) \/ SendHello(d) \/ HangUp(d) \/ Receive(d)
         \/ \E w \in Workers : Write(w, d)
  PROVE  ~Open(c)' \/ Abreast(c)'
  <1>i. ViewTyped /\ ConnsHeld /\ WorkTrue
    BY DEF ViewInv
  <1>k. ASSUME conn'[c] = conn[c], snap'[c] = snap[c], chan'[c] = chan[c], view'[c] = view[c],
               told'[c] = told[c], strange'[c] = strange[c], overtaken'[c] = overtaken[c],
               UNCHANGED <<live, nextID, todo, stage>>,
               \A w \in Workers : c \in dest[w] => c \in dest'[w]
        PROVE  Abreast(c)'
    <2>1. \A t : \A p : Awaits(c, t, p) => Awaits(c, t, p)'
      BY <1>k DEF Awaits, Pending
    <2>2. Given \subseteq Given'
      BY <1>k DEF Given
    <2> QED BY <1>i, <1>k, <2>1, <2>2, AbreastKept
  <1>1. CASE Attach(d)
    <2>1. /\ \/ /\ conn'[c] = conn[c] /\ snap'[c] = snap[c] /\ chan'[c] = chan[c] /\ view'[c] = view[c]
                /\ told'[c] = told[c] /\ strange'[c] = strange[c] /\ overtaken'[c] = overtaken[c]
             \/ conn'[c] = "closed"
          /\ UNCHANGED <<live, nextID, todo, stage, dest>>
      BY <1>i, <1>1, AttachFacts
    <2>2. CASE conn'[c] = "closed"
      BY <2>2 DEF Open
    <2>3. CASE conn'[c] # "closed"
      BY <1>k, <2>1, <2>3
    <2> QED BY <2>2, <2>3
  <1>2. CASE SendHello(d)
    BY <1>i, <1>k, <1>2, SendHelloFacts
  <1>3. CASE HangUp(d)
    BY <1>i, <1>k, <1>3, HangUpFacts
  <1>4. CASE Receive(d)
    <2>1. /\ chan' = [chan EXCEPT ![d] = Tail(chan[d])]
          /\ view' = [view EXCEPT ![d] = view'[d]] /\ told' = [told EXCEPT ![d] = told'[d]]
          /\ strange' = [strange EXCEPT ![d] = strange'[d]]
          /\ UNCHANGED <<live, nextID, todo, stage, dest, conn, snap, overtaken>>
      BY <1>i, <1>4, ReceiveFacts
    <2>2. chan'[c] = chan[c] /\ view'[c] = view[c] /\ told'[c] = told[c] /\ strange'[c] = strange[c]
      BY <1>i, <2>1 DEF ViewTyped
    <2> QED BY <1>k, <2>1, <2>2
  <1>5. ASSUME NEW w \in Workers, Write(w, d) PROVE Abreast(c)'
    <2>0. /\ dest' = [dest EXCEPT ![w] = dest[w] \ {d}]
          /\ \A e \in Consumers : e # d \/ ~Open(d) => chan'[e] = chan[e]
          /\ \A e \in Consumers \ {d} : overtaken'[e] = overtaken[e]
          /\ UNCHANGED <<live, nextID, todo, stage, conn, snap, view, told, strange>>
      <3>1. ViewTyped /\ WorkTrue /\ Write(w, d)
        BY <1>i, <1>5
      <3>2. dest' = [dest EXCEPT ![w] = dest[w] \ {d}]
        BY <3>1 DEF Write
      <3>3. \A e \in Consumers : e # d \/ ~Open(d) => chan'[e] = chan[e]
        BY <3>1, WriteFacts
      <3>4. \A e \in Consumers \ {d} : overtaken'[e] = overtaken[e]
        BY <3>1, WriteFacts
      <3>5. UNCHANGED <<live, nextID, todo, stage, conn, snap, view, told, strange>>
        BY <3>1, WriteFacts
      <3> QED BY <3>2, <3>3, <3>4, <3>5
    <2>1. /\ dest' = [dest EXCEPT ![w] = dest[w] \ {d}]
          /\ chan'[c] = chan[c] /\ overtaken'[c] = overtaken[c]
          /\ UNCHANGED <<live, nextID, todo, stage, conn, snap, view, told, strange>>
      BY <2>0
    <2>2. \A x \in Workers : c \in dest[x] => c \in dest'[x]
      BY <1>i, <2>1 DEF ViewTyped
    <2> QED BY <1>k, <2>1, <2>2
  <1> QED BY <1>1, <1>2, <1>3, <1>4, <1>5

-----------------------------------------------------------------------------
(* ConsumerView: a consumer stays abreast of what happens to it.           *)

(* It attaches: the snapshot has all there is, and nothing was said yet.   *)
LEMMA AttachKeepsUp ==
  ASSUME ViewTyped, ConnsHeld, NEW c \in Consumers, Attach(c)
  PROVE  Abreast(c)'
  <1>1. /\ conn'[c] = "attached" /\ snap'[c] = live /\ live' = live
        /\ chan'[c] = <<>> /\ view'[c] = {} /\ told'[c] = {} /\ strange'[c] = {}
    BY AttachFacts
  <1>2. DOMAIN chan'[c] = {}
    BY <1>1
  <1>3. GreetedOnce(c)' /\ ChanTrue(c)' /\ TokensFollow(c)'
    BY <1>1, <1>2 DEF GreetedOnce, ChanTrue, TokensFollow, HelloIn, Unsynced
  <1>4. NonePassedOver(c)'
    BY <1>1 DEF NonePassedOver
  <1>5. NoneLeftOver(c)'
    BY <1>1, <1>2 DEF NoneLeftOver, Departs
  <1> QED BY <1>3, <1>4, <1>5 DEF Abreast

(* Its hello is written, after all that was said too early.                *)
LEMMA HelloKeepsUp ==
  ASSUME ViewTyped, NEW c \in Consumers, Abreast(c), SendHello(c)
  PROVE  Abreast(c)'
  <1> DEFINE m == Message("hello", snap[c])
             L == Len(chan[c])
  <1>i. GreetedOnce(c) /\ ChanTrue(c) /\ NonePassedOver(c) /\ NoneLeftOver(c) /\ TokensFollow(c)
    BY DEF Abreast
  <1>m. m.t = "hello" /\ m.ids = snap[c] /\ m \in Post
    BY DEF Message, Post, ViewTyped
  <1>1. /\ conn[c] = "attached" /\ conn'[c] = "greeted" /\ snap'[c] = {} /\ chan'[c] = Append(chan[c], m)
        /\ UNCHANGED <<live, nextID, todo, stage, dest, view, told, strange, overtaken>>
    BY SendHelloFacts
  <1>2. /\ L \in Nat /\ DOMAIN chan[c] = 1..L /\ DOMAIN chan'[c] = 1..(L + 1)
        /\ \A n \in 1..L : chan'[c][n] = chan[c][n]
        /\ chan'[c][L + 1] = m
    <2>1. chan[c] \in Seq(Post)
      BY DEF ViewTyped
    <2> QED BY <1>m, <1>1, <2>1, AppendedFacts
  <1>3. \A n \in 1..L : chan[c][n].t # "hello"
    BY <1>i, <1>1, <1>2 DEF GreetedOnce, HelloIn
  <1> HIDE DEF m, L
  <1>4. \A n \in 1..(L + 1) : n \in 1..L \/ n = L + 1
    BY <1>2
  <1>5. L + 1 \in DOMAIN chan'[c] /\ \A n \in 1..L : n \in DOMAIN chan'[c] /\ L + 1 > n
    BY <1>2
  <1>6. GreetedOnce(c)'
    <2>1. \A n \in DOMAIN chan'[c] : chan'[c][n].t = "hello" => n = L + 1
      BY <1>2, <1>3, <1>4
    <2>2. view[c] \cup told[c] \subseteq overtaken[c]
      BY <1>i, <1>1 DEF GreetedOnce, Unsynced
    <2>3. \A n \in 1..L : chan[c][n].t \in {"added", "removed"} => chan[c][n].ids \subseteq overtaken[c]
      BY <1>i, <1>1, <1>2 DEF GreetedOnce, BeforeHello
    <2>4. \A n \in DOMAIN chan'[c] : chan'[c][n].t \in {"added", "removed"} => chan'[c][n].ids \subseteq overtaken[c]
      BY <1>2, <1>4, <1>m, <2>3
    <2> QED BY <1>1, <2>1, <2>2, <2>4 DEF GreetedOnce
  <1>7. ChanTrue(c)'
    <2>1. Given' = Given
      BY <1>1 DEF Given
    <2>2. ASSUME NEW n \in DOMAIN chan'[c]
          PROVE  /\ chan'[c][n].t # "hello" => chan'[c][n].ids \subseteq Given'
                 /\ \A p \in live' : ~(chan'[c][n].t = "removed" /\ p \in chan'[c][n].ids)
      <3>1. CASE n \in 1..L
        <4>1. chan'[c][n] = chan[c][n] /\ n \in DOMAIN chan[c]
          BY <1>2, <3>1
        <4> QED BY <1>i, <1>1, <2>1, <4>1 DEF ChanTrue, Hides
      <3>2. CASE n = L + 1
        BY <1>m, <1>2, <3>2
      <3> QED BY <1>2, <1>4, <3>1, <3>2
    <2> QED BY <2>2 DEF ChanTrue, Hides
  <1>8. NonePassedOver(c)'
    <2> SUFFICES ASSUME NEW p \in live', p \notin overtaken'[c]
                 PROVE  \/ p \in view'[c] /\ p \in told'[c]
                        \/ \E n \in DOMAIN chan'[c] : Shows(chan'[c][n], p)
                        \/ Awaits(c, "added", p)'
      BY DEF NonePassedOver, Shows
    <2>1. \/ p \in view[c] /\ p \in told[c]
          \/ \E n \in DOMAIN chan[c] : Shows(chan[c][n], p)
          \/ p \in snap[c]
          \/ Awaits(c, "added", p)
      BY <1>i, <1>1 DEF NonePassedOver
    <2>2. ASSUME NEW n \in DOMAIN chan[c], Shows(chan[c][n], p)
          PROVE  \E k \in DOMAIN chan'[c] : Shows(chan'[c][k], p)
      <3>1. n \in DOMAIN chan'[c] /\ chan'[c][n] = chan[c][n]
        BY <1>2, <1>5
      <3>2. Shows(chan'[c][n], p)
        BY <2>2, <3>1
      <3> QED BY <3>1, <3>2
    <2>3. ASSUME p \in snap[c]
          PROVE  \E k \in DOMAIN chan'[c] : Shows(chan'[c][k], p)
      BY <1>m, <1>2, <1>5, <2>3 DEF Shows
    <2>4. Awaits(c, "added", p) => Awaits(c, "added", p)'
      BY <1>1 DEF Awaits, Pending
    <2> QED BY <1>1, <2>1, <2>2, <2>3, <2>4
  <1>9. NoneLeftOver(c)'
    <2> SUFFICES ASSUME NEW p \in PortIds, p \notin live', p \notin overtaken'[c]
                 PROVE  Awaits(c, "removed", p)' \/ Departs(c, p)'
      BY <1>1 DEF NoneLeftOver, Departs, Shows, Hides
    <2>1. Awaits(c, "removed", p) \/ (p \notin snap[c] /\ Departs(c, p))
      BY <1>i, <1>1 DEF NoneLeftOver
    <2>2. Awaits(c, "removed", p) => Awaits(c, "removed", p)'
      BY <1>1 DEF Awaits, Pending
    <2>3. ASSUME p \notin snap[c], p \notin view[c], \A n \in DOMAIN chan[c] : ~Shows(chan[c][n], p)
          PROVE  Departs(c, p)'
      <3>1. \A n \in DOMAIN chan'[c] : ~Shows(chan'[c][n], p)
        BY <1>m, <1>2, <1>4, <2>3 DEF Shows
      <3> QED BY <1>1, <2>3, <3>1 DEF Departs, Shows
    <2>4. ASSUME p \notin snap[c], NEW n \in DOMAIN chan[c], Hides(chan[c][n], p),
                 \A k \in DOMAIN chan[c] : k > n => ~Shows(chan[c][k], p)
          PROVE  Departs(c, p)'
      <3>1. n \in DOMAIN chan'[c] /\ chan'[c][n] = chan[c][n]
        BY <1>2, <1>5
      <3>2. \A k \in DOMAIN chan'[c] : k > n => ~Shows(chan'[c][k], p)
        BY <1>m, <1>2, <1>4, <2>4 DEF Shows
      <3> QED BY <2>4, <3>1, <3>2 DEF Departs, Shows, Hides
    <2> QED BY <2>1, <2>2, <2>3, <2>4 DEF Departs
  <1>10. TokensFollow(c)'
    <2>1. \A n \in DOMAIN chan'[c] : chan'[c][n].t = "token" => BeforeHello(c, n)'
      BY <1>m, <1>2, <1>4, <1>5 DEF BeforeHello
    <2>2. Unsynced(c)'
      BY <1>m, <1>2, <1>5 DEF Unsynced, HelloIn
    <2> QED BY <2>1, <2>2 DEF TokensFollow, BeforeHello
  <1> QED BY <1>6, <1>7, <1>8, <1>9, <1>10 DEF Abreast

(* A message is written to it.                                             *)
LEMMA WriteKeepsUp ==
  ASSUME ViewInv, NEW c \in Consumers, Open(c), Abreast(c), NEW w \in Workers, Write(w, c)
  PROVE  Abreast(c)'
  <1> DEFINE m == todo[w][1]
  <1>l. PICK L : L = Len(chan[c])
    OBVIOUS
  <1>i. /\ ViewTyped /\ (\A v \in Workers : TodoTrue(v)) /\ WorkTrue
        /\ GreetedOnce(c) /\ ChanTrue(c) /\ NonePassedOver(c) /\ NoneLeftOver(c) /\ TokensFollow(c)
    BY DEF ViewInv, WorkTrue, Abreast
  <1>1. /\ dest' = [dest EXCEPT ![w] = dest[w] \ {c}] /\ 1 \in DOMAIN todo[w]
        /\ stage[w] # "lookup" /\ m \in Note /\ m \in Post /\ m.t # "reply"
        /\ chan'[c] = Append(chan[c], m)
        /\ overtaken'[c] = IF conn[c] = "attached" /\ m.t # "token" THEN overtaken[c] \cup m.ids ELSE overtaken[c]
        /\ UNCHANGED <<live, nextID, agents, reading, tokens, todo, stage, client, observers, conn, snap, view,
                       told, strange>>
    BY <1>i, WriteFacts
  <1>2. /\ L \in Nat /\ DOMAIN chan[c] = 1..L /\ DOMAIN chan'[c] = 1..(L + 1)
        /\ \A n \in 1..L : chan'[c][n] = chan[c][n]
        /\ chan'[c][L + 1] = m
    <2>1. chan[c] \in Seq(Post)
      BY <1>i DEF ViewTyped
    <2> QED BY <1>l, <1>1, <2>1, AppendedFacts
  <1>3. PICK x \in PortIds : m.ids = {x}
    BY <1>1 DEF Note
  <1>4. /\ m.t \in {"added", "removed", "token"} /\ x < nextID
        /\ m.t = "added" => x \in live
        /\ m.t = "removed" => x \notin live
        /\ m.t = "token" => x \in reading
    <2>1. m.t \in {"added", "removed", "token"}
      BY <1>1, NoteFacts
    <2>2. x \in m.ids
      BY <1>3
    <2> QED BY <1>i, <1>1, <2>1, <2>2 DEF TodoTrue
  <1>w. /\ \A v \in Workers \ {w} : dest'[v] = dest[v]
        /\ c \notin dest'[w]
    BY <1>i, <1>1 DEF ViewTyped
  <1>5. \A n \in 1..(L + 1) : n \in 1..L \/ n = L + 1
    BY <1>2
  <1>6. L + 1 \in DOMAIN chan'[c] /\ \A n \in 1..L : n \in DOMAIN chan'[c] /\ L + 1 > n /\ ~(n > L + 1)
    BY <1>2
  (* Whoever had the message to tell is the goroutine that has told it.    *)
  <1>7. ASSUME NEW t, NEW p, Awaits(c, t, p)
        PROVE  Awaits(c, t, p)' \/ (m.t = t /\ p \in m.ids)
    <2>1. PICK v \in Workers : \E n \in DOMAIN todo[v] :
            todo[v][n].t = t /\ p \in todo[v][n].ids /\ Pending(v, n, c)
      BY <1>7 DEF Awaits
    <2>2. PICK n \in DOMAIN todo[v] : todo[v][n].t = t /\ p \in todo[v][n].ids /\ Pending(v, n, c)
      BY <2>1
    <2>3. CASE v = w /\ n = 1
      BY <2>2, <2>3
    <2>4. CASE v # w \/ n # 1
      <3>1. v = w => n > 1
        <4>1. DOMAIN todo[v] = 1..Len(todo[v]) /\ Len(todo[v]) \in Nat
          BY <1>i, WorkFacts
        <4> QED BY <2>4, <4>1
      <3>2. Pending(v, n, c)'
        BY <1>1, <1>w, <2>2, <3>1 DEF Pending
      <3> QED BY <1>1, <2>2, <3>2 DEF Awaits
    <2> QED BY <2>3, <2>4
  <1> HIDE DEF m
  <1>8. overtaken[c] \subseteq overtaken'[c]
    BY <1>1
  <1>9. \A n \in 1..L : BeforeHello(c, n)' <=> BeforeHello(c, n)
    BY <1>1, <1>2, <1>4, <1>5, <1>6 DEF BeforeHello
  <1>10. Unsynced(c)' <=> Unsynced(c)
    BY <1>1, <1>2, <1>4, <1>5, <1>6 DEF Unsynced, HelloIn
  <1>11. BeforeHello(c, L + 1)' <=> conn[c] = "attached"
    BY <1>1, <1>2, <1>5, <1>6 DEF BeforeHello
  <1>12. GreetedOnce(c)'
    <2>1. \A k, n \in DOMAIN chan'[c] : chan'[c][k].t = "hello" /\ chan'[c][n].t = "hello" => k = n
      <3>1. \A n \in DOMAIN chan'[c] : chan'[c][n].t = "hello" => n \in 1..L
        BY <1>2, <1>4, <1>5
      <3> QED BY <1>i, <1>2, <3>1 DEF GreetedOnce
    <2>2. conn'[c] = "attached" => ~HelloIn(c)'
      BY <1>i, <1>1, <1>2, <1>4, <1>5 DEF GreetedOnce, HelloIn
    <2>3. Unsynced(c)' => view'[c] \cup told'[c] \subseteq overtaken'[c]
      BY <1>i, <1>1, <1>8, <1>10 DEF GreetedOnce
    <2>4. ASSUME NEW n \in DOMAIN chan'[c], chan'[c][n].t \in {"added", "removed"}, BeforeHello(c, n)'
          PROVE  chan'[c][n].ids \subseteq overtaken'[c]
      <3>1. CASE n \in 1..L
        BY <1>i, <1>2, <1>8, <1>9, <2>4, <3>1 DEF GreetedOnce
      <3>2. CASE n = L + 1
        BY <1>1, <1>2, <1>11, <2>4, <3>2
      <3> QED BY <1>2, <1>5, <3>1, <3>2
    <2> QED BY <2>1, <2>2, <2>3, <2>4 DEF GreetedOnce
  <1>13. ChanTrue(c)'
    <2>1. Given' = Given /\ m.ids \subseteq Given
      BY <1>i, <1>1, <1>3, <1>4, GivenFacts DEF Given, PortIds
    <2>2. ASSUME NEW n \in DOMAIN chan'[c]
          PROVE  /\ chan'[c][n].t # "hello" => chan'[c][n].ids \subseteq Given'
                 /\ \A p \in live' : ~(chan'[c][n].t = "removed" /\ p \in chan'[c][n].ids)
      <3>1. CASE n \in 1..L
        <4>1. chan'[c][n] = chan[c][n] /\ n \in DOMAIN chan[c]
          BY <1>2, <3>1
        <4> QED BY <1>i, <1>1, <2>1, <4>1 DEF ChanTrue, Hides
      <3>2. CASE n = L + 1
        BY <1>1, <1>2, <1>3, <1>4, <2>1, <3>2
      <3> QED BY <1>2, <1>5, <3>1, <3>2
    <2> QED BY <2>2 DEF ChanTrue, Hides
  <1>14. NonePassedOver(c)'
    <2> SUFFICES ASSUME NEW p \in live', p \notin overtaken'[c]
                 PROVE  \/ p \in view'[c] /\ p \in told'[c]
                        \/ \E n \in DOMAIN chan'[c] : Shows(chan'[c][n], p)
                        \/ conn'[c] = "attached" /\ p \in snap'[c]
                        \/ Awaits(c, "added", p)'
      BY DEF NonePassedOver, Shows
    <2>1. \/ p \in view[c] /\ p \in told[c]
          \/ \E n \in DOMAIN chan[c] : Shows(chan[c][n], p)
          \/ conn[c] = "attached" /\ p \in snap[c]
          \/ Awaits(c, "added", p)
      BY <1>i, <1>1, <1>8 DEF NonePassedOver
    <2>2. ASSUME NEW n \in DOMAIN chan[c], Shows(chan[c][n], p)
          PROVE  \E k \in DOMAIN chan'[c] : Shows(chan'[c][k], p)
      <3>1. n \in DOMAIN chan'[c] /\ chan'[c][n] = chan[c][n]
        BY <1>2, <1>6
      <3>2. Shows(chan'[c][n], p)
        BY <2>2, <3>1
      <3> QED BY <3>1, <3>2
    <2>3. ASSUME m.t = "added", p \in m.ids
          PROVE  \E k \in DOMAIN chan'[c] : Shows(chan'[c][k], p)
      BY <1>2, <1>6, <2>3 DEF Shows
    <2> QED BY <1>1, <1>7, <2>1, <2>2, <2>3
  <1>15. NoneLeftOver(c)'
    <2> SUFFICES ASSUME NEW p \in PortIds, p \notin live', p \notin overtaken'[c]
                 PROVE  \/ Awaits(c, "removed", p)'
                        \/ ~(conn'[c] = "attached" /\ p \in snap'[c]) /\ Departs(c, p)'
      BY DEF NoneLeftOver, Departs, Shows, Hides
    <2>0. ~Shows(m, p)
      BY <1>1, <1>3, <1>4 DEF Shows
    <2>1. \/ Awaits(c, "removed", p)
          \/ ~(conn[c] = "attached" /\ p \in snap[c]) /\ Departs(c, p)
      BY <1>i, <1>1, <1>8 DEF NoneLeftOver
    <2>2. ASSUME m.t = "removed", p \in m.ids
          PROVE  conn'[c] # "attached" /\ Departs(c, p)'
      <3>1. Hides(chan'[c][L + 1], p) /\ \A k \in DOMAIN chan'[c] : ~(k > L + 1)
        BY <1>2, <1>5, <1>6, <2>2 DEF Hides
      <3>2. conn'[c] # "attached"
        BY <1>1, <2>2
      <3> QED BY <1>6, <3>1, <3>2 DEF Departs, Shows, Hides
    <2>3. ASSUME p \notin view[c], \A n \in DOMAIN chan[c] : ~Shows(chan[c][n], p)
          PROVE  Departs(c, p)'
      <3>1. \A n \in DOMAIN chan'[c] : ~Shows(chan'[c][n], p)
        BY <1>2, <1>5, <2>0, <2>3
      <3> QED BY <1>1, <2>3, <3>1 DEF Departs, Shows
    <2>4. ASSUME NEW n \in DOMAIN chan[c], Hides(chan[c][n], p),
                 \A k \in DOMAIN chan[c] : k > n => ~Shows(chan[c][k], p)
          PROVE  Departs(c, p)'
      <3>1. n \in DOMAIN chan'[c] /\ chan'[c][n] = chan[c][n]
        BY <1>2, <1>6
      <3>2. \A k \in DOMAIN chan'[c] : k > n => ~Shows(chan'[c][k], p)
        BY <1>2, <1>5, <2>0, <2>4
      <3> QED BY <2>4, <3>1, <3>2 DEF Departs, Shows, Hides
    <2>5. Departs(c, p) => Departs(c, p)'
      BY <2>3, <2>4 DEF Departs
    <2> QED BY <1>1, <1>7, <2>1, <2>2, <2>5
  <1>16. TokensFollow(c)'
    <2>1. ASSUME NEW n \in DOMAIN chan'[c], chan'[c][n].t = "token", NEW p \in chan'[c][n].ids \cap live',
                 p \notin overtaken'[c]
          PROVE  BeforeHello(c, n)' \/ p \in told'[c] \/ \E k \in 1..n : Shows(chan'[c][k], p)
      <3>1. CASE n \in 1..L
        <4>1. BeforeHello(c, n) \/ p \in told[c] \/ \E k \in 1..n : Shows(chan[c][k], p)
          BY <1>i, <1>1, <1>2, <1>8, <2>1, <3>1 DEF TokensFollow
        <4>2. \A k \in 1..n : chan'[c][k] = chan[c][k]
          BY <1>2, <3>1
        <4> QED BY <1>1, <1>9, <3>1, <4>1, <4>2
      <3>2. CASE n = L + 1
        <4>1. m.t = "token" /\ p \in reading /\ p \in live
          BY <1>1, <1>2, <1>3, <1>4, <2>1, <3>2
        <4>2. ~Awaits(c, "added", p)
          BY <1>i, <4>1 DEF Awaits, TodoTrue
        <4>3. \/ p \in told[c]
              \/ \E k \in DOMAIN chan[c] : Shows(chan[c][k], p)
              \/ conn[c] = "attached"
          BY <1>i, <1>8, <2>1, <4>1, <4>2 DEF NonePassedOver
        <4>4. ASSUME NEW k \in DOMAIN chan[c], Shows(chan[c][k], p)
              PROVE  \E j \in 1..n : Shows(chan'[c][j], p)
          <5>1. k \in 1..n /\ chan'[c][k] = chan[c][k]
            BY <1>2, <3>2
          <5>2. Shows(chan'[c][k], p)
            BY <4>4, <5>1
          <5> QED BY <5>1, <5>2
        <4>5. conn[c] = "attached" => BeforeHello(c, n)'
          BY <1>1 DEF BeforeHello
        <4> QED BY <1>1, <4>3, <4>4, <4>5
      <3> QED BY <1>2, <1>5, <3>1, <3>2
    <2>2. ~Unsynced(c)' => strange'[c] \cap live' \subseteq overtaken'[c]
      BY <1>i, <1>1, <1>8, <1>10 DEF TokensFollow
    <2> QED BY <2>1, <2>2 DEF TokensFollow, Shows, BeforeHello
  <1> QED BY <1>12, <1>13, <1>14, <1>15, <1>16 DEF Abreast

(* It reads a message: what it now knows is what it knew and was to read.  *)
LEMMA ReceiveKeepsUp ==
  ASSUME ViewTyped, NEW c \in Consumers, Abreast(c), Receive(c)
  PROVE  Abreast(c)'
  <1> DEFINE m == chan[c][1]
  <1>i. GreetedOnce(c) /\ ChanTrue(c) /\ NonePassedOver(c) /\ NoneLeftOver(c) /\ TokensFollow(c)
    BY DEF Abreast
  <1>l. PICK L : L = Len(chan[c])
    OBVIOUS
  <1>1. /\ m \in Post
        /\ m.t = "hello" => view'[c] = m.ids /\ told'[c] = m.ids /\ strange'[c] = {}
        /\ m.t = "added" =>
             view'[c] = view[c] \cup m.ids /\ told'[c] = told[c] \cup m.ids /\ strange'[c] = strange[c]
        /\ m.t = "removed" => view'[c] = view[c] \ m.ids /\ told'[c] = told[c] /\ strange'[c] = strange[c]
        /\ m.t = "token" =>
             view'[c] = view[c] /\ told'[c] = told[c] /\ strange'[c] = strange[c] \cup (m.ids \ told[c])
        /\ UNCHANGED <<live, nextID, todo, stage, dest, conn, snap, overtaken>>
    BY ReceiveFacts
  <1>2. /\ L \in Nat /\ L > 0 /\ DOMAIN chan[c] = 1..L /\ DOMAIN chan'[c] = 1..(L - 1)
        /\ \A n \in 1..(L - 1) : chan'[c][n] = chan[c][n + 1]
    BY <1>l, ReceiveFacts
  <1>3. m.t \in {"hello", "added", "removed", "token"}
    BY <1>1 DEF Post
  <1>4. 1 \in DOMAIN chan[c] /\ chan[c][1] = m
    BY <1>2
  <1> HIDE DEF m
  <1>5. ASSUME NEW n \in DOMAIN chan'[c]
        PROVE  n \in Nat /\ n + 1 \in DOMAIN chan[c] /\ n + 1 > 1 /\ chan'[c][n] = chan[c][n + 1]
    BY <1>2, <1>5
  <1>6. ASSUME NEW n \in DOMAIN chan[c], n # 1
        PROVE  n - 1 \in DOMAIN chan'[c] /\ chan'[c][n - 1] = chan[c][n] /\ n \in Nat
    <2>1. n - 1 \in 1..(L - 1) /\ (n - 1) + 1 = n
      BY <1>2, <1>6
    <2> QED BY <1>2, <2>1
  <1>7. HelloIn(c)' => HelloIn(c) /\ m.t # "hello"
    <2>1. ASSUME NEW n \in DOMAIN chan'[c], chan'[c][n].t = "hello"
          PROVE  HelloIn(c) /\ m.t # "hello"
      <3>1. n + 1 \in DOMAIN chan[c] /\ n + 1 # 1 /\ chan[c][n + 1].t = "hello"
        BY <1>5, <2>1
      <3> QED BY <1>i, <1>4, <3>1 DEF GreetedOnce, HelloIn
    <2> QED BY <2>1 DEF HelloIn
  <1>8. HelloIn(c) => HelloIn(c)' \/ m.t = "hello"
    <2>1. ASSUME NEW n \in DOMAIN chan[c], chan[c][n].t = "hello"
          PROVE  HelloIn(c)' \/ m.t = "hello"
      <3>1. CASE n = 1
        BY <1>4, <2>1, <3>1
      <3>2. CASE n # 1
        BY <1>6, <2>1, <3>2 DEF HelloIn
      <3> QED BY <3>1, <3>2
    <2> QED BY <2>1 DEF HelloIn
  <1>9. conn[c] = "attached" => m.t # "hello"
    BY <1>i, <1>4 DEF GreetedOnce, HelloIn
  <1>10. ASSUME NEW n \in DOMAIN chan'[c]
         PROVE  BeforeHello(c, n)' <=> BeforeHello(c, n + 1)
    <2>1. ASSUME NEW k \in DOMAIN chan'[c], k > n, chan'[c][k].t = "hello"
          PROVE  BeforeHello(c, n + 1)
      <3>1. k + 1 \in DOMAIN chan[c] /\ k + 1 > n + 1 /\ chan[c][k + 1].t = "hello"
        BY <1>5, <1>10, <2>1
      <3> QED BY <3>1 DEF BeforeHello
    <2>2. ASSUME NEW k \in DOMAIN chan[c], k > n + 1, chan[c][k].t = "hello"
          PROVE  \E j \in DOMAIN chan'[c] : j > n /\ chan'[c][j].t = "hello"
      <3>1. n \in Nat /\ k # 1 /\ k \in Nat
        BY <1>2, <1>5, <1>10, <2>2
      <3>2. k - 1 \in DOMAIN chan'[c] /\ chan'[c][k - 1].t = "hello"
        BY <1>6, <2>2, <3>1
      <3>3. k - 1 > n
        BY <2>2, <3>1
      <3> QED BY <3>2, <3>3
    <2> QED BY <1>1, <2>1, <2>2 DEF BeforeHello
  <1>11. Unsynced(c)' => Unsynced(c) /\ m.t # "hello" /\ BeforeHello(c, 1)
    <2>1. ASSUME NEW n \in DOMAIN chan'[c], chan'[c][n].t = "hello"
          PROVE  BeforeHello(c, 1)
      BY <1>5, <2>1 DEF BeforeHello
    <2> QED BY <1>1, <1>7, <1>9, <2>1 DEF Unsynced, HelloIn, BeforeHello
  (* A hello finds the consumer knowing only what was said before it.      *)
  <1>12. m.t = "hello" => view[c] \cup told[c] \subseteq overtaken[c]
    BY <1>i, <1>4 DEF GreetedOnce, Unsynced, HelloIn
  <1>13. GreetedOnce(c)'
    <2>1. ASSUME NEW k \in DOMAIN chan'[c], NEW n \in DOMAIN chan'[c],
                 chan'[c][k].t = "hello", chan'[c][n].t = "hello"
          PROVE  k = n
      <3>1. /\ k + 1 \in DOMAIN chan[c] /\ n + 1 \in DOMAIN chan[c] /\ k \in Nat /\ n \in Nat
            /\ chan[c][k + 1].t = "hello" /\ chan[c][n + 1].t = "hello"
        BY <1>5, <2>1
      <3>2. k + 1 = n + 1
        BY <1>i, <3>1 DEF GreetedOnce
      <3> QED BY <3>1, <3>2
    <2>2. conn'[c] = "attached" => ~HelloIn(c)'
      BY <1>i, <1>1, <1>7 DEF GreetedOnce
    <2>3. Unsynced(c)' => view'[c] \cup told'[c] \subseteq overtaken'[c]
      <3>1. SUFFICES ASSUME Unsynced(c)' PROVE view'[c] \cup told'[c] \subseteq overtaken'[c]
        OBVIOUS
      <3>2. view[c] \cup told[c] \subseteq overtaken[c] /\ m.t # "hello"
        BY <1>i, <1>11, <3>1 DEF GreetedOnce
      <3>3. m.t \in {"added", "removed"} => m.ids \subseteq overtaken[c]
        BY <1>i, <1>4, <1>11, <3>1 DEF GreetedOnce
      <3> QED BY <1>1, <1>3, <3>2, <3>3
    <2>4. ASSUME NEW n \in DOMAIN chan'[c], chan'[c][n].t \in {"added", "removed"}, BeforeHello(c, n)'
          PROVE  chan'[c][n].ids \subseteq overtaken'[c]
      BY <1>i, <1>1, <1>5, <1>10, <2>4 DEF GreetedOnce
    <2> QED BY <2>1, <2>2, <2>3, <2>4 DEF GreetedOnce
  <1>14. ChanTrue(c)'
    <2>1. Given' = Given
      BY <1>1 DEF Given
    <2>2. ASSUME NEW n \in DOMAIN chan'[c]
          PROVE  /\ chan'[c][n].t # "hello" => chan'[c][n].ids \subseteq Given'
                 /\ \A p \in live' : ~(chan'[c][n].t = "removed" /\ p \in chan'[c][n].ids)
      BY <1>i, <1>1, <1>5, <2>1 DEF ChanTrue, Hides
    <2> QED BY <2>2 DEF ChanTrue, Hides
  <1>15. NonePassedOver(c)'
    <2> SUFFICES ASSUME NEW p \in live', p \notin overtaken'[c]
                 PROVE  \/ p \in view'[c] /\ p \in told'[c]
                        \/ \E n \in DOMAIN chan'[c] : Shows(chan'[c][n], p)
                        \/ conn'[c] = "attached" /\ p \in snap'[c]
                        \/ Awaits(c, "added", p)'
      BY DEF NonePassedOver, Shows
    <2>1. \/ p \in view[c] /\ p \in told[c]
          \/ \E n \in DOMAIN chan[c] : Shows(chan[c][n], p)
          \/ conn[c] = "attached" /\ p \in snap[c]
          \/ Awaits(c, "added", p)
      BY <1>i, <1>1 DEF NonePassedOver
    <2>2. ASSUME p \in view[c], p \in told[c]
          PROVE  p \in view'[c] /\ p \in told'[c]
      <3>1. m.t # "hello"
        BY <1>1, <1>12, <2>2
      <3>2. m.t = "removed" => p \notin m.ids
        BY <1>i, <1>1, <1>4 DEF ChanTrue, Hides
      <3> QED BY <1>1, <1>3, <2>2, <3>1, <3>2
    <2>3. ASSUME NEW n \in DOMAIN chan[c], Shows(chan[c][n], p)
          PROVE  \/ p \in view'[c] /\ p \in told'[c]
                 \/ \E k \in DOMAIN chan'[c] : Shows(chan'[c][k], p)
      <3>1. CASE n = 1
        BY <1>1, <1>4, <2>3, <3>1 DEF Shows
      <3>2. CASE n # 1
        <4>1. n - 1 \in DOMAIN chan'[c] /\ chan'[c][n - 1] = chan[c][n]
          BY <1>6, <3>2
        <4>2. Shows(chan[c][n], p)
          BY <2>3
        <4> QED BY <4>1, <4>2 DEF Shows
      <3> QED BY <3>1, <3>2
    <2>4. Awaits(c, "added", p) => Awaits(c, "added", p)'
      BY <1>1 DEF Awaits, Pending
    <2> QED BY <1>1, <2>1, <2>2, <2>3, <2>4
  <1>16. NoneLeftOver(c)'
    <2> SUFFICES ASSUME NEW p \in PortIds, p \notin live', p \notin overtaken'[c]
                 PROVE  \/ Awaits(c, "removed", p)'
                        \/ ~(conn'[c] = "attached" /\ p \in snap'[c]) /\ Departs(c, p)'
      BY DEF NoneLeftOver, Departs, Shows, Hides
    <2>1. \/ Awaits(c, "removed", p)
          \/ ~(conn[c] = "attached" /\ p \in snap[c]) /\ Departs(c, p)
      BY <1>i, <1>1 DEF NoneLeftOver
    <2>2. Awaits(c, "removed", p) => Awaits(c, "removed", p)'
      BY <1>1 DEF Awaits, Pending
    <2>3. ASSUME p \notin view[c], \A n \in DOMAIN chan[c] : ~Shows(chan[c][n], p)
          PROVE  Departs(c, p)'
      <3>1. \A n \in DOMAIN chan'[c] : ~Shows(chan'[c][n], p)
        BY <1>5, <2>3 DEF Shows
      <3>2. ~Shows(m, p)
        BY <1>4, <2>3
      <3>3. p \notin view'[c]
        BY <1>1, <1>3, <2>3, <3>2 DEF Shows
      <3> QED BY <3>1, <3>3 DEF Departs, Shows
    <2>4. ASSUME NEW n \in DOMAIN chan[c], Hides(chan[c][n], p),
                 \A k \in DOMAIN chan[c] : k > n => ~Shows(chan[c][k], p)
          PROVE  Departs(c, p)'
      <3>1. CASE n = 1
        <4>1. \A k \in DOMAIN chan'[c] : ~Shows(chan'[c][k], p)
          BY <1>5, <2>4, <3>1 DEF Shows
        <4>2. p \notin view'[c]
          BY <1>1, <1>4, <2>4, <3>1 DEF Hides
        <4> QED BY <4>1, <4>2 DEF Departs, Shows
      <3>2. CASE n # 1
        <4>1. n - 1 \in DOMAIN chan'[c] /\ chan'[c][n - 1] = chan[c][n] /\ n \in Nat
          BY <1>6, <3>2
        <4>2. ASSUME NEW k \in DOMAIN chan'[c], k > n - 1
              PROVE  ~Shows(chan'[c][k], p)
          <5>1. k + 1 \in DOMAIN chan[c] /\ k + 1 > n /\ chan'[c][k] = chan[c][k + 1]
            BY <1>5, <4>1, <4>2
          <5> QED BY <2>4, <5>1
        <4>3. Hides(chan[c][n], p)
          BY <2>4
        <4> QED BY <4>1, <4>2, <4>3 DEF Departs, Shows, Hides
      <3> QED BY <3>1, <3>2
    <2>5. Departs(c, p) => Departs(c, p)'
      BY <2>3, <2>4 DEF Departs
    <2> QED BY <1>1, <2>1, <2>2, <2>5
  <1>17. TokensFollow(c)'
    <2>1. ASSUME NEW n \in DOMAIN chan'[c], chan'[c][n].t = "token", NEW p \in chan'[c][n].ids \cap live',
                 p \notin overtaken'[c]
          PROVE  BeforeHello(c, n)' \/ p \in told'[c] \/ \E k \in 1..n : Shows(chan'[c][k], p)
      <3>1. n \in Nat /\ n + 1 \in DOMAIN chan[c] /\ chan'[c][n] = chan[c][n + 1]
        BY <1>5
      <3>2. BeforeHello(c, n + 1) \/ p \in told[c] \/ \E k \in 1..(n + 1) : Shows(chan[c][k], p)
        BY <1>i, <1>1, <2>1, <3>1 DEF TokensFollow
      <3>3. p \in told[c] => p \in told'[c]
        <4>1. p \in told[c] => m.t # "hello"
          BY <1>1, <1>12, <2>1
        <4> QED BY <1>1, <1>3, <4>1
      <3>4. ASSUME NEW k \in 1..(n + 1), Shows(chan[c][k], p)
            PROVE  p \in told'[c] \/ \E j \in 1..n : Shows(chan'[c][j], p)
        <4>1. CASE k = 1
          BY <1>1, <1>4, <3>4, <4>1 DEF Shows
        <4>2. CASE k # 1
          <5>1. k \in DOMAIN chan[c] /\ k - 1 \in 1..n
            BY <1>2, <3>1, <3>4, <4>2
          <5>2. chan'[c][k - 1] = chan[c][k]
            BY <1>6, <4>2, <5>1
          <5>3. Shows(chan'[c][k - 1], p)
            BY <3>4, <5>2
          <5> QED BY <5>1, <5>3
        <4> QED BY <4>1, <4>2
      <3> QED BY <1>10, <3>2, <3>3, <3>4
    <2>2. ASSUME ~Unsynced(c)', NEW p \in strange'[c] \cap live'
          PROVE  p \in overtaken'[c]
      <3>1. m.t # "hello"
        BY <1>1, <2>2
      <3>2. ~Unsynced(c)
        BY <1>1, <1>8, <2>2, <3>1 DEF Unsynced
      <3>3. CASE p \in strange[c]
        BY <1>i, <1>1, <2>2, <3>2, <3>3 DEF TokensFollow
      <3>4. CASE p \notin strange[c]
        <4>1. m.t = "token" /\ p \in m.ids /\ p \notin told[c] /\ p \in live
          BY <1>1, <1>3, <2>2, <3>4
        <4>2. ~BeforeHello(c, 1)
          BY <3>2 DEF Unsynced, HelloIn, BeforeHello
        <4>3. \A k \in 1..1 : ~Shows(chan[c][k], p)
          BY <1>4, <4>1 DEF Shows
        <4> QED BY <1>i, <1>1, <1>4, <4>1, <4>2, <4>3 DEF TokensFollow
      <3> QED BY <3>3, <3>4
    <2> QED BY <2>1, <2>2 DEF TokensFollow, Shows, BeforeHello
  <1> QED BY <1>13, <1>14, <1>15, <1>16, <1>17 DEF Abreast

-----------------------------------------------------------------------------
(* ConsumerView: the invariant.                                            *)

(* It holds at the start ...                                               *)
LEMMA ViewInitial == Init => ViewInv
  <1> SUFFICES ASSUME Init PROVE ViewInv
    OBVIOUS
  <1>1. ViewTyped
    <2>1. \A S : <<>> \in Seq(S)
      OBVIOUS
    <2>2. todo \in [Workers -> Seq(Note)] /\ chan \in [Consumers -> Seq(Post)]
      BY <2>1 DEF Init
    <2>3. live = {} /\ agents = {} /\ reading = {} /\ nextID \in 1..(MaxPorts + 1)
      BY ViewAssumption DEF Init
    <2>4. /\ tokens \in [PortIds -> 0..MaxTokens] /\ stage \in [Workers -> {"lookup", "router", "observers"}]
          /\ dest \in [Workers -> SUBSET Consumers]
      BY ViewAssumption DEF Init
    <2>5. /\ conn \in [Consumers -> {"new", "attached", "greeted", "closed", "gone"}]
          /\ snap \in [Consumers -> SUBSET PortIds] /\ view \in [Consumers -> SUBSET PortIds]
          /\ told \in [Consumers -> SUBSET PortIds] /\ strange \in [Consumers -> SUBSET Given]
          /\ overtaken \in [Consumers -> SUBSET PortIds]
      BY DEF Init
    <2>6. client \in Routers \cup {NoRouter} /\ observers \subseteq Observers
      BY DEF Init
    <2> QED BY <2>2, <2>3, <2>4, <2>5, <2>6 DEF ViewTyped
  <1>2. WorkTrue
    BY DEF Init, WorkTrue, TodoTrue, StageTrue
  <1>3. ConnsHeld
    BY ViewAssumption DEF Init, ConnsHeld, Open, Consumers
  <1>4. \A c \in Consumers : ~Open(c)
    BY DEF Init, Open
  <1> QED BY <1>1, <1>2, <1>3, <1>4 DEF ViewInv

(* ... and every step keeps it.                                            *)
LEMMA ViewInductive == ViewInv /\ [Next]_vars => ViewInv'
  <1>1. ASSUME ViewInv, Next PROVE ViewInv'
    <2>1. ViewTyped' /\ WorkTrue' /\ ConnsHeld'
      BY <1>1, ViewTypesKept, WorkKept, ConnsKept
    <2>i. ViewTyped /\ WorkTrue /\ ConnsHeld /\ \A c \in Consumers : Open(c) => Abreast(c)
      BY <1>1 DEF ViewInv
    <2> SUFFICES ASSUME NEW c \in Consumers, Open(c)' PROVE Abreast(c)'
      BY <2>1 DEF ViewInv
    <2>2. CASE \/ AddVeth \/ AddAgent \/ ScanGone
               \/ \E p \in PortIds : AgentLeft(p) \/ Release(p) \/ ReaderStops(p)
      <3>1. Open(c)
        BY <2>2 DEF AddVeth, AddAgent, ScanGone, AgentLeft, Release, ReaderStops, consumerVars, Open
      <3> QED BY <1>1, <2>i, <2>2, <3>1, PortsMove
    <2>3. CASE \E v \in Workers :
                 LookupRouter(v) \/ LookupObservers(v) \/ Sent(v) \/ (v \in PortIds /\ Reply(v))
      <3>1. Open(c)
        BY <2>3 DEF LookupRouter, LookupObservers, Sent, Reply, consumerVars, Open
      <3> QED BY <1>1, <2>i, <2>3, <3>1, WorkMoves
    <2>4. ASSUME NEW d \in Consumers, d # c,
                 \/ Attach(d) \/ SendHello(d) \/ HangUp(d) \/ Receive(d)
                 \/ \E w \in Workers : Write(w, d)
          PROVE  Abreast(c)'
      <3>1. Open(c)
        <4>1. CASE Attach(d)
          BY <2>i, <2>4, <4>1, AttachFacts DEF Open
        <4>2. CASE SendHello(d)
          BY <2>i, <2>4, <4>2, SendHelloFacts DEF Open
        <4>3. CASE HangUp(d)
          BY <2>i, <2>4, <4>3, HangUpFacts DEF Open
        <4>4. CASE Receive(d) \/ \E w \in Workers : Write(w, d)
          BY <4>4 DEF Receive, Write, consumerVars, Open
        <4> QED BY <2>4, <4>1, <4>2, <4>3, <4>4
      <3> QED BY <1>1, <2>i, <2>4, <3>1, OthersMove
    <2>5. CASE Attach(c)
      BY <2>i, <2>5, AttachKeepsUp
    <2>6. CASE SendHello(c)
      <3>1. Open(c)
        BY <2>6 DEF SendHello, Open
      <3> QED BY <2>i, <2>6, <3>1, HelloKeepsUp
    <2>7. CASE HangUp(c)
      BY <2>i, <2>7, HangUpFacts DEF Open
    <2>8. CASE Receive(c)
      <3>1. Open(c)
        BY <2>8 DEF Receive
      <3> QED BY <2>i, <2>8, <3>1, ReceiveKeepsUp
    <2>9. ASSUME NEW w \in Workers, Write(w, c) PROVE Abreast(c)'
      <3>1. Open(c)
        BY <2>9 DEF Write, consumerVars, Open
      <3> QED BY <1>1, <2>i, <2>9, <3>1, WriteKeepsUp
    <2>10. PortIds \subseteq Workers
      BY DEF Workers
    <2> QED BY <1>1, <2>2, <2>3, <2>4, <2>5, <2>6, <2>7, <2>8, <2>9, <2>10 DEF Next
  <1>2. ASSUME ViewInv, UNCHANGED vars PROVE ViewInv'
    <2>1. UNCHANGED <<live, nextID, agents, reading, tokens, todo, stage, dest, client, observers, conn, snap,
                      chan, view, told, strange, overtaken>>
      BY <1>2 DEF vars, portVars, sendVars, consumerVars, viewVars
    <2>2. ViewTyped' /\ WorkTrue' /\ ConnsHeld'
      BY <1>2, <2>1 DEF ViewInv, ViewTyped, Given, WorkTrue, TodoTrue, StageTrue, ConnsHeld, Open
    <2>3. ASSUME NEW c \in Consumers, Open(c)'
          PROVE  Abreast(c)'
      <3>1. Abreast(c) /\ ViewTyped
        BY <1>2, <2>1, <2>3 DEF ViewInv, Open
      <3>2. \A t : \A p : Awaits(c, t, p) => Awaits(c, t, p)'
        BY <2>1 DEF Awaits, Pending
      <3>3. Given \subseteq Given'
        BY <2>1 DEF Given
      <3> QED BY <2>1, <3>1, <3>2, <3>3, AbreastKept
    <2> QED BY <2>2, <2>3 DEF ViewInv
  <1> QED BY <1>1, <1>2

(* What the invariant says of a consumer that was told all there is.       *)
LEMMA ViewFollows == ViewInv => TypeOK /\ ViewTracksPorts /\ NoStrangeToken
  <1> SUFFICES ASSUME ViewInv PROVE TypeOK /\ ViewTracksPorts /\ NoStrangeToken
    OBVIOUS
  <1>i. ViewTyped /\ \A c \in Consumers : Open(c) => Abreast(c)
    BY DEF ViewInv
  <1>g. Given \subseteq PortIds
    BY <1>i, GivenFacts
  <1>1. TypeOK
    <2>1. \A w \in Workers : \A n \in DOMAIN todo[w] :
            todo[w][n] \in [t : {"added", "removed", "token", "reply"}, ids : SUBSET PortIds]
      <3>1. \A w \in Workers : \A n \in DOMAIN todo[w] : todo[w][n] \in Note
        BY <1>i, WorkFacts
      <3> QED BY <3>1 DEF Note
    <2>2. \A c \in Consumers : \A n \in DOMAIN chan[c] :
            chan[c][n] \in [t : {"hello", "added", "removed", "token"}, ids : SUBSET PortIds]
      <3>1. \A c \in Consumers : chan[c] \in Seq(Post)
        BY <1>i DEF ViewTyped
      <3>2. \A c \in Consumers : \A n \in DOMAIN chan[c] : chan[c][n] \in Post
        BY <3>1
      <3> QED BY <3>2 DEF Post
    <2>3. strange \in [Consumers -> SUBSET PortIds]
      BY <1>i, <1>g DEF ViewTyped
    <2>4. {snap, view, told, strange, overtaken} \subseteq [Consumers -> SUBSET PortIds]
      BY <1>i, <2>3 DEF ViewTyped
    <2> QED BY <1>i, <1>g, <2>1, <2>2, <2>4 DEF TypeOK, ViewTyped
  <1>2. ViewTracksPorts
    <2> SUFFICES ASSUME NEW c \in Consumers, Settled(c), NEW p \in PortIds, p \notin overtaken[c]
                 PROVE  p \in view[c] <=> p \in live
      BY <1>i, <1>g DEF ViewTracksPorts, ViewTyped
    <2>1. /\ NonePassedOver(c) /\ NoneLeftOver(c) /\ conn[c] # "attached" /\ DOMAIN chan[c] = {}
      BY <1>i DEF Settled, Open, Abreast
    <2>2. \A t : ~Awaits(c, t, p)
      BY DEF Settled, Idle, Awaits
    <2>3. p \in live => p \in view[c]
      BY <2>1, <2>2 DEF NonePassedOver
    <2>4. p \notin live => p \notin view[c]
      BY <2>1, <2>2 DEF NoneLeftOver, Departs
    <2> QED BY <2>3, <2>4
  <1>3. NoStrangeToken
    BY <1>i DEF NoStrangeToken, Open, Abreast, TokensFollow, Unsynced, HelloIn
  <1> QED BY <1>1, <1>2, <1>3

-----------------------------------------------------------------------------
(* Both parts.                                                             *)

LEMMA NoticesInitial == BothInit => NoticesInv
  BY TrunkInitial, ViewInitial DEF BothInit, NoticesInv

LEMMA NoticesInductive == NoticesInv /\ [BothNext]_allVars => NoticesInv'
  <1>1. CASE part = "view" /\ Next /\ UNCHANGED <<part, trunkVars>>
    BY <1>1, TrunkInductive, ViewInductive DEF NoticesInv
  <1>2. CASE part = "trunk" /\ TrunkNext /\ UNCHANGED <<part, vars>>
    BY <1>2, TrunkInductive, ViewInductive DEF NoticesInv
  <1>3. CASE UNCHANGED allVars
    <2>1. UNCHANGED vars /\ UNCHANGED trunkVars
      BY <1>3 DEF allVars
    <2> QED BY <2>1, TrunkInductive, ViewInductive DEF NoticesInv
  <1> QED BY <1>1, <1>2, <1>3 DEF BothNext

(* Always, what goroutines have still to tell of the ports is true of      *)
(* them, every consumer knows of each port or has word of it on the way,   *)
(* and the same of the gateway and each port of the edge it is dialled by  *)
(* (main.go notifyJSON, attachConsumer; trunk.go run, serveTrunk).         *)
THEOREM NoticesSafety == BothSpec => []NoticesInv
  <1>1. BothInit => NoticesInv
    BY NoticesInitial
  <1>2. NoticesInv /\ [BothNext]_allVars => NoticesInv'
    BY NoticesInductive
  <1> QED BY <1>1, <1>2, PTL DEF BothSpec

(* Always, every variable has its type, and every id the gateway gave a    *)
(* remote port stands for one port of one served trunk and back            *)
(* (trunk.go registerRemotePort, edgeGone).                                *)
THEOREM MapsSoundAlways == BothSpec => []MapsSound
  <1>1. NoticesInv => MapsSound
    BY TrunkFollows, ViewFollows DEF NoticesInv, MapsSound
  <1> QED BY <1>1, NoticesSafety, PTL

(* Always, a consumer that has read all there was to tell it knows exactly *)
(* the ports there are, but for those of which word overtook its hello     *)
(* (main.go scanLoop, servePort, attachConsumer).                          *)
THEOREM ViewTracksPortsAlways == BothSpec => []ViewTracksPorts
  <1>1. NoticesInv => ViewTracksPorts
    BY ViewFollows DEF NoticesInv
  <1> QED BY <1>1, NoticesSafety, PTL

(* Always, a greeted consumer has got tokens only of ports it was told of, *)
(* unless the port is gone or word of it overtook the hello (main.go       *)
(* addPort starts a port's reader after the port was announced).           *)
THEOREM NoStrangeTokenAlways == BothSpec => []NoStrangeToken
  <1>1. NoticesInv => NoStrangeToken
    BY ViewFollows DEF NoticesInv
  <1> QED BY <1>1, NoticesSafety, PTL

(* Always, a gateway whose trunk is up with nothing under way has exactly  *)
(* the edge's ports, under their pods and with an address, but for those a *)
(* notice told it of before the hello (trunk.go run, serveTrunk).          *)
THEOREM NoPortMissedAlways == BothSpec => []NoPortMissed
  <1>1. NoticesInv => NoPortMissed
    BY TrunkFollows DEF NoticesInv
  <1> QED BY <1>1, NoticesSafety, PTL
=============================================================================
