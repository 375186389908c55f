-------------------------------- MODULE Trunk --------------------------------
(***************************************************************************)
(* The control plane between an edge loft and the gateway (trunk.go): the  *)
(* edge dials, greets the gateway with a snapshot of its ports and reports *)
(* every port that comes or goes; the gateway gives each remote port an id *)
(* of its own and forgets an edge's ports when the trunk connection ends.  *)
(* Connections break, the two ends notice on their own, and the edge may   *)
(* crash and come back with its port ids counted from one again.  Frames   *)
(* are module MeshFrames.                                                  *)
(***************************************************************************)
EXTENDS Naturals, Sequences, FiniteSets, SequencesExt

CONSTANTS
  Pods,          \* pods wired on the edge, each with its metadata file
  MaxConns,      \* bound: trunk connections ever dialled
  MaxEdgePorts,  \* bound: ports the edge adds in all its lives
  MaxBoots       \* bound: lives of the edge

ASSUME TrunkAssumption ==
  /\ MaxConns \in Nat \ {0} /\ MaxEdgePorts \in Nat /\ MaxBoots \in Nat \ {0}

Conns   == 1..MaxConns
EdgeIds == 1..MaxEdgePorts
NoConn  == 0

(* A port as a trunk message carries it. *)
EdgePort == [id : EdgeIds, pod : Pods]

VARIABLES
  ports,       \* edge: l.byID, from port id to pod
  nextEdgeID,  \* edge: l.nextID
  boots,       \* edge: how often it has started
  past,        \* edge: ports it added in former lives
  unsent,      \* edge: notices scanLoop has still to send
  cur,         \* edge: t.c
  run,         \* edge: where t.run is
  mine,        \* edge: the connection t.run dialled last
  greeting,    \* edge: the snapshot its hello will carry
  dialled,     \* connections dialled so far
  broken,      \* connections the network or an end has closed
  up,          \* up[k]: messages on their way to the gateway
  serving,     \* gateway: connections whose serveTrunk runs
  greeted,     \* gateway: those whose trunk-hello was read (e.addr is set)
  portMap,     \* gateway: e.portMap of each connection, port id to synth id
  remotePorts, \* gateway: l.remotePorts
  nextSynth,   \* gateway: l.nextID
  tooEarly     \* history: notices sent on a connection before its hello

edgePorts == <<ports, nextEdgeID, boots, past, unsent>>
edgeTrunk == <<cur, run, mine, greeting>>
network   == <<dialled, broken, up>>
gateway   == <<serving, greeted, portMap, remotePorts, nextSynth>>
trunkVars == <<edgePorts, edgeTrunk, network, gateway, tooEarly>>

TrunkMessage(t, infos) == [t |-> t, ports |-> infos]
Infos == {[id |-> i, pod |-> ports[i]] : i \in DOMAIN ports}

TrunkInit ==
  /\ ports = <<>> /\ nextEdgeID = 1 /\ boots = 1 /\ past = 0 /\ unsent = <<>>
  /\ cur = NoConn /\ run = "dial" /\ mine = NoConn /\ greeting = {}
  /\ dialled = 0 /\ broken = {} /\ up = [k \in Conns |-> <<>>]
  /\ serving = {} /\ greeted = {}
  /\ portMap = [k \in Conns |-> <<>>] /\ remotePorts = <<>> /\ nextSynth = 1
  /\ tooEarly = [k \in Conns |-> {}]

-----------------------------------------------------------------------------
(* The edge's ports: scanLoop and addPort, one scan step at a time.        *)

Known == {ports[i] : i \in DOMAIN ports}

(* A scan finds a pod's metadata file ... *)
AddPort(pod) ==
  /\ unsent = <<>> /\ pod \notin Known /\ past + nextEdgeID <= MaxEdgePorts
  /\ ports' = [i \in DOMAIN ports \cup {nextEdgeID} |-> IF i = nextEdgeID THEN pod ELSE ports[i]]
  /\ nextEdgeID' = nextEdgeID + 1
  /\ unsent' = <<TrunkMessage("added", {[id |-> nextEdgeID, pod |-> pod]})>>
  /\ UNCHANGED <<boots, past, edgeTrunk, network, gateway, tooEarly>>

Minus(f, ids) == [i \in DOMAIN f \ ids |-> f[i]]

(* ... or finds that the files of some ports are gone.                     *)
EdgeScanGone ==
  /\ unsent = <<>>
  /\ \E gone \in SUBSET DOMAIN ports \ {{}} : \E order \in SetToSeqs(gone) :
       /\ ports' = Minus(ports, gone)
       /\ unsent' = [n \in DOMAIN order |->
                     TrunkMessage("removed", {[id |-> order[n], pod |-> ports[order[n]]]})]
  /\ UNCHANGED <<nextEdgeID, boots, past, edgeTrunk, network, gateway, tooEarly>>

-----------------------------------------------------------------------------
(* The edge's end of the trunk.                                            *)

(* Mutant of Send: notices are kept back until the hello was sent.         *)
SendGreeted(m) ==
  \/ (cur = NoConn \/ (run # "read" /\ m.t # "hello")) /\ UNCHANGED <<cur, up>>
  \/ cur \in Conns \ broken /\ up' = [up EXCEPT ![cur] = Append(@, m)] /\ UNCHANGED cur
  \/ cur \in broken /\ cur' \in {cur, NoConn} /\ UNCHANGED up

(* A message written to t.c arrives, unless the connection is down: then   *)
(* the write fails and drops t.c, or does not fail yet and the message is  *)
(* lost.                                                                   *)
Send(m) ==
  \/ cur = NoConn /\ UNCHANGED <<cur, up>>
  \/ cur \in Conns \ broken /\ up' = [up EXCEPT ![cur] = Append(@, m)] /\ UNCHANGED cur
  \/ cur \in broken /\ cur' \in {cur, NoConn} /\ UNCHANGED up

(* sendJSON of a notice by scanLoop. *)
SendNotice ==
  /\ unsent # <<>>
  /\ Send(Head(unsent))
  /\ unsent' = Tail(unsent)
  /\ tooEarly' = IF cur # NoConn /\ run # "read"
                  THEN [tooEarly EXCEPT ![cur] = @ \cup {<<Head(unsent).t, i.id>> : i \in Head(unsent).ports}]
                  ELSE tooEarly
  /\ UNCHANGED <<ports, nextEdgeID, boots, past, run, mine, greeting, dialled, broken, gateway>>

(* run: the dial succeeds and t.c is set; the gateway starts to serve. *)
Dial ==
  /\ run = "dial" /\ dialled < MaxConns
  /\ dialled' = dialled + 1
  /\ cur' = dialled' /\ mine' = dialled' /\ run' = "snapshot"
  /\ serving' = serving \cup {dialled'}
  /\ UNCHANGED <<edgePorts, greeting, broken, up, greeted, portMap, remotePorts, nextSynth, tooEarly>>

(* ... then the ports are read under l.mu ... *)
Snapshot ==
  /\ run = "snapshot" /\ run' = "hello" /\ greeting' = Infos
  /\ UNCHANGED <<edgePorts, cur, mine, network, gateway, tooEarly>>

(* ... and greeted with, once l.mu was released. *)
TrunkHello ==
  /\ run = "hello" /\ run' = "read" /\ greeting' = {}
  /\ Send(TrunkMessage("hello", greeting))
  /\ UNCHANGED <<edgePorts, mine, dialled, broken, gateway, tooEarly>>

(* readLoop fails: the connection is down. *)
EdgeNotices ==
  /\ run = "read" /\ mine \in broken
  /\ run' = "dial" /\ cur' = IF cur = mine THEN NoConn ELSE cur
  /\ UNCHANGED <<edgePorts, mine, greeting, network, gateway, tooEarly>>

(* A write that failed has closed the connection at this end, whatever the *)
(* network did; here a connection is broken before either end can fail.    *)
Break(k) ==
  /\ k <= dialled /\ k \notin broken
  /\ broken' = broken \cup {k}
  /\ \E n \in 0..Len(up[k]) : up' = [up EXCEPT ![k] = SubSeq(@, 1, n)]
  /\ UNCHANGED <<edgePorts, edgeTrunk, dialled, gateway, tooEarly>>

(* The edge's process dies and starts over. *)
Restart ==
  /\ boots < MaxBoots /\ boots' = boots + 1 /\ past' = past + nextEdgeID - 1
  /\ ports' = <<>> /\ nextEdgeID' = 1 /\ unsent' = <<>>
  /\ cur' = NoConn /\ run' = "dial" /\ mine' = NoConn /\ greeting' = {}
  /\ broken' = broken \cup 1..dialled
  /\ UNCHANGED <<dialled, up, gateway, tooEarly>>

-----------------------------------------------------------------------------
(* The gateway: serveTrunk of connection k.                                *)

(* registerRemotePort for each port of a list; one already mapped is       *)
(* skipped.                                                                *)
Register(k, infos) ==
  LET fresh == SetToSeq({i \in infos : i.id \notin DOMAIN portMap[k]})
      synth == [n \in DOMAIN fresh |-> nextSynth + n - 1]
      of(s) == fresh[s - nextSynth + 1]
      given == {synth[n] : n \in DOMAIN fresh}
      news  == {fresh[n].id : n \in DOMAIN fresh}
      num(i) == CHOOSE s \in given : of(s).id = i
  IN  /\ nextSynth' = nextSynth + Len(fresh)
      /\ portMap' = [portMap EXCEPT ![k] =
           [i \in DOMAIN @ \cup news |-> IF i \in news THEN num(i) ELSE portMap[k][i]]]
      /\ remotePorts' = [s \in DOMAIN remotePorts \cup given |->
           IF s \in given
           THEN [conn |-> k, id |-> of(s).id, pod |-> of(s).pod, addr |-> k \in greeted']
           ELSE remotePorts[s]]

(* Mutant of Unregister: the port stays in l.remotePorts.                  *)
UnregisterHalf(k, id) ==
  /\ portMap' = [portMap EXCEPT ![k] = Minus(@, {id})]
  /\ UNCHANGED remotePorts

Unregister(k, id) ==
  IF id \in DOMAIN portMap[k]
  THEN /\ portMap' = [portMap EXCEPT ![k] = Minus(@, {id})]
       /\ remotePorts' = Minus(remotePorts, {portMap[k][id]})
  ELSE UNCHANGED <<portMap, remotePorts>>

GatewayReads(k) ==
  LET m == Head(up[k]) IN
  /\ k \in serving /\ up[k] # <<>>
  /\ up' = [up EXCEPT ![k] = Tail(@)]
  /\ greeted' = IF m.t = "hello" THEN greeted \cup {k} ELSE greeted
  /\ \/ m.t \in {"hello", "added"} /\ Register(k, m.ports)
     \/ /\ m.t = "removed" /\ UNCHANGED nextSynth
        /\ \A i \in m.ports : Unregister(k, i.id)
  /\ UNCHANGED <<edgePorts, edgeTrunk, dialled, broken, serving, tooEarly>>

(* edgeGone: the connection is down and what had arrived was read. *)
EdgeGone(k) ==
  /\ k \in serving \cap broken /\ up[k] = <<>>
  /\ serving' = serving \ {k} /\ greeted' = greeted \ {k}
  /\ portMap' = [portMap EXCEPT ![k] = <<>>]
  /\ remotePorts' = Minus(remotePorts, {portMap[k][i] : i \in DOMAIN portMap[k]})
  /\ tooEarly' = [tooEarly EXCEPT ![k] = {}]
  /\ UNCHANGED <<edgePorts, edgeTrunk, network, nextSynth>>

-----------------------------------------------------------------------------
TrunkNext ==
  \/ \E pod \in Pods : AddPort(pod)
  \/ EdgeScanGone \/ SendNotice
  \/ Dial \/ Snapshot \/ TrunkHello \/ EdgeNotices \/ Restart
  \/ \E k \in Conns : Break(k) \/ GatewayReads(k) \/ EdgeGone(k)

TrunkSpec == TrunkInit /\ [][TrunkNext]_trunkVars

-----------------------------------------------------------------------------
(* Every variable has its type. *)
TrunkTypeOK ==
  /\ nextEdgeID \in 1..(MaxEdgePorts + 1) /\ boots \in 1..MaxBoots /\ past \in 0..MaxEdgePorts
  /\ DOMAIN ports \subseteq EdgeIds /\ Known \subseteq Pods
  /\ \A n \in DOMAIN unsent : unsent[n] \in [t : {"added", "removed"}, ports : SUBSET EdgePort]
  /\ cur \in Conns \cup {NoConn} /\ mine \in Conns \cup {NoConn}
  /\ run \in {"dial", "snapshot", "hello", "read"} /\ greeting \subseteq EdgePort
  /\ dialled \in 0..MaxConns /\ broken \subseteq Conns
  /\ \A k \in Conns : \A n \in DOMAIN up[k] :
       up[k][n] \in [t : {"hello", "added", "removed"}, ports : SUBSET EdgePort]
  /\ serving \subseteq Conns /\ greeted \subseteq serving /\ nextSynth \in Nat
  /\ \A k \in Conns : DOMAIN portMap[k] \subseteq EdgeIds
  /\ \A s \in DOMAIN remotePorts :
       remotePorts[s] \in [conn : Conns, id : EdgeIds, pod : Pods, addr : BOOLEAN]
  /\ tooEarly \in [Conns -> SUBSET ({"added", "removed"} \X EdgeIds)]

(* The gateway's two maps agree: every consumer-facing id stands for one   *)
(* port of one served trunk and back, through duplicates, removals, the    *)
(* end of a trunk and an edge that is served twice at once.                *)
MapsAgree ==
  /\ \A s \in DOMAIN remotePorts :
       LET rp == remotePorts[s] IN
       rp.conn \in serving /\ rp.id \in DOMAIN portMap[rp.conn] /\ portMap[rp.conn][rp.id] = s
  /\ \A k \in Conns : \A i \in DOMAIN portMap[k] :
       /\ portMap[k][i] \in DOMAIN remotePorts
       /\ remotePorts[portMap[k][i]].conn = k /\ remotePorts[portMap[k][i]].id = i

(* The trunk is up, greeted, and nothing is under way on it. *)
TrunkSettled ==
  /\ run = "read" /\ cur = mine /\ mine \notin broken
  /\ unsent = <<>> /\ up[mine] = <<>>

(* On a settled trunk the gateway misses no port of the edge and has none  *)
(* under the wrong id or pod, and knows where to send their frames.  The   *)
(* exceptions are notices that went out before the hello: a removal that   *)
(* the hello then undid, and a port registered while the edge's address    *)
(* was not known yet.                                                      *)
NoPortMissed ==
  TrunkSettled =>
    /\ DOMAIN ports \subseteq DOMAIN portMap[mine]
    /\ \A i \in DOMAIN portMap[mine] \ DOMAIN ports : <<"removed", i>> \in tooEarly[mine]
    /\ \A i \in DOMAIN ports :
         LET rp == remotePorts[portMap[mine][i]] IN
         rp.pod = ports[i] /\ (rp.addr \/ <<"added", i>> \in tooEarly[mine])
=============================================================================
