----------------------------- MODULE MeshFrames -----------------------------
(***************************************************************************)
(* Frames between lofts: edges buffer frames and send their tokens up the  *)
(* trunk, the gateway gives them ids of its own and turns the router's     *)
(* verdicts into instructions for the ingress edge, payloads go from loft  *)
(* to loft over /peer connections.  Each loft has one port in each of its  *)
(* lives, always with the same local id; how ports are registered on a     *)
(* trunk is module Trunk, the buffer of one loft in full is module Loft.   *)
(***************************************************************************)
EXTENDS Naturals, Sequences, FiniteSets

CONSTANTS
  Edges,        \* edge lofts
  Gateway,      \* the gateway loft
  MaxConns,     \* bound: trunk connections ever dialled
  MaxBoots,     \* bound: lives of an edge
  MaxFrames,    \* bound: frame ids the gateway gives
  MaxIngests,   \* bound: frames an edge ingests in one life
  MaxBreaks,    \* bound: connections that break, other than by a restart
  MaxRemovals,  \* bound: lofts whose port is gone
  MaxVerdicts   \* bound: verdicts of the router

ASSUME MeshAssumption ==
  /\ Gateway \notin Edges
  /\ (Edges \cup {Gateway}) \cap Nat = {}
  /\ MaxBoots # 0
  /\ {MaxConns, MaxBoots, MaxFrames, MaxIngests, MaxBreaks, MaxRemovals, MaxVerdicts} \subseteq Nat
  /\ MaxIngests <= MaxFrames

Lofts    == Edges \cup {Gateway}
Conns    == 1..MaxConns
FrameIds == 1..MaxFrames
None     == 0

(* The port of a loft in one of its lives, and a frame that entered there. *)
Pods   == Lofts \X (1..MaxBoots)
Frames == [pod : Pods, fid : FrameIds]

VARIABLES
  boot,       \* boot[n]: the life loft n is in
  port,       \* lofts whose port is there
  buf,        \* buf[n]: l.frames of loft n, from id to copied
  nextFID,    \* nextFID[n]: l.nextFID
  trunk,      \* trunk[e]: the connection edge e is trunked on
  owner,      \* owner[k]: the edge, and its life, that dialled connection k
  broken,     \* connections that are down
  up,         \* up[k]: tokens (frame ids) on their way to the gateway
  down,       \* down[k]: instructions on their way to the edge
  serving,    \* connections the gateway serves
  registered, \* those whose edge's port is in l.remotePorts
  remote,     \* l.remoteFrames, from id to its connection and id there
  router,     \* l.client # nil
  shown,      \* frame ids of which a token went to a router, this one or an earlier one
  acting,     \* the verdict consumerMsg is carrying out, and its lookups
  verdicts,   \* verdicts read so far
  link,       \* link[s][d]: s's cached /peer connection to d
  wire,       \* wire[s][d]: injects on it
  ordered,    \* history: deliveries ordered, as frame, pod and kind
  got,        \* history: deliveries that happened
  taken,      \* history: taken[f]: how often f's payload was consumed
  counted,    \* history: frames a drop counter rose for
  torn        \* history: frames a trunk's end counted as their instruction had just left

loftVars   == <<boot, port, buf, nextFID>>
trunkVars  == <<trunk, owner, broken, up, down>>
gwVars     == <<serving, registered, remote>>
routerVars == <<router, shown, acting, verdicts>>
peerVars   == <<link, wire>>
history    == <<ordered, got, taken, counted, torn>>
vars == <<loftVars, trunkVars, gwVars, routerVars, peerVars, history>>

Pod(n)      == <<n, boot[n]>>
Frame(n, f) == [pod |-> Pod(n), fid |-> f]

(* The frame a gateway id of a remote frame stands for. *)
FrameOf(k, f) == [pod |-> owner[k], fid |-> f]

Without(f, ids) == [i \in DOMAIN f \ ids |-> f[i]]

Idle == [t |-> "idle"]

Init ==
  /\ boot = [n \in Lofts |-> 1] /\ port = Lofts
  /\ buf = [n \in Lofts |-> <<>>] /\ nextFID = [n \in Lofts |-> 1]
  /\ trunk = [e \in Edges |-> None] /\ owner = <<>> /\ broken = {}
  /\ up = [k \in Conns |-> <<>>] /\ down = up
  /\ serving = {} /\ registered = {} /\ remote = <<>>
  /\ router = FALSE /\ shown = {} /\ acting = Idle /\ verdicts = 0
  /\ link = [s \in Lofts |-> [d \in Lofts |-> "none"]]
  /\ wire = [s \in Lofts |-> [d \in Lofts |-> <<>>]]
  /\ ordered = {} /\ got = {}
  /\ taken = [f \in Frames |-> 0] /\ counted = {} /\ torn = {}

-----------------------------------------------------------------------------
(* Trunk connections and ports.                                            *)

Dial(e) ==
  LET k == Len(owner) + 1 IN
  /\ trunk[e] = None /\ k \in Conns
  /\ owner' = Append(owner, Pod(e))
  /\ trunk' = [trunk EXCEPT ![e] = k]
  /\ serving' = serving \cup {k}
  /\ UNCHANGED <<loftVars, broken, up, down, registered, remote, routerVars, peerVars, history>>

(* The gateway reads that the edge's port is there, or no longer.          *)
RegisterPort(k) ==
  /\ k \in serving \ registered
  /\ owner[k] = Pod(owner[k][1]) /\ owner[k][1] \in port
  /\ registered' = registered \cup {k}
  /\ UNCHANGED <<loftVars, trunkVars, serving, remote, routerVars, peerVars, history>>

UnregisterPort(k) ==
  /\ k \in registered /\ owner[k][1] \notin port
  /\ registered' = registered \ {k}
  /\ UNCHANGED <<loftVars, trunkVars, serving, remote, routerVars, peerVars, history>>

RemovePort(n) ==
  /\ n \in port /\ Cardinality(Lofts \ port) < MaxRemovals
  /\ port' = port \ {n}
  /\ UNCHANGED <<boot, buf, nextFID, trunkVars, gwVars, routerVars, peerVars, history>>

(* What is on a connection when it breaks may or may not arrive still.     *)
Break(k) ==
  /\ k \in DOMAIN owner \ broken /\ Cardinality(broken) < MaxBreaks
  /\ broken' = broken \cup {k}
  /\ \E n \in 0..Len(up[k]), m \in 0..Len(down[k]) :
       /\ up' = [up EXCEPT ![k] = SubSeq(@, 1, n)]
       /\ down' = [down EXCEPT ![k] = SubSeq(@, 1, m)]
  /\ UNCHANGED <<loftVars, trunk, owner, gwVars, routerVars, peerVars, history>>

EdgeNotices(e) ==
  /\ trunk[e] \in broken /\ down[trunk[e]] = <<>>
  /\ trunk' = [trunk EXCEPT ![e] = None]
  /\ UNCHANGED <<loftVars, owner, broken, up, down, gwVars, routerVars, peerVars, history>>

(* edgeGone: the frames the gateway knew of it become trunk drops - also   *)
(* the one whose instruction consumerMsg has sent and not yet forgotten.   *)
OfConn(k) == {f \in DOMAIN remote : remote[f].conn = k}
InSight(k) == {FrameOf(k, remote[g].fid) : g \in OfConn(k)}
JustSent(k) ==
  {FrameOf(k, remote[g].fid) : g \in {f \in OfConn(k) : acting.t = "sent" /\ acting.fid = f}}

(* Mutant of EdgeGone: the frames of the edge stay booked.                 *)
EdgeGoneKeepsFrames(k) ==
  /\ k \in serving \cap broken /\ up[k] = <<>>
  /\ serving' = serving \ {k} /\ registered' = registered \ {k}
  /\ UNCHANGED <<loftVars, trunkVars, remote, routerVars, peerVars, history>>

EdgeGone(k) ==
  /\ k \in serving \cap broken /\ up[k] = <<>>
  /\ serving' = serving \ {k} /\ registered' = registered \ {k}
  /\ remote' = Without(remote, OfConn(k))
  /\ counted' = counted \cup InSight(k) /\ torn' = torn \cup JustSent(k)
  /\ UNCHANGED <<loftVars, trunkVars, routerVars, peerVars, ordered, got, taken>>

(* An edge dies and starts over: ids count from one again, its port is     *)
(* another pod's, and connections to it are stale.                         *)
Restart(e) ==
  /\ boot[e] < MaxBoots
  /\ boot' = [boot EXCEPT ![e] = @ + 1]
  /\ port' = port \cup {e}
  /\ buf' = [buf EXCEPT ![e] = <<>>] /\ nextFID' = [nextFID EXCEPT ![e] = 1]
  /\ trunk' = [trunk EXCEPT ![e] = None]
  /\ broken' = broken \cup {k \in DOMAIN owner : owner[k][1] = e}
  /\ down' = [k \in Conns |-> IF k \in DOMAIN owner /\ owner[k][1] = e THEN <<>> ELSE down[k]]
  /\ link' = [s \in Lofts |-> [d \in Lofts |->
                IF s = e THEN "none"
                ELSE IF d = e /\ link[s][d] = "open" THEN "stale" ELSE link[s][d]]]
  /\ wire' = [s \in Lofts |-> [wire[s] EXCEPT ![e] = <<>>]]
  /\ UNCHANGED <<owner, up, gwVars, routerVars, history>>

-----------------------------------------------------------------------------
(* Frames come in.                                                         *)

Buffer(n) ==
  /\ n \in port /\ nextFID[n] \in FrameIds
  /\ buf' = [buf EXCEPT ![n] = [f \in DOMAIN @ \cup {nextFID[n]} |->
                                  IF f = nextFID[n] THEN FALSE ELSE @[f]]]
  /\ nextFID' = [nextFID EXCEPT ![n] = @ + 1]

(* ingest at the gateway: the router gets the token. *)
IngestAtGateway ==
  /\ router /\ Buffer(Gateway)
  /\ shown' = shown \cup {nextFID[Gateway]}
  /\ UNCHANGED <<boot, port, trunkVars, gwVars, router, acting, verdicts, peerVars, history>>

(* ingest at an edge: the token goes up the trunk, if that still works. *)
IngestAtEdge(e) ==
  LET k == trunk[e] IN
  /\ k # None /\ nextFID[e] <= MaxIngests /\ Buffer(e)
  /\ up' = IF k \in broken THEN up ELSE [up EXCEPT ![k] = Append(@, nextFID[e])]
  /\ UNCHANGED <<boot, port, trunk, owner, broken, down, gwVars, routerVars, peerVars, history>>

Instruction(t, f, dst, p) == [t |-> t, fid |-> f, to |-> dst, port |-> p]

(* send7 and sendRemote: a write to a connection that is down is lost. *)
Instruct(k, m) ==
  down' = IF k \in serving \ broken THEN [down EXCEPT ![k] = Append(@, m)] ELSE down

(* serveTrunk reads a token: without a router, or from a port it does not  *)
(* know, the gateway has the edge drop the frame.                          *)
GatewayToken(k) ==
  LET f == Head(up[k])
      s == nextFID[Gateway]
  IN  /\ k \in serving /\ up[k] # <<>>
      /\ up' = [up EXCEPT ![k] = Tail(@)]
      /\ \/ /\ k \notin registered \/ ~router
            /\ Instruct(k, Instruction("drop", f, Gateway, None))
            /\ UNCHANGED <<remote, shown, nextFID>>
         \/ /\ k \in registered /\ router /\ s \in FrameIds
            /\ remote' = [g \in DOMAIN remote \cup {s} |->
                            IF g = s THEN [conn |-> k, fid |-> f] ELSE remote[g]]
            /\ nextFID' = [nextFID EXCEPT ![Gateway] = s + 1]
            /\ shown' = shown \cup {s}
            /\ UNCHANGED down
      /\ UNCHANGED <<boot, port, buf, trunk, owner, broken, serving, registered, router,
                     acting, verdicts, peerVars, history>>

(* Housekeeping: an edge's own sweep, and the gateway's of what it knows.  *)
Expire(n, f) ==
  /\ f \in DOMAIN buf[n]
  /\ buf' = [buf EXCEPT ![n] = Without(@, {f})]
  /\ counted' = IF n \in port THEN counted \cup {Frame(n, f)} ELSE counted
  /\ UNCHANGED <<boot, port, nextFID, trunkVars, gwVars, routerVars, peerVars, ordered, got,
                 taken, torn>>

ExpireRemote(s) ==
  /\ s \in DOMAIN remote
  /\ remote' = Without(remote, {s})
  /\ UNCHANGED <<loftVars, trunkVars, serving, registered, routerVars, peerVars, history>>

-----------------------------------------------------------------------------
(* What a loft does with a frame of its own.                               *)

(* Mutant of Take: a consuming delivery leaves the frame in the buffer.    *)
TakeKeeps(n, f, consume) ==
  /\ buf' = [buf EXCEPT ![n][f] = TRUE]
  /\ taken' = IF consume THEN [taken EXCEPT ![Frame(n, f)] = @ + 1] ELSE taken

Kind(consume) == IF consume THEN "deliver" ELSE "copy"

(* A payload is read for a delivery: consumed, or marked as copied. *)
Take(n, f, consume) ==
  /\ buf' = IF consume THEN [buf EXCEPT ![n] = Without(@, {f})]
            ELSE [buf EXCEPT ![n][f] = TRUE]
  /\ taken' = IF consume THEN [taken EXCEPT ![Frame(n, f)] = @ + 1] ELSE taken

(* deliverLocal to port p of loft n itself (None: an id it does not have). *)
DeliverLocal(n, p, f, consume) ==
  \/ /\ f \in DOMAIN buf[n] /\ p = n /\ n \in port
     /\ Take(n, f, consume)
     /\ got' = got \cup {<<Frame(n, f), Pod(n), Kind(consume)>>}
  \/ /\ f \notin DOMAIN buf[n] \/ p # n \/ n \notin port
     /\ UNCHANGED <<buf, taken, got>>

(* dropLocal *)
DropLocal(n, f) ==
  \/ /\ f \in DOMAIN buf[n]
     /\ buf' = [buf EXCEPT ![n] = Without(@, {f})]
     /\ counted' = IF ~buf[n][f] /\ n \in port THEN counted \cup {Frame(n, f)} ELSE counted
  \/ f \notin DOMAIN buf[n] /\ UNCHANGED <<buf, counted>>

(* peerSend of frame fr to port p of loft d: dial if need be; a failure is *)
(* a trunk drop, but a write to a peer that just died may still succeed    *)
(* and the payload is lost.                                                *)
PeerSend(s, d, fr, p, consume) ==
  \/ /\ link[s][d] \in {"none", "open"}
     /\ link' = [link EXCEPT ![s][d] = "open"]
     /\ wire' = [wire EXCEPT ![s][d] = Append(@, [frame |-> fr, port |-> p, kind |-> Kind(consume)])]
     /\ UNCHANGED counted
  \/ /\ link[s][d] \in {"none", "stale"}
     /\ link' = [link EXCEPT ![s][d] = "none"]
     /\ counted' = counted \cup {fr}
     /\ UNCHANGED wire
  \/ /\ link[s][d] = "stale"
     /\ UNCHANGED <<link, wire, counted>>

(* The push half of a cross-loft delivery. *)
Push(n, d, p, f, consume) ==
  \/ /\ f \in DOMAIN buf[n]
     /\ Take(n, f, consume)
     /\ PeerSend(n, d, Frame(n, f), p, consume)
  \/ f \notin DOMAIN buf[n] /\ UNCHANGED <<buf, taken, counted, peerVars>>

(* servePeer: a payload for a port that is not there vanishes. *)
ServePeer(s, d) ==
  LET m == Head(wire[s][d]) IN
  /\ wire[s][d] # <<>>
  /\ wire' = [wire EXCEPT ![s][d] = Tail(@)]
  /\ got' = IF m.port = d /\ d \in port THEN got \cup {<<m.frame, Pod(d), m.kind>>} ELSE got
  /\ UNCHANGED <<loftVars, trunkVars, gwVars, routerVars, link, ordered, taken, counted, torn>>

-----------------------------------------------------------------------------
(* The router and its verdicts: consumerMsg looks frame and port up under  *)
(* l.mu, releases it, and acts on what it found.                           *)

RouterAttaches ==
  /\ ~router /\ router' = TRUE
  /\ UNCHANGED <<loftVars, trunkVars, gwVars, shown, acting, verdicts, peerVars, history>>

RouterLeaves ==
  /\ router /\ acting = Idle
  /\ router' = FALSE
  /\ UNCHANGED <<loftVars, trunkVars, gwVars, shown, acting, verdicts, peerVars, history>>

(* A port the router names: the gateway's own, or the one it was shown for *)
(* a trunk connection.                                                     *)
PodBehind(dst) == IF dst = Gateway THEN Pod(Gateway) ELSE owner[dst]

Lookup(t, dst, f) ==
  /\ router /\ acting = Idle /\ verdicts < MaxVerdicts
  /\ f \in shown /\ dst \in {Gateway} \cup DOMAIN owner
  /\ verdicts' = verdicts + 1
  /\ acting' = [t |-> t, dst |-> dst, fid |-> f,
                rf |-> IF f \in DOMAIN remote THEN remote[f] ELSE [conn |-> None, fid |-> f],
                portRemote |-> dst \in registered]
  /\ ordered' = IF t = "drop" THEN ordered
                ELSE ordered \cup {<<IF f \in DOMAIN remote THEN FrameOf(remote[f].conn, remote[f].fid)
                                     ELSE Frame(Gateway, f), PodBehind(dst), t>>}
  /\ UNCHANGED <<loftVars, trunkVars, gwVars, router, shown, peerVars, got, taken, counted, torn>>

Acting ==
  /\ acting.t \notin {"idle", "sent"}
  /\ UNCHANGED <<boot, port, nextFID, trunk, owner, broken, up, serving, registered,
                 router, shown, verdicts, ordered, torn>>

Acted == Acting /\ acting' = Idle

Consume    == acting.t = "deliver"
FrameRemote == acting.rf.conn # None

(* Which loft, and which port of it, a verdict's destination is. *)
Target == IF acting.portRemote THEN owner[acting.dst][1] ELSE Gateway
(* Mutant of TargetPort: an id that is unknown falls back to the gateway's *)
(* own port.                                                               *)
TargetPortFallback ==
  IF acting.portRemote THEN owner[acting.dst][1] ELSE Gateway

TargetPort ==
  IF acting.portRemote THEN owner[acting.dst][1]
  ELSE IF acting.dst = Gateway THEN Gateway ELSE None

(* Frame and port are both the gateway's. *)
ActLocal ==
  /\ Acted /\ acting.t # "drop" /\ ~FrameRemote /\ ~acting.portRemote
  /\ DeliverLocal(Gateway, TargetPort, acting.fid, Consume)
  /\ UNCHANGED <<down, remote, peerVars, counted>>

(* Our frame, their port: push the payload across the mesh. *)
ActPush ==
  /\ Acted /\ acting.t # "drop" /\ ~FrameRemote /\ acting.portRemote
  /\ Push(Gateway, Target, TargetPort, acting.fid, Consume)
  /\ UNCHANGED <<down, remote, got>>

(* An instruction is out; when it consumes the frame, the gateway has yet  *)
(* to forget the frame, and takes l.mu anew for that.                      *)
Sent == Acting /\ acting' = IF Consume THEN [acting EXCEPT !.t = "sent"] ELSE Idle

(* One edge owns both: forward the verdict. *)
ActForward ==
  /\ Sent /\ acting.t # "drop" /\ FrameRemote
  /\ acting.portRemote /\ acting.rf.conn = acting.dst
  /\ Instruct(acting.dst, Instruction(acting.t, acting.rf.fid, Target, TargetPort))
  /\ UNCHANGED <<buf, remote, peerVars, got, taken, counted>>

(* Tell the ingress edge to push its payload to the egress loft. *)
ActRemote ==
  /\ Sent /\ acting.t # "drop" /\ FrameRemote
  /\ ~(acting.portRemote /\ acting.rf.conn = acting.dst)
  /\ Instruct(acting.rf.conn,
              Instruction(IF Consume THEN "push" ELSE "pushCopy", acting.rf.fid, Target, TargetPort))
  /\ UNCHANGED <<buf, remote, peerVars, got, taken, counted>>

(* Mutant of Forget: the frame stays booked until the gateway's sweep.     *)
ForgetNothing ==
  /\ acting.t = "sent" /\ acting' = Idle
  /\ UNCHANGED <<loftVars, trunkVars, gwVars, router, shown, verdicts, peerVars, history>>

Forget ==
  /\ acting.t = "sent" /\ acting' = Idle
  /\ remote' = Without(remote, {acting.fid})
  /\ UNCHANGED <<loftVars, trunkVars, serving, registered, router, shown, verdicts, peerVars,
                 history>>

(* A drop forgets a remote frame first, and tells its edge then.           *)
ActDrop ==
  /\ Acted /\ acting.t = "drop"
  /\ \/ /\ FrameRemote
        /\ remote' = Without(remote, {acting.fid})
        /\ Instruct(acting.rf.conn, Instruction("drop", acting.rf.fid, Gateway, None))
        /\ UNCHANGED <<buf, counted>>
     \/ ~FrameRemote /\ DropLocal(Gateway, acting.fid) /\ UNCHANGED <<down, remote>>
  /\ UNCHANGED <<peerVars, got, taken>>

(* readLoop: the edge carries an instruction out. *)
EdgeReads(e) ==
  LET k == trunk[e]
      m == Head(down[k])
  IN  /\ k # None /\ down[k] # <<>>
      /\ down' = [down EXCEPT ![k] = Tail(@)]
      /\ \/ /\ m.t \in {"deliver", "copy"}
            /\ DeliverLocal(e, m.port, m.fid, m.t = "deliver")
            /\ UNCHANGED <<peerVars, counted>>
         \/ /\ m.t \in {"push", "pushCopy"}
            /\ Push(e, m.to, m.port, m.fid, m.t = "push")
            /\ UNCHANGED got
         \/ /\ m.t = "drop"
            /\ DropLocal(e, m.fid)
            /\ UNCHANGED <<peerVars, got, taken>>
      /\ UNCHANGED <<boot, port, nextFID, trunk, owner, broken, up, gwVars, routerVars, ordered,
                     torn>>

-----------------------------------------------------------------------------
Next ==
  \/ \E e \in Edges : Dial(e) \/ EdgeNotices(e) \/ Restart(e) \/ IngestAtEdge(e) \/ EdgeReads(e)
  \/ \E k \in Conns : RegisterPort(k) \/ UnregisterPort(k) \/ Break(k) \/ EdgeGone(k)
                      \/ GatewayToken(k)
  \/ \E n \in Lofts : RemovePort(n) \/ \E f \in FrameIds : Expire(n, f)
  \/ \E s, d \in Lofts : ServePeer(s, d)
  \/ IngestAtGateway \/ \E s \in FrameIds : ExpireRemote(s)
  \/ RouterAttaches \/ RouterLeaves
  \/ \E t \in {"deliver", "copy", "drop"}, dst \in {Gateway} \cup Conns, f \in FrameIds :
       Lookup(t, dst, f)
  \/ ActLocal \/ ActPush \/ ActForward \/ ActRemote \/ Forget \/ ActDrop

Spec == Init /\ [][Next]_vars

-----------------------------------------------------------------------------
Buffers == UNION {[ids -> BOOLEAN] : ids \in SUBSET FrameIds}
Books   == UNION {[ids -> [conn : Conns, fid : FrameIds]] : ids \in SUBSET FrameIds}
Instrs  == [t : {"deliver", "copy", "push", "pushCopy", "drop"}, fid : FrameIds, to : Lofts,
            port : Lofts \cup {None}]
Lookups == [t : {"deliver", "copy", "drop", "sent"}, dst : {Gateway} \cup Conns, fid : FrameIds,
            rf : [conn : Conns \cup {None}, fid : FrameIds], portRemote : BOOLEAN]
Injects == [frame : Frames, port : Lofts \cup {None}, kind : {"deliver", "copy"}]

(* Every variable has its type. *)
TypeOK ==
  /\ boot \in [Lofts -> 1..MaxBoots] /\ port \subseteq Lofts
  /\ buf \in [Lofts -> Buffers] /\ nextFID \in [Lofts -> 1..(MaxFrames + 1)]
  /\ trunk \in [Edges -> Conns \cup {None}]
  /\ owner \in Seq(Edges \X (1..MaxBoots)) /\ Len(owner) <= MaxConns
  /\ broken \subseteq Conns /\ registered \subseteq serving /\ serving \subseteq DOMAIN owner
  /\ up \in [Conns -> Seq(FrameIds)] /\ down \in [Conns -> Seq(Instrs)]
  /\ remote \in Books
  /\ router \in BOOLEAN /\ shown \subseteq FrameIds /\ verdicts \in 0..MaxVerdicts
  /\ acting \in Lookups \cup {Idle}
  /\ link \in [Lofts -> [Lofts -> {"none", "open", "stale"}]]
  /\ wire \in [Lofts -> [Lofts -> Seq(Injects)]]
  /\ {ordered, got} \subseteq SUBSET (Frames \X Pods \X {"deliver", "copy"})
  /\ taken \in [Frames -> Nat] /\ counted \subseteq Frames /\ torn \subseteq Frames

(* The gateway's book of remote frames is sound: no entry outlives its     *)
(* trunk, no frame of an edge is booked twice, and no id stands for a      *)
(* remote frame and for one of the gateway's own.                          *)
BookSound ==
  /\ TypeOK
  /\ \A s \in DOMAIN remote : remote[s].conn \in serving /\ s \notin DOMAIN buf[Gateway]
  /\ \A s, t \in DOMAIN remote : remote[s] = remote[t] => s = t

(* Whatever breaks, restarts and is decided twice: a payload is consumed   *)
(* at most once, and a frame that was consumed is not in a buffer.         *)
ConsumedOnce ==
  \A n \in Lofts, f \in FrameIds :
    taken[Frame(n, f)] <= 1 /\ (f \in DOMAIN buf[n] => taken[Frame(n, f)] = 0)

(* Every delivery that happens is one the router ordered: that frame, that *)
(* kind, to that pod - or, when the loft restarted meanwhile, to the pod that has   *)
(* the same port id now.                                                   *)
DeliveredAsOrdered ==
  \A d \in got : \E o \in ordered :
    d[1] = o[1] /\ d[3] = o[3] /\ d[2][1] = o[2][1] /\ d[2][2] >= o[2][2]

(* A frame that was consumed by a delivery that arrived is a drop as well  *)
(* - of a sweep, of a router, of a push that failed or of a trunk's end -  *)
(* only in two ways: a copy of it was ordered too, whose push may fail on  *)
(* its own, or its trunk ended just after the consuming instruction had    *)
(* left on it and before the gateway forgot the frame.                     *)
Arrived(f) == \E d \in got : d[1] = f /\ d[3] = "deliver"
Copied(f)  == \E o \in ordered : o[1] = f /\ o[3] = "copy"

OneFate == \A f \in counted : Arrived(f) => Copied(f) \/ f \in torn

(* Every frame that enters a loft ends in exactly one state: without a     *)
(* copy of it, none is delivered and counted as a drop (pigeon-api.md).    *)
ExactlyOneState == \A f \in counted : Arrived(f) => Copied(f)
=============================================================================
