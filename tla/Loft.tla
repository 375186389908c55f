-------------------------------- MODULE Loft --------------------------------
(***************************************************************************)
(* One loftd without trunks: ports come and go, their readers release      *)
(* frames into the buffer and tokenize them to the router consumer, router *)
(* connections bump one another and send verdicts, observers look on, and  *)
(* housekeeping expires what nobody decided.  Every action is what one     *)
(* goroutine does in one l.mu critical section, or one blocking write to a *)
(* socket.  What the consumers are told about ports is module              *)
(* ConsumerView, the gateway and edge roles are modules Trunk and          *)
(* MeshFrames.                                                             *)
(***************************************************************************)
EXTENDS LoftBuffer, Sequences

CONSTANTS
  Routers,      \* router connections that may ever attach
  Observers,    \* read-only connections that may attach
  Sluggish,     \* those of both whose peer may stop reading for a while
  NoRouter,     \* l.client = nil
  MaxPorts,     \* bound: ports ever added
  MaxFrames,    \* bound: frames ever admitted
  MaxRx,        \* bound: frames a port's reader ever reads
  MaxInbox      \* bound: verdicts a router has in flight

ASSUME LoftAssumption ==
  /\ NoRouter \notin Routers \cup Observers /\ Routers \cap Observers = {}
  /\ Sluggish \subseteq Routers \cup Observers
  /\ MaxPorts \in Nat /\ MaxFrames \in Nat /\ MaxRx \in Nat /\ MaxInbox \in Nat

VARIABLES
  ports,        \* ids in l.byID
  nextID,       \* l.nextID
  readers,      \* ports whose readLoop (or agent loop) is still running
  sending,      \* sending[p]: frame whose token p's reader still has to send, or 0
  frames,       \* l.frames
  nextFID,      \* l.nextFID
  announced,    \* frames whose token reached a consumer
  client,       \* l.client
  conn,         \* conn[r]: life of router connection r
  inbox,        \* inbox[r]: verdicts of r not yet read by the loft
  stalled,      \* connections whose peer has stopped reading
  watching,     \* l.observers
  telling,      \* telling[g]: observers to whom goroutine g still has to write
  hk,           \* housekeeping's next step: to sweep, or to report to the router
  overflowing,  \* l.overflowing
  noGame,       \* l.noGame
  rxFrames, dropsOverflow, dropsTTL, dropsConsumer,  \* each port's counters
  ledger,       \* history: ledger[f], how frame f left the loft, in order
  flown         \* history: frames of which a copy was written out

portVars    == <<ports, nextID, readers>>
bufferVars  == <<frames, nextFID, sending, announced, overflowing>>
routerVars  == <<client, conn, inbox, stalled>>
counterVars == <<noGame, rxFrames, dropsOverflow, dropsTTL, dropsConsumer>>
history     == <<ledger, flown>>
reportVars  == <<watching, telling, hk>>
vars == <<portVars, bufferVars, routerVars, counterVars, history, reportVars>>

PortIds  == 1..MaxPorts
FrameIds == 1..MaxFrames

(* The goroutines that broadcast: the ports' readers, and housekeeping.    *)
Housekeeper == 0
Goroutines  == PortIds \cup {Housekeeper}

(* A verdict of the router: deliver, copy-deliver (to a port) or drop.     *)
Verdicts == [t : {"deliver", "copy"}, port : PortIds, fid : FrameIds]
              \cup [t : {"drop"}, port : {0}, fid : FrameIds]

(* The ways out of the buffer: by which decision, from which ingress port. *)
Exits == [how : {"delivered", "freed", "consumer", "ttl"}, port : PortIds]

NoCounts == [p \in PortIds |-> 0]

Init ==
  /\ ports = {} /\ nextID = 1 /\ readers = {}
  /\ frames = <<>> /\ nextFID = 1
  /\ sending = [p \in PortIds |-> 0] /\ announced = {}
  /\ client = NoRouter
  /\ conn = [r \in Routers |-> "new"]
  /\ inbox = [r \in Routers |-> <<>>]
  /\ stalled = {}
  /\ watching = {} /\ telling = [g \in Goroutines |-> {}]
  /\ hk = "sweep"
  /\ overflowing = FALSE
  /\ noGame = 0
  /\ rxFrames = NoCounts /\ dropsOverflow = NoCounts
  /\ dropsTTL = NoCounts /\ dropsConsumer = NoCounts
  /\ ledger = [f \in FrameIds |-> <<>>]
  /\ flown = {}

-----------------------------------------------------------------------------
(* Port lifecycle.                                                         *)

(* addPort and the registration half of servePort. *)
AddPort ==
  /\ nextID <= MaxPorts
  /\ ports' = ports \cup {nextID}
  /\ readers' = readers \cup {nextID}
  /\ nextID' = nextID + 1
  /\ UNCHANGED <<bufferVars, routerVars, counterVars, history, reportVars>>

(* scanLoop no longer sees the port's file, or the agent hung up. *)
RemovePort(p) ==
  /\ p \in ports
  /\ ports' = ports \ {p}
  /\ UNCHANGED <<nextID, readers, bufferVars, routerVars, counterVars, history, reportVars>>

(* Port p's reader waits for a frame: it has no write left to do.          *)
Idle(p) == p \in readers /\ sending[p] = 0 /\ telling[p] = {}

(* The receive fails: the port's file was closed under the reader, its     *)
(* interface went down, or its agent hung up.  A veth port whose reader    *)
(* stopped stays registered for as long as its file is there.              *)
ReaderExit(p) ==
  /\ Idle(p)
  /\ readers' = readers \ {p}
  /\ UNCHANGED <<ports, nextID, bufferVars, routerVars, counterVars, history, reportVars>>

-----------------------------------------------------------------------------
(* Frame ingress: ingest, called by the reader of port p.                  *)

CanRead(p) == Idle(p) /\ rxFrames[p] < MaxRx

(* No router: the frame never happened. *)
IngestNoRouter(p) ==
  /\ CanRead(p) /\ client = NoRouter
  /\ rxFrames' = [rxFrames EXCEPT ![p] = @ + 1]
  /\ noGame' = noGame + 1
  /\ UNCHANGED <<portVars, bufferVars, routerVars, dropsOverflow, dropsTTL, dropsConsumer,
                 history, reportVars>>

(* The buffer is at its limit.  The onset of shedding is narrated (and     *)
(* remembered) unless the last narration is less than two seconds old.     *)
IngestOverflow(p) ==
  /\ CanRead(p) /\ client # NoRouter /\ Full(frames)
  /\ rxFrames' = [rxFrames EXCEPT ![p] = @ + 1]
  /\ dropsOverflow' = [dropsOverflow EXCEPT ![p] = @ + 1]
  /\ overflowing' \in {overflowing, TRUE}
  /\ UNCHANGED <<portVars, frames, nextFID, sending, announced, routerVars,
                 noGame, dropsTTL, dropsConsumer, history, reportVars>>

IngestAdmit(p) ==
  /\ CanRead(p) /\ client # NoRouter /\ ~Full(frames)
  /\ nextFID <= MaxFrames
  /\ rxFrames' = [rxFrames EXCEPT ![p] = @ + 1]
  /\ frames' = Store(frames, nextFID, p)
  /\ nextFID' = nextFID + 1
  /\ sending' = [sending EXCEPT ![p] = nextFID]
  /\ overflowing' = (overflowing /\ ~Drained(frames'))
  /\ UNCHANGED <<portVars, announced, routerVars, noGame, dropsOverflow, dropsTTL,
                 dropsConsumer, history, reportVars>>

Ingest(p) == IngestNoRouter(p) \/ IngestOverflow(p) \/ IngestAdmit(p)

(* sendToRouter, after l.mu was released: it looks l.client up again, and  *)
(* blocks while that router does not read.  The write may go to a socket   *)
(* whose other end is gone.  The observers come next: those of now.        *)
SendToken(p) ==
  /\ sending[p] # 0
  /\ client \notin stalled
  /\ sending' = [sending EXCEPT ![p] = 0]
  /\ \/ client # NoRouter /\ announced' = announced \cup {sending[p]}
     \/ announced' = announced
  /\ telling' = [telling EXCEPT ![p] = watching]
  /\ UNCHANGED <<portVars, frames, nextFID, overflowing, routerVars, counterVars, history,
                 watching, hk>>

-----------------------------------------------------------------------------
(* Router connections: attachConsumer.                                     *)

(* A new router closes the old one and takes its place. *)
Attach(r) ==
  /\ conn[r] = "new"
  /\ client' = r
  /\ conn' = [c \in Routers |->
                IF c = r THEN "open" ELSE IF c = client THEN "bumped" ELSE conn[c]]
  /\ UNCHANGED <<portVars, bufferVars, inbox, stalled, counterVars, history, reportVars>>

(* Mutant of HangUp: whichever connection ends detaches the router.        *)
HangUpAny(r) ==
  /\ conn[r] \in {"open", "bumped"}
  /\ conn' = [conn EXCEPT ![r] = "gone"]
  /\ inbox' = [inbox EXCEPT ![r] = <<>>]
  /\ stalled' = stalled \ {r}
  /\ client' = NoRouter
  /\ UNCHANGED <<portVars, bufferVars, counterVars, history, reportVars>>

(* The read loop ends: the router left, or its bumped connection fails.    *)
(* What the loft had not read of it is lost.                               *)
HangUp(r) ==
  /\ conn[r] \in {"open", "bumped"}
  /\ conn' = [conn EXCEPT ![r] = "gone"]
  /\ inbox' = [inbox EXCEPT ![r] = <<>>]
  /\ stalled' = stalled \ {r}
  /\ client' = IF client = r THEN NoRouter ELSE client
  /\ UNCHANGED <<portVars, bufferVars, counterVars, history, reportVars>>

(* The router decides a frame it has a token for; a port id it may name    *)
(* is one the loft gave out, alive or not.                                 *)
SendVerdict(r) ==
  /\ conn[r] = "open" /\ Len(inbox[r]) < MaxInbox
  /\ \E v \in Verdicts :
       /\ v.fid \in announced /\ v.port < nextID
       /\ inbox' = [inbox EXCEPT ![r] = Append(@, v)]
  /\ UNCHANGED <<portVars, bufferVars, client, conn, stalled, counterVars, history, reportVars>>

(* The peer of connection c stops reading its socket, and goes on.         *)
Stall(c) ==
  /\ c \in watching \cup {r \in Routers : conn[r] = "open"}
  /\ c \in Sluggish \ stalled
  /\ stalled' = stalled \cup {c}
  /\ UNCHANGED <<portVars, bufferVars, client, conn, inbox, counterVars, history, reportVars>>

Resume(c) ==
  /\ c \in stalled
  /\ stalled' = stalled \ {c}
  /\ UNCHANGED <<portVars, bufferVars, client, conn, inbox, counterVars, history, reportVars>>

-----------------------------------------------------------------------------
(* Observers: attachConsumer and eachObserver.                             *)

Watch(o) ==
  /\ o \notin watching
  /\ watching' = watching \cup {o}
  /\ UNCHANGED <<portVars, bufferVars, routerVars, counterVars, history, telling, hk>>

(* The observer is gone: whoever was writing to it, or was still to, has   *)
(* the write fail at once and goes on.                                     *)
Unwatch(o) ==
  /\ o \in watching
  /\ watching' = watching \ {o}
  /\ telling' = [g \in Goroutines |-> telling[g] \ {o}]
  /\ stalled' = stalled \ {o}
  /\ UNCHANGED <<portVars, bufferVars, client, conn, inbox, counterVars, history, hk>>

(* One write of a broadcast: it blocks while observer o does not read.     *)
Tell(g, o) ==
  /\ o \in telling[g] \ stalled
  /\ telling' = [telling EXCEPT ![g] = @ \ {o}]
  /\ UNCHANGED <<portVars, bufferVars, routerVars, counterVars, history, watching, hk>>

-----------------------------------------------------------------------------
(* Verdicts: consumerMsg, in the read loop of connection r.  A connection  *)
(* that was bumped is closed, but what its reader had already received is  *)
(* still processed.                                                        *)

Read(r) ==
  /\ conn[r] \in {"open", "bumped"} /\ inbox[r] # <<>>
  /\ inbox' = [inbox EXCEPT ![r] = Tail(@)]
  /\ UNCHANGED <<portVars, nextFID, sending, announced, overflowing,
                 client, conn, stalled, noGame, rxFrames, dropsOverflow, dropsTTL, reportVars>>

(* Frame f leaves the buffer. *)
Departure(f, how) == [how |-> how, port |-> frames[f].port]

Depart(f, how) == ledger' = [ledger EXCEPT ![f] = Append(@, Departure(f, how))]

(* deliverLocal *)
DeliverLocal(r) ==
  LET v == Head(inbox[r])
      consume == v.t = "deliver"
  IN  /\ Read(r)
      /\ v.t \in {"deliver", "copy"}
      /\ UNCHANGED dropsConsumer
      /\ \/ /\ v.fid \in DOMAIN frames /\ v.port \in ports
            /\ frames' = Hand(frames, v.fid, consume)
            /\ IF consume
               THEN Depart(v.fid, "delivered") /\ UNCHANGED flown
               ELSE flown' = flown \cup {v.fid} /\ UNCHANGED ledger
         \/ /\ v.fid \notin DOMAIN frames \/ v.port \notin ports
            /\ UNCHANGED <<frames, history>>

(* dropLocal *)
DropLocal(r) ==
  LET v == Head(inbox[r])
      f == v.fid
  IN  /\ Read(r)
      /\ v.t = "drop"
      /\ UNCHANGED flown
      /\ \/ /\ f \in DOMAIN frames /\ frames[f].copied
            /\ frames' = Delete(frames, {f})
            /\ Depart(f, "freed")
            /\ UNCHANGED dropsConsumer
         \/ /\ f \in DOMAIN frames /\ ~frames[f].copied
            /\ frames' = Delete(frames, {f})
            /\ Depart(f, "consumer")
            /\ dropsConsumer' = [p \in PortIds |->
                                   IF p \in ports /\ p = frames[f].port
                                   THEN dropsConsumer[p] + 1 ELSE dropsConsumer[p]]
         \/ /\ f \notin DOMAIN frames
            /\ UNCHANGED <<frames, dropsConsumer, ledger>>

-----------------------------------------------------------------------------
(* Housekeeping, once a second: evict under l.mu, then write the stats to  *)
(* the router and to each observer, which blocks as long as the one it     *)
(* writes to does not read.                                                *)

(* Mutant of StaleFrom: a port is charged for all its frames.              *)
AllFrom(p) == {f \in DOMAIN frames : frames[f].port = p}

StaleFrom(p) == {f \in Stale(frames) : frames[f].port = p}

Sweep ==
  /\ hk = "sweep" /\ telling[Housekeeper] = {} /\ hk' = "stats"
  /\ frames' = Swept(frames)
  /\ dropsTTL' = [p \in PortIds |->
                    IF p \in ports THEN dropsTTL[p] + Cardinality(StaleFrom(p))
                    ELSE dropsTTL[p]]
  /\ ledger' = [f \in FrameIds |->
                  IF f \in Stale(frames)
                  THEN Append(ledger[f], Departure(f, "ttl"))
                  ELSE ledger[f]]
  /\ UNCHANGED <<portVars, nextFID, sending, announced, overflowing, routerVars,
                 noGame, rxFrames, dropsOverflow, dropsConsumer, flown, watching, telling>>

(* Mutant of SendStats: housekeeping waits for a router to report to.      *)
SendStatsAttended ==
  /\ hk = "stats" /\ hk' = "sweep"
  /\ client # NoRouter /\ client \notin stalled
  /\ telling' = [telling EXCEPT ![Housekeeper] = watching]
  /\ UNCHANGED <<portVars, bufferVars, routerVars, counterVars, history, watching>>

SendStats ==
  /\ hk = "stats" /\ hk' = "sweep"
  /\ client \notin stalled
  /\ telling' = [telling EXCEPT ![Housekeeper] = watching]
  /\ UNCHANGED <<portVars, bufferVars, routerVars, counterVars, history, watching>>

-----------------------------------------------------------------------------
PortStep == AddPort \/ \E p \in PortIds :
              RemovePort(p) \/ ReaderExit(p) \/ Ingest(p) \/ SendToken(p)

RouterStep == \E r \in Routers :
                Attach(r) \/ HangUp(r) \/ SendVerdict(r)

ObserverStep == \E o \in Observers :
                  Watch(o) \/ Unwatch(o) \/ \E g \in Goroutines : Tell(g, o)

PeerStep == \E c \in Sluggish : Stall(c) \/ Resume(c)

VerdictStep == \E r \in Routers : DeliverLocal(r) \/ DropLocal(r)

Next ==
  PortStep \/ RouterStep \/ ObserverStep \/ PeerStep \/ VerdictStep \/ Sweep \/ SendStats

Spec == Init /\ [][Next]_vars

(* The loft's goroutines keep running: the ticker never stops, read loops  *)
(* take what was received, and a blocked write goes through once the peer  *)
(* it waits for reads again and again.                                     *)
Fairness ==
  /\ WF_vars(Sweep) /\ SF_vars(SendStats)
  /\ \A p \in PortIds : SF_vars(SendToken(p))
  /\ \A g \in Goroutines, o \in Observers : SF_vars(Tell(g, o))
  /\ \A r \in Routers : WF_vars(DeliverLocal(r) \/ DropLocal(r))

LiveSpec == Spec /\ Fairness

(* Not the loft's doing: no router and no observer stops reading for good, *)
(* each reads again or its connection ends.                                *)
Attentive == \A c \in Sluggish : WF_vars(Resume(c))

-----------------------------------------------------------------------------
(* Every variable has its type.                                            *)
PortType ==
  ports \subseteq PortIds /\ readers \subseteq PortIds /\ nextID \in 1..(MaxPorts + 1)

FramesType ==
  DOMAIN frames \subseteq FrameIds /\ frames \in [DOMAIN frames -> BufFrame(PortIds)]

TokenType ==
  /\ nextFID \in 1..(MaxFrames + 1)
  /\ sending \in [PortIds -> 0..MaxFrames]
  /\ announced \subseteq FrameIds

RouterType ==
  /\ client \in Routers \cup {NoRouter}
  /\ conn \in [Routers -> {"new", "open", "bumped", "gone"}]
  /\ inbox \in [Routers -> Seq(Verdicts)]
  /\ stalled \subseteq Routers \cup Observers

CounterType ==
  /\ noGame \in Nat
  /\ rxFrames \in [PortIds -> Nat] /\ dropsOverflow \in [PortIds -> Nat]
  /\ dropsTTL \in [PortIds -> Nat] /\ dropsConsumer \in [PortIds -> Nat]

HistoryType == ledger \in [FrameIds -> Seq(Exits)] /\ flown \subseteq FrameIds

ObserverType ==
  /\ watching \subseteq Observers
  /\ telling \in [Goroutines -> SUBSET Observers]

FlagType == hk \in {"sweep", "stats"} /\ overflowing \in BOOLEAN

TypeOK ==
  /\ PortType /\ FramesType /\ TokenType /\ RouterType /\ CounterType /\ HistoryType
  /\ ObserverType /\ FlagType

-----------------------------------------------------------------------------
(* Every frame that enters the buffer leaves it exactly once: a frame that *)
(* was admitted and is gone has one exit on record, a buffered one none -  *)
(* whoever decided it (two routers, the sweep) and in whatever order.      *)
OneWayOut ==
  \A f \in FrameIds :
    Len(ledger[f]) = IF f < nextFID /\ f \notin DOMAIN frames THEN 1 ELSE 0

(* The frames of port p on record as having left in a given way. *)
Left(f, how, p) == \E i \in DOMAIN ledger[f] : ledger[f][i].how = how /\ ledger[f][i].port = p
ExitsOf(how, p) == {f \in FrameIds : Left(f, how, p)}

ExactFor(p) ==
  /\ dropsTTL[p] = Cardinality(ExitsOf("ttl", p))
  /\ dropsConsumer[p] = Cardinality(ExitsOf("consumer", p))

(* The drop counters of a port that is still there are exact: drops.ttl    *)
(* and drops.consumer are the numbers of its frames that expired and that  *)
(* a router dropped, whatever happened to other ports meanwhile.           *)
CountersExact == \A p \in ports : ExactFor(p)

(* A loft never holds more than maxBuffered frames. *)
BufferBound == Cardinality(DOMAIN frames) <= MaxBuffered

(* Freeing a frame that was copy-delivered is no consumer drop, and only   *)
(* such a frame is freed (a flood is copy-deliver ... then drop).          *)
FloodIsNoDrop ==
  \A f \in FrameIds : \A i \in DOMAIN ledger[f] :
    /\ ledger[f][i].how = "consumer" => f \notin flown
    /\ ledger[f][i].how = "freed" => f \in flown

(* The attached router is the one open connection: a bumped connection     *)
(* that fails later does not detach the router that bumped it.             *)
RouterKept == \A r \in Routers : conn[r] = "open" <=> client = r

(* The stages of the abstract lifecycle the loft's state stands for. *)
StageAfter(how) ==
  IF how = "consumer" THEN "dropped" ELSE IF how = "ttl" THEN "expired" ELSE "delivered"

StageOf(f) ==
  IF f \in DOMAIN frames THEN IF f \in flown THEN "copied" ELSE "held"
  ELSE IF ledger[f] = <<>> THEN "unseen" ELSE StageAfter(ledger[f][1].how)

Life == INSTANCE FrameLifecycle
          WITH Frames <- FrameIds, stage <- [f \in FrameIds |-> StageOf(f)]

(* The loft implements the frame lifecycle: no frame is decided twice,     *)
(* comes back after a decision, or is dropped by a router after a copy of  *)
(* it went out.                                                            *)
Lifecycle == Life!LifeSpec

(* Why the above is inductive: ids are handed out in order, so that what   *)
(* is buffered or on record belongs to ports and frames of the past, and a *)
(* port without a past has clean counters; the copied flag of a buffered   *)
(* frame says whether a copy of it is out.                                 *)
PastIds ==
  /\ \A p \in ports \cup readers : p < nextID
  /\ \A f \in DOMAIN frames : f < nextFID /\ frames[f].port < nextID
  /\ \A f \in flown : f < nextFID
  /\ \A f \in FrameIds : \A i \in DOMAIN ledger[f] : ledger[f][i].port < nextID

CleanPorts == \A p \in PortIds : p >= nextID => ExactFor(p)

CopiedFlag == \A f \in DOMAIN frames : frames[f].copied <=> f \in flown

Inv ==
  /\ OneWayOut /\ CountersExact /\ BufferBound /\ FloodIsNoDrop /\ RouterKept
  /\ PastIds /\ CleanPorts /\ CopiedFlag

(* Every variable has its type and all of the above holds: the invariant   *)
(* of ingest, deliverLocal, dropLocal and housekeeping taken together.     *)
IInv == TypeOK /\ Inv

(* Housekeeping empties the loft: a frame nobody decides does not stay.    *)
FramesLeave == \A f \in FrameIds : f \in DOMAIN frames ~> f \notin DOMAIN frames

=============================================================================
