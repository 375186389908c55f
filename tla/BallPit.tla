-------------------------------- MODULE BallPit --------------------------------
(***************************************************************************)
(* The ballpit with its physics in a web worker.  The page turns a token   *)
(* into a spawn message, its parts into part messages, and what the worker *)
(* reports as gone into verdicts; the worker creates its world in the      *)
(* background and keeps what comes before that.  Where balls roll is left  *)
(* open: in a step, any of them may touch any catch sensor, or fall out.   *)
(***************************************************************************)
EXTENDS Naturals, FiniteSets, Sequences, SequencesExt

CONSTANTS
  Frames,     \* frame ids; an id that is free again stands for a new one
  NoFrame,
  Places,     \* cells a sink can be built on, which are the ids of parts
  SinkPorts,  \* ports a sink can be for
  NoSink,
  MaxBalls,   \* maxBalls of the world
  MaxMsgs     \* bound: messages to the worker that wait, and from it

ASSUME BallPitAssumption ==
  /\ NoFrame \notin Frames /\ NoSink \notin SinkPorts
  /\ MaxBalls \in Nat \ {0} /\ MaxMsgs \in Nat \ {0}

BallSlots == 1..MaxBalls
NoSlot    == 0

VARIABLES
  issued,    \* frames the loft waits for a verdict on
  built,     \* Build: built[c] is the port of the sink on c
  toWorker,  \* messages to the worker, the oldest first
  toMain,    \* messages from the worker
  created,   \* the worker's sim is there
  early,     \* its queue of messages that came before
  sinks,     \* sinkByCollider, by the part it belongs to
  balls,     \* balls: a frame's slot
  body,      \* ballByCollider: the frame of the body that has a slot
  free,      \* slots of no body
  aged,      \* slots of bodies older than TTL_MS
  pending,   \* pendingSpawned
  frameSlot, \* the client's frameSlot
  active     \* the client's activeSlots

workerVars  == <<created, early, sinks, balls, body, free, aged, pending>>
clientVars  == <<frameSlot, active>>
ballPitVars == <<issued, built, toWorker, toMain, workerVars, clientVars>>

BallPitInit ==
  /\ issued = {} /\ built = [c \in Places |-> NoSink]
  /\ toWorker = <<>> /\ toMain = <<>>
  /\ created = FALSE /\ early = <<>> /\ sinks = built
  /\ balls = [f \in Frames |-> NoSlot] /\ body = [s \in BallSlots |-> NoFrame]
  /\ free = BallSlots /\ aged = {} /\ pending = {}
  /\ frameSlot = balls /\ active = {}

SpawnMsg(f)      == [t |-> "spawn", frame |-> f]
PartMsg(c, p)    == [t |-> "part", place |-> c, port |-> p]
UnpartMsg(c)     == [t |-> "unpart", place |-> c]
SpawnedMsg(S)    == [t |-> "spawned", items |-> S]
GoneMsg(D, L)    == [t |-> "gone", delivered |-> D, dropped |-> L]

Bring(msg) == Len(toWorker) < MaxMsgs /\ toWorker' = Append(toWorker, msg)

(* Messages that may still bring a ball of f about, and those that end it. *)
SpawnsOf(f) ==
  {i \in 1..Len(early) : early[i] = SpawnMsg(f)}
    \cup {Len(early) + i : i \in {j \in 1..Len(toWorker) : toWorker[j] = SpawnMsg(f)}}
Reports(msg, f) ==
  msg.t = "gone" /\ (f \in msg.dropped \/ \E p \in SinkPorts : <<f, p>> \in msg.delivered)
GonesOf(f) == {i \in 1..Len(toMain) : Reports(toMain[i], f)}
InPit(f)   == balls[f] # NoSlot \/ SpawnsOf(f) # {} \/ GonesOf(f) # {}

-----------------------------------------------------------------------------
(* The page: tokens, the player's sinks, verdicts.                         *)

(* A frame comes in; without a dock for its port it is dropped at once.    *)
(* An id whose last ball still rolls is not given again: bound of the      *)
(* model, which a loft that restarts may exceed.                           *)
OnToken(f) ==
  /\ f \notin issued /\ ~InPit(f)
  /\ \/ Bring(SpawnMsg(f)) /\ issued' = issued \cup {f}
     \/ UNCHANGED <<toWorker, issued>>
  /\ UNCHANGED <<built, toMain, workerVars, clientVars>>

(* The loft restarts, and knows no frame of before: the balls roll on.     *)
LoftRestart ==
  /\ issued # {} /\ issued' = {}
  /\ UNCHANGED <<built, toWorker, toMain, workerVars, clientVars>>

(* place: what stands on the cell is removed first.                        *)
PlaceSink(c, p) ==
  /\ built[c] # p /\ Bring(PartMsg(c, p))
  /\ built' = [built EXCEPT ![c] = p]
  /\ UNCHANGED <<issued, toMain, workerVars, clientVars>>

RemoveSink(c) ==
  /\ built[c] # NoSink /\ Bring(UnpartMsg(c))
  /\ built' = [built EXCEPT ![c] = NoSink]
  /\ UNCHANGED <<issued, toMain, workerVars, clientVars>>

Told(msg) == {f \in Frames : Reports(msg, f)}

(* onGone: a verdict for every entry of the two lists; the loft heeds the   *)
(* first one of a frame.                                                   *)
OnGone(msg) ==
  /\ frameSlot' = [f \in Frames |-> IF f \in Told(msg) THEN NoSlot ELSE frameSlot[f]]
  /\ active' = active \ {frameSlot[f] : f \in Told(msg)}
  /\ issued' = issued \ Told(msg)

OnSpawned(msg) ==
  /\ frameSlot' = [f \in Frames |->
       IF \E item \in msg.items : item.frame = f
         THEN (CHOOSE item \in msg.items : item.frame = f).slot ELSE frameSlot[f]]
  /\ active' = active \cup {item.slot : item \in msg.items}
  /\ UNCHANGED issued

MainReceive ==
  /\ toMain # <<>> /\ toMain' = Tail(toMain)
  /\ LET msg == Head(toMain) IN
       \/ msg.t = "gone" /\ OnGone(msg)
       \/ msg.t = "spawned" /\ OnSpawned(msg)
  /\ UNCHANGED <<built, toWorker, workerVars>>

-----------------------------------------------------------------------------
(* The worker: its world, and messages for it.                             *)

(* What handling a message does to the world of the worker.                *)
World == [sinks |-> sinks, balls |-> balls, body |-> body, free |-> free,
          pending |-> pending, out |-> <<>>]

(* Mutant of Spawned: with no slot free the frame is forgotten.            *)
SpawnedSilently(w, f) ==
  IF w.free = {} THEN w
  ELSE LET s == CHOOSE t \in w.free : TRUE IN
       [w EXCEPT !.free = @ \ {s}, !.balls[f] = s, !.body[s] = f,
                 !.pending = @ \cup {[frame |-> f, slot |-> s]}]

(* A ball gets a slot, or is reported as dropped.                          *)
Spawned(w, f) ==
  IF w.free = {} THEN [w EXCEPT !.out = Append(@, GoneMsg({}, {f}))]
  ELSE LET s == CHOOSE t \in w.free : TRUE IN
       [w EXCEPT !.free = @ \ {s}, !.balls[f] = s, !.body[s] = f,
                 !.pending = @ \cup {[frame |-> f, slot |-> s]}]

Handled(w, msg) ==
  CASE msg.t = "part"   -> [w EXCEPT !.sinks[msg.place] = msg.port]
    [] msg.t = "unpart" -> [w EXCEPT !.sinks[msg.place] = NoSink]
    [] msg.t = "spawn"  -> Spawned(w, msg.frame)

Becomes(w) ==
  /\ sinks' = w.sinks /\ balls' = w.balls /\ body' = w.body /\ free' = w.free
  /\ pending' = w.pending /\ toMain' = toMain \o w.out

(* Mutant of Keep: what comes before the world is there is lost.           *)
KeepNothing(msg) == UNCHANGED <<early, sinks, balls, body, free, pending, toMain>>

Keep(msg) ==
  early' = Append(early, msg) /\ UNCHANGED <<sinks, balls, body, free, pending, toMain>>

WorkerReceive ==
  /\ toWorker # <<>> /\ toWorker' = Tail(toWorker)
  /\ IF created THEN Len(toMain) < MaxMsgs ELSE Len(early) <= MaxMsgs
  /\ IF created THEN Becomes(Handled(World, Head(toWorker))) /\ UNCHANGED early
     ELSE Keep(Head(toWorker))
  /\ UNCHANGED <<issued, built, created, aged, clientVars>>

(* The world is there: what came early is handled in the order it came.    *)
Create ==
  /\ ~created /\ created' = TRUE
  /\ Becomes(FoldLeft(Handled, World, early)) /\ early' = <<>>
  /\ UNCHANGED <<issued, built, toWorker, aged, clientVars>>

-----------------------------------------------------------------------------
(* A step of the world.                                                    *)

GrowOld(s) ==
  /\ body[s] # NoFrame /\ s \notin aged /\ aged' = aged \cup {s}
  /\ UNCHANGED <<issued, built, toWorker, toMain, created, early, sinks, balls, body, free,
                 pending, clientVars>>

Rolling      == {f \in Frames : balls[f] # NoSlot}
InReach      == {sinks[c] : c \in Places} \ {NoSink}
Contacts(T)  == {<<body[s], p>> : s \in T, p \in InReach}

(* Mutant of Report: what is gone is told before what was spawned.         *)
ReportGoneFirst(delivered, dropped) ==
  (IF delivered \cup dropped = {} THEN <<>> ELSE <<GoneMsg(delivered, dropped)>>)
    \o (IF pending = {} THEN <<>> ELSE <<SpawnedMsg(pending)>>)

Report(delivered, dropped) ==
  (IF pending = {} THEN <<>> ELSE <<SpawnedMsg(pending)>>)
    \o (IF delivered \cup dropped = {} THEN <<>> ELSE <<GoneMsg(delivered, dropped)>>)

Despawned(delivered, dropped) ==
  dropped \cup {f \in Rolling : \E p \in SinkPorts : <<f, p>> \in delivered}

(* Any bodies may come into sinks, of two that overlap into both; any      *)
(* balls fall out of the world, and all that are too old go.  A ball may   *)
(* be in both lists: it is despawned after both are made.                  *)
Step ==
  /\ created /\ Len(toMain) < MaxMsgs
  /\ \E T \in SUBSET {s \in BallSlots : body[s] # NoFrame} : \E delivered \in SUBSET Contacts(T) :
       \E out \in SUBSET Rolling :
         LET dropped == out \cup {f \in Rolling : balls[f] \in aged}
             dead    == Despawned(delivered, dropped)
             emptied == {balls[f] : f \in dead} IN
         /\ \A s \in T : \E p \in SinkPorts : <<body[s], p>> \in delivered
         /\ balls' = [f \in Frames |-> IF f \in dead THEN NoSlot ELSE balls[f]]
         /\ body' = [s \in BallSlots |-> IF s \in emptied THEN NoFrame ELSE body[s]]
         /\ free' = free \cup emptied /\ aged' = aged \ emptied
         /\ toMain' = toMain \o Report(delivered, dropped)
         /\ pending' = {}
  /\ UNCHANGED <<issued, built, toWorker, created, early, sinks, clientVars>>

PlayerStep == \E c \in Places : RemoveSink(c) \/ \E p \in SinkPorts : PlaceSink(c, p)
WorkerStep == WorkerReceive \/ Create \/ Step

BallPitNext ==
  \/ \E f \in Frames : OnToken(f)
  \/ LoftRestart \/ PlayerStep \/ MainReceive \/ WorkerStep
  \/ \E s \in BallSlots : GrowOld(s)

(* Both event loops go on, and so does time.                               *)
BallPitFairness ==
  /\ WF_ballPitVars(MainReceive) /\ WF_ballPitVars(WorkerReceive)
  /\ WF_ballPitVars(Create) /\ SF_ballPitVars(Step)
  /\ \A s \in BallSlots : WF_ballPitVars(GrowOld(s))

-----------------------------------------------------------------------------
BallPitTypeOK ==
  /\ issued \subseteq Frames /\ built \in [Places -> SinkPorts \cup {NoSink}]
  /\ sinks \in [Places -> SinkPorts \cup {NoSink}]
  /\ balls \in [Frames -> BallSlots \cup {NoSlot}] /\ body \in [BallSlots -> Frames \cup {NoFrame}]
  /\ free \subseteq BallSlots /\ aged \subseteq BallSlots \ free
  /\ frameSlot \in [Frames -> BallSlots \cup {NoSlot}] /\ active \subseteq BallSlots
  /\ early = <<>> \/ ~created

(* No ball is lost between the threads: a frame the loft waits for is on   *)
(* its way to the worker, or one ball in one slot, or reported as gone,    *)
(* and only once.                                                          *)
FrameInOnePlace ==
  \A f \in Frames :
    LET places == Cardinality(SpawnsOf(f)) + Cardinality({s \in BallSlots : body[s] = f})
                    + Cardinality(GonesOf(f)) IN
    IF f \in issued THEN places = 1 ELSE places <= 1

(* Once all messages are read, the worker has the sinks that were built,   *)
(* whatever came before its world was there, and the page draws a ball for *)
(* each slot that is taken.                                                *)
ThreadsAgree ==
  (toWorker = <<>> /\ toMain = <<>> /\ created) =>
    /\ sinks = built
    /\ pending = {} => (active = BallSlots \ free /\ frameSlot = balls)

(* Every frame is decided in the end: delivered, or dropped for its age.   *)
BallsDecided == \A f \in Frames : (f \in issued) ~> (f \notin issued)
=============================================================================
