------------------------------- MODULE Pigeons -------------------------------
(***************************************************************************)
(* The game's PigeonManager: frames waiting at their roosts, the pigeons   *)
(* that carry them over the floor, the clones a machine with several exits *)
(* makes of them, and the verdict each frame ends with.  A clone shares    *)
(* its frame with the original, frameRefs counts them, and only the last   *)
(* to land or fall decides the frame.  What the floor does to a pigeon is  *)
(* left open, since the player may rebuild it at any time.  All of a tick  *)
(* runs in one call of update(), so tokens arrive between ticks only.      *)
(***************************************************************************)
EXTENDS Naturals, Sequences, Functions

CONSTANTS
  MaxFrames,    \* bound: frame ids a loft gives in one life
  MaxRestarts,  \* bound: restarts of the loft, after which ids start over
  MaxPigeons,   \* MAX_PIGEONS
  MaxQueue,     \* MAX_QUEUE
  MaxAsked      \* bound: clones one pigeon asks for in a tick

ASSUME PigeonsAssumption ==
  /\ {MaxFrames, MaxRestarts, MaxPigeons, MaxQueue, MaxAsked} \subseteq Nat
  /\ MaxQueue > 0

Frames == 1..MaxFrames

VARIABLES
  phase,        \* where update() is: "idle" between ticks, "spawn", "fly"
  queue,        \* this.queue, tokens by their frame id
  flock,        \* flock[f]: how many of this.pigeons carry frame f
  due,          \* due[f]: how many of them update() has still to move
  refs,         \* this.frameRefs, 0 where the map has no entry
  backlog,      \* this.cloneBacklog, by the frame of the pigeon that asked
  nextFID,      \* the id of the loft's next frame
  restarts,     \* restarts so far
  arrived,      \* history: frames whose token came
  verdicts,     \* history: consuming verdicts since the token of f came
                \* last, where more than one count as two
  spoiled       \* history: frames whose count a full flock, or an id that
                \* came back while it was still in use, has put out of step

loftVars == <<nextFID, restarts>>
vars == <<phase, queue, flock, due, refs, backlog, loftVars, arrived, verdicts, spoiled>>

FlockSize == SumFunction(flock)

Full == FlockSize >= MaxPigeons

Waiting == {queue[i] : i \in 1..Len(queue)}

(* A deliver or drop of f is sent, after those of v.                       *)
Decide(v, f) == [v EXCEPT ![f] = IF @ = 0 THEN 1 ELSE 2]

Init ==
  /\ phase = "idle" /\ queue = <<>> /\ backlog = <<>>
  /\ flock = [f \in Frames |-> 0] /\ due = flock /\ refs = flock
  /\ nextFID = 1 /\ restarts = 0
  /\ arrived = {} /\ verdicts = [f \in Frames |-> 0] /\ spoiled = {}

-----------------------------------------------------------------------------
(* The loft sends a token, or restarts; the floor keeps its pigeons.       *)

(* A queue that is full loses its oldest token, which is dropped.          *)
Enqueue ==
  LET f == nextFID
      pushed == Append(queue, f)
      fresh == [verdicts EXCEPT ![f] = 0]
  IN
  /\ phase = "idle" /\ f \in Frames
  /\ IF Len(pushed) > MaxQueue
       THEN queue' = Tail(pushed) /\ verdicts' = Decide(fresh, Head(pushed))
       ELSE queue' = pushed /\ verdicts' = fresh
  /\ nextFID' = f + 1
  /\ arrived' = arrived \cup {f}
  /\ spoiled' = IF f \in Waiting \/ flock[f] > 0 THEN spoiled \cup {f} ELSE spoiled \ {f}
  /\ UNCHANGED <<phase, flock, due, refs, backlog, restarts>>

Restart ==
  /\ phase = "idle" /\ restarts < MaxRestarts
  /\ restarts' = restarts + 1 /\ nextFID' = 1
  /\ UNCHANGED <<phase, queue, flock, due, refs, backlog, arrived, verdicts, spoiled>>

-----------------------------------------------------------------------------
(* One tick: tokens take off, each pigeon moves, clones are made.          *)

(* Mutant of Release: the last reference goes like the others.             *)
ReleaseLastSilently(f) ==
  IF refs[f] > 0
    THEN refs' = [refs EXCEPT ![f] = @ - 1] /\ UNCHANGED verdicts
    ELSE refs' = [refs EXCEPT ![f] = 0] /\ verdicts' = Decide(verdicts, f)

(* A pigeon of f is gone: with others left that is one reference less, and *)
(* nothing or a copy; the last one decides the frame.                      *)
Release(f) ==
  IF refs[f] > 1
    THEN refs' = [refs EXCEPT ![f] = @ - 1] /\ UNCHANGED verdicts
    ELSE refs' = [refs EXCEPT ![f] = 0] /\ verdicts' = Decide(verdicts, f)

Tick ==
  /\ phase = "idle" /\ phase' = "spawn"
  /\ UNCHANGED <<queue, flock, due, refs, backlog, loftVars, arrived, verdicts, spoiled>>

(* A token whose port has no roost on the floor is dropped.                *)
Spawn(roosts) ==
  LET f == Head(queue) IN
  /\ phase = "spawn" /\ queue # <<>> /\ ~Full
  /\ queue' = Tail(queue)
  /\ IF roosts
       THEN /\ flock' = [flock EXCEPT ![f] = @ + 1]
            /\ refs' = [refs EXCEPT ![f] = 1]
            /\ UNCHANGED verdicts
       ELSE /\ verdicts' = Decide(verdicts, f)
            /\ UNCHANGED <<flock, refs>>
  /\ UNCHANGED <<phase, due, backlog, loftVars, arrived, spoiled>>

TakeOff ==
  /\ phase = "spawn" /\ (queue = <<>> \/ Full)
  /\ phase' = "fly" /\ due' = flock
  /\ UNCHANGED <<queue, flock, refs, backlog, loftVars, arrived, verdicts, spoiled>>

(* A pigeon of f asks for `asked` clones on its way.  It may ask and still *)
(* be kept back by a blocked exit, and it may ask and land in one tick.    *)
Asks(f, asked) ==
  /\ phase = "fly" /\ due[f] > 0
  /\ due' = [due EXCEPT ![f] = @ - 1]
  /\ backlog' = backlog \o [i \in 1..asked |-> f]

FlyOn(f, asked) ==
  /\ Asks(f, asked)
  /\ UNCHANGED <<phase, queue, flock, refs, loftVars, arrived, verdicts, spoiled>>

(* It reaches a landing, or a switch filters its frame.                    *)
Depart(f, asked) ==
  /\ Asks(f, asked)
  /\ flock' = [flock EXCEPT ![f] = @ - 1]
  /\ Release(f)
  /\ UNCHANGED <<phase, queue, loftVars, arrived, spoiled>>

AllMoved == phase = "fly" /\ \A f \in Frames : due[f] = 0

(* A clone for which the flock is too large gives back a reference it did  *)
(* not take.                                                               *)
RefuseClone ==
  LET f == Head(backlog) IN
  /\ AllMoved /\ backlog # <<>> /\ Full
  /\ backlog' = Tail(backlog)
  /\ Release(f)
  /\ spoiled' = spoiled \cup {f}
  /\ UNCHANGED <<phase, queue, flock, due, loftVars, arrived>>

(* Mutant of Clonable: clones are made of decided frames, too.             *)
ClonableAnyway(f, blocked) == ~blocked

(* None is made of a frame that has been decided, or at a blocked exit.    *)
Clonable(f, blocked) == refs[f] > 0 /\ ~blocked

Clone(blocked) ==
  LET f == Head(backlog) IN
  /\ AllMoved /\ backlog # <<>> /\ ~Full
  /\ backlog' = Tail(backlog)
  /\ IF Clonable(f, blocked)
       THEN /\ refs' = [refs EXCEPT ![f] = @ + 1]
            /\ flock' = [flock EXCEPT ![f] = @ + 1]
       ELSE UNCHANGED <<flock, refs>>
  /\ UNCHANGED <<phase, queue, due, loftVars, arrived, verdicts, spoiled>>

TickDone ==
  /\ AllMoved /\ backlog = <<>> /\ phase' = "idle"
  /\ UNCHANGED <<queue, flock, due, refs, backlog, loftVars, arrived, verdicts, spoiled>>

Next ==
  \/ Enqueue \/ Restart
  \/ Tick \/ TakeOff \/ TickDone \/ RefuseClone
  \/ \E b \in BOOLEAN : Spawn(b) \/ Clone(b)
  \/ \E f \in Frames, asked \in 0..MaxAsked : FlyOn(f, asked) \/ Depart(f, asked)

Spec == Init /\ [][Next]_vars

-----------------------------------------------------------------------------
TypeOK ==
  /\ phase \in {"idle", "spawn", "fly"}
  /\ queue \in Seq(Frames) /\ backlog \in Seq(Frames)
  /\ flock \in [Frames -> Nat] /\ due \in [Frames -> Nat] /\ refs \in [Frames -> Nat]
  /\ nextFID \in 1..(MaxFrames + 1) /\ restarts \in 0..MaxRestarts
  /\ arrived \subseteq Frames /\ spoiled \subseteq Frames
  /\ verdicts \in [Frames -> 0..2]

(* Neither restarts of the loft nor a full flock nor a full queue make the *)
(* game forget a frame: one without a verdict has a token in the queue or  *)
(* a pigeon on the floor that will bring one (enqueue, spawn, unref).      *)
NoFrameForgotten ==
  \A f \in arrived : verdicts[f] = 0 => f \in Waiting \/ flock[f] > 0

(* As long as no clone of it was refused for want of room, and its id did  *)
(* not come back, frameRefs counts the pigeons of a frame exactly, and the *)
(* frame is decided once, by the last of them (resolve, unref).            *)
OneVerdict ==
  \A f \in Frames \ spoiled :
    /\ refs[f] = flock[f]
    /\ \/ verdicts[f] = 0
       \/ verdicts[f] = 1 /\ flock[f] = 0 /\ f \notin Waiting

(* What both rest on: a frame without a verdict that has left the queue    *)
(* has a reference, there are no more references than pigeons, and an      *)
(* unspoiled frame is in one place only.                                   *)
Owed == \A f \in arrived : verdicts[f] = 0 => f \in Waiting \/ refs[f] > 0

Covered == \A f \in Frames : refs[f] <= flock[f] /\ due[f] <= flock[f]

OnePlace ==
  \A i, j \in 1..Len(queue) :
    queue[i] \notin spoiled => flock[queue[i]] = 0 /\ (queue[i] = queue[j] => i = j)

Inv == Owed /\ Covered /\ OnePlace /\ OneVerdict

(* "Every token you receive must end in exactly one of two states":        *)
(* delivered or dropped (protocol/README.md:24).  A clone that is refused  *)
(* drops the frame of a pigeon that flies on, and delivers it later.       *)
EndsInOneState == \A f \in Frames : verdicts[f] <= 1

=============================================================================
