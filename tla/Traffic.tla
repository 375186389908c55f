------------------------------- MODULE Traffic -------------------------------
(***************************************************************************)
(* Pigeons on the floor: where each machine sends the one that stands on   *)
(* it, which cells let it in, and the clones that leave by further exits.  *)
(* Rules, rates and tables are left open: a machine takes any of its       *)
(* exits, a switch forwards, floods or filters.  The player builds on      *)
(* while pigeons fly.  How many pigeons a frame has, and when it is        *)
(* decided, is module Pigeons.                                             *)
(***************************************************************************)
EXTENDS Machinery

CONSTANT MaxBirds  \* bound: pigeons on the floor at a time

(* A belt, a midi machine and a learner have one way out, a filter and a   *)
(* meter two.                                                              *)
ASSUME TrafficAssumption ==
  /\ MaxBirds \in Nat
  /\ \A m \in Machines :
       /\ m.type \in {"belt", "midi", "learn", "filter", "meter"} => m.exits[1] \in 0..3
       /\ m.type \in {"filter", "meter"} => m.exits[2] \in 0..3

VARIABLE birds     \* pigeons by a number: their cell, the one they ride to,
                   \* travelDir, their state, the switch that sent them last
                   \* (through), whether the floor was changed since they
                   \* last set off (stale), and how often they have been
                   \* repeated where they stand (asked, up to 2)

trafficVars == <<machineryVars, birds>>

Numbers == 1..MaxBirds
NoBird  == [state |-> "none"]
Flying  == {n \in Numbers : birds[n] # NoBird}

Emission(c, d, id) == [at |-> c, dir |-> d, through |-> id]

-----------------------------------------------------------------------------
(* routeFrom: the exits a machine may choose, each a sequence of emissions *)
(* of which all but the first are for clones; <<>> where there is none.    *)

HubExits(d) == Only(<<0, 1, 2, 3>>, (0..3) \ {Opposite(d)})

(* Forward to one other port, or flood to all of them.                     *)
SwitchExits(box, k) ==
  LET Lane(j) == Emission(box.ports[j].out, box.ports[j].dir, box.id)
      others == Only([j \in DOMAIN box.ports |-> j], DOMAIN box.ports \ {k})
  IN {<<Lane(j)>> : j \in ToSet(others)} \cup {[i \in DOMAIN others |-> Lane(others[i])]}

(* Waiting is possible on free floor, on a switch, and on an OUT lane that *)
(* a pigeon has not come out of.                                           *)
Exits(c, d) ==
  LET cell == floor.cells[c]
      Single(e) == <<Emission(c, e, NoApp)>>
  IN CASE cell.type \in {"belt", "midi", "learn"} -> {Single(cell.exits[1])}
       [] cell.type \in {"filter", "meter"} -> {Single(cell.exits[1]), Single(cell.exits[2])}
       [] cell.type = "lookup" -> {Single(e) : e \in 0..3}
       [] cell.type = "crossing" -> {Single(d)}
       [] cell.type = "roost" -> {Single(cell.dir)}
       [] cell.type = "hub" -> {[i \in DOMAIN HubExits(d) |-> Emission(c, HubExits(d)[i], NoApp)]}
       [] cell.type = "in" -> SwitchExits(BoxOf(floor, cell.app), cell.port)
       [] cell.type = "out" /\ cell.dir = d -> {<<Emission(c, d, cell.app)>>}
       [] OTHER -> {<<>>}

(* A switch may filter a frame, or have no other port.                     *)
MayDrop(c) == floor.cells[c].type = "in"

(* Mutant of Enterable: OUT lanes let pigeons in.                          *)
EnterableBackwards(from, d) ==
  LET to == Beside(from, d) IN
  /\ to \in Cells
  /\ floor.cells[to].type \notin {"roost", "body", "pending"}
  /\ ~(floor.cells[from].type = "roost" /\ floor.cells[to] = Free)

(* beginSegment: a pigeon sets off to a cell on the board that is no roost *)
(* and no wall, and leaves its roost for machines only.                    *)
Enterable(from, d) ==
  LET to == Beside(from, d) IN
  /\ to \in Cells
  /\ floor.cells[to].type \notin {"roost", "body", "pending", "out"}
  /\ ~(floor.cells[from].type = "roost" /\ floor.cells[to] = Free)

-----------------------------------------------------------------------------
Riding(e) ==
  [state |-> "riding", at |-> e.at, to |-> Beside(e.at, e.dir), dir |-> e.dir,
   through |-> e.through, stale |-> FALSE, asked |-> 0]

(* Clones take off where they can, as far as there is room.                *)
WithClones(bs, emissions) ==
  LET out  == Only(emissions, {e \in ToSet(emissions) : Enterable(e.at, e.dir)})
      room == SetToSortSeq({n \in Numbers : bs[n] = NoBird}, <)
      made == DOMAIN out \cap DOMAIN room
  IN [n \in Numbers |->
        IF \E i \in made : room[i] = n THEN Riding(out[CHOOSE i \in made : room[i] = n])
        ELSE bs[n]]

(* take: the clones are asked for first; the pigeon itself is moved to the *)
(* exit before it is known to be open, and waits there if it is not.       *)
Taken(n, bird, emissions) ==
  LET first == emissions[1]
      moved == IF Enterable(first.at, first.dir) THEN Riding(first)
               ELSE [bird EXCEPT !.state = "waiting", !.at = first.at, !.through = first.through,
                                 !.asked = IF Len(emissions) > 1 /\ @ < 2 THEN @ + 1 ELSE @]
  IN WithClones([birds EXCEPT ![n] = moved], Tail(emissions))

(* The machinery it stands on decides where it goes.                       *)
Routed(n, bird) ==
  \/ \E emissions \in Exits(bird.at, bird.dir) :
       birds' = IF emissions = <<>> THEN [birds EXCEPT ![n] = [bird EXCEPT !.state = "waiting"]]
                ELSE Taken(n, bird, emissions)
  \/ MayDrop(bird.at) /\ birds' = [birds EXCEPT ![n] = NoBird]

Spawn(n, h) ==
  /\ n \notin Flying /\ slotOf[h] # NoSlot
  /\ birds' = [birds EXCEPT ![n] =
       [state |-> "waiting", at |-> SLOTS[slotOf[h]].roost, to |-> NoCell, dir |-> 0,
        through |-> NoApp, stale |-> FALSE, asked |-> 0]]
  /\ UNCHANGED machineryVars

(* Every tick a waiting pigeon tries again.                                *)
TryAgain(n) ==
  /\ n \in Flying /\ birds[n].state = "waiting"
  /\ Routed(n, birds[n])
  /\ UNCHANGED machineryVars

(* One on its way arrives, is delivered, or goes on from there.            *)
Arrive(n) ==
  /\ n \in Flying /\ birds[n].state = "riding"
  /\ LET here == [birds[n] EXCEPT !.at = birds[n].to, !.asked = 0] IN
     IF floor.cells[here.at].type = "landing" THEN birds' = [birds EXCEPT ![n] = NoBird]
     ELSE Routed(n, here)
  /\ UNCHANGED machineryVars

(* The floor changes under them.                                           *)
Rebuild ==
  /\ FloorStep
  /\ birds' = [n \in Numbers |->
                 IF birds[n] = NoBird THEN NoBird ELSE [birds[n] EXCEPT !.stale = TRUE]]

(* A refresh forgets them.                                                 *)
ReloadPage ==
  /\ ReloadFloor
  /\ birds' = [n \in Numbers |-> NoBird]

TrafficInit == MachineryInit /\ birds = [n \in Numbers |-> NoBird]

TrafficNext ==
  \/ \E n \in Numbers : TryAgain(n) \/ Arrive(n) \/ \E h \in Hosts : Spawn(n, h)
  \/ Rebuild \/ ReloadPage

TrafficSpec == TrafficInit /\ [][TrafficNext]_trafficVars

-----------------------------------------------------------------------------
TrafficTypeOK ==
  \A n \in Flying :
    /\ birds[n].state \in {"waiting", "riding"} /\ birds[n].at \in Cells
    /\ birds[n].to \in Cells \cup {NoCell} /\ birds[n].dir \in 0..3
    /\ birds[n].through \in AppIds \cup {NoApp} /\ birds[n].stale \in BOOLEAN
    /\ birds[n].asked \in 0..2

(* Unless the floor was changed under it, a pigeon is never inside the     *)
(* body of a switch, nor on an OUT lane other than of the switch that sent *)
(* it there, nor on another's roost: IN lanes are the only way in          *)
(* (beginSegment, take, routeAppliance).                                   *)
NoWayThroughWalls ==
  \A n \in Flying :
    LET cell == floor.cells[birds[n].at] IN
    ~birds[n].stale =>
      /\ cell.type \notin {"body", "pending"}
      /\ cell.type = "out" => cell.app = birds[n].through
      /\ cell.type = "roost" => birds[n].state = "waiting" \/ birds[n].dir = cell.dir

WallsHold == TrafficTypeOK /\ NoWayThroughWalls

(* "A dumb repeater: every frame out every exit except back the way it     *)
(* came" (machines.ts:14): once for each exit.                             *)
HubRepeatsOnce ==
  \A n \in Flying : floor.cells[birds[n].at].type = "hub" => birds[n].asked <= 1
=============================================================================
