--------------------------------- MODULE Build ---------------------------------
(***************************************************************************)
(* The ballpit's construction layer: parts on the cells of a grid, which   *)
(* the player places and erases, and a dock and a sink for every port,     *)
(* placed on cells the port's turn decides.  Physics is told of each       *)
(* change, and all parts are persisted.  How high and in which direction a *)
(* part stands is left out.                                                *)
(***************************************************************************)
EXTENDS Naturals, FiniteSets, Sequences, SequencesExt

CONSTANTS
  Cells,      \* cells of the grid
  Circle,     \* the cells of docks and sinks, by turn: a sequence of pairs
  MaxDockIds  \* bound: port ids of a session

ASSUME BuildAssumption ==
  /\ Circle \in Seq(Cells \X Cells) /\ Circle # <<>> /\ MaxDockIds \in Nat

DockIds == 1..MaxDockIds
Unset   == 0            \* no port
Empty   == [type |-> "none", port |-> Unset]
Tools   == {"deck", "belt", "dock", "sink"}
Part(type, port) == [type |-> type, port |-> port]

VARIABLES
  portList,   \* loft-game's ports, in the order they came
  parts,      \* parts: what stands on a cell
  turn,       \* autoSlot: a port's turn, counted from 1
  turns,      \* nextSlot: the turns given
  selected,   \* selectedPort
  solid,      \* physics: the parts it has
  running,    \* physics: the cells it moves balls on
  stored      \* the parts in localStorage

buildVars == <<portList, parts, turn, turns, selected, solid, running, stored>>

BuildInit ==
  /\ portList = <<>> /\ parts = [c \in Cells |-> Empty]
  /\ turn = [i \in DockIds |-> Unset] /\ turns = 0 /\ selected = Unset
  /\ solid = parts /\ running = {} /\ stored = parts

Belts(ps)        == {c \in Cells : ps[c].type = "belt"}
HasPart(ps, t, i) == \E c \in Cells : ps[c] = Part(t, i)

(* The pieces of the state that placing changes.                           *)
Site == [parts |-> parts, solid |-> solid, running |-> running, turn |-> turn, turns |-> turns]

-----------------------------------------------------------------------------
(* Parts come and go.                                                      *)

(* Mutant of Removed: a belt that is taken away still moves balls.         *)
RemovedQuietly(w, c) == [w EXCEPT !.parts[c] = Empty, !.solid[c] = Empty]

(* Belts are told again when one is gone.                                  *)
Removed(w, c) ==
  [w EXCEPT !.parts[c] = Empty, !.solid[c] = Empty,
            !.running = IF w.parts[c].type = "belt" THEN Belts(w.parts) \ {c} ELSE @]

(* What stands on the cell makes room.                                     *)
Placed(w, c, part) ==
  LET cleared == Removed(w, c)
      after   == [cleared.parts EXCEPT ![c] = part] IN
  [cleared EXCEPT !.parts = after, !.solid[c] = part,
                  !.running = IF part.type = "belt" THEN Belts(after) ELSE @]

(* The circle of turns closes: a turn's cells are an earlier turn's.       *)
AutoPlaced(w, i) ==
  LET pair == Circle[1 + ((w.turn[i] - 1) % Len(Circle))] IN
  Placed(Placed(w, pair[1], Part("dock", i)), pair[2], Part("sink", i))

InTurn(w, i) ==
  LET known == IF w.turn[i] # Unset THEN w
               ELSE [w EXCEPT !.turn[i] = w.turns + 1, !.turns = @ + 1] IN
  IF HasPart(known.parts, "dock", i) THEN known ELSE AutoPlaced(known, i)

Rebuilt(w) ==
  /\ parts' = w.parts /\ solid' = w.solid /\ running' = w.running
  /\ turn' = w.turn /\ turns' = w.turns

(* Every port gets a turn when it is first seen, and a dock if it has      *)
(* none.  Auto-placing saves.                                              *)
SyncPorts(list) ==
  /\ portList' = list
  /\ selected' = IF selected \in ToSet(list) THEN selected
                 ELSE IF list = <<>> THEN Unset ELSE Head(list)
  /\ LET w == FoldLeft(InTurn, Site, list) IN
       /\ Rebuilt(w)
       /\ stored' = IF \E i \in ToSet(list) : ~HasPart(parts, "dock", i) THEN w.parts ELSE stored

-----------------------------------------------------------------------------
(* What the loft reports.                                                  *)

OnHello(list) == SyncPorts(list)

OnPortAdded(i) == i \notin ToSet(portList) /\ SyncPorts(Append(portList, i))

OnPortRemoved(i) ==
  \E n \in DOMAIN portList : portList[n] = i /\ SyncPorts(RemoveAt(portList, n))

-----------------------------------------------------------------------------
(* What the player does.                                                   *)

CyclePort ==
  /\ portList # <<>>
  /\ selected' = IF selected \notin ToSet(portList) THEN Head(portList)
                 ELSE portList[1 + (SelectInSeq(portList, LAMBDA i : i = selected) % Len(portList))]
  /\ UNCHANGED <<portList, parts, turn, turns, solid, running, stored>>

(* A dock or a sink is for the selected port, of which there must be one.  *)
Click(tool, c) ==
  /\ tool \in {"dock", "sink"} => selected # Unset
  /\ LET w == Placed(Site, c, Part(tool, IF tool \in {"dock", "sink"} THEN selected ELSE Unset)) IN
       Rebuilt(w) /\ stored' = w.parts
  /\ UNCHANGED <<portList, selected>>

Erase(c) ==
  /\ parts[c] # Empty
  /\ Rebuilt(Removed(Site, c)) /\ stored' = parts'
  /\ UNCHANGED <<portList, selected>>

(* All stored parts are placed anew.                                       *)
Loaded(ps) == [Site EXCEPT !.parts = ps, !.solid = ps, !.running = Belts(ps)]

(* The page is loaded again: turns start over, docks stand where they did. *)
ReloadPage ==
  /\ Rebuilt([Loaded(stored) EXCEPT !.turn = [i \in DockIds |-> Unset], !.turns = 0])
  /\ portList' = <<>> /\ selected' = Unset
  /\ UNCHANGED stored

BuildNext ==
  \/ \E list \in BoundedSeq(DockIds, 2) : IsInjective(list) /\ OnHello(list)
  \/ \E i \in DockIds : OnPortAdded(i) \/ OnPortRemoved(i)
  \/ CyclePort
  \/ \E c \in Cells : Erase(c) \/ \E tool \in Tools : Click(tool, c)
  \/ ReloadPage

-----------------------------------------------------------------------------
BuildTypeOK ==
  /\ portList \in Seq(DockIds) /\ IsInjective(portList)
  /\ parts \in [Cells -> [type : Tools \cup {"none"}, port : DockIds \cup {Unset}]]
  /\ turn \in [DockIds -> 0..turns] /\ turns <= MaxDockIds
  /\ selected \in {Unset} \cup ToSet(portList)

(* Whatever replaces what, and across reloads: physics has exactly the     *)
(* parts that stand and moves balls on the belts alone, and storage keeps  *)
(* what stands.                                                            *)
PhysicsMirrors == solid = parts /\ running = Belts(parts) /\ stored = parts
=============================================================================
