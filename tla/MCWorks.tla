-------------------------------- MODULE MCWorks --------------------------------
(***************************************************************************)
(* The game's floor: what is built and who moves in (part floor), the same *)
(* with a player at it (bench), or with pigeons on it (traffic); a meter   *)
(* and the named tables.  A behaviour is one of one part, and TLC explores *)
(* all of them in a run.                                                   *)
(***************************************************************************)
EXTENDS Workbench, Traffic, Meter, Tables, TLC

CONSTANT
  MaxEdits  \* bound: changes of the floor under pigeons

VARIABLES part, edits

vars == <<part, edits, trafficVars, handVars, meterVars, tablesVars>>

Machine(type, exits) == [type |-> type, exits |-> exits]

(* Two slots that face each other across three columns.                    *)
TwoSlots == << [roost |-> <<0, 0>>, landing |-> <<2, 0>>, facing |-> 0],
               [roost |-> <<2, 1>>, landing |-> <<0, 1>>, facing |-> 2] >>
FewMachines == {Machine("belt", <<0>>), Machine("hub", <<>>),
                Machine("filter", <<0, 1>>), Machine("filter", <<2, 1>>)}

(* The pigeons' streets: at the first slot a switch of two ports, wired    *)
(* one way or the other, or at the second slot a hub.                      *)
Town(slot) ==
  LET bare  == [cells |-> [c \in Cells |-> Free], boxes |-> <<>>]
      host  == CHOOSE h \in Hosts : TRUE
      front == << <<1, 0>>, <<1, 1>> >>
      side  == << <<0, 1>>, <<2, 1>> >>
      block == Laid(Roosted(bare, host, 1), 1, <<0, 0>>, <<2, 1>>)
  IN IF slot = 1 THEN {Rewired(block, 1, <<front, side>>),
                       Rewired(block, 1, <<Reverse(front), Reverse(side)>>)}
     ELSE {Roosted(Built(bare, <<1, 1>>, Machine("hub", <<>>)), host, slot)}

TownInit ==
  \E slot \in {1, 2} :
    /\ floor \in Town(slot) /\ store = Serialized(floor)
    /\ slotOf = [h \in Hosts |-> slot] /\ home = slotOf /\ scrapped = FALSE

(* Bounds: how much is built, where machines count twice on the floor, and *)
(* what the player has in hand.  On the floor filters stand for all        *)
(* machines, and the player's machines are on the first row.               *)
Weight(machine) ==
  machine * Cardinality(LooseOf(floor))
  + FoldFunction(+, 0, [i \in DOMAIN floor.boxes |-> 1 + Len(floor.boxes[i].ports)])
Hands == Cardinality({x \in {"held", "drag", "moving"} :
  \/ x = "held" /\ held # "nothing"
  \/ x = "drag" /\ drag # NoDrag
  \/ x = "moving" /\ moving # NoOne})

Small ==
  /\ part = "floor" => /\ Weight(2) <= 3
                       /\ \A loose \in LooseOf(floor) : loose[2].type = "filter"
  /\ part = "bench" => /\ Weight(1) <= 1 /\ Hands <= 1
                       /\ \A loose \in LooseOf(floor) : loose[1][2] = 0
                       /\ \A router \in RouterOf(floor) : \A c \in router[1] : c[2] = 0
                       /\ drag # NoDrag => drag[1][2] = 0 \/ drag[2][2] = 0

-----------------------------------------------------------------------------
Init ==
  /\ part \in {"floor", "bench", "traffic", "meter", "tables"}
  /\ IF part = "traffic" THEN TownInit ELSE MachineryInit
  /\ HandAtRest /\ birds = [n \in Numbers |-> NoBird] /\ edits = 0
  /\ TablesInit
  /\ MeterInit /\ (part # "meter" => \A l \in MeterLimits : limit <= l)

Fly == \E n \in Numbers : TryAgain(n) \/ Arrive(n) \/ \E h \in Hosts : Spawn(n, h)

BuildOn == edits < MaxEdits /\ edits' = edits + 1 /\ (Rebuild \/ ReloadPage)

Next ==
  \/ /\ part = "floor" /\ MachineryNext
     /\ UNCHANGED <<part, edits, birds, handVars, meterVars, tablesVars>>
     /\ Small'
  \/ /\ part = "bench" /\ WorkbenchNext
     /\ UNCHANGED <<part, edits, birds, meterVars, tablesVars>>
     /\ Small'
  \/ /\ part = "traffic" /\ ((Fly /\ UNCHANGED edits) \/ BuildOn)
     /\ UNCHANGED <<part, handVars, meterVars, tablesVars>>
  \/ /\ part = "meter" /\ MeterNext
     /\ UNCHANGED <<part, edits, trafficVars, handVars, tablesVars>>
  \/ /\ part = "tables" /\ TablesNext
     /\ UNCHANGED <<part, edits, trafficVars, handVars, meterVars>>

Spec == Init /\ [][Next]_vars
================================================================================
