------------------------------ MODULE Machinery ------------------------------
(***************************************************************************)
(* What the player builds on the game's board, and what of it is kept over *)
(* a refresh of the page: loose machines of one cell, switches that cover  *)
(* a rectangle of cells with ports on its edge, and the roosts and         *)
(* landings of hosts, which come and go and push out what is in their way. *)
(* The board keeps the cells and the switches in two maps, which have to   *)
(* agree.  What a machine does to frames is in Traffic.                    *)
(***************************************************************************)
EXTENDS Naturals, FiniteSets, Sequences, SequencesExt, Selection

CONSTANTS
  Cols, Rows,  \* COLS and ROWS
  SLOTS,       \* the perimeter slots: a cell to roost, one to land, a facing
  Machines,    \* what tools can place: a type, and the exits it is set up for
  Hosts,
  MaxBoxes     \* bound: switches, by their ids; one that is free again, and
               \* that nothing on the page remembers, stands for a new one

Cells  == (0..(Cols - 1)) \X (0..(Rows - 1))
NoCell == <<>>
AppIds == 1..MaxBoxes
NoApp  == 0
NoSlot == 0

(* What a cell holds. *)
Free          == [type |-> "free"]
Body(id)      == [type |-> "body", app |-> id]
Pending(id)   == [type |-> "pending", app |-> id]
In(id, k)     == [type |-> "in", app |-> id, port |-> k]
Out(id, k, d) == [type |-> "out", app |-> id, port |-> k, dir |-> d]
Roost(h, d)   == [type |-> "roost", host |-> h, dir |-> d]
Landing(h)    == [type |-> "landing", host |-> h]

IsHost(cell)  == cell.type \in {"roost", "landing"}
IsBox(cell)   == cell.type \in {"body", "pending", "in", "out"}
IsLoose(cell) == ~IsHost(cell) /\ ~IsBox(cell) /\ cell # Free

Standing(s) == {SLOTS[s].roost, SLOTS[s].landing}

(* No cell is of two slots, and what tools place is a machine of one cell. *)
ASSUME MachineryAssumption ==
  /\ {Cols, Rows, MaxBoxes} \subseteq Nat
  /\ SLOTS \in Seq([roost : Cells, landing : Cells, facing : 0..3])
  /\ \A s, t \in DOMAIN SLOTS : s # t => Standing(s) \cap Standing(t) = {}
  /\ \A s \in DOMAIN SLOTS : SLOTS[s].roost # SLOTS[s].landing
  /\ \A m \in Machines : IsLoose(m)

VARIABLES
  floor,      \* the maps: cells, and the switches in the order they were made
  store,      \* what localStorage has of them
  slotOf,     \* the slot a host stands on
  home,       \* slotByIdent: the slot a host comes back to
  scrapped    \* history: a host pushed machines out since the store was
              \* written

machineryVars == <<floor, store, slotOf, home, scrapped>>

BoxIds(f)  == {f.boxes[i].id : i \in DOMAIN f.boxes}
BoxOf(f, id) == CHOOSE b \in ToSet(f.boxes) : b.id = id

-----------------------------------------------------------------------------
(* Directions: 0 east, 1 south, 2 west, 3 north.                           *)

Beside(c, d) ==
  CASE d = 0 -> <<c[1] + 1, c[2]>>
    [] d = 1 -> <<c[1], c[2] + 1>>
    [] d = 2 -> <<c[1] - 1, c[2]>>
    [] d = 3 -> <<c[1], c[2] - 1>>

Opposite(d) == (d + 2) % 4

(* The sides on which a cell of a switch has no other; it faces the first  *)
(* of them, from north on.                                                 *)
OpenSides(cells, c) == {d \in 0..3 : Beside(c, d) \notin cells}
Facing(cells, c) ==
  CHOOSE d \in OpenSides(cells, c) :
    \A e \in OpenSides(cells, c) : (d + 1) % 4 <= (e + 1) % 4

Rectangle(a, b) ==
  {c \in Cells : \A i \in {1, 2} : c[i] \in a[i]..b[i] \/ c[i] \in b[i]..a[i]}

-----------------------------------------------------------------------------
(* The floor after one operation on it.                                    *)

(* Mutant of Cleared: of a switch only the cells that are needed go.       *)
ClearedInPart(f, S) ==
  [f EXCEPT !.cells = [c \in Cells |->
     IF c \in S /\ ~IsHost(f.cells[c]) THEN Free ELSE f.cells[c]]]

(* Machines are taken off some cells, and a switch as a whole.             *)
Cleared(f, S) ==
  LET hit == {f.cells[c].app : c \in {d \in S : IsBox(f.cells[d])}}
      gone == {b \in ToSet(f.boxes) : b.id \in hit}
  IN [cells |-> [c \in Cells |->
        IF (c \in S /\ ~IsHost(f.cells[c])) \/ \E b \in gone : c \in b.cells
          THEN Free ELSE f.cells[c]],
      boxes |-> Only(f.boxes, ToSet(f.boxes) \ gone)]

(* A machine is placed where no host stands.                               *)
Built(f, c, m) ==
  IF IsHost(f.cells[c]) THEN f ELSE [Cleared(f, {c}) EXCEPT !.cells[c] = m]

Footprint(f, a, b) == {c \in Rectangle(a, b) : ~IsHost(f.cells[c])}

(* A switch over the cells of a rectangle that no host has, if these are   *)
(* two or more.                                                            *)
Laid(f, id, a, b) ==
  LET under == Footprint(f, a, b)
      bare == Cleared(f, under)
  IN IF Cardinality(under) < 2 THEN f
     ELSE [cells |-> [c \in Cells |-> IF c \in under THEN Body(id) ELSE bare.cells[c]],
           boxes |-> Append(bare.boxes, [id |-> id, cells |-> under, ports |-> <<>>,
                                         pending |-> NoCell])]

WithBox(f, box) ==
  [f.boxes EXCEPT ![CHOOSE i \in DOMAIN f.boxes : f.boxes[i].id = box.id] = box]

(* The cells of a switch that are ports, by the index each port has.       *)
Lanes(cells, id, ports) ==
  [c \in Cells |->
     IF \E k \in DOMAIN ports : ports[k].in = c
       THEN In(id, CHOOSE k \in DOMAIN ports : ports[k].in = c)
     ELSE IF \E k \in DOMAIN ports : ports[k].out = c
       THEN LET k == CHOOSE l \in DOMAIN ports : ports[l].out = c IN Out(id, k, ports[k].dir)
     ELSE cells[c]]

PortRemoved(f, box, k) ==
  LET port == box.ports[k]
      rest == RemoveAt(box.ports, k)
      plain == [f.cells EXCEPT ![port.in] = Body(box.id), ![port.out] = Body(box.id)]
  IN [cells |-> Lanes(plain, box.id, rest), boxes |-> WithBox(f, [box EXCEPT !.ports = rest])]

HalfPlaced(f, box, c) ==
  [cells |-> [f.cells EXCEPT ![c] = Pending(box.id)],
   boxes |-> WithBox(f, [box EXCEPT !.pending = c])]

PortAdded(f, box, c) ==
  LET k == Len(box.ports) + 1
      port == [in |-> box.pending, out |-> c, dir |-> Facing(box.cells, c)]
  IN [cells |-> [f.cells EXCEPT ![port.in] = In(box.id, k), ![c] = Out(box.id, k, port.dir)],
      boxes |-> WithBox(f, [box EXCEPT !.ports = Append(@, port), !.pending = NoCell])]

(* A click on the edge of a switch removes the port that is there; of two  *)
(* others the first is where frames go in, the second where they come out. *)
Toggled(f, id, c) ==
  IF id \notin BoxIds(f) THEN f
  ELSE LET box == BoxOf(f, id)
           there == {k \in DOMAIN box.ports : c \in {box.ports[k].in, box.ports[k].out}}
       IN IF c \notin box.cells \/ OpenSides(box.cells, c) = {} THEN f
          ELSE IF there # {} THEN PortRemoved(f, box, CHOOSE k \in there : TRUE)
          ELSE IF box.pending = NoCell THEN HalfPlaced(f, box, c)
          ELSE IF box.pending = c THEN f
          ELSE PortAdded(f, box, c)

(* A host gets its slot, whatever was built there.                         *)
Roosted(f, h, s) ==
  LET slot == SLOTS[s]
      bare == Cleared(Cleared(f, {slot.roost}), {slot.landing})
  IN [bare EXCEPT !.cells = [@ EXCEPT ![slot.roost] = Roost(h, slot.facing),
                                      ![slot.landing] = Landing(h)]]

Unroosted(f, s) ==
  [f EXCEPT !.cells = [c \in Cells |->
     IF c \in Standing(s) /\ IsHost(@[c]) THEN Free ELSE @[c]]]

-----------------------------------------------------------------------------
(* What is written, and what is made of it when the page is loaded.        *)

(* Mutant of Serialized: ports are written by the cell they are placed at. *)
SerializedInOnly(f) ==
  [loose |-> [c \in Cells |-> IF IsLoose(f.cells[c]) THEN f.cells[c] ELSE Free],
   boxes |-> [i \in DOMAIN f.boxes |->
     [cells |-> f.boxes[i].cells,
      ports |-> [k \in DOMAIN f.boxes[i].ports |->
                   <<f.boxes[i].ports[k].in, f.boxes[i].ports[k].in>>]]]]

(* Of a switch its cells and the two cells of each port.                   *)
Serialized(f) ==
  [loose |-> [c \in Cells |-> IF IsLoose(f.cells[c]) THEN f.cells[c] ELSE Free],
   boxes |-> [i \in DOMAIN f.boxes |->
     [cells |-> f.boxes[i].cells,
      ports |-> [k \in DOMAIN f.boxes[i].ports |->
                   <<f.boxes[i].ports[k].in, f.boxes[i].ports[k].out>>]]]]

(* The corners of the cells of a switch.                                   *)
Least(cells)    == [i \in {1, 2} |-> CHOOSE n \in {c[i] : c \in cells} :
                                       \A c \in cells : n <= c[i]]
Greatest(cells) == [i \in {1, 2} |-> CHOOSE n \in {c[i] : c \in cells} :
                                       \A c \in cells : n >= c[i]]

(* The clicks that made the ports of a switch are repeated.                *)
Rewired(f, id, lanes) ==
  LET after[k \in 0..Len(lanes)] ==
        IF k = 0 THEN f ELSE Toggled(Toggled(after[k - 1], id, lanes[k][1]), id, lanes[k][2])
  IN after[Len(lanes)]

Redrawn(f, id, box) ==
  Rewired(Laid(f, id, Least(box.cells), Greatest(box.cells)), id, box.ports)

(* The loose machines first; then each switch is drawn again, corner to    *)
(* corner.                                                                 *)
Restored(s) ==
  LET after[i \in 0..Len(s.boxes)] ==
        IF i = 0 THEN [cells |-> s.loose, boxes |-> <<>>]
        ELSE Redrawn(after[i - 1], i, s.boxes[i])
  IN after[Len(s.boxes)]

(* nextApplianceId: the lowest id that is not remembered.                  *)
NewId(known) == {id \in AppIds \ known : 1..(id - 1) \subseteq known}

-----------------------------------------------------------------------------
MachineryInit ==
  /\ floor = [cells |-> [c \in Cells |-> Free], boxes |-> <<>>]
  /\ store = Serialized(floor)
  /\ slotOf = [h \in Hosts |-> NoSlot] /\ home = slotOf
  /\ scrapped = FALSE

(* onChange: what the player changes is written at once.                   *)
Edit(f) ==
  /\ floor' = f /\ store' = Serialized(f) /\ scrapped' = FALSE
  /\ UNCHANGED <<slotOf, home>>

(* A belt that lies that way already, or a crossing, is left as it is.     *)
Paint(c, m) ==
  IF IsHost(floor.cells[c]) \/ (m.type \in {"belt", "crossing"} /\ floor.cells[c] = m)
    THEN UNCHANGED machineryVars
    ELSE Edit(Built(floor, c, m))

(* A machine is set up anew in its place, if it is one of the kind still.  *)
Configure(c, m) ==
  IF floor.cells[c].type = m.type THEN Edit([floor EXCEPT !.cells[c] = m])
  ELSE UNCHANGED machineryVars

EraseMachine(c) ==
  IF IsLoose(floor.cells[c]) \/ IsBox(floor.cells[c]) THEN Edit(Cleared(floor, {c}))
  ELSE UNCHANGED machineryVars

ClearFloor == Edit(Cleared(floor, Cells))

CreateSwitch(id, a, b) ==
  IF Laid(floor, id, a, b) = floor THEN UNCHANGED machineryVars
  ELSE Edit(Laid(floor, id, a, b))

(* A half-placed port is not written, nor is a click that does nothing.    *)
TogglePort(id, c) ==
  LET f == Toggled(floor, id, c) IN
  IF \E i \in DOMAIN f.boxes : f.boxes[i].ports # floor.boxes[i].ports THEN Edit(f)
  ELSE floor' = f /\ UNCHANGED <<store, slotOf, home, scrapped>>

-----------------------------------------------------------------------------
(* Hosts come, to the slot that is theirs, or to one that is nobody's, of  *)
(* which there are enough here; they leave, are moved, or a hello has all  *)
(* of them leave and come.  Who gets which slot is the subject of Board.   *)

UsedSlots == {slotOf[h] : h \in Hosts}
FreeSlots == DOMAIN SLOTS \ UsedSlots

Arrived(f, h, s) == Roosted(f, h, s)

(* What a host pushes out stays in the store until the next change.        *)
HostComes(h) ==
  /\ slotOf[h] = NoSlot
  /\ \E s \in FreeSlots :
       /\ s = home[h] \/ (home[h] \notin FreeSlots /\ \A g \in Hosts : home[g] # s)
       /\ slotOf' = [slotOf EXCEPT ![h] = s] /\ home' = [home EXCEPT ![h] = s]
       /\ floor' = Arrived(floor, h, s)
       /\ scrapped' = (scrapped \/ \E c \in Standing(s) : floor.cells[c] # Free)
  /\ UNCHANGED store

HostLeaves(h) ==
  /\ slotOf[h] # NoSlot
  /\ slotOf' = [slotOf EXCEPT ![h] = NoSlot]
  /\ floor' = Unroosted(floor, slotOf[h])
  /\ UNCHANGED <<store, home, scrapped>>

MoveHost(h, s) ==
  IF slotOf[h] = NoSlot \/ s \notin FreeSlots THEN UNCHANGED machineryVars
  ELSE /\ slotOf' = [slotOf EXCEPT ![h] = s] /\ home' = [home EXCEPT ![h] = s]
       /\ floor' = Arrived(Unroosted(floor, slotOf[h]), h, s)
       /\ store' = Serialized(floor') /\ scrapped' = FALSE

(* The page is loaded again: the hosts are not there yet.                  *)
ReloadFloor ==
  /\ floor' = Restored(store) /\ slotOf' = [h \in Hosts |-> NoSlot]
  /\ UNCHANGED <<store, home, scrapped>>

(* Whatever the player or a host does to the floor.                        *)
FloorStep ==
  \/ \E c \in Cells :
       \/ EraseMachine(c)
       \/ \E m \in Machines : Paint(c, m) \/ Configure(c, m)
       \/ \E id \in AppIds : TogglePort(id, c)
  \/ \E a, b \in Cells, id \in NewId(BoxIds(floor)) :
       a[1] <= b[1] /\ a[2] <= b[2] /\ CreateSwitch(id, a, b)
  \/ \E h \in Hosts :
       \/ HostComes(h) \/ HostLeaves(h)
       \/ \E s \in DOMAIN SLOTS : MoveHost(h, s)
  \/ ClearFloor

MachineryNext == FloorStep \/ ReloadFloor

MachinerySpec == MachineryInit /\ [][MachineryNext]_machineryVars

-----------------------------------------------------------------------------
MachineryTypeOK ==
  LET AnyCell ==
        {Free} \cup Machines \cup {Body(id) : id \in AppIds} \cup {Pending(id) : id \in AppIds}
        \cup {In(id, k) : id \in AppIds, k \in 1..Cardinality(Cells)}
        \cup {Out(id, k, d) : id \in AppIds, k \in 1..Cardinality(Cells), d \in 0..3}
        \cup {Roost(h, d) : h \in Hosts, d \in 0..3} \cup {Landing(h) : h \in Hosts}
  IN
  /\ DOMAIN floor.cells = Cells /\ \A c \in Cells : floor.cells[c] \in AnyCell
  /\ \A i \in DOMAIN floor.boxes :
       /\ floor.boxes[i].id \in AppIds /\ floor.boxes[i].cells \subseteq Cells
       /\ floor.boxes[i].pending \in floor.boxes[i].cells \cup {NoCell}
  /\ slotOf \in [Hosts -> DOMAIN SLOTS \cup {NoSlot}]
  /\ home \in [Hosts -> DOMAIN SLOTS \cup {NoSlot}]
  /\ scrapped \in BOOLEAN

(* The two maps agree: the cells of a switch are those that say they are   *)
(* of it, every port is two cells of its own, which know the port by the   *)
(* index it has now, and only a half-placed port is pending (createSwitch, *)
(* togglePort, removeAppliance, placeAtSlot).                              *)
BoxesSound ==
  /\ \A c \in Cells : IsBox(floor.cells[c]) => floor.cells[c].app \in BoxIds(floor)
  /\ \A box \in ToSet(floor.boxes) :
       /\ box.cells = {c \in Cells : IsBox(floor.cells[c]) /\ floor.cells[c].app = box.id}
       /\ \A c \in box.cells :
            LET cell == floor.cells[c] IN
            /\ cell.type = "pending" <=> box.pending = c
            /\ cell.type = "in" <=> \E k \in DOMAIN box.ports : box.ports[k].in = c
            /\ cell.type = "out" <=> \E k \in DOMAIN box.ports : box.ports[k].out = c
            /\ cell.type = "in" => box.ports[cell.port].in = c
            /\ cell.type = "out" => box.ports[cell.port].out = c

(* Whatever is built, a host on the board keeps both of its cells, and a   *)
(* cell that shows a host is of one that is there (clearForBuild,          *)
(* createSwitch, placeAtSlot, removePortVisuals).                          *)
HostsStand ==
  /\ \A h \in Hosts : slotOf[h] # NoSlot =>
       LET slot == SLOTS[slotOf[h]] IN
       floor.cells[slot.roost] = Roost(h, slot.facing) /\ floor.cells[slot.landing] = Landing(h)
  /\ \A c \in Cells : IsHost(floor.cells[c]) =>
       LET s == slotOf[floor.cells[c].host] IN
       s # NoSlot /\ c \in Standing(s)

(* What a refresh makes of the floor, once the hosts that stand on it now  *)
(* are back and have pushed out what is in their way; all but the hosts.   *)
AfterRefresh ==
  Cleared(Restored(store), UNION {Standing(slotOf[h]) : h \in {g \in Hosts : slotOf[g] # NoSlot}})

(* Its machines, and its switches as they are wired.                       *)
LooseOf(f)  == {<<c, f.cells[c]>> : c \in {d \in Cells : IsLoose(f.cells[d])}}
RouterOf(f) == {<<box.cells, box.ports>> : box \in ToSet(f.boxes)}

(* "The floor persists to localStorage - your router survives a refresh"   *)
(* (board.ts:8): nothing that stands is missing.                           *)
SurvivesRefresh ==
  /\ LooseOf(floor) \subseteq LooseOf(AfterRefresh)
  /\ RouterOf(floor) \subseteq RouterOf(AfterRefresh)

(* It does as long as no switch is drawn around a host, and then the floor *)
(* is the very same, but for what hosts have pushed out since the last     *)
(* change and half-placed ports (serialize, restore).                      *)
RefreshedAsDrawn ==
  (\A i \in DOMAIN store.boxes :
     store.boxes[i].cells = Rectangle(Least(store.boxes[i].cells), Greatest(store.boxes[i].cells)))
  => /\ SurvivesRefresh
     /\ ~scrapped => LooseOf(AfterRefresh) = LooseOf(floor)
                     /\ RouterOf(AfterRefresh) = RouterOf(floor)
=============================================================================
