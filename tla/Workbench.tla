------------------------------ MODULE Workbench ------------------------------
(***************************************************************************)
(* The player at the game's board: tools, the pointer, the panel that      *)
(* shows one machine, and the switch whose ports clicks place.  The page   *)
(* remembers cells and ids of machines over events that take the machines  *)
(* away: hosts that return, the floor cleared, other tools.                *)
(***************************************************************************)
EXTENDS Machinery

CONSTANT Tools  \* of "select", "erase", "switch" and the types of machines

(* The tool that is in hand first, and the one that others give way to.    *)
ASSUME ToolsAssumption == {"belt", "select"} \subseteq Tools

VARIABLES
  tool,    \* the tool in hand
  held,    \* painting, erasing: what the button that is down does
  drag,    \* switchDragStart, switchDragEnd
  active,  \* activeApplianceId
  panel,   \* the panel that is open: the type it is for, and its cell or switch
  moving   \* movingIdent: the host whose roost is being moved

handVars      == <<tool, held, drag, active, panel, moving>>
workbenchVars == <<machineryVars, handVars>>

NoPanel    == [type |-> "none"]
NoDrag     == <<>>
NoOne      == "no one"
MachinePanel(type, c) == [type |-> type, at |-> c]
SwitchPanel(id)       == [type |-> "switch", app |-> id]

Painting == {"belt", "crossing", "hub", "midi", "learn", "lookup"}
Single   == {"filter", "meter"}
Shown    == Single \cup {"hub", "midi", "learn", "lookup"}

HandAtRest ==
  /\ tool = "belt" /\ held = "nothing" /\ drag = NoDrag
  /\ active = NoApp /\ panel = NoPanel /\ moving = NoOne

WorkbenchInit == MachineryInit /\ HandAtRest

-----------------------------------------------------------------------------
(* The toolbar, the keys, and the panel's own buttons.                     *)

(* Mutant of PanelWith: the panel stays open with any tool.                *)
PanelWithAny(t) == panel

(* Only the select tool leaves the panel open.                             *)
PanelWith(t) == IF t = "select" THEN panel ELSE NoPanel

SetTool(t) ==
  /\ tool' = t /\ panel' = PanelWith(t)
  /\ UNCHANGED <<machineryVars, held, drag, active, moving>>

ClosePanel ==
  /\ panel' = NoPanel
  /\ UNCHANGED <<machineryVars, tool, held, drag, active, moving>>

Escape ==
  /\ panel' = NoPanel /\ moving' = NoOne
  /\ UNCHANGED <<machineryVars, tool, held, drag, active>>

(* The panel sets up what is in its cell, if that is of the panel's type.  *)
Apply(m) ==
  /\ panel.type \in Shown \ {"hub"} /\ m.type = panel.type
  /\ Configure(panel.at, m)
  /\ UNCHANGED handVars

(* The panel of a switch closes when the switch is gone.                   *)
PanelTick ==
  /\ panel.type = "switch" /\ panel.app \notin BoxIds(floor)
  /\ panel' = NoPanel
  /\ UNCHANGED <<machineryVars, tool, held, drag, active, moving>>

ClearButton == ClearFloor /\ UNCHANGED handVars

(* From the roost's popover: the next click lands it.                      *)
StartMove(h) ==
  /\ slotOf[h] # NoSlot
  /\ moving' = h /\ tool' = "select"
  /\ UNCHANGED <<machineryVars, held, drag, active, panel>>

-----------------------------------------------------------------------------
(* The pointer.                                                            *)

(* openMachineInspector on the floor as it is then.                        *)
Inspect(c) ==
  LET cell == floor'.cells[c] IN
  IF cell.type \in Shown THEN active' = NoApp /\ panel' = MachinePanel(cell.type, c)
  ELSE IF IsBox(cell) THEN active' = cell.app /\ panel' = SwitchPanel(cell.app)
  ELSE UNCHANGED <<active, panel>>

SlotAt(c) == {s \in DOMAIN SLOTS : c \in Standing(s)}

Land(c) ==
  /\ moving # NoOne /\ moving' = NoOne
  /\ IF SlotAt(c) = {} THEN UNCHANGED machineryVars
     ELSE \E s \in SlotAt(c) : MoveHost(moving, s)
  /\ UNCHANGED <<tool, held, drag, active, panel>>

(* The switch that was inspected or laid last is edited.                   *)
Editing(c) == active \in BoxIds(floor) /\ c \in BoxOf(floor, active).cells

SelectClick(c) ==
  /\ tool = "select" /\ moving = NoOne
  /\ IF Editing(c) THEN TogglePort(active, c) /\ UNCHANGED <<active, panel>>
     ELSE /\ UNCHANGED machineryVars
          /\ IF floor.cells[c].type \in {"free", "landing", "belt"}
               THEN active' = NoApp /\ panel' = NoPanel
               ELSE Inspect(c)
  /\ UNCHANGED <<tool, held, drag, moving>>

(* A filter or a meter is placed by a click, and shown.                    *)
PlaceSingle(c, m) ==
  /\ tool \in Single /\ m.type = tool
  /\ Paint(c, m)
  /\ Inspect(c)
  /\ UNCHANGED <<tool, held, drag, moving>>

DragFrom(c) ==
  /\ tool = "switch" /\ drag' = <<c, c>>
  /\ UNCHANGED <<machineryVars, tool, held, active, panel, moving>>

(* What the tool does at the pointer while its button is down.             *)
PaintAt(c, m, hold) ==
  IF tool \in Painting /\ hold = "paint" THEN m.type = tool /\ Paint(c, m)
  ELSE IF tool = "erase" /\ hold = "erase" THEN EraseMachine(c)
  ELSE UNCHANGED machineryVars

PressTool(c, m) ==
  /\ tool \in Painting \cup {"erase"}
  /\ held' = IF tool = "erase" THEN "erase" ELSE "paint"
  /\ PaintAt(c, m, held')
  /\ UNCHANGED <<tool, drag, active, panel, moving>>

(* A drag goes on with the switch tool only, and a stroke with any tool    *)
(* that keys have chosen since.                                            *)
PointerMove(c, m) ==
  /\ drag' = IF tool = "switch" /\ drag # NoDrag THEN <<drag[1], c>> ELSE drag
  /\ PaintAt(c, m, held)
  /\ UNCHANGED <<tool, held, active, panel, moving>>

RememberedBy(open) == IF open.type = "switch" THEN {open.app} ELSE {}

(* The switch that was drawn is laid; the one that is laid is edited next. *)
PointerUp ==
  /\ held' = "nothing" /\ drag' = NoDrag
  /\ IF tool # "switch" \/ drag = NoDrag THEN UNCHANGED <<machineryVars, tool, active, panel>>
     ELSE \E id \in NewId(BoxIds(floor) \cup {active} \cup RememberedBy(panel)) :
          /\ CreateSwitch(id, drag[1], drag[2])
          /\ IF floor' = floor THEN UNCHANGED <<tool, active, panel>>
             ELSE LET first == floor'.cells[drag[1]] IN
                  /\ tool' = "select"
                  /\ active' = id
                  /\ panel' = IF IsBox(first) THEN SwitchPanel(id) ELSE panel
  /\ UNCHANGED moving

Refresh ==
  /\ ReloadFloor
  /\ tool' \in Tools /\ held' = "nothing" /\ drag' = NoDrag
  /\ active' = NoApp /\ panel' = NoPanel /\ moving' = NoOne

HostStep ==
  /\ \E h \in Hosts : HostComes(h) \/ HostLeaves(h)
  /\ UNCHANGED handVars

PointerStep ==
  \/ \E c \in Cells :
       \/ Land(c) \/ SelectClick(c) \/ DragFrom(c)
       \/ \E m \in Machines : PlaceSingle(c, m) \/ PressTool(c, m) \/ PointerMove(c, m)
  \/ PointerUp

WorkbenchNext ==
  \/ \E t \in Tools : SetTool(t)
  \/ ClosePanel \/ Escape \/ PanelTick \/ ClearButton \/ Refresh
  \/ \E h \in Hosts : StartMove(h)
  \/ \E m \in Machines : Apply(m)
  \/ PointerStep \/ HostStep

WorkbenchSpec == WorkbenchInit /\ [][WorkbenchNext]_workbenchVars

-----------------------------------------------------------------------------
WorkbenchTypeOK ==
  /\ MachineryTypeOK
  /\ tool \in Tools /\ held \in {"nothing", "paint", "erase"}
  /\ drag = NoDrag \/ drag \in Cells \X Cells
  /\ active \in AppIds \cup {NoApp} /\ moving \in Hosts \cup {NoOne}
  /\ \/ panel = NoPanel
     \/ panel.type = "switch" /\ panel.app \in AppIds
     \/ panel.type \in Shown /\ panel.at \in Cells

(* Every cell belongs to what the machinery says is there, whatever was    *)
(* laid, erased, cleared or moved in on top of what, and whatever the      *)
(* player has in hand (createSwitch, togglePort, placeAtSlot, restore).    *)
FloorSound == WorkbenchTypeOK /\ BoxesSound /\ HostsStand

(* A panel never takes hold of another machine than the one it was opened  *)
(* for: when that is gone, one of its type comes into its cell only after  *)
(* the panel is closed or opened again (onToolChange, configureFilter).    *)
PanelKeepsMachine ==
  [][/\ panel.type \in Shown /\ panel' = panel
     /\ floor.cells[panel.at].type # panel.type /\ floor'.cells[panel.at].type = panel.type
     => \E m \in Machines : PlaceSingle(panel.at, m)]_workbenchVars
=============================================================================
