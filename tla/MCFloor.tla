------------------------------- MODULE MCFloor -------------------------------
(* The board's hosts, a switch, and the frames that pigeons carry, each by *)
(* itself: a behaviour is one of one part, and TLC explores all in a run.  *)
EXTENDS Board, Switch, Pigeons, TLC

VARIABLE part

floorVars == <<part, boardVars, switchVars, vars>>

FloorInit == part \in {"board", "switch", "pigeons"} /\ BoardInit /\ SwitchInit /\ Init

FloorNext ==
  \/ part = "board"   /\ BoardNext  /\ UNCHANGED <<part, switchVars, vars>>
  \/ part = "switch"  /\ SwitchNext /\ UNCHANGED <<part, boardVars, vars>>
  \/ part = "pigeons" /\ Next       /\ UNCHANGED <<part, boardVars, switchVars>>

FloorSpec == FloorInit /\ [][FloorNext]_floorVars

(* Hosts are alike.                                                        *)
Alike == Permutations(Hosts)

-----------------------------------------------------------------------------
(* Types of all parts; and each slot is one host's or free, as the board   *)
(* believes and as it has saved (board.ts placeAtSlot, pickSlot).          *)
SlotsAgree == BoardTypeOK /\ SwitchTypeOK /\ TypeOK /\ SlotsExact /\ HomesKept
=============================================================================
