------------------------------- MODULE MCBridges -------------------------------
(***************************************************************************)
(* The pages' bridges and windows, each by itself: two pages that contend  *)
(* for a loft, the headless router with a loft of two hosts, the sim with  *)
(* its two pods, and a pod's shells.                                       *)
(***************************************************************************)
EXTENDS Link, SimBridge, Shells

VARIABLE part

vars == <<part, linkVars, autorouteVars, simVars, shellVars>>

simOnly   == <<player, held, pods, arrived>>
linkRest  == <<autorouteVars, simOnly, shellVars>>
routeRest == <<linkVars, simOnly, shellVars>>
simRest   == <<linkVars, shellVars>>
shellRest == <<linkVars, autorouteVars, simOnly>>

Init ==
  /\ LinkInit /\ ShellsInit
  /\ \/ /\ part \in {"link", "shells"} /\ SimInit /\ player
        /\ part # "link" => ~loftUp
     \/ /\ part = "sim" /\ SimInit /\ ~loftUp
     \/ /\ part = "route" /\ AutorouteInit /\ ~loftUp
        /\ player = TRUE /\ held = [f \in FrameIds |-> NoKind] /\ arrived = {}
        /\ pods = [arpCache |-> FALSE, due |-> [k \in Answers |-> 0], pings |-> 0, won |-> FALSE]

Next ==
  /\ UNCHANGED part
  /\ \/ part = "link"   /\ LinkNext      /\ UNCHANGED linkRest
     \/ part = "route"  /\ AutorouteNext /\ UNCHANGED routeRest
     \/ part = "sim"    /\ SimNext       /\ UNCHANGED simRest
     \/ part = "shells" /\ ShellsNext    /\ UNCHANGED shellRest

(* Each part goes on as it does by itself; the others stand still.         *)
Spec ==
  /\ Init /\ [][Next]_vars
  /\ \/ part = "link"   /\ LinkFairness
     \/ part = "route"
     \/ part = "sim"    /\ SimFairness
     \/ part = "shells" /\ ShellsFairness

-----------------------------------------------------------------------------
(* Types of all parts; and however sockets fail, timers fire and lofts     *)
(* come and go, a page has one source of frames (wsbridge.ts connect and   *)
(* onclose, main.ts onState).                                              *)
OneSourceEach == LinkTypeOK /\ AutorouteTypeOK /\ SimTypeOK /\ ShellsTypeOK /\ OneSource

(* A page has a factory in the end, be it the sim's (main.ts startSim).    *)
FactoryInTheEnd == part = "link" => AlwaysAFactory

(* Module SimBridge's: the milestone is earned, and by the benchmark's     *)
(* router reached (podReceive, autorouteToken).                            *)
SimIsSolved == part = "sim" => MilestoneEarned

(* A shell that nobody views is reaped (shell.go reaper).                  *)
ShellsEnd == part = "shells" => LeftAreReaped
=============================================================================
