------------------------------- MODULE MCNotices -------------------------------
(* What is told about ports, in two parts that are explored in one run:    *)
(* a loft's to its consumers, on two small instances, and an edge's to its *)
(* gateway.                                                                *)
EXTENDS ConsumerView, Trunk

VARIABLE part

allVars == <<part, vars, trunkVars>>

BothInit == part \in {"view", "trunk"} /\ Init /\ TrunkInit

BothNext ==
  \/ part = "view"  /\ Next      /\ UNCHANGED <<part, trunkVars>>
  \/ part = "trunk" /\ TrunkNext /\ UNCHANGED <<part, vars>>

BothSpec == BothInit /\ [][BothNext]_allVars

(* Router connections attach in either order and are otherwise alike, and  *)
(* so are the pods of an edge.                                             *)
Alike == Permutations(Routers) \cup Permutations(Pods)

(* Two ports that may come and go together, and nobody but routers.        *)
Paired == (\A p \in PortIds : tokens[p] = 0) /\ \A o \in Observers : conn[o] = "new"

(* One port, whose reader sends a token, and observers.                    *)
Single == nextID <= 2

Explored == Paired \/ Single

-----------------------------------------------------------------------------
(* Types, of both parts, and the gateway's two maps of an edge's ports     *)
(* agree (trunk.go registerRemotePort, edgeGone).                          *)
MapsSound == TypeOK /\ TrunkTypeOK /\ MapsAgree
=============================================================================
