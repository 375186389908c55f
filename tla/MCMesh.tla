------------------------------- MODULE MCMesh -------------------------------
(* MeshFrames on a small instance, explored in two parts of one run: two   *)
(* edges that stay up, or a lone one that breaks off, restarts, and comes  *)
(* back with its ids over again.                                           *)
EXTENDS MeshFrames, TLC

(* Two edges: no trunk ends, each loft gives one frame id, and the router  *)
(* is there once there are frames.                                         *)
TwoEdges ==
  /\ broken = {} /\ \A n \in Lofts : boot[n] = 1 /\ nextFID[n] <= 2
  /\ router \/ \A n \in Lofts : nextFID[n] = 1

(* A lone edge: the other one, whose port is there, does nothing, and the  *)
(* gateway's port is there, too.                                           *)
LoneEdge ==
  /\ verdicts <= 1 /\ Gateway \in port
  /\ \E e \in Edges :
       /\ e \in port /\ boot[e] = 1 /\ nextFID[e] = 1
       /\ \A k \in DOMAIN owner : owner[k][1] # e

(* The steps that stay in one part or the other.                           *)
MeshNext == Next /\ (TwoEdges \/ LoneEdge)'

MeshSpec == Init /\ [][MeshNext]_vars

(* The edges are alike. *)
EdgeSymmetry == Permutations(Edges)
=============================================================================
