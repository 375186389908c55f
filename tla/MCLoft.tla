------------------------------- MODULE MCLoft -------------------------------
(* Loft on small instances; the configurations name its constants' values. *)
(* Its larger instance is explored in two parts of one run: two frames and *)
(* consumers that read, or one frame with observers, and some that do not. *)
(* No symmetry: the runs check liveness, and consumers differ in Sluggish. *)
EXTENDS Loft

(* Nobody observes, and the routers read.                                  *)
Unwatched == watching = {} /\ stalled = {}

(* One frame is read, and admitted or not.                                 *)
OneFrame == \A p \in PortIds : rxFrames[p] <= 1

(* The steps that stay in one part or the other.  The ones left out are of *)
(* kinds that fairness says nothing of: observers that attach, consumers   *)
(* that stop reading, and frames that are read.                            *)
LoftNext == Next /\ (Unwatched \/ OneFrame)'

LoftSpec == Init /\ [][LoftNext]_vars /\ Fairness /\ Attentive
=============================================================================
