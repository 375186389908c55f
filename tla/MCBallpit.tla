------------------------------- MODULE MCBallpit -------------------------------
(* The three parts of the ballpit that share no state: balls in a worker,  *)
(* packets on the GPU, and what is built.  A behaviour is one of one part, *)
(* and TLC explores all three in a run.                                    *)
EXTENDS BallPit, Fluid, Build

VARIABLE part

vars == <<part, ballPitVars, fluidVars, buildVars>>

(* The cells of docks and sinks, two turns around.                         *)
TwoTurns == << <<"a", "b">>, <<"c", "d">> >>

Init == part \in {"balls", "fluid", "build"} /\ BallPitInit /\ FluidInit /\ BuildInit

InBalls(action) == part = "balls" /\ action /\ UNCHANGED <<part, fluidVars, buildVars>>
InFluid(action) == part = "fluid" /\ action /\ UNCHANGED <<part, ballPitVars, buildVars>>
InBuild(action) == part = "build" /\ action /\ UNCHANGED <<part, ballPitVars, fluidVars>>

Next == InBalls(BallPitNext) \/ InFluid(FluidNext) \/ InBuild(BuildNext)

(* The balls' threads go on; the other parts stand still then.             *)
Spec ==
  /\ Init /\ [][Next]_vars
  /\ (part = "balls" /\ BallPitFairness) \/ part # "balls"

(* The variables of all three have their types, no slot is given back      *)
(* twice or lost, and what the GPU knows by slot is about its packet       *)
(* (fluid.ts render, pumpSinks).                                           *)
SlotsSound == BallPitTypeOK /\ FluidTypeOK /\ BuildTypeOK /\ FreeOnce /\ GpuKnowsPackets
=============================================================================
