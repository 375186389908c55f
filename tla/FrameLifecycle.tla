--------------------------- MODULE FrameLifecycle ---------------------------
(***************************************************************************)
(* What a loft promises about every frame that enters it ("Frame lifecycle *)
(* - the no-silent-drop rule", docs/pigeon-api.md): a frame is admitted at *)
(* most once, copies of it may leave while it is held, it is decided       *)
(* exactly once, and a decision is final.  A frame that went somewhere may *)
(* be freed, but is never a consumer drop.  Which decision, who takes it   *)
(* and when is left open.                                                  *)
(***************************************************************************)
CONSTANT Frames        \* frame identities

VARIABLE stage         \* stage[f]: how far frame f has come

Stages == {"unseen", "held", "copied", "delivered", "dropped", "expired"}

Decided == {"delivered", "dropped", "expired"}

LifeInit == stage = [f \in Frames |-> "unseen"]

(* A set of frames moves from stages `from` to stage `to`. *)
Advance(fs, from, to) ==
  /\ \A f \in fs : stage[f] \in from
  /\ stage' = [f \in Frames |-> IF f \in fs THEN to ELSE stage[f]]

Admit(f)   == Advance({f}, {"unseen"}, "held")
Copy(f)    == Advance({f}, {"held", "copied"}, "copied")
Deliver(f) == Advance({f}, {"held", "copied"}, "delivered")
Free(f)    == Advance({f}, {"copied"}, "delivered")
Drop(f)    == Advance({f}, {"held"}, "dropped")
Expire(fs) == Advance(fs, {"held", "copied"}, "expired")

LifeNext ==
  \/ \E f \in Frames : Admit(f) \/ Copy(f) \/ Deliver(f) \/ Free(f) \/ Drop(f)
  \/ \E fs \in SUBSET Frames : Expire(fs)

LifeSpec == LifeInit /\ [][LifeNext]_stage
=============================================================================
