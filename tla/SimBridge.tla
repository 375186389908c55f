------------------------------- MODULE SimBridge -------------------------------
(***************************************************************************)
(* The sim that stands in for a loft: two pods with a network stack of     *)
(* their own.  Alice asks for bob's address until she has it, then pings   *)
(* him once a second; bob answers.  Every frame of theirs is a token to    *)
(* the page, which routes it: a player may decide it in any way, later;    *)
(* the page's benchmark mode is the router of Autoroute, and decides at    *)
(* once.                                                                   *)
(***************************************************************************)
EXTENDS Autoroute

CONSTANTS
  Alice, Bob,  \* the pods
  FrameIds,    \* nextFrameId; one that is free again stands for a new one
  NoKind,
  Limit        \* frames the sim buffers, 8192, before it drops

ASSUME SimAssumption ==
  Hosts = {Alice, Bob} /\ Alice # Bob /\ Limit \in Nat /\ MaxPorts > 1

Port == [h \in Hosts |-> IF h = Alice THEN 1 ELSE 2]

(* Frames: an ARP request and its reply, an echo request and its reply,    *)
(* the storm's.                                                            *)
Answer  == [k \in {"who-has", "echo"} |-> IF k = "who-has" THEN "is-at" ELSE "echo reply"]
Answers == {"is-at", "echo reply"}
Kinds   == Answers \cup {"who-has", "echo", "storm"}
From(k) == IF k \in Answers THEN Bob ELSE Alice
To(k)   == IF k = "who-has" THEN Broadcast ELSE IF From(k) = Alice THEN Bob ELSE Alice
Papers(k) == [src |-> From(k), in |-> Port[From(k)], dst |-> To(k)]

VARIABLES
  player,   \* the page has a player to route, not the benchmark
  held,     \* frames
  pods,     \* arpCache: alice knows bob's address; due: the answers that
            \* timeouts will send, up to 2 of a kind; pings: pingsAnswered, up
            \* to the milestone; won
  arrived   \* history: the kinds that have reached their pod

outside == <<player, at, notices, attached, ports, heard, missed>>
simVars == <<outside, macTable, held, pods, arrived>>

SimInit ==
  /\ player \in BOOLEAN /\ held = [f \in FrameIds |-> NoKind]
  /\ pods = [arpCache |-> FALSE, due |-> [k \in Answers |-> 0], pings |-> 0, won |-> FALSE]
  /\ arrived = {}
  /\ at = Port /\ notices = <<>> /\ attached = TRUE /\ ports = {1, 2}
  /\ macTable = [h \in Hosts \cup {Broadcast} |-> Unknown]
  /\ heard = {} /\ missed = FALSE

Buffered == {f \in FrameIds : held[f] # NoKind}
Full     == Cardinality(Buffered) > Limit

-----------------------------------------------------------------------------
(* podReceive: a frame that goes out of some ports reaches the pod it is   *)
(* for, or is ignored by another's network card.                           *)

Reaches(k, out) == Port[IF From(k) = Alice THEN Bob ELSE Alice] \in out

Milestone(s) == [s EXCEPT !.won = @ \/ s.pings = 4]

Received(s, k, out) ==
  IF ~Reaches(k, out) THEN s
  ELSE CASE k \in DOMAIN Answer -> [s EXCEPT !.due[Answer[k]] = IF @ < 2 THEN @ + 1 ELSE @]
         [] k = "is-at"         -> [s EXCEPT !.arpCache = TRUE]
         [] k = "echo reply"    -> Milestone([s EXCEPT !.pings = IF @ < 4 THEN @ + 1 ELSE @])
         [] OTHER               -> s

Delivered(s, k, out) ==
  /\ pods' = Received(s, k, out)
  /\ arrived' = IF Reaches(k, out) THEN arrived \cup {k} ELSE arrived

(* podSend, by a pod whose stack is s then: with the buffer full the frame *)
(* is counted as an overflow, or it is a token, which the benchmark routes *)
(* on the spot: what it floods it drops afterwards.                        *)
Sent(s, k) ==
  \/ Full /\ pods' = s /\ UNCHANGED <<macTable, held, arrived>>
  \/ /\ ~Full /\ player
     /\ \E f \in FrameIds \ Buffered : held' = [held EXCEPT ![f] = k]
     /\ pods' = s /\ UNCHANGED <<macTable, arrived>>
  \/ /\ ~Full /\ ~player
     /\ LET m == Papers(k) IN
          /\ macTable' = Learned(m.src, m.in)
          /\ Delivered(s, k, Routed(m))
     /\ UNCHANGED held

NextFrame == IF pods.arpCache THEN "echo" ELSE "who-has"

AliceTick == Sent(pods, NextFrame) /\ UNCHANGED outside

Storm == Sent(pods, "storm") /\ UNCHANGED outside

(* The timeout of an answer.                                               *)
Answering(k) ==
  /\ pods.due[k] > 0
  /\ Sent([pods EXCEPT !.due[k] = @ - 1], k)
  /\ UNCHANGED outside

-----------------------------------------------------------------------------
(* A player's verdicts, on what is held.                                   *)

(* A frame goes out of a port, or of one that is none: then it is gone all *)
(* the same, if it is consumed.                                            *)
DeliverInternal(f, port, consume) ==
  /\ player /\ f \in Buffered
  /\ held' = IF consume THEN [held EXCEPT ![f] = NoKind] ELSE held
  /\ Delivered(pods, held[f], {port})
  /\ UNCHANGED <<outside, macTable>>

(* Every drop counts as the consumer's, of a frame that was copied too.    *)
DropFrame(f) ==
  /\ player /\ f \in Buffered
  /\ held' = [held EXCEPT ![f] = NoKind]
  /\ UNCHANGED <<outside, macTable, pods, arrived>>

SimNext ==
  \/ AliceTick \/ Storm \/ \E k \in Answers : Answering(k)
  \/ \E f \in FrameIds :
       DropFrame(f) \/ \E port \in {Unknown, 1, 2}, consume \in BOOLEAN : DeliverInternal(f, port, consume)

(* Intervals and timeouts fire.                                            *)
SimFairness == WF_simVars(AliceTick) /\ \A k \in Answers : WF_simVars(Answering(k))

-----------------------------------------------------------------------------
SimTypeOK ==
  /\ held \in [FrameIds -> Kinds \cup {NoKind}]
  /\ pods.due \in [Answers -> 0..2] /\ pods.pings \in 0..4
  /\ arrived \subseteq Kinds /\ Cardinality(Buffered) <= Limit + 1

BuiltARouter == pods.won => Answers \cup DOMAIN Answer \subseteq arrived

(* "You built a router" is said of a page that did: frames of all four     *)
(* kinds went to the right pod, whatever else was delivered where, how     *)
(* often and in which order; and the benchmark's router gets there, storm  *)
(* or not, without having known an address (aliceTick, podReceive,         *)
(* autorouteToken).                                                        *)
MilestoneEarned == []BuiltARouter /\ (~player => <>pods.won)
=============================================================================
