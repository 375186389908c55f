--------------------------------- MODULE Fluid ---------------------------------
(***************************************************************************)
(* The ballpit with its physics on the GPU.  The page keeps which frame a  *)
(* particle is, and the GPU only which particles are alive and a ring of   *)
(* those that fell into a sink or a vehicle's suction, which is read back  *)
(* in the background while frames are rendered.  The GPU works in the      *)
(* order it was asked, so that a rendered frame is one step.               *)
(***************************************************************************)
EXTENDS Naturals, FiniteSets, Sequences, SequencesExt, Selection

CONSTANTS
  Packets,    \* frame ids; an id that is free again stands for a new one
  Outlets,    \* ports of the sinks that are built
  Suction,    \* SUCK_PORT: what the ring says of a particle in the suction
  Particles,  \* maxBalls
  Ring,       \* RING: entries the ring keeps between two readings
  Batch,      \* SPAWN_MAX: spawns and kills that fit a rendered frame
  HopperCap,  \* HOPPER_CAP of the sweeper
  MaxPoured   \* bound: spawns that wait for a frame to be rendered

ASSUME FluidAssumption ==
  /\ Suction \notin Outlets
  /\ {Particles, Ring, Batch, MaxPoured} \subseteq Nat \ {0} /\ HopperCap \in Nat

Parts == 1..Particles

VARIABLES
  awaited,     \* packets the loft waits for a verdict on
  slots,       \* slots, in the order of the map: a packet for each slot taken
  freeSlots,   \* free, the last one is taken first
  poured,      \* pendingSpawn, as slots
  expired,     \* packets older than the TTL
  alive,       \* GPU: alive
  ring,        \* GPU: what the ring counted since its reset
  reader,      \* the readback: "idle", or how far it is
  counted,     \* the entries it has read the number of
  taken,       \* deliveries it has found and not reported
  sweeper,     \* the sweeper was rolled out
  hopper,      \* the packets it carries
  sunk,        \* history: the packets whose particle fell into a sink
  mixed        \* history: a slot was freed while the GPU held on to it

gpuVars   == <<alive, ring>>
readVars  == <<reader, counted, taken>>
fluidVars == <<awaited, slots, freeSlots, poured, expired, gpuVars, readVars, sweeper, hopper,
               sunk, mixed>>

FluidInit ==
  /\ awaited = {} /\ slots = <<>>
  /\ freeSlots = [i \in Parts |-> Particles + 1 - i]
  /\ poured = <<>> /\ expired = {} /\ alive = {} /\ ring = <<>>
  /\ reader = "idle" /\ counted = 0 /\ taken = {}
  /\ sweeper = FALSE /\ hopper = <<>>
  /\ sunk = {} /\ mixed = FALSE

Taken      == {e.slot : e \in ToSet(slots)}
PacketOf(s) == (CHOOSE e \in ToSet(slots) : e.slot = s).packet
Without(S) == Only(slots, {e \in ToSet(slots) : e.slot \notin S})
Reading    == reader # "idle"
Entry(s, port) == [slot |-> s, port |-> port]

(* The loft gets a verdict: a packet it does not wait for is none of its.  *)
Dropped(S, of) ==
  /\ awaited' = of \ S
  /\ expired' = expired \ S /\ sunk' = sunk \ S

-----------------------------------------------------------------------------
(* Packets come in, and get old.                                           *)

(* spawn, for each of a sequence of packets: a slot and a place in the      *)
(* queue for the GPU, as far as there are slots; the others are dropped.   *)
Poured(fs) ==
  LET n   == IF Len(fs) < Len(freeSlots) THEN Len(fs) ELSE Len(freeSlots)
      got == [i \in 1..n |-> freeSlots[Len(freeSlots) + 1 - i]] IN
  /\ slots' = slots \o [i \in 1..n |-> [slot |-> got[i], packet |-> fs[i]]]
  /\ poured' = poured \o got
  /\ freeSlots' = SubSeq(freeSlots, 1, Len(freeSlots) - n)
  /\ Dropped(ToSet(SubSeq(fs, n + 1, Len(fs))), awaited \cup ToSet(fs))

Pour(f) ==
  /\ f \notin awaited /\ Len(poured) < MaxPoured
  /\ Poured(<<f>>)
  /\ UNCHANGED <<gpuVars, readVars, sweeper, hopper, mixed>>

(* The TTL clock of a packet runs on, wherever it is.                      *)
Expire(f) ==
  /\ f \in awaited /\ f \notin expired
  /\ expired' = expired \cup {f}
  /\ UNCHANGED <<awaited, slots, freeSlots, poured, gpuVars, readVars, sweeper, hopper,
                 sunk, mixed>>

-----------------------------------------------------------------------------
(* One rendered frame.                                                     *)

RingOf(r)  == {r[i].slot : i \in 1..Len(r)}
Kept(r)    == SubSeq(r, 1, IF Len(r) < Ring THEN Len(r) ELSE Ring)

(* Mutant of Swept: the slots of packets that expired are not given back.  *)
SweptKeepsSlots(dead) == slots' = Without(ToSet(dead)) /\ UNCHANGED freeSlots

(* The sweep forgets the packets that expired, at most a batch of them, in *)
(* the order of the map.                                                   *)
Swept(dead) == slots' = Without(ToSet(dead)) /\ freeSlots' = freeSlots \o dead

Expiring ==
  LET old == Only(slots, {e \in ToSet(slots) : e.packet \in expired})
      n   == IF Len(old) < Batch THEN Len(old) ELSE Batch IN
  [i \in 1..n |-> old[i].slot]

Flowed(running, gone) == running \ gone

(* Kills, then spawns, then the passes: any living particles come into a   *)
(* sink, or into the suction if there is room in the hopper; each is dead  *)
(* then, and its entry is lost if the ring is full.                        *)
Passes(dead, late) ==
  LET batch   == SubSeq(poured, 1, IF Len(poured) < Batch THEN Len(poured) ELSE Batch)
      running == (alive \ ToSet(dead)) \cup ToSet(batch)
      mouths  == Outlets \cup (IF sweeper /\ Len(hopper) < HopperCap THEN {Suction} ELSE {}) IN
  /\ poured' = SubSeq(poured, Len(batch) + 1, Len(poured))
  /\ \E gone \in SUBSET running : \E exit \in [gone -> mouths] :
       \E order \in SetToSeqs(gone) :
         /\ alive' = Flowed(running, gone)
         /\ ring' = Kept(ring \o [i \in 1..Len(order) |-> Entry(order[i], exit[order[i]])])
         /\ sunk' = (sunk \ late)
                      \cup {PacketOf(s)' : s \in {t \in gone \cap Taken' : exit[t] \in Outlets}}

(* The count is read after the passes, if no reading is under way.         *)
Pump ==
  IF Reading THEN UNCHANGED readVars
  ELSE reader' = "counted" /\ counted' = Len(ring') /\ UNCHANGED taken

(* The hopper's packets rot before the frame is rendered.                  *)
Rendered(dead) ==
  LET rotten == ToSet(hopper) \cap expired
      late   == rotten \cup {PacketOf(s) : s \in ToSet(dead)} IN
  /\ hopper' = Only(hopper, ToSet(hopper) \ rotten)
  /\ Swept(dead)
  /\ awaited' = awaited \ late /\ expired' = expired \ late
  /\ mixed' = (mixed \/ \E s \in ToSet(dead) : s \in RingOf(ring) \/ s \in ToSet(poured))
  /\ Passes(dead, late)
  /\ Pump
  /\ UNCHANGED sweeper

Render == Rendered(<<>>)

(* Every half second, the sweep comes first.                               *)
RenderSwept == Rendered(Expiring)

-----------------------------------------------------------------------------
(* The readback, a step for each await.                                    *)

Fail ==
  /\ reader = "counted" /\ reader' = "cooling" /\ counted' = 0
  /\ UNCHANGED <<awaited, slots, freeSlots, poured, expired, gpuVars, taken, sweeper, hopper,
                 sunk, mixed>>

Known(s) == s \in Taken

(* The entries that find a packet.  Once one is looked up its slot is free *)
(* and the next one of it not known.                                       *)
Finding(es) ==
  LET first == {i \in DOMAIN es : /\ Known(es[i].slot)
                                  /\ \A j \in 1..(i - 1) : es[j].slot # es[i].slot}
      order == Only([i \in DOMAIN es |-> i], first) IN
  [k \in DOMAIN order |-> es[order[k]]]

(* Mutant of Carried: what does not fit the hopper is forgotten.           *)
CarriedForgets(S) ==
  LET room == HopperCap - Len(hopper) IN
  IF sweeper THEN <<hopper \o SubSeq(S, 1, IF Len(S) < room THEN Len(S) ELSE room), {}>>
  ELSE <<hopper, ToSet(S)>>

(* onVacuum: what does not fit the hopper is dropped.                      *)
Carried(S) ==
  LET room == HopperCap - Len(hopper)
      fits == IF Len(S) <= room THEN S ELSE SubSeq(S, 1, room) IN
  IF sweeper THEN <<hopper \o fits, ToSet(S) \ ToSet(fits)>> ELSE <<hopper, ToSet(S)>>

(* The entries that were counted are looked up, and the ring starts anew:  *)
(* what was written into it since is lost.                                 *)
ReadEntries ==
  /\ reader = "counted"
  /\ LET found   == Finding(SubSeq(ring, 1, counted))
         sucked  == Only(found, {e \in ToSet(found) : e.port = Suction})
         carried == Carried([i \in 1..Len(sucked) |-> PacketOf(sucked[i].slot)])
         emptied == [i \in 1..Len(found) |-> found[i].slot] IN
     /\ taken' = {<<PacketOf(e.slot), e.port>> : e \in ToSet(found) \ ToSet(sucked)}
     /\ hopper' = carried[1]
     /\ Dropped(carried[2], awaited)
     /\ slots' = Without(ToSet(emptied))
     /\ freeSlots' = freeSlots \o emptied
  /\ ring' = IF counted = 0 THEN ring ELSE <<>>
  /\ reader' = (IF counted = 0 THEN "cooling" ELSE "resetting") /\ counted' = 0
  /\ UNCHANGED <<poured, alive, sweeper, mixed>>

(* The reset has been carried out: what was found is delivered.            *)
ReportTaken ==
  /\ reader = "resetting" /\ reader' = "cooling" /\ taken' = {}
  /\ LET told == {e[1] : e \in taken} IN
     awaited' = awaited \ told /\ expired' = expired \ told /\ sunk' = sunk \ told
  /\ UNCHANGED <<slots, freeSlots, poured, gpuVars, counted, sweeper, hopper, mixed>>

Cooled ==
  /\ reader = "cooling" /\ reader' = "idle"
  /\ UNCHANGED <<awaited, slots, freeSlots, poured, expired, gpuVars, counted, taken, sweeper,
                 hopper, sunk, mixed>>

-----------------------------------------------------------------------------
(* The player and the sweeper.                                             *)

RollOut ==
  /\ ~sweeper /\ sweeper' = TRUE
  /\ UNCHANGED <<awaited, slots, freeSlots, poured, expired, gpuVars, readVars, hopper, sunk,
                 mixed>>

(* Everything the hopper carries is poured again, with its age.            *)
Dump ==
  /\ sweeper /\ hopper # <<>> /\ hopper' = <<>> /\ Len(poured) < MaxPoured
  /\ Poured(hopper)
  /\ UNCHANGED <<gpuVars, readVars, sweeper, mixed>>

FluidNext ==
  \/ \E f \in Packets : Pour(f) \/ Expire(f)
  \/ Render \/ RenderSwept \/ Fail \/ ReadEntries \/ ReportTaken \/ Cooled \/ RollOut \/ Dump

-----------------------------------------------------------------------------
FluidTypeOK ==
  /\ awaited \subseteq Packets /\ expired \subseteq awaited /\ sunk \subseteq awaited
  /\ slots \in Seq([slot : Parts, packet : Packets])
  /\ alive \subseteq Parts /\ ring \in Seq([slot : Parts, port : Outlets \cup {Suction}])
  /\ Len(ring) <= Ring /\ counted <= Len(ring) /\ Len(hopper) <= HopperCap

(* Whatever is read back when, swept, vacuumed and dumped: a packet the    *)
(* loft waits for is kept in exactly one place, a slot, the hopper or the  *)
(* deliveries about to be reported, and no other packet is kept at all.    *)
PacketInOnePlace ==
  \A f \in Packets :
    Cardinality({i \in 1..Len(slots) : slots[i].packet = f}) + Cardinality({i \in 1..Len(hopper) : hopper[i] = f})
      + Cardinality({e \in taken : e[1] = f}) = IF f \in awaited THEN 1 ELSE 0

(* Slots are given back once: by the sweep or by the reading, not by both. *)
FreeOnce == IsInjective(freeSlots) /\ ToSet(freeSlots) = Parts \ Taken

(* What the GPU knows by slot is about the packet of that slot: what lives *)
(* is a packet, and what is delivered did fall into a sink; unless a slot  *)
(* was swept while it was in the ring or not yet on the GPU.               *)
GpuKnowsPackets ==
  ~mixed => alive \subseteq Taken /\ \A e \in taken : e[1] \in sunk
=============================================================================
