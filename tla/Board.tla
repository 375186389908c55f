-------------------------------- MODULE Board --------------------------------
(***************************************************************************)
(* The hosts on the game's board: which perimeter slot each port stands    *)
(* on, which slot a host comes back to, and which hosts are shelved.  A    *)
(* host is a pod's name and outlives its ports; port ids are the loft's.   *)
(* The bridge's events are carried out one after the other; so are the     *)
(* additions of one hello, during which nothing else runs.                 *)
(***************************************************************************)
EXTENDS Naturals, FiniteSets

CONSTANTS
  Hosts,     \* namespace/pod, the identity of a host
  NoHost,
  NumSlots,  \* SLOTS.length
  MaxIds     \* bound: ports at a time; an id that is free again stands for
             \* one never used
ASSUME BoardAssumption ==
  NoHost \notin Hosts /\ {NumSlots, MaxIds} \subseteq Nat /\ NumSlots > 0

Slots == 1..NumSlots
Ids   == 1..MaxIds
None  == 0

VARIABLES
  live,       \* live[id]: the host of the loft's port id, or NoHost
  snapshot,   \* ports of a hello that onHello has still to add
  floor,      \* usedSlots, portLocs (a port's slot) and the roosts in cells
              \* (a slot's port)
  owner,      \* idToIdent
  port,       \* knownHosts: a host's port, None for hosts never seen
  present,    \* knownHosts: the hosts marked present
  saved,      \* slotByIdent, persisted
  shelved,    \* hosts kept off the board, persisted
  twice,      \* history: hosts that had two ports at once, since the hello
  contested,  \* history: slots given to a host by the player, or when all
              \* were taken or saved
  muddled     \* history: a slot was given to two ports, or two to a port

shown     == <<floor, owner, port, present>>
boardVars == <<live, snapshot, shown, saved, shelved, twice, contested, muddled>>

EmptyFloor ==
  [used |-> {}, placed |-> [i \in Ids |-> None], roost |-> [s \in Slots |-> None]]

BoardInit ==
  /\ live = [i \in Ids |-> NoHost] /\ snapshot = {}
  /\ floor = EmptyFloor
  /\ owner = live /\ port = [h \in Hosts |-> None] /\ present = {}
  /\ saved = [h \in Hosts |-> None] /\ shelved = {}
  /\ twice = {} /\ contested = {} /\ muddled = FALSE

PortsOf(h)  == {i \in Ids : live[i] = h}
Placed(i)   == floor.placed[i] # None
PlacedOf(h) == {i \in Ids : Placed(i) /\ owner[i] = h}

-----------------------------------------------------------------------------
(* The floor: a port is put on a slot, or taken off.                       *)

PlaceAt(fl, i, s) ==
  [used |-> fl.used \cup {s}, placed |-> [fl.placed EXCEPT ![i] = s],
   roost |-> [fl.roost EXCEPT ![s] = i]]

(* Mutant of Vacate: the slot of a port that left stays taken.             *)
VacateKeeps(fl, i) ==
  [used |-> fl.used, placed |-> [fl.placed EXCEPT ![i] = None],
   roost |-> [fl.roost EXCEPT ![fl.placed[i]] = None]]

Vacate(fl, i) ==
  [used |-> fl.used \ {fl.placed[i]}, placed |-> [fl.placed EXCEPT ![i] = None],
   roost |-> [fl.roost EXCEPT ![fl.placed[i]] = None]]

(* Mutant of Wiped: the ports of the last session keep their places.       *)
WipedFloorOnly(fl) == [fl EXCEPT !.used = {}, !.roost = [s \in Slots |-> None]]

Wiped(fl) ==
  [used |-> {}, placed |-> [i \in Ids |-> None],
   roost |-> [s \in Slots |-> IF \E i \in Ids : fl.placed[i] = s THEN None ELSE fl.roost[s]]]

(* Slots neither taken nor saved for a host that may come back.            *)
Free == Slots \ (floor.used \cup {saved[h] : h \in Hosts})

Lowest(S) == {s \in S : \A t \in S : s <= t}

AllSpokenFor == \A s \in Slots : s \in floor.used \/ \E h \in Hosts : saved[h] = s

(* A host returns to its slot; a new one takes a free slot, which one a    *)
(* placement rule decides; when all are saved for others, the lowest that  *)
(* is not in use, or the first.                                            *)
Picks(h) ==
  IF saved[h] \in Slots \ floor.used THEN {saved[h]}
  ELSE IF Free # {} THEN Free
  ELSE IF Slots \subseteq floor.used THEN {1}
  ELSE Lowest(Slots \ floor.used)

(* A slot is contested when it is given away by the player, or for want of *)
(* another.                                                                *)
Takes(h, s, byPlayer) ==
  /\ saved' = [saved EXCEPT ![h] = s]
  /\ contested' = IF byPlayer \/ (AllSpokenFor /\ saved[h] # s) THEN contested \cup {s} ELSE contested

(* addPort: a port already on the board is left alone, one of a shelved    *)
(* host is known and not placed.                                           *)
AddPort(i, h) ==
  IF Placed(i) THEN UNCHANGED <<shown, saved, contested, muddled>>
  ELSE /\ owner' = [owner EXCEPT ![i] = h]
       /\ port' = [port EXCEPT ![h] = i]
       /\ present' = present \cup {h}
       /\ IF h \in shelved THEN UNCHANGED <<floor, saved, contested, muddled>>
          ELSE \E s \in Picks(h) :
                 /\ Takes(h, s, FALSE)
                 /\ floor' = PlaceAt(floor, i, s)
                 /\ muddled' = (muddled \/ s \in floor.used)

-----------------------------------------------------------------------------
(* What the bridge reports.                                                *)

(* A pod that is created again under its name gets its new port before the *)
(* old one is gone: one scan of the loft adds first, then removes.         *)
OnPortAdded(i, h) ==
  /\ snapshot = {} /\ live[i] \in {NoHost, h}
  /\ live' = [live EXCEPT ![i] = h]
  /\ twice' = IF PortsOf(h) \ {i} # {} THEN twice \cup {h} ELSE twice
  /\ AddPort(i, h)
  /\ UNCHANGED <<snapshot, shelved>>

OnPortRemoved(i) ==
  /\ snapshot = {} /\ live[i] # NoHost
  /\ live' = [live EXCEPT ![i] = NoHost]
  /\ present' = present \ {owner[i]}
  /\ owner' = [owner EXCEPT ![i] = NoHost]
  /\ floor' = IF Placed(i) THEN Vacate(floor, i) ELSE floor
  /\ UNCHANGED <<snapshot, port, saved, shelved, twice, contested, muddled>>

(* A connection is up (again): whatever the loft has now, by ids that may  *)
(* have been others' before.                                               *)
OnHello(ports) ==
  /\ snapshot = {}
  /\ live' = ports /\ snapshot' = {i \in Ids : ports[i] # NoHost}
  /\ floor' = Wiped(floor) /\ owner' = [i \in Ids |-> NoHost] /\ present' = {}
  /\ twice' = {}
  /\ UNCHANGED <<port, saved, shelved, contested, muddled>>

OnHelloPort(i) ==
  /\ i \in snapshot /\ snapshot' = snapshot \ {i}
  /\ AddPort(i, live[i])
  /\ UNCHANGED <<live, shelved, twice>>

(* The page is loaded again; what is persisted stays.                      *)
Reload ==
  /\ snapshot = {} /\ live' = [i \in Ids |-> NoHost]
  /\ floor' = EmptyFloor
  /\ owner' = live' /\ port' = [h \in Hosts |-> None] /\ present' = {}
  /\ twice' = {} /\ muddled' = FALSE
  /\ UNCHANGED <<snapshot, saved, shelved, contested>>

-----------------------------------------------------------------------------
(* What the player does.                                                   *)

(* One of the host's placed ports leaves, and its latest port is placed.   *)
MoveHost(h, s) ==
  /\ snapshot = {} /\ s \notin floor.used
  /\ \E i \in PlacedOf(h) :
       /\ floor' = PlaceAt(Vacate(floor, i), port[h], s)
       /\ muddled' = (muddled \/ i # port[h])
  /\ Takes(h, s, TRUE)
  /\ UNCHANGED <<live, snapshot, owner, port, present, shelved, twice>>

ShelveHost(h) ==
  /\ snapshot = {} /\ port[h] # None
  /\ shelved' = shelved \cup {h}
  /\ IF PlacedOf(h) = {} THEN UNCHANGED floor
     ELSE \E i \in PlacedOf(h) : floor' = Vacate(floor, i)
  /\ UNCHANGED <<live, snapshot, owner, port, present, saved, twice, contested, muddled>>

(* The host's port is placed as one that was never shelved.                *)
UnshelveHost(h) ==
  /\ snapshot = {} /\ h \in shelved
  /\ shelved' = shelved \ {h}
  /\ IF h \in present /\ PlacedOf(h) = {}
       THEN \E s \in Picks(h) :
              /\ owner' = [owner EXCEPT ![port[h]] = h]
              /\ Takes(h, s, FALSE)
              /\ floor' = PlaceAt(floor, port[h], s)
              /\ muddled' = (muddled \/ s \in floor.used)
       ELSE UNCHANGED <<owner, floor, saved, contested, muddled>>
  /\ UNCHANGED <<live, snapshot, port, present, twice>>

BoardNext ==
  \/ \E i \in Ids : OnPortRemoved(i) \/ OnHelloPort(i) \/ \E h \in Hosts : OnPortAdded(i, h)
  \/ \E ports \in [Ids -> Hosts \cup {NoHost}] :
       /\ \A i, j \in Ids : ports[i] = ports[j] /\ ports[i] # NoHost => i = j
       /\ OnHello(ports)
  \/ Reload
  \/ \E h \in Hosts : ShelveHost(h) \/ UnshelveHost(h) \/ \E s \in Slots : MoveHost(h, s)

BoardSpec == BoardInit /\ [][BoardNext]_boardVars

-----------------------------------------------------------------------------
BoardTypeOK ==
  /\ live \in [Ids -> Hosts \cup {NoHost}] /\ snapshot \subseteq Ids
  /\ floor \in [used : SUBSET Slots, placed : [Ids -> Slots \cup {None}],
                roost : [Slots -> Ids \cup {None}]]
  /\ owner \in [Ids -> Hosts \cup {NoHost}]
  /\ port \in [Hosts -> Ids \cup {None}] /\ present \subseteq Hosts
  /\ saved \in [Hosts -> Slots \cup {None}] /\ shelved \subseteq Hosts
  /\ twice \subseteq Hosts /\ contested \subseteq Slots /\ muddled \in BOOLEAN

(* Unless the board was overfull, or a host with two ports was moved,      *)
(* usedSlots, portLocs and the cells agree: a slot is used exactly by the  *)
(* one port that stands on it (placeAtSlot, removePortVisuals).            *)
SlotsExact ==
  ~muddled =>
    /\ \A i \in Ids : Placed(i) => floor.roost[floor.placed[i]] = i
    /\ \A s \in Slots :
         /\ s \in floor.used <=> floor.roost[s] # None
         /\ floor.roost[s] # None => floor.placed[floor.roost[s]] = s

(* Once a hello is carried out, and with the same exception, the board     *)
(* shows what the loft has: no port that is gone stands on it, and one of  *)
(* a host that never had two ports does exactly if the host is not shelved *)
(* (addPort, removePort, shelveHost, unshelveHost).                        *)
ShownAsIs ==
  ~muddled => \A i \in Ids \ snapshot :
    /\ live[i] = NoHost => ~Placed(i)
    /\ live[i] \in Hosts \ twice => (Placed(i) <=> live[i] \notin shelved)

(* A slot is saved for one host only, but for those the player moved hosts *)
(* to and those given when none was to be had (pickSlot, moveHost).        *)
HomesKept ==
  \A g, h \in Hosts :
    saved[g] = saved[h] /\ saved[g] # None /\ saved[g] \notin contested => g = h
=============================================================================
