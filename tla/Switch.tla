-------------------------------- MODULE Switch --------------------------------
(***************************************************************************)
(* A switch on the floor (IEEE 802.1D): its ports, which the player adds   *)
(* and removes while it works, and its filtering database, which learns    *)
(* behind which port a host is, ages, and evicts its oldest entry.  The    *)
(* database knows ports by their index, and an index is a position in the  *)
(* list of ports.                                                          *)
(***************************************************************************)
EXTENDS Naturals, FiniteSets, Sequences, SequencesExt

CONSTANTS
  Macs,        \* addresses of hosts
  Lanes,       \* places for a port: a pair of cells on the edge
  MaxEntries,  \* maxEntries of the database
  FdbTTL       \* ttlMs, in ticks

Nobody == "nobody"     \* the destination of broadcast and group frames

ASSUME SwitchAssumption ==
  /\ MaxEntries \in Nat \ {0} /\ FdbTTL \in Nat
  /\ IsFiniteSet(Macs) /\ IsFiniteSet(Lanes) /\ Nobody \notin Macs

NoPort == 0
Absent == [port |-> NoPort, age |-> 0]

VARIABLES
  ports,       \* app.ports
  fdb,         \* fdb[m]: the port m was learned on, and for how many ticks
               \* it is known, where all of more than FdbTTL are the same
  heard,       \* history: the lanes of m's last frame, none or one
  renumbered   \* history: addresses whose port was removed, or got another
               \* index, since their last frame

switchVars == <<ports, fdb, heard, renumbered>>

SwitchInit ==
  /\ ports = <<>>
  /\ fdb = [m \in Macs |-> Absent]
  /\ heard = [m \in Macs |-> {}] /\ renumbered = {}

Entries(db)  == {m \in Macs : db[m].port # NoPort}
Wired        == ToSet(ports)
Fresh(entry) == entry.port # NoPort /\ entry.age <= FdbTTL

-----------------------------------------------------------------------------
(* One forwarding step: learn the source, then decide by the destination.  *)

(* What evictOldest may leave; of entries equally old it takes the first   *)
(* that was learned.                                                       *)
Evictions(db, src) ==
  IF src \in Entries(db) \/ Cardinality(Entries(db)) < MaxEntries THEN {db}
  ELSE {[db EXCEPT ![m] = Absent] :
          m \in {n \in Entries(db) : \A o \in Entries(db) : db[o].age <= db[n].age}}

(* Mutant of Learned: a known address keeps the port it was learned on.    *)
LearnedOnce(db, src, index) ==
  [db EXCEPT ![src] = [port |-> IF @.port = NoPort THEN index ELSE @.port, age |-> 0]]

Learned(db, src, index) == [db EXCEPT ![src] = [port |-> index, age |-> 0]]

(* Mutant of Exits: the port the frame came from is not left out.          *)
ExitsHairpin(db, dst, index) ==
  IF dst # Nobody /\ Fresh(db[dst]) THEN {db[dst].port} ELSE (1..Len(ports)) \ {index}

(* The indices a frame leaves by: none when its destination is behind the  *)
(* port it came from, all others when that is not known.                   *)
Exits(db, dst, index) ==
  IF dst # Nobody /\ Fresh(db[dst]) THEN {db[dst].port} \ {index}
  ELSE (1..Len(ports)) \ {index}

(* An entry that has aged out is forgotten when it is looked up.           *)
Forgotten(db, dst) ==
  IF dst # Nobody /\ ~Fresh(db[dst]) THEN [db EXCEPT ![dst] = Absent] ELSE db

(* routeAppliance: exits that are no port any more are left out.           *)
Emitted(db, dst, index) == {ports[i] : i \in Exits(db, dst, index) \cap (1..Len(ports))}

(* A frame comes in on a port, and what Emitted says goes out.             *)
Route(src, dst, index) ==
  /\ index \in 1..Len(ports)
  /\ \E db \in Evictions(fdb, src) : fdb' = Forgotten(Learned(db, src, index), dst)
  /\ heard' = [heard EXCEPT ![src] = {ports[index]}]
  /\ renumbered' = renumbered \ {src}
  /\ UNCHANGED ports

-----------------------------------------------------------------------------
(* Time, and the player's clicks on the edge of the switch.                *)

Age ==
  /\ fdb' = [m \in Macs |->
               IF fdb[m].age > FdbTTL \/ fdb[m].port = NoPort THEN fdb[m]
               ELSE [fdb[m] EXCEPT !.age = @ + 1]]
  /\ fdb' # fdb
  /\ UNCHANGED <<ports, heard, renumbered>>

(* Two clicks, of which only the second changes what frames see.           *)
AddSwitchPort(lane) ==
  /\ lane \notin Wired
  /\ ports' = Append(ports, lane)
  /\ UNCHANGED <<fdb, heard, renumbered>>

(* The ports behind it move up; the database is not told.                  *)
RemoveSwitchPort(index) ==
  /\ index \in 1..Len(ports)
  /\ ports' = RemoveAt(ports, index)
  /\ renumbered' = renumbered \cup {m \in Entries(fdb) : fdb[m].port >= index}
  /\ UNCHANGED <<fdb, heard>>

SwitchNext ==
  \/ \E src \in Macs, index \in 1..Cardinality(Lanes) :
       \E dst \in (Macs \ {src}) \cup {Nobody} : Route(src, dst, index)
  \/ Age
  \/ \E lane \in Lanes : AddSwitchPort(lane)
  \/ \E index \in 1..Cardinality(Lanes) : RemoveSwitchPort(index)

SwitchSpec == SwitchInit /\ [][SwitchNext]_switchVars

-----------------------------------------------------------------------------
SwitchTypeOK ==
  /\ ports \in Seq(Lanes) /\ IsInjective(ports)
  /\ fdb \in [Macs -> [port : 0..Cardinality(Lanes), age : 0..(FdbTTL + 1)]]
  /\ heard \in [Macs -> SUBSET Lanes] /\ renumbered \subseteq Macs

(* The database never outgrows its limit, and tells the truth: an address  *)
(* is behind the port it was last heard on, unless ports were removed      *)
(* since (maxEntries; learning, 7.8).                                      *)
FdbTrue ==
  /\ Cardinality(Entries(fdb)) <= MaxEntries
  /\ \A m \in Entries(fdb) \ renumbered :
       fdb[m].port \in 1..Len(ports) /\ heard[m] = {ports[fdb[m].port]}

(* However entries age and are evicted, a frame that comes in next leaves  *)
(* towards the place its destination was last heard at, unless it came     *)
(* from there or that place was touched since, and never goes back where   *)
(* it came from (forwarding, 7.7).                                         *)
RightWay ==
  \A src \in Macs, index \in 1..Len(ports) :
    \A db \in Evictions(fdb, src), dst \in (Macs \ {src}) \cup {Nobody} :
      LET out == Emitted(Learned(db, src, index), dst, index) IN
      /\ ports[index] \notin out
      /\ dst \in Macs \ renumbered =>
           (heard[dst] \cap Wired) \ {ports[index]} \subseteq out
=============================================================================
