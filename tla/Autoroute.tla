------------------------------- MODULE Autoroute -------------------------------
(***************************************************************************)
(* The router without a floor: tools/autoroute.mjs, and the game's         *)
(* benchmark mode.  It learns behind which port an address is, forwards    *)
(* to known ones, floods the rest and frees the original.  The loft it     *)
(* routes for has ports that come and go, with hosts that move from one to *)
(* another; it handles a message at a time.                                *)
(***************************************************************************)
EXTENDS Naturals, Sequences, FiniteSets

CONSTANTS
  Hosts,      \* with an address each
  Broadcast,  \* an address of nobody
  MaxPorts,   \* bound: port ids of a loft; one that is free again stands for
              \* a new one only if no address was learned behind it
  MaxNotices  \* bound: messages of the loft that wait

ASSUME AutorouteAssumption == Broadcast \notin Hosts /\ {MaxPorts, MaxNotices} \subseteq Nat

Unknown == 0
Ports   == 1..MaxPorts

VARIABLES
  at,        \* the loft: the port a host is behind
  notices,   \* the loft's messages to the router, the oldest first
  attached,  \* the router is
  ports,     \* ports
  macTable,  \* macTable
  heard,     \* history: the host has been heard since it moved
  missed     \* history: a frame for a host that was heard did not reach it

autorouteVars == <<at, notices, attached, ports, macTable, heard, missed>>

AutorouteInit ==
  /\ at = [h \in Hosts |-> Unknown] /\ notices = <<>> /\ attached = FALSE
  /\ ports = {} /\ macTable = [h \in Hosts \cup {Broadcast} |-> Unknown]
  /\ heard = {} /\ missed = FALSE

Up == {at[h] : h \in Hosts} \ {Unknown}

Hello(S)    == [t |-> "hello", ports |-> S]
Added(i)    == [t |-> "port-added", ports |-> {i}]
Removed(i)  == [t |-> "port-removed", ports |-> {i}]
Token(h, d) == [t |-> "token", src |-> h, in |-> at[h], dst |-> d]

Notice(m) ==
  IF attached THEN Len(notices) < MaxNotices /\ notices' = Append(notices, m)
  ELSE UNCHANGED notices

-----------------------------------------------------------------------------
(* The loft and the hosts.                                                 *)

(* A host's port comes up, with an id that was never used before.          *)
HostUp(h, i) ==
  /\ at[h] = Unknown /\ i \notin Up /\ \A a \in DOMAIN macTable : macTable[a] # i
  /\ \A n \in DOMAIN notices : notices[n].t = "token" => notices[n].in # i
  /\ at' = [at EXCEPT ![h] = i] /\ heard' = heard \ {h}
  /\ Notice(Added(i))
  /\ UNCHANGED <<attached, ports, macTable, missed>>

HostDown(h) ==
  /\ at[h] # Unknown
  /\ at' = [at EXCEPT ![h] = Unknown] /\ heard' = heard \ {h}
  /\ Notice(Removed(at[h]))
  /\ UNCHANGED <<attached, ports, macTable, missed>>

(* A frame is sent: its token waits with the notices.                      *)
Sends(h, d) ==
  /\ at[h] # Unknown /\ d # h /\ attached
  /\ Notice(Token(h, d))
  /\ UNCHANGED <<at, attached, ports, macTable, heard, missed>>

Connects ==
  /\ ~attached /\ attached' = TRUE /\ notices' = <<Hello(Up)>>
  /\ UNCHANGED <<at, ports, macTable, heard, missed>>

(* onclose: the ports are forgotten, what was learned is not.              *)
Disconnects ==
  /\ attached /\ attached' = FALSE /\ notices' = <<>> /\ ports' = {}
  /\ UNCHANGED <<at, macTable, heard, missed>>

-----------------------------------------------------------------------------
(* onMessage.                                                              *)

(* Mutant of Learned: an address that is known is not learned again.       *)
LearnedOnce(h, i) == IF macTable[h] = Unknown THEN [macTable EXCEPT ![h] = i] ELSE macTable

Learned(h, i) == [macTable EXCEPT ![h] = i]

(* Mutant of Flooded: the port a frame came from gets it, others do not.   *)
FloodedBack(i) == {i}

(* The ports that get copies of a frame, before its original is freed.     *)
Flooded(i) == ports \ {i}

Forwards(m) == Learned(m.src, m.in)[m.dst] \notin {Unknown, m.in}

(* The ports a frame goes out of.                                          *)
Routed(m) == IF Forwards(m) THEN {Learned(m.src, m.in)[m.dst]} ELSE Flooded(m.in)

OnToken ==
  LET m == Head(notices) IN
  /\ attached /\ notices # <<>> /\ m.t = "token" /\ notices' = Tail(notices)
  /\ macTable' = Learned(m.src, m.in)
  /\ heard' = IF at[m.src] = m.in THEN heard \cup {m.src} ELSE heard
  /\ missed' = (missed \/ (m.dst \in heard /\ at[m.dst] \notin Routed(m)))
  /\ UNCHANGED <<at, attached, ports>>

OnControl ==
  LET m == Head(notices) IN
  /\ attached /\ notices # <<>> /\ m.t # "token" /\ notices' = Tail(notices)
  /\ ports' = IF m.t = "port-removed" THEN ports \ m.ports ELSE ports \cup m.ports
  /\ UNCHANGED <<at, attached, macTable, heard, missed>>

AutorouteNext ==
  \/ \E h \in Hosts :
       \/ \E i \in Ports : HostUp(h, i)
       \/ HostDown(h)
       \/ \E d \in Hosts \cup {Broadcast} : Sends(h, d)
  \/ Connects \/ Disconnects \/ OnToken \/ OnControl

-----------------------------------------------------------------------------
AutorouteTypeOK ==
  /\ at \in [Hosts -> Ports \cup {Unknown}] /\ attached \in BOOLEAN /\ ports \subseteq Ports
  /\ macTable \in [Hosts \cup {Broadcast} -> Ports \cup {Unknown}] /\ heard \subseteq Hosts

(* Addresses outlive the ports they were learned on, but a host that has   *)
(* been heard behind its port is reached there, however hosts move and     *)
(* whenever the router was away; and once the loft has no more to say,     *)
(* what is flooded goes to its very ports (onMessage, onclose).            *)
HeardIsReached == ~missed /\ ((attached /\ notices = <<>>) => ports = Up)

=============================================================================
