---------------------------- MODULE ConsumerView ----------------------------
(***************************************************************************)
(* What the consumers of a loft are told about its ports.  scanLoop and    *)
(* the agents' goroutines change the port set under l.mu and then, with no *)
(* lock held, write a notice to the router and to every observer; a        *)
(* consumer that attaches gets a snapshot taken under l.mu but written     *)
(* after it was released.  The frame path is module Loft: here a token is  *)
(* only a message that names its port.                                     *)
(***************************************************************************)
EXTENDS Naturals, Sequences, FiniteSets, SequencesExt

CONSTANTS
  Routers,      \* router connections that may ever attach
  Observers,    \* observer connections that may ever attach
  NoRouter,     \* l.client = nil
  MaxPorts,     \* bound: ports ever added
  MaxAgents,    \* bound: how many of them by agents
  MaxTokens     \* bound: tokens the reader of a port ever sends

ASSUME ViewAssumption ==
  /\ Routers \cap Observers = {} /\ NoRouter \notin Routers \cup Observers
  /\ MaxPorts \in Nat /\ MaxAgents \in Nat /\ MaxTokens \in Nat

Consumers == Routers \cup Observers
PortIds   == 1..MaxPorts

(* The goroutines that write to consumers: scanLoop and each port's reader *)
(* (an agent's one goroutine is both its reader and its registrar).        *)
Scanner == 0
Workers == {Scanner} \cup PortIds

VARIABLES
  live,       \* ids in l.byID
  nextID,     \* l.nextID
  agents,     \* ids given to external agents (virtual ports)
  reading,    \* ports whose reader runs
  tokens,     \* tokens[p]: tokens p's reader has released
  todo,       \* todo[w]: messages w has still to send, the first under way
  stage,      \* stage[w]: whom the message is being written to
  dest,       \* dest[w]: the consumers it is still to be written to
  client,     \* l.client
  observers,  \* l.observers
  conn,       \* conn[c]: life of a consumer connection
  snap,       \* snap[c]: the port set its hello will carry
  chan,       \* chan[c]: messages on their way to c
  view,       \* view[c]: the ports c believes to exist
  told,       \* told[c]: the ports c has been told of since its hello
  strange,    \* history: ports c got a token of and had not been told of
  overtaken   \* history: ports c got a notice about before its hello

portVars     == <<live, nextID, agents, reading>>
sendVars     == <<todo, stage, dest>>
consumerVars == <<client, observers, conn, snap>>
viewVars     == <<view, told, strange>>
vars == <<portVars, tokens, sendVars, consumerVars, chan, viewVars, overtaken>>

Message(t, ids) == [t |-> t, ids |-> ids]

Init ==
  /\ live = {} /\ nextID = 1 /\ agents = {} /\ reading = {}
  /\ tokens = [p \in PortIds |-> 0]
  /\ todo = [w \in Workers |-> <<>>]
  /\ stage = [w \in Workers |-> "lookup"]
  /\ dest = [w \in Workers |-> {}]
  /\ client = NoRouter /\ observers = {}
  /\ conn = [c \in Consumers |-> "new"]
  /\ snap = [c \in Consumers |-> {}]
  /\ chan = [c \in Consumers |-> <<>>]
  /\ view = [c \in Consumers |-> {}] /\ told = view /\ strange = view
  /\ overtaken = view

-----------------------------------------------------------------------------
(* The port set.  A goroutine does nothing new while it has messages left. *)

Idle(w) == todo[w] = <<>>

Insert(id) ==
  /\ id <= MaxPorts
  /\ live' = live \cup {id} /\ nextID' = id + 1

(* Mutant of AddVeth: the reader is started before the announcement.       *)
AddVethEager ==
  /\ Idle(Scanner) /\ Insert(nextID)
  /\ todo' = [todo EXCEPT ![Scanner] = <<Message("added", {nextID})>>]
  /\ reading' = reading \cup {nextID}
  /\ UNCHANGED <<agents, tokens, stage, dest, consumerVars, chan, viewVars, overtaken>>

(* addPort: register under l.mu, then announce. *)
AddVeth ==
  /\ Idle(Scanner) /\ Insert(nextID)
  /\ todo' = [todo EXCEPT ![Scanner] = <<Message("added", {nextID})>>]
  /\ UNCHANGED <<agents, reading, tokens, stage, dest, consumerVars, chan, viewVars,
                 overtaken>>

(* servePort: register, announce, then answer the agent. *)
AddAgent ==
  /\ Insert(nextID) /\ Cardinality(agents) < MaxAgents
  /\ agents' = agents \cup {nextID}
  /\ todo' = [todo EXCEPT ![nextID] = <<Message("added", {nextID}), Message("reply", {nextID})>>]
  /\ UNCHANGED <<reading, tokens, stage, dest, consumerVars, chan, viewVars, overtaken>>

(* Mutant of ScanGone: only one departure is announced.                    *)
ScanGoneOnce ==
  /\ Idle(Scanner)
  /\ \E gone \in SUBSET (live \ agents) \ {{}} : \E id \in gone :
       /\ live' = live \ gone
       /\ todo' = [todo EXCEPT ![Scanner] = <<Message("removed", {id})>>]
  /\ UNCHANGED <<nextID, agents, reading, tokens, stage, dest, consumerVars, chan, viewVars,
                 overtaken>>

(* One scan: the ports whose files are gone leave l.byID together, then    *)
(* each departure is announced, in whatever order the map was ranged over. *)
ScanGone ==
  /\ Idle(Scanner)
  /\ \E gone \in SUBSET (live \ agents) \ {{}} : \E order \in SetToSeqs(gone) :
       /\ live' = live \ gone
       /\ todo' = [todo EXCEPT ![Scanner] =
                     [i \in DOMAIN order |-> Message("removed", {order[i]})]]
  /\ UNCHANGED <<nextID, agents, reading, tokens, stage, dest, consumerVars, chan, viewVars,
                 overtaken>>

(* The agent's socket fails: its loop ends and it cleans up. *)
AgentLeft(p) ==
  /\ p \in agents \cap reading /\ Idle(p)
  /\ live' = live \ {p} /\ reading' = reading \ {p}
  /\ todo' = [todo EXCEPT ![p] = <<Message("removed", {p})>>]
  /\ UNCHANGED <<nextID, agents, tokens, stage, dest, consumerVars, chan, viewVars,
                 overtaken>>

(* A frame arrives at port p; a veth reader may be at it while the scan    *)
(* removes the port.                                                       *)
Release(p) ==
  /\ p \in reading /\ Idle(p) /\ tokens[p] < MaxTokens
  /\ client # NoRouter
  /\ tokens' = [tokens EXCEPT ![p] = @ + 1]
  /\ todo' = [todo EXCEPT ![p] = <<Message("token", {p})>>]
  /\ UNCHANGED <<portVars, stage, dest, consumerVars, chan, viewVars, overtaken>>

ReaderStops(p) ==
  /\ p \in reading \ agents /\ Idle(p)
  /\ reading' = reading \ {p}
  /\ UNCHANGED <<live, nextID, agents, tokens, sendVars, consumerVars, chan, viewVars,
                 overtaken>>

-----------------------------------------------------------------------------
(* Sending: notifyJSON, and ingest with its token.  The router is looked   *)
(* up under l.mu and written to without it, then the observers.            *)

Current(w, t) == ~Idle(w) /\ (Head(todo[w]).t = "reply") = (t = "reply")

LookupRouter(w) ==
  /\ Current(w, "notice") /\ stage[w] = "lookup"
  /\ stage' = [stage EXCEPT ![w] = "router"]
  /\ dest' = [dest EXCEPT ![w] = {client} \ {NoRouter}]
  /\ UNCHANGED <<portVars, tokens, todo, consumerVars, chan, viewVars, overtaken>>

LookupObservers(w) ==
  /\ stage[w] = "router" /\ dest[w] = {}
  /\ stage' = [stage EXCEPT ![w] = "observers"]
  /\ dest' = [dest EXCEPT ![w] = observers]
  /\ UNCHANGED <<portVars, tokens, todo, consumerVars, chan, viewVars, overtaken>>

Open(c) == conn[c] \in {"attached", "greeted"}

(* A write reaches the consumer if its connection is still open. *)
Write(w, c) ==
  LET m == Head(todo[w]) IN
  /\ c \in dest[w]
  /\ dest' = [dest EXCEPT ![w] = @ \ {c}]
  /\ chan' = IF Open(c) THEN [chan EXCEPT ![c] = Append(@, m)] ELSE chan
  /\ overtaken' = IF conn[c] = "attached" /\ m.t # "token"
                  THEN [overtaken EXCEPT ![c] = @ \cup m.ids] ELSE overtaken
  /\ UNCHANGED <<portVars, tokens, todo, stage, consumerVars, viewVars>>

(* The last write is done: the next message, or back to work.  A veth's    *)
(* reader is started once its port was announced.                          *)
Sent(w) ==
  LET m == Head(todo[w]) IN
  /\ stage[w] = "observers" /\ dest[w] = {}
  /\ stage' = [stage EXCEPT ![w] = "lookup"]
  /\ todo' = [todo EXCEPT ![w] = Tail(@)]
  /\ reading' = IF m.t = "added" /\ w = Scanner THEN reading \cup m.ids ELSE reading
  /\ UNCHANGED <<live, nextID, agents, tokens, dest, consumerVars, chan, viewVars, overtaken>>

(* servePort answers its agent and starts to read from it. *)
Reply(p) ==
  /\ Current(p, "reply")
  /\ todo' = [todo EXCEPT ![p] = Tail(@)]
  /\ reading' = reading \cup {p}
  /\ UNCHANGED <<live, nextID, agents, tokens, stage, dest, consumerVars, chan, viewVars,
                 overtaken>>

-----------------------------------------------------------------------------
(* Consumers.                                                              *)

(* A closed connection takes what was on its way along; what its consumer  *)
(* knew no longer matters.                                                 *)
Without(f, c) == [d \in Consumers |-> IF d = c THEN {} ELSE f[d]]

Forgotten(c) ==
  /\ chan' = [d \in Consumers |-> IF d = c THEN <<>> ELSE chan[d]]
  /\ view' = Without(view, c) /\ told' = Without(told, c)
  /\ strange' = Without(strange, c) /\ overtaken' = Without(overtaken, c)

(* attachConsumer under l.mu: register (a router closes the one before it) *)
(* and take the snapshot.                                                  *)
Attach(c) ==
  /\ conn[c] = "new"
  /\ IF c \in Observers
     THEN /\ observers' = observers \cup {c} /\ UNCHANGED client
          /\ conn' = [conn EXCEPT ![c] = "attached"]
          /\ snap' = [snap EXCEPT ![c] = live]
          /\ UNCHANGED <<chan, viewVars, overtaken>>
     ELSE /\ client' = c /\ UNCHANGED observers
          /\ conn' = [d \in Consumers |-> IF d = c THEN "attached"
                                          ELSE IF d = client THEN "closed" ELSE conn[d]]
          /\ snap' = [Without(snap, client) EXCEPT ![c] = live]
          /\ Forgotten(client)
  /\ UNCHANGED <<portVars, tokens, sendVars>>

(* ... and its hello is written once the lock was released. *)
SendHello(c) ==
  /\ conn[c] = "attached"
  /\ conn' = [conn EXCEPT ![c] = "greeted"]
  /\ chan' = [chan EXCEPT ![c] = Append(@, Message("hello", snap[c]))]
  /\ snap' = Without(snap, c)
  /\ UNCHANGED <<portVars, tokens, sendVars, client, observers, viewVars, overtaken>>

(* The read loop ends: the consumer left, or was bumped. *)
HangUp(c) ==
  /\ conn[c] \in {"greeted", "closed"}
  /\ conn' = [conn EXCEPT ![c] = "gone"]
  /\ observers' = observers \ {c}
  /\ client' = IF client = c THEN NoRouter ELSE client
  /\ snap' = Without(snap, c)
  /\ Forgotten(c)
  /\ UNCHANGED <<portVars, tokens, sendVars>>

(* What a consumer makes of a message: a hello replaces what it knew.      *)
Applied(m, ids) ==
  CASE m.t = "hello"   -> m.ids
    [] m.t = "added"   -> ids \cup m.ids
    [] m.t = "removed" -> ids \ m.ids
    [] m.t = "token"   -> ids

Receive(c) ==
  LET m == Head(chan[c]) IN
  /\ Open(c) /\ chan[c] # <<>>
  /\ chan' = [chan EXCEPT ![c] = Tail(@)]
  /\ view' = [view EXCEPT ![c] = Applied(m, @)]
  /\ told' = [told EXCEPT ![c] = IF m.t = "removed" THEN @ ELSE Applied(m, @)]
  /\ strange' = [strange EXCEPT ![c] = CASE m.t = "hello" -> {}
                                         [] m.t = "token" -> @ \cup (m.ids \ told[c])
                                         [] OTHER         -> @]
  /\ UNCHANGED <<portVars, tokens, sendVars, consumerVars, overtaken>>

-----------------------------------------------------------------------------
Next ==
  \/ AddVeth \/ AddAgent \/ ScanGone
  \/ \E p \in PortIds : AgentLeft(p) \/ Release(p) \/ ReaderStops(p) \/ Reply(p)
  \/ \E w \in Workers : \/ LookupRouter(w) \/ LookupObservers(w) \/ Sent(w)
                        \/ \E c \in Consumers : Write(w, c)
  \/ \E c \in Consumers : Attach(c) \/ SendHello(c) \/ HangUp(c) \/ Receive(c)

Spec == Init /\ [][Next]_vars

-----------------------------------------------------------------------------
(* Every variable has its type. *)
TypeOK ==
  /\ live \subseteq PortIds /\ agents \subseteq PortIds /\ reading \subseteq PortIds
  /\ nextID \in 1..(MaxPorts + 1)
  /\ tokens \in [PortIds -> 0..MaxTokens]
  /\ \A w \in Workers : \A i \in DOMAIN todo[w] :
       todo[w][i] \in [t : {"added", "removed", "token", "reply"}, ids : SUBSET PortIds]
  /\ stage \in [Workers -> {"lookup", "router", "observers"}]
  /\ dest \in [Workers -> SUBSET Consumers]
  /\ client \in Routers \cup {NoRouter} /\ observers \subseteq Observers
  /\ conn \in [Consumers -> {"new", "attached", "greeted", "closed", "gone"}]
  /\ {snap, view, told, strange, overtaken} \subseteq [Consumers -> SUBSET PortIds]
  /\ \A c \in Consumers : \A i \in DOMAIN chan[c] :
       chan[c][i] \in [t : {"hello", "added", "removed", "token"}, ids : SUBSET PortIds]

(* All that was to be sent was sent, and consumer c has read its part. *)
Settled(c) ==
  conn[c] = "greeted" /\ chan[c] = <<>> /\ \A w \in Workers : Idle(w)

(* Once everything was sent, a consumer knows the ports there are - except *)
(* those whose notice was written before its hello, which then undid it:   *)
(* no registration, bump or departure loses or invents a port otherwise.   *)
ViewTracksPorts ==
  \A c \in Consumers : Settled(c) => (view[c] \ live) \cup (live \ view[c]) \subseteq overtaken[c]

(* After its hello a consumer gets tokens only of ports it was told of,    *)
(* unless the port is already gone or its notice came before the hello: a  *)
(* port's reader does not start before the port was announced to everyone. *)
NoStrangeToken ==
  \A c \in Consumers : conn[c] = "greeted" /\ ~(\E i \in DOMAIN chan[c] : chan[c][i].t = "hello")
                         => strange[c] \cap live \subseteq overtaken[c]

(* "hello re-syncs the port set": once everything was sent, an attached    *)
(* consumer knows exactly the ports there are.                             *)
HelloResyncs == \A c \in Consumers : Settled(c) => view[c] = live
=============================================================================
