# Pigeon ISP: specifications, model checks and proofs

Pigeon ISP carries the traffic of Kubernetes pods through a *game*: every frame
a pod sends is buffered in a loft daemon (`loftd`), announced to one attached
*router* consumer as a token, and goes only where that consumer says.  This
directory holds TLA+ modules of that system, the TLC configurations that check
them on small instances, and TLAPS proofs for instances of every size.

Run them from this directory: `tlc -config MCLoft.cfg MCLoft`,
`tlapm LoftProofs.tla`.  The system's own documents are `src/docs/`
(`pigeon-api.md` and `architecture.md` above all).

## 1. The system

| component | source | state it keeps | operations | talks to |
|---|---|---|---|---|
| loft: frame plane | `bridge/cmd/loftd/main.go` | ports, frame buffer, drop counters, the router slot | scan, read, ingest, deliver, copy-deliver, drop, sweep, attach, hang up | consumers (`/ws`), agents (`/port`), pods (AF_PACKET) |
| loft: notices | same | observers, what each consumer was sent | hello, port-added, port-removed, stats, log | router and observers |
| loft: trunk | `bridge/cmd/loftd/trunk.go` | edge: the trunk connection; gateway: edges, remote ports and frames | dial, hello, port notices, tokens, instructions, edgeGone | edge <-> gateway (`/trunk`) |
| loft: mesh | both | cached peer connections | push, inject | loft -> loft (`/peer`) |
| pigeon-cni | `bridge/cmd/pigeon-cni/main.go` | address pools and port files on disk | ADD, DEL under a file lock | kubelet; the loft's scan reads its files |
| agents | `bridge/cmd/{wggw,tunbridge,uplink,perch}` | ARP cache, connection, queues | register, answer ARP, forward IP | `/port` of a loft |
| tower: shells | `tower/shell.go`, `game/src/ui/terminal.ts` | session registry, output so far, viewer; windows and what they remember | open, join, replay, broadcast, reap; reload, restore | page <-> tower (`/api/shell`), Kubernetes exec |
| tower: workloads | `tower/workloads.go` | a registry, a goroutine each | create, run, delete | Kubernetes API |
| bridges | `protocol/src` | the socket, timer and backoff of a page; a simulated loft with two pods | connect, retry, fall back; deliver, drop | a loft as router; the page |
| autoroute | `tools/autoroute.mjs`, benchmark mode in `game/src/main.ts` | MAC table, port set | learn, forward, flood | a loft or the sim, as router |
| game: floor | `game/src/game/board.ts`, `machines.ts`, `tables.ts` | cells, switches, hosts and slots, forwarding database, buckets, tables; localStorage | place, lay, toggle, erase, clear, reload; come, leave, move, shelve; learn, look up, meter | the player, the bridge's port events |
| game: pigeons | `game/src/game/pigeons.ts` | queue, flock, references, clone backlog | spawn, ride, clone, wait, deliver, drop | the floor, the bridge |
| game: hands | `game/src/main.ts`, `ui/hud.ts` | tool, drag, open panel, switch under edit, roost being moved | press, paint, drag, release, inspect, apply | the floor |
| ballpit: worker | `ballpit/src/{loft-game,physics-*,sim}.ts` | balls, slots, sinks, messages before the world exists | spawn, step, report | a loft as router; a worker |
| ballpit: fluid | `ballpit/src/gpu/fluid.ts`, `vehicles.ts` | slots on the page, particles and ring on the GPU, a hopper | pour, render, sweep, read back, vacuum, dump | the same loft; a GPU |
| ballpit: building | `ballpit/src/build.ts` | parts, turns, belts; localStorage | place, erase, sync ports, reload | physics |

### What is hard, and what makes each part right

* **Frame plane.** Port readers, agents, router read loops, housekeeping and
  the scan are goroutines that meet in short critical sections of `l.mu` and
  block on socket writes outside it.  A bumped router's connection goes on
  deciding what it had already been read.  *Right* means: every frame leaves
  the buffer exactly once and is counted as what it was, a copied frame is
  never a drop, the buffer is bounded, the router slot belongs to the one open
  connection, and undecided frames do leave.
* **Notices.** Snapshots are taken under the lock and written after it; notices
  are looked up, then written.  *Right*: when everything was sent, a consumer's
  port set is the loft's, and it gets no token of a port it never heard of.
* **Trunk.** Both ends notice a broken connection on their own; an edge may
  redial while the gateway still serves its old connection, and restarts with
  its ids counted from one.  *Right*: the gateway's two maps agree, and a
  settled trunk shows every port of the edge, correctly.
* **Mesh.** A verdict is looked up, then acted on, perhaps two processes away
  from the payload.  *Right*: a payload is consumed at most once, only where
  the router ordered, and has one fate.
* **Floor.** Two maps of one board, changed by the player and by hosts that come
  back; a store that replays itself; databases that outlive the ports they name.
  *Right*: the maps agree, a reload makes the same floor, a frame goes where its
  destination was last heard, an open panel never changes another machine.
* **Pigeons.** One frame may be many pigeons; pools and queues are bounded, and
  the floor is rebuilt under them.  *Right*: each frame gets exactly one
  consuming verdict, after its copies, and pigeons stay out of walls.
* **Bridges.** A socket, a retry timer and a three-second timer race; pages bump
  each other.  *Right*: one source of frames, and a factory in the end.
* **Ballpit.** The world comes up after the first messages; the GPU is read back
  in three awaits while frames are rendered.  *Right*: a frame the loft waits for
  is in one place, and leaves it.
* **Shells.** Registry lock, session locks, a reaper, and pages that reload.
  *Right*: a viewer misses nothing, a page remembers what it shows, and what
  nobody views is reaped.
* **CNI, agents, workloads.** Crashes between file operations, reconnects, runs
  that outlive their workload.  Not modelled yet (section 6).

`PROJECT.json` lists the hazards one by one, at their lines, with the properties
that watch each.

## 2. Modules

`LoftBuffer` <- `Loft` <- `LoftProofs`, with `FrameLifecycle` as the abstract
specification `Loft` implements; `ConsumerView`, `Trunk` and `MeshFrames` each
stand for another face of the same daemon.  They are split by what is told
apart: `Loft` has one loft's frames in full and reduces notices to nothing,
`ConsumerView` has the notices and reduces a frame to "a token of port p",
`Trunk` has port messages and no frames, `MeshFrames` has frames and reduces the
registration of a port to one step.

The game is split the same way.  `Pigeons` counts frames and leaves the floor
open; `Machinery` has the floor, and `Workbench` (the player) and `Traffic` (pigeons)
each extend it; `Board` decides which host gets which slot, `Switch`, `Meter` and
`Tables` what one machine remembers.  `BallPit`, `Fluid` and `Build` are the ballpit's
three; `Link` is where a page gets its frames from, `Autoroute` a router without a
floor, which `SimBridge` extends with the two pods it may route for; `Shells` is the
tower's and the terminal windows'.

The theorems are in modules of their own, each about modules or a composition a run
checks: `LoftProofs`, `NoticesProofs` (`MCNotices`), `MeshProofs` (`MeshFrames`, of which
`MCMesh` explores two kinds of instance), `FloorProofs` (`MCFloor`: board, switch,
pigeons), `WorksProofs` (`Meter`, `Tables`, `Machinery`, `Workbench`, `Traffic`),
`BridgesProofs` (`MCBridges`) and `BallpitProofs` (`MCBallpit`).  `Folding` has the lemmas
about numbers, `FoldLeft` and `Only` they share: induction, said of a set of numbers, and
that a fold keeps what each of its steps keeps.

| module | extends | | module | extends |
|---|---|---|---|---|
| `Loft` | `LoftBuffer` | | `Workbench`, `Traffic` | `Machinery` |
| `Loft!Lifecycle` | instance of `FrameLifecycle` | | `SimBridge` | `Autoroute` |

An `MC*` module puts parts that share no variables side by side and starts as one
of them (`part`, `lone`), so that a run explores each of them and their state
spaces add up.  `MCWorks` starts the pigeons on a floor that is built already
(`Town`).  `Selection` is what a filter leaves of a list.

### Loft (with LoftBuffer)

| variable | code | | action | code |
|---|---|---|---|---|
| `ports`, `nextID` | `l.byID`, `l.nextID` | | `AddPort`, `RemovePort` | `addPort`, `servePort`, `scanLoop` |
| `readers`, `sending` | a `readLoop`/agent goroutine, and the token it has still to send | | `Ingest*`, `SendToken` | `ingest` before and after its unlock |
| `frames`, `nextFID` | `l.frames`, `l.nextFID` | | `DeliverLocal`, `DropLocal` | `deliverLocal`, `dropLocal` |
| `client`, `conn`, `inbox` | `l.client`, a connection's life, its unread verdicts | | `Attach`, `HangUp` | `attachConsumer` |
| `watching`, `telling` | `l.observers`; those a goroutine has still to write to | | `Watch`, `Unwatch`, `Tell` | `attachConsumer`, `eachObserver` |
| `hk` | where `housekeeping` is | | `Sweep`, `SendStats` | `housekeeping` |
| `overflowing`, `noGame`, counters | the same | | `SendVerdict`, `Stall`, `Resume` | the consumers' processes (external) |
| `ledger`, `flown`, `announced` | history: ways out, copies written, tokens received | | | |

The age of a frame is counted in sweeps.  A write to a router or an observer
blocks while that consumer does not read, and no write has a deadline.  So a
reader that sends a token, and housekeeping that sends the stats, wait for the
router (`SendToken`, `SendStats`) and then, one after the other, for each observer
there was when the router's write was done (`Tell`).  A connection that ends has
the write fail.  Log lines and notices block in the same way and are not repeated
here: the narration of overflow holds up a reader only (notices are
`ConsumerView`'s).  An edge's housekeeping also writes to its trunk
(`main.go:861-863`), which this loft does not have.  Byte and latency counters are
left out.

`FrameLifecycle` is the no-silent-drop rule of `pigeon-api.md` as a state
machine: unseen, held, copied, and one of delivered, dropped, expired.
`Loft!Lifecycle` is the refinement, with the stage of a frame read off the buffer
and the ledger.

### ConsumerView

Workers are the goroutines that write to consumers: the scan, and one for each
port.  `todo[w]` is what `w` has still to send; a message is looked up for the
router, written, looked up for the observers, and written to each
(`LookupRouter`, `LookupObservers`, `Write`, `Sent`).  Attaching takes the
snapshot (`Attach`), `SendHello` writes it.  `Receive` is what
`protocol/src/wsbridge.ts` makes of a message.  `overtaken[c]` remembers the
ports of which a notice was written to `c` before its hello.

### Trunk

One edge with its ports, its trunk goroutine `run` (dial, snapshot, hello, read)
and its scan; the gateway with one `serveTrunk` for each connection the edge ever
dialled, so that an old and a new connection of one edge are served at once.  A
broken connection still delivers a prefix of what was sent.  `remotePorts` and
`portMap` are the gateway's two maps.  A list of ports is registered in one step:
nothing else reads the maps in between but the consumer, who is
`ConsumerView`'s.  The edge's ports are pods: an agent's port (`servePort`) is in the
snapshot of a hello, while its coming and going in between is never reported on the
trunk.  The documents attach agents to the gateway, and the model has none at an
edge.

### MeshFrames

Edges and the gateway have buffers of their own; tokens go up, instructions come
down, payloads travel on `wire`.  `acting` is a verdict between the lookup of
`consumerMsg` and what it does, in the five cases of its `switch`.  A restart
gives an edge a new life: same port id, same frame ids, another pod.  A peer
connection to a process that died is `stale`: a write to it may fail or seem to
succeed.  The router is attached to the gateway; that a token was shown and the
frame booked is one step; one verdict is carried out at a time.

Where a frame and its port are remote, the gateway sends an instruction without
the lock (`ActForward`, `ActRemote`) and deletes its record of a consumed frame under
the lock taken anew (`Forget`); `acting` stays in between, and the trunk may end
there.  `torn` remembers the frames that `edgeGone` then counts.  A drop is the other
way round (`main.go:739-745`): the record goes first, and a trunk that ends before
the edge is told makes the telling a write to a broken connection, which is what
`ActDrop` in one step may be as well.

### Pigeons

The router's end: `queue`, `flock`, `refs` and `backlog` are the fields of
`PigeonManager`, with pigeons told apart by their frame only.  A tick is one call
of `update()`, in its three loops: tokens take off (`Spawn`), each pigeon moves
(`FlyOn`, `Depart`), clones are made (`Clone`, `RefuseClone`); tokens arrive, and
the loft restarts, between ticks only.  The floor may be rebuilt at any time, so
what it does to a pigeon in a tick is open: any number of clones up to a bound,
and it flies on, waits, lands or is filtered.  Pigeons move in any order, where
the code takes the last first.  `spoiled` are the frames whose count the code
gets wrong; a verdict is what the game sends, also when the socket is down.

### Board

| variable | code | | action | code |
|---|---|---|---|---|
| `live`, `snapshot` | the loft's ports; those of a hello still to be added | | `OnHello`, `OnHelloPort` | `onHello`: `resetPorts`, then `addPort` for each |
| `floor` | `usedSlots`, `portLocs`, the roosts in `cells` | | `OnPortAdded`, `OnPortRemoved` | `addPort`, `removePort` |
| `owner` | `idToIdent` | | `MoveHost` | `moveHost` |
| `port`, `present` | `knownHosts` | | `ShelveHost`, `UnshelveHost` | the same |
| `saved`, `shelved` | `slotByIdent`, `shelved`, persisted | | `Reload` | the constructor, on a new page |

The player moves, shelves and unshelves between the bridge's events.  A placement
rule may choose any free slot.  One port id stands for all that are never seen
again, so that two ids are enough for any number of sessions.  `twice` are the hosts that had two ports at
once, `contested` the slots given by the player, or for want of another,
and `muddled` says that two ports were put on one slot because all were taken,
or that a host with two ports was moved, where `moveHost` removes one port and
places the other.  A hello has one port of each host; a scan that has added a pod's
new port and not yet removed the old one could send both, which is left out.

### Switch

`ports` and `fdb` are the same in the code; time is counted in ticks, up to the
one after which an entry is stale.  `Route` is a frame on one of the ports:
learning with `Learned` and `Evictions`, the decision with `Exits` and
`Forgotten`, and `Emitted` is where it leaves.  A click on an edge cell adds a port
or removes one, and the ports behind it get other indices, which the database
does not notice: `renumbered` are the addresses it may be wrong about until they
are heard again.  Frames for them leave by another port, or by none.

### Machinery

| variable | code | | action | code |
|---|---|---|---|---|
| `floor.cells` | `cells` | | `Paint`, `Configure`, `EraseMachine`, `ClearFloor` | `placeBelt` ... `placeMeter`, `configure*`, `eraseMachine`, `clearMachines` |
| `floor.boxes` | `appliances`, in the order they were made | | `CreateSwitch`, `TogglePort` | `createSwitch`, `togglePort` |
| `store` | `pigeon-floor` in localStorage | | `HostComes`, `HostLeaves`, `MoveHost` | `placeAtSlot`, `removePortVisuals`, `moveHost` |
| `slotOf`, `home` | `portLocs`, `slotByIdent` | | `ReloadFloor` | the constructor: `restore` |

A loose machine is its type and its exits.  `Cleared` is `clearForBuild` and
`removeMachine`: a switch that loses a cell goes as a whole.  `Restored` replays the
stored machines, then draws each switch corner to corner and repeats the clicks
that made its ports.  `scrapped` remembers that a host pushed machines out, which
is not written until the next change.

### Workbench

`tool`, `held`, `drag`, `active`, `panel` and `moving` are the variables of `main.ts`
and `hud.ts` that outlive an event: the tool in hand, whether the button paints or
erases, the corners of a drag, the switch under edit, the open panel and the host
being moved.  Every pointer event is an action (`SelectClick`, `PlaceSingle`,
`PressTool`, `PointerMove`, `PointerUp`, `Land`), and so are keys, toolbar, the
panel's `Apply` and its tick.  Hosts come and go in between.

### Traffic

`birds` are pigeons with the cell they stand on, the one they ride to and their
direction.  `Exits` is `routeFrom` with every decision open, `Enterable` is
`beginSegment`, `Taken` is `take`: clones first, then the move to the first exit
before it is known to be open.  `Rebuild` is any change of the floor, after which
a pigeon is `stale` until it sets off again.

### Meter, Tables

A bucket (`tokens`, `since`) in parts of a token that make a tick's refill whole,
with `MeterFrame` as `meterStep` and `ConfigureMeter` as the panel; `window` is the
history of what passed, as its totals over the last 1, 2, ... ticks up to a
second.  A named table (`entries`) with ages in ticks, with `TableLearn`, `TableLookup`
and `Evicted`; `learned` is the history of the same without limits.

### Link

`socket` is the WebSocket by its `readyState`, `timer` the wait of the retry timer in
steps of the backoff, `hurry` the ballpit's three-second timer (`Timed` pages),
`bridge` who gets the page's verdicts.  `Opens`, `Fails`, `Closes`, `TimerFires` and
`HurryFires` are `onopen`, `onclose` and the timers; `FallBack` is `startSim`.  The
loft keeps the newest router and closes the socket of the one before, and may go
and come back.  That it accepts a connection and that the page learns of it are one
step (`Opens`).  What happens in between is left out: a page bumped before its
`onopen`, and one that gives up at that moment, having bumped another that then
reconnects.  `bumps` counts how often in a row others took over; it starts
again when a router is left in peace.

### Autoroute, SimBridge

`macTable` and `ports` are the router's, `notices` the loft's messages it has not
handled.  `Sends`, `HostUp` and `HostDown` are the loft's hosts, which may come back on
another port; `OnToken` is learning, then forwarding or flooding.  `SimBridge` has
alice, who asks for bob's address until she has it and then pings him, and bob, who
answers; `held` is the sim's buffer, `pods.due` the timeouts under way.  With a
`player` any frame may be delivered to any port, copied or dropped at any time;
without one, every frame is routed by `Autoroute`'s operators at once.

### BallPit

| variable | code | | action | code |
|---|---|---|---|---|
| `issued` | the loft's frames | | `OnToken`, `MainReceive` | `onToken`; `onSpawned`, `onGone` |
| `toWorker`, `toMain` | `postMessage` both ways | | `PlaceSink`, `RemoveSink` | `place`, `remove` to physics |
| `created`, `early` | `sim`, `queue` of the worker | | `WorkerReceive`, `Create` | `onmessage`, the world is there |
| `sinks`, `balls`, `body`, `free`, `pending` | the same of `Sim` | | `Step` | `step` with its report |
| `frameSlot`, `active` | the client's | | `GrowOld` | time |

In a step any ball may touch any sensors or fall out; of two sensors that
overlap, both report.

### Fluid

The page's `slots`, `freeSlots` and `poured` against the GPU's `alive` and `ring`.  A
rendered frame (`Render`, `RenderSwept`) is: sweep, kills, spawns, passes, and the
first await of the readback if none is under way; `ReadEntries` and `ReportTaken` are
what follows the other awaits, with rendered frames in between.  `Finding` are the
entries of the ring whose slot still has a packet, `Only` the order in which a
map is gone through.  `hopper` is the
sweeper's.  `mixed` says that the sweep freed a slot that the ring or the spawn
queue still held, from when on a slot may be two packets.  `Fail` is a readback that
fails at its entries; one that fails at the reset (`fluid.ts:665`), with slots freed
and deliveries not reported, is left out.

### Build

`parts` and what physics (`solid`, `running`) and storage (`stored`) have of them.
`SyncPorts` gives every port a turn and, if it has no dock, a dock and a sink at the
turn's cells, whatever stands there; `OnPortRemoved` takes both away again; `Click` and
`Erase` are the player's.  The shader's arrays of sinks and belts have a fixed size and
parts beyond it have no effect on the GPU (`fluid.ts:28`, `:515`, `:588`): no property
speaks of what the shader has of the building.

### Shells

The page: windows, each with a connection, and `saved`; `Reload`, `Listed` and
`Restore` are `restoreSessions` with its await.  The tower: `Find` or
`NewShellSession`, `Attach` (which copies the output so far), `Replay` (which sends
it), `Leave`; `Output` is what the shell writes and `Broadcasts` what is sent of it to
the viewer there is then.  The reaper judges a session (`Judge`) and acts on it
(`Act`) with the registry locked and the session not.

## 3. What the runs check

All bounds are constants, named in the `.cfg`.

| run | instance | properties | what it shows |
|---|---|---|---|
| `loft` | two routers, a port, a buffer of one, a TTL of one sweep, and either two frames and consumers that read (`Unwatched`), or a frame, an observer, and a router that like the observer may stop reading for a while (`OneFrame`) | `OneWayOut`, `CountersExact`, `FloodIsNoDrop`, `RouterKept`, `IInv`, `Lifecycle`, `FramesLeave` | the frame plane is right through bumps, late verdicts, sweeps, overflow and departures, and every frame leaves in the end |
| `loft_stall` | a router and an observer that may stop reading for good | `FramesLeave`, **violated** | eviction depends on the good will of every consumer (see 5) |
| `notices` | two routers and two ports, of veths or agents, or an observer and a port with a token; an edge of two pods, two connections, two ports over two lives | `ViewTracksPorts`, `NoStrangeToken`; `NoPortMissed`, `MapsSound` | consumers and the gateway know the ports once all was sent, and nobody gets a token of a port never announced |
| `notices_hello` | a port; a router | `HelloResyncs`, **violated** | a hello undoes a notice that overtook it (see 5) |
| `mesh` | `MeshFrames` with two edges, within `MeshSpec`: either both stay up, the router stays once there are frames, and two verdicts meet on one frame (`TwoEdges`), or one of them and the gateway's port just stay and the other has two lives and two connections that break (`LoneEdge`) | `BookSound`, `ConsumedOnce`, `DeliveredAsOrdered`, `OneFate` | every case of `consumerMsg` with contradicting verdicts and vanishing ports; a frame of a former life is neither delivered nor freed by mistake |
| `floor` | three hosts, two ports at a time, two slots; three addresses, two lanes, a database of two entries; three frames, three pigeons, a queue of two, one restart of the loft | `SlotsAgree`, `ShownAsIs`; `FdbTrue`, `RightWay`; `NoFrameForgotten`, `OneVerdict` | hosts keep their slots, a frame goes where its destination was last heard, and no frame is forgotten or decided twice |
| `floor_full` | two frames, two pigeons | `EndsInOneState`, **violated** | a refused clone takes away a reference it never had (see 5) |
| `works` | a board of 3x2 with two slots, either with a switch and two ports, or two switches, or a machine and a switch on it; or with a player, one row to build on, and one thing in hand; or with a roost, a landing, a switch of two ports or a hub, two pigeons and an edit; a bucket of up to four tokens a second in four ticks; a table of two entries for three keys | `FloorSound`, `RefreshedAsDrawn`, `PanelKeepsMachine`; `WallsHold`; `OnlySurplusShaped`; `HitsAreTrue` | the floor's maps agree and survive reloads, panels keep their machine, pigeons stay out of walls, meters shape what they should, and hits are true |
| `works_hub` | the pigeons on their floor | `HubRepeatsOnce`, **violated** | a blocked hub repeats on every tick (see 5) |
| `ballpit` | three frames for two slots, a sink cell, a message each way; two packets, two particles, a ring of two, a hopper of one; a circle of two turns | `FrameInOnePlace`, `ThreadsAgree`, `BallsDecided`; `PacketInOnePlace`, `SlotsSound`; `PhysicsMirrors` | nothing is lost or decided twice between page, worker and GPU, and every ball is decided |
| `bridges` | two pages, one with the three-second timer; two hosts on four port ids, two notices under way; a buffer of one and two frame ids; a pod with two windows in turn, a session, a piece of output | `OneSourceEach`, `FactoryInTheEnd`; `HeardIsReached`; `SimIsSolved`; `NothingMissed`, `OpenIsRemembered`, `ShellsEnd` | a page always has one factory, routers reach who was heard, the milestone is earned and reached, shells are seen whole, remembered, and reaped |
| `bridges_backoff` | the two pages | `BackoffCalms`, **violated** | who is bumped reconnects at once for ever (see 5) |

The type invariant of each module is a part of the first property of its run that
speaks of its state (`IInv`, `MapsSound`, `BookSound`, `SlotsAgree`, `FloorSound`,
`WallsHold`, `SlotsSound`, `OneSourceEach`).

Why the bounds are enough for what they show: two routers are a bump and its
late successor; a buffer of one with two frames is a full buffer and one that
drains; two ports are a departure of both in one scan; two connections and two
lives are every overlap of an old trunk with a new one; two verdicts are a
contradiction; three pigeons are two frames whose clones compete for the last
place; three hosts on two slots are a host whose slot was given away; three
addresses, or keys, on two entries are an eviction; three balls for two slots
are a spawn that is refused; two particles and a ring of two are an entry
appended between the readings; a circle of two turns with two ports and the
player's parts is every replacement; two pages bump each other.  Ids of frames,
switches and ports that are free again stand for new ones, where nothing that
still runs remembers them.

Deadlock is checked where the system never stops: `floor`, `floor_full` (the
pigeons' ticks).  The other instances stop when their bounded ports, frames,
connections or sessions are used up, or, like `works` and `ballpit`, are cut off
at their bounds.

Some properties have an exception in them, and it is the code's:

* a port in `overtaken` or `tooEarly` may be wrong in a consumer's view or the
  gateway's maps, because a notice can be written before the hello it then
  contradicts; a delivery may reach the next life of a restarted edge, which
  gives its port ids again;
* in `OneFate`, a frame of which a copy was ordered may be counted as a drop when
  the copy's push fails, and a `torn` frame when its trunk ends in the step between
  the instruction that consumes it and the gateway forgetting it; a record that
  is left for longer is no excuse;
* in `OneVerdict`, a frame is `spoiled` by a clone refused at the limit, or by a
  loft that restarts and gives its id again while it is queued or in flight;
* `SlotsAgree` and `ShownAsIs` except the `muddled` board, hosts seen
  `twice` and the `contested` slots; `FdbTrue` and `RightWay` the `renumbered`
  addresses;
* `RefreshedAsDrawn` excepts floors with a switch drawn around a host, which is
  stored as its cells and drawn again as a rectangle, and machines that hosts
  pushed out since the last change;
* `WallsHold` excepts `stale` pigeons, `OpenIsRemembered` windows opened by hand
  while sessions were being restored (`rash`), `SlotsSound` a `mixed` pool;
* `OnlySurplusShaped` holds once a meter was left alone for a second.

**Fairness.** Safety properties assume none.

* `Loft!Fairness`: the ticker of housekeeping does not stop and its loop goes on
  (weak fairness of `Sweep`); a blocked write to a socket goes through when its
  reader reads often enough (strong fairness of `SendStats`, `SendToken` and each
  `Tell`); a read loop takes what was received.  Nothing is assumed of ports, of who
  attaches or of verdicts.  `Attentive` is an assumption about the consumers
  that the code does not enforce: a router or an observer that stopped reading
  reads again, or its connection ends.  `FramesLeave` holds with it only: `loft_stall`
  leaves it out, with a router and an observer that may stop for good.
* `BallPitFairness`: both event loops take their messages, the world comes up, and
  balls get old.  `Step` is strongly fair because the bound on messages to the
  page disables it between readings; the worker's `setInterval` has no such bound.
* `LinkFairness`: a loft that is up answers, a closed socket fires `onclose`, timers
  fire.  A connection attempt to nothing fails only for pages without the
  three-second timer; with it, it may hang for ever, and the page must not depend
  on it.  Nothing is assumed of the loft: `FactoryInTheEnd` says what follows if it
  stays up, or stays away.
* `SimFairness`: intervals and timeouts fire.  `ShellsFairness`: the goroutines of an
  attached connection go on, half an hour passes, and the reaper comes to every
  session (strong fairness of `Judge`, as it locks the registry for one session at
  a time).  Nothing is assumed of viewers or the shell.

## 4. What is proved

All theorems hold for every value of the constants that satisfies the assumptions
of the modules, which the runs evaluate.  The assumptions say what the code's
types give: limits are numbers (and those of a full buffer, bucket or table not
zero), "nobody" is nobody, addresses, lanes and keys are finitely many; in
`MeshFrames`, the names of lofts are no numbers; in `SimBridge`, the sim's two ports
are there; on the floor, no cell is of two slots, tools place machines of one cell
(`MachineryAssumption`), belt and select are tools (`ToolsAssumption`), and a machine's
exits are directions (`TrafficAssumption`).  The theorems about the board, the notices, the bridges and the
ballpit are about the very specification a run checks; those about `Loft`, `MeshFrames`,
`Switch`, `Pigeons`, `Meter`, `Tables`, `Workbench` and `Traffic` are about that module's own specification, which
the run explores beside others or, for the loft and the mesh, in two kinds of instance.

### One loft (`LoftProofs`)

`TypeCorrect`, `Safety` (the inductive invariant `IInv`), and from it
`OneWayOutAlways`, `CountersExactAlways`, `BufferBoundAlways`,
`FloodIsNoDropAlways`, `RouterKeptAlways`; and `LifecycleAlways`: `Loft` implements
`FrameLifecycle`.

The invariant needs three conjuncts that are not goals themselves.  `PastIds`:
buffered and recorded ids were handed out before, so that an admission never
meets an old exit.  `CleanPorts`: a port id not yet handed out has zero
counters and no exits, so that counters are exact from the start.  `CopiedFlag`: the
flag of a buffered frame says whether a copy is out, without which a drop could
not be told from a free.  The proof sorts the steps into four kinds by what they
do to frames (nothing, admit one, copy one, let a set of frames leave: lemma
`Kinds`) and shows each conjunct for each kind that can disturb it; the
refinement reuses the same four kinds.

### What is told about ports (`NoticesProofs`)

`MapsSoundAlways`, `NoPortMissedAlways`, `ViewTracksPortsAlways`,
`NoStrangeTokenAlways`, from `NoticesSafety`.  All but the first speak of moments when
everything was sent; the invariants say the same of every moment, by what is
still on its way.

* `TrunkInv`: what the edge has yet to report is true of its ports (`ReportsTrue`); as
  long as the connection dialled last is not broken it is the one in use and
  served (`ActiveHeld`), and all that is said on it is of the port that has the id now
  (`SaysTrue`); each port is known to the gateway or still to be told of (`NoneMissed`),
  and of each that is gone, the last word on its way says so (`NoneTooMany`).
  `AddressKnown` is why only what was said before the hello lacks an address.
* `ViewInv`: each goroutine's unsent messages are true (`WorkTrue`), the loft's consumers
  are the open connections (`ConnsHeld`), and every consumer is `Abreast`: it is
  greeted once, a port that is there is known, on its way, or in some
  goroutine's hands (`NonePassedOver`), one that is gone likewise (`NoneLeftOver`), and
  word of a port comes before its tokens (`TokensFollow`).

### Frames between lofts (`MeshProofs`)

`BooksAreSound`, `PayloadConsumedOnce`, `DeliveriesWereOrdered`, `NoFrameHasTwoFates`.

A frame is its pod (a loft and a life of it) and its id; ids repeat after a
restart.  `IdsGiven` says that every id in use anywhere was given in the life it
stands for, so that a frame of a new life meets nothing old.  `TokensOnce`: the token
of a frame is in one place at most, on one connection or in the gateway's book.
`Settled`: once a frame was consumed, or an instruction to consume it is on its
way, no token of it is left, so that no second verdict comes; with `TakenOnce` this
gives `ConsumedOnce`.  `AsOrdered` says of everything on its way what
`DeliveredAsOrdered` says of what arrived.  For `OneFate`, `CountedGone` follows a frame
that was counted as a drop: it left its buffer, or it is `Doomed` (no token, no
instruction, and the verdict under way is for a trunk no longer served), or it is
`Excused` (a copy of it was ordered, or it is torn).  Between `ActForward` or `ActRemote`
and `Forget` the record of the frame is still there while its instruction is out:
`Tokened` leaves that one out (it is not in `Entries`), so that `Settled` holds in the step
between.  The steps are sorted by what they do to these variables
(`StepKinds`), and each part is shown for each kind.

### The floor (`FloorProofs`)

`SlotsAgreeAlways`, `ShownAsIsAlways` (board), `FdbTrueAlways`, `RightWayAlways` (switch),
`NoFrameForgottenAlways`, `OneVerdictAlways` (pigeons).

* `BoardInv`.  The board believes only what is so (`Known`): the host it takes a port for
  is the port's, a present host has its port, and a hello adds nothing twice.
  Unless it was muddled, it knows every port that was reported (`Owned`), and the
  port it goes by is the only one of a host that never had two (`Latest`); then the
  maps agree slot by slot (`SlotsExact`).
* `SwitchInv` adds to `FdbTrue` that a lane has at most one port (`IsInjective`): only then
  does a frame that leaves by another index not go back to the lane it came
  from.  `EvictionFacts` bounds the database through one forwarding step (one entry
  out when it is full, at most one in), and `RightWayFollows` shows `RightWay` of every
  state with `SwitchInv`: an entry that is used survived the eviction as it was, and
  without one the frame is flooded.
* `NoFrameForgotten` speaks of pigeons, while the code decides by references: `Owed`
  says that an undecided frame out of the queue has a reference, `Covered` that
  references never exceed pigeons, whatever refused clones and reused ids do to
  them.  `OneVerdict` needs `OnePlace`: an unspoiled frame in the queue is there once
  and has no pigeon yet, so that its reference starts at one for one pigeon.

### Machines (`WorksProofs`)

`OnlySurplusShapedAlways`, `HitsAreTrueAlways` (meter, tables); `FloorSoundAlways`,
`RefreshedAsDrawnAlways`, `PanelKeepsMachineAlways` (`WorkbenchSpec`), `WallsHoldAlways`
(`TrafficSpec`), for a board of any size.

* The meter's property is about a whole second; the invariant is about every
  stretch of time up to one.  `NeverMore`: what passed in the last i ticks, counted
  together with what is left in the bucket, is at most a full bucket and the
  refills in between.  `NeverLess`: of a meter left alone for that long it is at
  least the refills.  For i = a second these are the property's two halves; a tick
  moves each to i + 1, a frame moves its price from the bucket to the window.
* `TablesInv` is stronger than `HitsAreTrue`: an entry, fresh or stale, is either gone or
  equal to the last one learned and of the same age, so that forgetting is all
  that separates a table from a record without limits.
* `FloorOK` is the agreement of the floor's two maps, stronger than `BoxesSound`: the list
  has no switch twice (`Distinct`), a cell of a switch is of one on the list, and each
  switch is as its cells show it, to the index and the facing of every port
  (`SoundBox`).  One lemma for each operator of `Machinery` says what it does to such a
  floor: what goes with a cleared cell (`ClearedFacts`), that a click changes one switch
  in its place on the list (`Rewires`), that nothing loose or hosting comes from
  nowhere (`Kept`).  `Settled` adds that hosts stand where `slotOf` has them; that ids and
  ports stay within their bounds is a pigeonhole argument (`FewBoxes`, `FewPorts`).
* `Remembered` ties the floor to the store, and is why `RefreshedAsDrawn` holds at every
  moment, not only after an edit: the store's switches are apart, two cells or more,
  and clicks can make their lanes (`StoreExact`); and if all of them are rectangles, the
  store has all of the floor (`Drawn`) and, unless a host pushed something out since, the
  floor all of the store (`Whole`).  Ports are stored without the way they face;
  `Wired` (in `SoundBox`) says that it is the one a new click would give.
  `RestoredFacts` shows that drawing the store again gives just that: by induction over
  the switches (`Redone`), each laid where nothing is in its way, and over its lanes
  (`RewiredExact`), each two clicks of which the first half-places a port and the
  second adds it.  The recursive functions in `Restored` and `Rewired` are unfolded by
  showing that they exist (`RedrawingExists`, `WiringExists`).
* `HandInv`: a panel of a machine is open with the select tool only, or with one of
  those that place and show a machine (filter, meter).  Every step is then `Quiet`: no machine of the panel's type comes into a
  cell that had another while the panel stays, but by `PlaceSingle` in that cell.
* `TrafficInv`: a pigeon that set off since the last rebuilding is in no wall, and the
  cell ahead of one that rides lets it in (`BirdOK`), because each exit that `Exits`
  offers is out of no wall (`WayOut`).

### Bridges and shells (`BridgesProofs`)

`OneSourceAlways`, `HeardIsReachedAlways`, `MilestoneIsEarned`, `NothingMissedAlways`,
`OpenIsRememberedAlways`.

* `LinkInv` adds to `OneSource` that a page with an open socket has been live: without it
  the three-second timer could start the sim under an open socket.
* `RouteInv`: tokens that wait came in where their sender is now, or where nobody is
  any more, and none of an old port follows one of the new (`TokensTrue`); of what the
  loft has yet to say about a port the last word is true, and where it has no more
  to say the router knows (`LastWord`), also through a reconnect.
* `SimInv` has `Story`: no frame is sent, buffered or received without what it answers,
  whichever frames are held up.  That is why the milestone is earned.
* `ShellsInv`: page, tower and connections mean the same pod by a session (`PodsMatch`), a
  connection that nobody ended is its window's (`WindowsMatch`) and its session's viewer,
  with the output from before it joined on its way (`ViewersMatch`), and a page that
  restores has not touched what it remembers (`MemoryMatches`).

### Ballpit (`BallpitProofs`)

`FrameInOnePlaceAlways`, `ThreadsAgreeAlways` (balls), `PacketInOnePlaceAlways` (fluid),
`PhysicsMirrorsAlways` (building), `SlotsSoundAlways` (all three).

* `BallInv` is about a queue of messages (those from before the world, then those on
  their way), a world with its reports, and what the page shows (`InStep`).  A frame
  is to be spawned, a ball, or gone (`InOneStage`); the last word on a cell's sink is
  what is built (`SinkFollows`); `PageFollows` says where in the sequence of reports a ball is
  told of: once, not after it is gone, and between two balls of one slot the
  first one is reported gone (`TakesTurns`).  Each message handled keeps `InStep`, and the
  queue that is handled at once when the world comes up does so by induction
  (`Folding`).
* `BuildInv`: a site is *sound* if physics mirrors it and its turns are numbered.  Placing
  and removing a part keeps that, and ports are synchronised, and floors reset,
  by folds of the two.
* `FluidInv`: the map of slots is one to one, slots, hopper and deliveries about to be
  reported are disjoint, and together they are what the loft waits for (`KeptOnce`);
  the other slots are free, once each (`FreeRest`); and unless the pool is mixed a
  particle is poured, alive or in the ring, its packet still in its slot, and what
  is delivered did sink (`OnGpu`).

### Only model-checked

Liveness (`FramesLeave`, `BallsDecided`, `FactoryInTheEnd`, `SimIsSolved`, `ShellsEnd`), which
is out of the prover's reach.  Every safety property of a passing run is the subject
of a theorem.  The violated properties are refuted, and no theorem is about
them.

## 5. Disagreements found

* **Eviction waits for consumers.** `housekeeping` writes the stats to the router
  (`main.go:859`) and to each observer (`:860`) in the loop that evicts, without a
  deadline.  While one of them holds its connection and does not read, no frame
  expires, although `pigeon-api.md:39` promises `drops.ttl` after 30 s and
  `pigeon-api.md:114` calls observers read-only (`loft_stall`).
* **A delivered frame counted as dropped.** `consumerMsg` sends the instruction that
  consumes a remote frame before it deletes its record (`main.go:714-719`,
  `:730-735`).  If the trunk ends in between, `edgeGone` counts the frame as a trunk
  drop, although `pigeon-api.md:30` has every frame end in exactly one state.  A
  configuration of its own shows it: `tlc -config MCMeshFates.cfg MCMesh` refutes
  `ExactlyOneState`, which is `OneFate` without the exception for `torn` frames.
* **A hello can be stale.** `attachConsumer` writes the snapshot after releasing
  `l.mu` (`main.go:619-627`).  A notice written in between is undone by it,
  although `pigeon-api.md:151` says that hello re-syncs the port set
  (`notices_hello`).
* **A refused clone frees its frame.** At `MAX_PIGEONS`, `pigeons.ts:314` releases
  a reference for a clone that never took one.  The frame of a lone pigeon is
  dropped at the loft while the pigeon flies on, and is delivered, in vain, when
  it lands; `protocol/README.md:24` asks for exactly one of the two
  (`floor_full`).
* **A blocked hub repeats without end.** `take` asks for the clones of the further
  exits before it knows whether the first is open (`pigeons.ts:141`); a pigeon that
  waits on a hub does it again on every tick, although `machines.ts:14` promises
  every frame out of every exit, once each (`works_hub`).
* **The backoff never grows for a bumped page.** `onopen` resets it (`wsbridge.ts:43`),
  and a page that is bumped was open; `wsbridge.ts:49` means it for just that case
  (`bridges_backoff`).

Also seen, without a document that says otherwise:

* clones asked for in the tick in which their pigeon lands are not made
  (`pigeons.ts:316`), so that at high speed a flood may reach a single port; a
  pigeon whose exit is blocked is moved onto the OUT lane and may be stuck there;
* a pod that is created again under its name is marked absent by the removal of
  its old port, while the new one is up (`board.ts:866-869`), until the next hello;
* a switch drawn around a host comes back as the full rectangle after a reload and
  is scrapped when that host returns; machines that a returning host scraps stay
  in the store until the next change;
* in `fluid.ts`, entries appended to the ring after its count was read are lost with
  the reset, and the sweep may free a slot the ring or the spawn queue still
  holds, so that another packet is consumed in its place; lost packets end as
  TTL drops, which is why `PacketInOnePlace` holds;
* in `build.ts`, the thirteenth port's dock and sink replace the first one's, whose
  tokens are dropped at once until ports are synchronised again;
* `sim.ts:139-160` may report one ball delivered twice, or delivered and dropped;
  the loft heeds the first;
* the sim holds one frame more than its limit, has no TTL, and counts the drop of a
  copied frame as the consumer's;
* the game's page has no three-second timer, as the ballpit's has: with a loft that
  neither answers nor refuses it shows nothing;
* the tower's reaper may kill a session that was joined between its look and its
  act; a replay is written after output that came later.

## 6. Not modelled, and the plan

Not modelled: parsing and formatting (`decode.ts`, headers, JSON), filters (pure
predicates), rendering, geometry, shaders and MIDI, the Kubernetes API calls of
the tower, WireGuard, kernel interfaces and DNS forwarding, the panels that show
what a server answers, shell scripts and manifests.  None of them keeps protocol
state of its own.

Next, in this order:

1. **Hosts.** `Ipam` (the address pool under its lock, with crashes, against
   "no two pods have one address"), `ArpHost` (the agents' cache, queue and
   reconnect).
2. **Workloads.** The tower's registry and a goroutine for each workload.
