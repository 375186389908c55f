----------------------------- MODULE LoftProofs -----------------------------
(***************************************************************************)
(* Theorems about Loft, for every number of consumers, ports, frames and  *)
(* every buffer size and TTL.                                              *)
(***************************************************************************)
EXTENDS Loft, FiniteSetTheorems, SequenceTheorems, TLAPS

-----------------------------------------------------------------------------
(* What the operations on the buffer do.                                   *)

(* Storing a frame adds it, fresh, and leaves the other frames alone.      *)
LEMMA StoreFacts ==
  ASSUME NEW buf, NEW fid, NEW p
  PROVE  /\ DOMAIN Store(buf, fid, p) = DOMAIN buf \cup {fid}
         /\ Store(buf, fid, p)[fid] = [port |-> p, age |-> 0, copied |-> FALSE]
         /\ \A g \in DOMAIN buf \ {fid} : Store(buf, fid, p)[g] = buf[g]
  BY DEF Store

(* Deleting frames leaves the other frames alone.                          *)
LEMMA DeleteFacts ==
  ASSUME NEW buf, NEW fids
  PROVE  /\ DOMAIN Delete(buf, fids) = DOMAIN buf \ fids
         /\ \A g \in DOMAIN buf \ fids : Delete(buf, fids)[g] = buf[g]
  BY DEF Delete

(* Marking a frame as copied changes nothing else of the buffer.           *)
LEMMA MarkFacts ==
  ASSUME NEW ids, NEW buf, buf \in [DOMAIN buf -> BufFrame(ids)], NEW fid \in DOMAIN buf
  PROVE  /\ DOMAIN MarkCopied(buf, fid) = DOMAIN buf
         /\ MarkCopied(buf, fid) \in [DOMAIN buf -> BufFrame(ids)]
         /\ MarkCopied(buf, fid)[fid].copied = TRUE
         /\ \A g \in DOMAIN buf : MarkCopied(buf, fid)[g].port = buf[g].port
         /\ \A g \in DOMAIN buf \ {fid} : MarkCopied(buf, fid)[g] = buf[g]
  BY DEF MarkCopied, BufFrame

(* A sweep evicts the stale frames and only ages the others.               *)
LEMMA SweptFacts ==
  ASSUME NEW ids, NEW buf, buf \in [DOMAIN buf -> BufFrame(ids)]
  PROVE  /\ Stale(buf) \subseteq DOMAIN buf
         /\ DOMAIN Swept(buf) = DOMAIN buf \ Stale(buf)
         /\ Swept(buf) \in [DOMAIN buf \ Stale(buf) -> BufFrame(ids)]
         /\ \A g \in DOMAIN buf \ Stale(buf) :
              Swept(buf)[g].port = buf[g].port /\ Swept(buf)[g].copied = buf[g].copied
  BY BufferAssumption DEF Swept, Stale, BufFrame

-----------------------------------------------------------------------------
(* Type correctness.                                                       *)


(* The initial state is well typed.                                        *)
LEMMA InitType == Init => TypeOK
  <1> SUFFICES ASSUME Init PROVE TypeOK
    OBVIOUS
  <1> USE LoftAssumption DEF Init, PortIds, FrameIds
  <1>1. FramesType /\ HistoryType
    BY DEF FramesType, HistoryType
  <1>2. PortType /\ TokenType
    BY DEF PortType, TokenType
  <1>3. RouterType
    BY DEF RouterType
  <1>4. CounterType
    BY DEF CounterType, NoCounts
  <1>5. FlagType
    BY DEF FlagType
  <1>6. ObserverType
    BY DEF ObserverType
  <1>. QED  BY <1>1, <1>2, <1>3, <1>4, <1>5, <1>6 DEF TypeOK

(* A group of variables that a step leaves alone keeps its type. *)
LEMMA UnchangedType ==
  /\ PortType /\ UNCHANGED portVars => PortType'
  /\ FramesType /\ UNCHANGED frames => FramesType'
  /\ TokenType /\ UNCHANGED <<nextFID, sending, announced>> => TokenType'
  /\ RouterType /\ UNCHANGED routerVars => RouterType'
  /\ CounterType /\ UNCHANGED counterVars => CounterType'
  /\ HistoryType /\ UNCHANGED history => HistoryType'
  /\ FlagType /\ UNCHANGED <<hk, overflowing>> => FlagType'
  /\ ObserverType /\ UNCHANGED <<watching, telling>> => ObserverType'
  <1>1. PortType /\ UNCHANGED portVars => PortType'
    BY DEF PortType, portVars
  <1>2. FramesType /\ UNCHANGED frames => FramesType'
    BY DEF FramesType
  <1>3. TokenType /\ UNCHANGED <<nextFID, sending, announced>> => TokenType'
    BY DEF TokenType
  <1>4. RouterType /\ UNCHANGED routerVars => RouterType'
    BY DEF RouterType, routerVars
  <1>5. CounterType /\ UNCHANGED counterVars => CounterType'
    BY DEF CounterType, counterVars
  <1>6. HistoryType /\ UNCHANGED history => HistoryType'
    BY DEF HistoryType, history
  <1>7. FlagType /\ UNCHANGED <<hk, overflowing>> => FlagType'
    BY DEF FlagType
  <1>8. ObserverType /\ UNCHANGED <<watching, telling>> => ObserverType'
    BY DEF ObserverType
  <1>. QED  BY <1>1, <1>2, <1>3, <1>4, <1>5, <1>6, <1>7, <1>8

(* Setting whom one goroutine has to tell keeps the type.                  *)
LEMMA TellingType ==
  ASSUME TypeOK, NEW g \in Goroutines, NEW obs \in SUBSET Observers,
         telling' = [telling EXCEPT ![g] = obs], UNCHANGED watching
  PROVE  ObserverType'
  BY DEF TypeOK, ObserverType

(* Recording a departure keeps the record well typed.                      *)
LEMMA DepartType ==
  ASSUME TypeOK, NEW f \in DOMAIN frames, NEW how \in {"delivered", "freed", "consumer", "ttl"}
  PROVE  /\ Departure(f, how) \in Exits
         /\ Depart(f, how) => ledger' \in [FrameIds -> Seq(Exits)]
  <1>1. frames[f].port \in PortIds /\ f \in FrameIds
    BY DEF TypeOK, FramesType, BufFrame
  <1>2. Departure(f, how) \in Exits
    BY <1>1 DEF Departure, Exits
  <1>3. ledger \in [FrameIds -> Seq(Exits)]
    BY DEF TypeOK, HistoryType
  <1>4. Append(ledger[f], Departure(f, how)) \in Seq(Exits)
    BY <1>1, <1>2, <1>3
  <1>5. Depart(f, how) => ledger' = [ledger EXCEPT ![f] = Append(ledger[f], Departure(f, how))]
    BY DEF Depart
  <1>. QED  BY <1>1, <1>2, <1>3, <1>4, <1>5

(* Port and reader steps keep every type.                                  *)
LEMMA PortStepType == TypeOK /\ PortStep => TypeOK'
  <1> SUFFICES ASSUME TypeOK, PortStep PROVE TypeOK'
    OBVIOUS
  <1> USE LoftAssumption, UnchangedType DEF PortIds, FrameIds, reportVars
  <1>1. CASE AddPort
    <2>1. PortType'
      BY <1>1 DEF AddPort, TypeOK, PortType
    <2>. QED  BY <1>1, <2>1 DEF AddPort, TypeOK, bufferVars
  <1>2. ASSUME NEW p \in PortIds, RemovePort(p) \/ ReaderExit(p) PROVE TypeOK'
    <2>1. PortType'
      BY <1>2 DEF RemovePort, ReaderExit, TypeOK, PortType
    <2>. QED  BY <1>2, <2>1 DEF RemovePort, ReaderExit, TypeOK, bufferVars
  <1>3. ASSUME NEW p \in PortIds, IngestNoRouter(p) PROVE TypeOK'
    <2>1. CounterType'
      <3>1. rxFrames \in [PortIds -> Nat] /\ noGame \in Nat
        BY DEF TypeOK, CounterType
      <3>2. rxFrames' \in [PortIds -> Nat] /\ noGame' \in Nat
        BY <3>1, <1>3 DEF IngestNoRouter
      <3>. QED  BY <1>3, <3>2 DEF IngestNoRouter, TypeOK, CounterType
    <2>. QED  BY <1>3, <2>1 DEF IngestNoRouter, TypeOK, bufferVars
  <1>4. ASSUME NEW p \in PortIds, IngestOverflow(p) PROVE TypeOK'
    <2>1. CounterType'
      <3>1. rxFrames \in [PortIds -> Nat] /\ dropsOverflow \in [PortIds -> Nat]
        BY DEF TypeOK, CounterType
      <3>2. rxFrames' \in [PortIds -> Nat] /\ dropsOverflow' \in [PortIds -> Nat]
        BY <3>1, <1>4 DEF IngestOverflow
      <3>. QED  BY <1>4, <3>2 DEF IngestOverflow, TypeOK, CounterType
    <2>2. FlagType'
      BY <1>4 DEF IngestOverflow, TypeOK, FlagType
    <2>. QED  BY <1>4, <2>1, <2>2 DEF IngestOverflow, TypeOK
  <1>5. ASSUME NEW p \in PortIds, IngestAdmit(p) PROVE TypeOK'
    <2>1. nextFID \in FrameIds /\ TokenType'
      BY <1>5 DEF IngestAdmit, TypeOK, TokenType
    <2>2. DOMAIN frames' = DOMAIN frames \cup {nextFID}
      BY <1>5, StoreFacts DEF IngestAdmit
    <2>3. FramesType'
      BY <1>5, <2>1, <2>2, BufferAssumption
      DEF IngestAdmit, Store, TypeOK, FramesType, BufFrame
    <2>4. CounterType'
      <3>1. rxFrames \in [PortIds -> Nat]
        BY DEF TypeOK, CounterType
      <3>2. rxFrames' \in [PortIds -> Nat]
        BY <3>1, <1>5 DEF IngestAdmit
      <3>. QED  BY <1>5, <3>2 DEF IngestAdmit, TypeOK, CounterType
    <2>5. FlagType'
      <3>1. hk' \in {"sweep", "stats"}
        BY <1>5 DEF IngestAdmit, TypeOK, FlagType
      <3>2. overflowing' \in BOOLEAN
        BY <1>5, Zenon DEF IngestAdmit, TypeOK, FlagType
      <3>. QED  BY <3>1, <3>2 DEF FlagType
    <2>. QED  BY <1>5, <2>1, <2>3, <2>4, <2>5 DEF IngestAdmit, TypeOK
  <1>6. ASSUME NEW p \in PortIds, SendToken(p) PROVE TypeOK'
    <2>1. sending[p] \in FrameIds
      BY <1>6 DEF SendToken, TypeOK, TokenType
    <2>2. announced' \subseteq FrameIds /\ nextFID' = nextFID
      BY <1>6, <2>1 DEF SendToken, TypeOK, TokenType
    <2>3. sending' \in [PortIds -> 0..MaxFrames]
      BY <1>6 DEF SendToken, TypeOK, TokenType
    <2>4. TokenType'
      BY <2>2, <2>3 DEF TypeOK, TokenType
    <2>5. ObserverType'
      BY <1>6, TellingType DEF SendToken, TypeOK, ObserverType, Goroutines
    <2>. QED  BY <1>6, <2>4, <2>5 DEF SendToken, TypeOK
  <1>. QED
    BY <1>1, <1>2, <1>3, <1>4, <1>5, <1>6 DEF PortStep, Ingest

(* Router connection steps keep every type.                                *)
LEMMA RouterStepType == TypeOK /\ RouterStep => TypeOK'
  <1> SUFFICES ASSUME TypeOK, NEW r \in Routers,
                      Attach(r) \/ HangUp(r) \/ SendVerdict(r)
               PROVE  TypeOK'
    BY DEF RouterStep
  <1> USE UnchangedType DEF reportVars
  <1>1. CASE Attach(r)
    <2>1. RouterType'
      BY <1>1 DEF Attach, TypeOK, RouterType
    <2>. QED  BY <1>1, <2>1 DEF Attach, TypeOK, bufferVars
  <1>2. CASE HangUp(r)
    <2>1. RouterType'
      BY <1>2 DEF HangUp, TypeOK, RouterType
    <2>. QED  BY <1>2, <2>1 DEF HangUp, TypeOK, bufferVars
  <1>3. CASE SendVerdict(r)
    <2>1. RouterType'
      BY <1>3 DEF SendVerdict, TypeOK, RouterType
    <2>. QED  BY <1>3, <2>1 DEF SendVerdict, TypeOK, bufferVars
  <1>. QED  BY <1>1, <1>2, <1>3

(* Peers that stop reading and go on keep every type.                      *)
LEMMA PeerStepType == TypeOK /\ PeerStep => TypeOK'
  <1> SUFFICES ASSUME TypeOK, NEW c \in Sluggish, Stall(c) \/ Resume(c) PROVE TypeOK'
    BY DEF PeerStep
  <1>1. RouterType'
    BY LoftAssumption DEF Stall, Resume, TypeOK, RouterType
  <1>. QED  BY <1>1, UnchangedType DEF Stall, Resume, TypeOK, bufferVars, reportVars

(* Observers that attach, leave and are told keep every type.              *)
LEMMA ObserverStepType == TypeOK /\ ObserverStep => TypeOK'
  <1> SUFFICES ASSUME TypeOK, ObserverStep PROVE TypeOK'
    OBVIOUS
  <1> USE UnchangedType DEF bufferVars
  <1>1. ASSUME NEW o \in Observers, Watch(o) PROVE TypeOK'
    <2>1. ObserverType'
      BY <1>1 DEF Watch, TypeOK, ObserverType
    <2>. QED  BY <1>1, <2>1 DEF Watch, TypeOK
  <1>2. ASSUME NEW o \in Observers, Unwatch(o) PROVE TypeOK'
    <2>1. ObserverType'
      BY <1>2 DEF Unwatch, TypeOK, ObserverType
    <2>2. RouterType'
      BY <1>2 DEF Unwatch, TypeOK, RouterType
    <2>. QED  BY <1>2, <2>1, <2>2 DEF Unwatch, TypeOK
  <1>3. ASSUME NEW o \in Observers, NEW g \in Goroutines, Tell(g, o) PROVE TypeOK'
    <2>1. telling[g] \ {o} \in SUBSET Observers
      BY DEF TypeOK, ObserverType
    <2>2. ObserverType'
      BY <1>3, <2>1, TellingType DEF Tell
    <2>. QED  BY <1>3, <2>2 DEF Tell, TypeOK
  <1>. QED  BY <1>1, <1>2, <1>3 DEF ObserverStep

(* Reading a verdict only shortens the inbox. *)
LEMMA ReadType ==
  ASSUME TypeOK, NEW r \in Routers, Read(r)
  PROVE  /\ RouterType' /\ PortType' /\ TokenType' /\ FlagType' /\ ObserverType'
         /\ Head(inbox[r]) \in Verdicts
         /\ UNCHANGED <<noGame, rxFrames, dropsOverflow, dropsTTL>>
  <1>1. inbox' \in [Routers -> Seq(Verdicts)] /\ Head(inbox[r]) \in Verdicts
    BY DEF Read, TypeOK, RouterType
  <1>. QED  BY <1>1, UnchangedType DEF Read, TypeOK, RouterType, reportVars

(* Carrying out a verdict keeps every type.                                *)
LEMMA VerdictStepType == TypeOK /\ VerdictStep => TypeOK'
  <1> SUFFICES ASSUME TypeOK, NEW r \in Routers, DeliverLocal(r) \/ DropLocal(r)
               PROVE  TypeOK'
    BY DEF VerdictStep
  <1> DEFINE v == Head(inbox[r])
             f == v.fid
  <1>1. Read(r)
    BY DEF DeliverLocal, DropLocal
  <1> USE UnchangedType
  <1>2. ASSUME f \in DOMAIN frames, frames' = Delete(frames, {f}) PROVE FramesType'
    BY <1>2 DEF TypeOK, FramesType, Delete
  <1>3. CASE DeliverLocal(r)
    <2>1. CounterType'
      BY <1>1, <1>3, ReadType DEF DeliverLocal, TypeOK, counterVars
    <2>2. CASE UNCHANGED <<frames, history>>
      BY <1>1, <2>1, <2>2, ReadType DEF TypeOK
    <2>3. CASE f \in DOMAIN frames /\ v.t = "deliver" /\ frames' = Hand(frames, f, TRUE)
               /\ Depart(f, "delivered") /\ UNCHANGED flown
      <3>1. FramesType'
        BY <2>3, <1>2 DEF Hand
      <3>2. HistoryType'
        BY <2>3, DepartType DEF TypeOK, HistoryType
      <3>. QED  BY <1>1, <2>1, <3>1, <3>2, ReadType DEF TypeOK
    <2>4. CASE f \in DOMAIN frames /\ v.t # "deliver" /\ frames' = Hand(frames, f, FALSE)
               /\ flown' = flown \cup {f} /\ UNCHANGED ledger
      <3>1. FramesType'
        <4>1. frames \in [DOMAIN frames -> BufFrame(PortIds)]
          BY DEF TypeOK, FramesType
        <4>2. frames' = MarkCopied(frames, f)
          BY <2>4 DEF Hand
        <4>3. DOMAIN frames' = DOMAIN frames /\ frames' \in [DOMAIN frames -> BufFrame(PortIds)]
          BY <2>4, <4>1, <4>2, MarkFacts
        <4>. QED  BY <4>3 DEF TypeOK, FramesType
      <3>2. HistoryType'
        BY <2>4 DEF TypeOK, HistoryType, FramesType
      <3>. QED  BY <1>1, <2>1, <3>1, <3>2, ReadType DEF TypeOK
    <2>. QED  BY <1>3, <2>2, <2>3, <2>4 DEF DeliverLocal
  <1>4. CASE DropLocal(r)
    <2>1. CASE f \notin DOMAIN frames /\ UNCHANGED <<frames, dropsConsumer, ledger>>
      BY <1>1, <1>4, <2>1, ReadType DEF DropLocal, TypeOK, history, counterVars
    <2>2. CASE f \in DOMAIN frames
      <3>1. FramesType'
        BY <1>2, <1>4, <2>2 DEF DropLocal
      <3>2. HistoryType'
        BY <1>4, <2>2, DepartType DEF DropLocal, TypeOK, HistoryType
      <3>3. CounterType'
        BY <1>1, <1>4, <2>2, ReadType DEF DropLocal, TypeOK, CounterType
      <3>. QED  BY <1>1, <3>1, <3>2, <3>3, ReadType DEF TypeOK
    <2>. QED  BY <1>4, <2>1, <2>2 DEF DropLocal
  <1>. QED  BY <1>3, <1>4

(* A sweep counts finitely many frames for each port. *)
LEMMA StaleFinite ==
  ASSUME TypeOK, NEW p
  PROVE  /\ StaleFrom(p) \subseteq FrameIds
         /\ IsFiniteSet(StaleFrom(p)) /\ Cardinality(StaleFrom(p)) \in Nat
  <1>1. StaleFrom(p) \subseteq FrameIds
    BY DEF StaleFrom, Stale, TypeOK, FramesType
  <1>2. IsFiniteSet(FrameIds)
    BY FS_Interval, LoftAssumption DEF FrameIds
  <1>. QED  BY <1>1, <1>2, FS_Subset, FS_CardinalityType

(* A sweep keeps every type.                                               *)
LEMMA SweepType == TypeOK /\ Sweep => TypeOK'
  <1> SUFFICES ASSUME TypeOK, Sweep PROVE TypeOK'
    OBVIOUS
  <1> USE UnchangedType
  <1>1. FramesType'
    <2>1. frames \in [DOMAIN frames -> BufFrame(PortIds)] /\ frames' = Swept(frames)
      BY DEF Sweep, TypeOK, FramesType
    <2>2. /\ DOMAIN frames' = DOMAIN frames \ Stale(frames)
          /\ frames' \in [DOMAIN frames \ Stale(frames) -> BufFrame(PortIds)]
      BY <2>1, SweptFacts
    <2>. QED  BY <2>2 DEF TypeOK, FramesType
  <1>2. CounterType'
    <2>1. \A p \in PortIds : Cardinality(StaleFrom(p)) \in Nat
      BY StaleFinite
    <2>2. dropsTTL' \in [PortIds -> Nat]
      BY <2>1 DEF Sweep, TypeOK, CounterType
    <2>. QED  BY <2>2 DEF Sweep, TypeOK, CounterType
  <1>3. HistoryType'
    <2>1. \A f \in Stale(frames) : Departure(f, "ttl") \in Exits
      BY DepartType DEF Stale
    <2>. QED  BY <2>1 DEF Sweep, TypeOK, HistoryType
  <1>4. FlagType'
    <2>1. hk' \in {"sweep", "stats"}
      BY DEF Sweep
    <2>. QED  BY <2>1, Zenon DEF Sweep, TypeOK, FlagType
  <1>. QED  BY <1>1, <1>2, <1>3, <1>4, UnchangedType DEF Sweep, TypeOK

(* Every step keeps every type.                                            *)
LEMMA NextType == TypeOK /\ [Next]_vars => TypeOK'
  <1>1. TypeOK /\ SendStats => TypeOK'
    <2> SUFFICES ASSUME TypeOK, SendStats PROVE TypeOK'
      OBVIOUS
    <2>1. FlagType'
      <3>1. hk' \in {"sweep", "stats"}
        BY DEF SendStats
      <3>. QED  BY <3>1, Zenon DEF SendStats, TypeOK, FlagType, bufferVars
    <2>2. ObserverType'
      BY TellingType DEF SendStats, TypeOK, ObserverType, Goroutines
    <2>. QED  BY <2>1, <2>2, UnchangedType DEF SendStats, TypeOK, bufferVars
  <1>2. TypeOK /\ UNCHANGED vars => TypeOK'
    BY UnchangedType DEF TypeOK, vars, bufferVars, reportVars
  <1>. QED
    BY <1>1, <1>2, PortStepType, RouterStepType, ObserverStepType, PeerStepType,
       VerdictStepType, SweepType DEF Next

(* The loft's state is well typed in every reachable state. *)
THEOREM TypeCorrect == Spec => []TypeOK
  BY InitType, NextType, PTL DEF Spec

-----------------------------------------------------------------------------
(* The steps of the loft, by what they do to frames: nothing, admit one,   *)
(* copy one, or let a set of frames leave.                                 *)

Hows == {"delivered", "freed", "consumer", "ttl"}

Quiet ==
  /\ UNCHANGED <<frames, nextFID, ledger, flown, dropsTTL, dropsConsumer>>
  /\ \/ UNCHANGED <<ports, nextID>> /\ readers' \subseteq readers
     \/ nextID \in PortIds /\ nextID' = nextID + 1 /\ ports' = ports \cup {nextID}
        /\ readers' = readers \cup {nextID}
     \/ nextID' = nextID /\ ports' \subseteq ports /\ readers' = readers

Admits(p) ==
  /\ p \in readers /\ ~Full(frames) /\ nextFID \in FrameIds
  /\ frames' = Store(frames, nextFID, p) /\ nextFID' = nextFID + 1
  /\ UNCHANGED <<portVars, ledger, flown, dropsTTL, dropsConsumer>>

Copies(f) ==
  /\ f \in DOMAIN frames /\ frames' = MarkCopied(frames, f)
  /\ flown' = flown \cup {f}
  /\ UNCHANGED <<portVars, nextFID, ledger, dropsTTL, dropsConsumer>>

From(S, p) == {f \in S : frames[f].port = p}

Leaves(S, how) ==
  /\ S \subseteq DOMAIN frames
  /\ DOMAIN frames' = DOMAIN frames \ S
  /\ \A f \in DOMAIN frames \ S :
       frames'[f].port = frames[f].port /\ frames'[f].copied = frames[f].copied
  /\ ledger' = [f \in FrameIds |->
                  IF f \in S THEN Append(ledger[f], Departure(f, how)) ELSE ledger[f]]
  /\ how = "consumer" => \A f \in S : ~frames[f].copied
  /\ how = "freed" => \A f \in S : frames[f].copied
  /\ \A p \in PortIds :
       /\ dropsTTL'[p] = dropsTTL[p] + (IF how = "ttl" /\ p \in ports
                                       THEN Cardinality(From(S, p)) ELSE 0)
       /\ dropsConsumer'[p] = dropsConsumer[p] + (IF how = "consumer" /\ p \in ports
                                                 THEN Cardinality(From(S, p)) ELSE 0)
  /\ UNCHANGED <<portVars, nextFID, flown>>

(* The frames of one port in a set of one frame: that frame or none.       *)
LEMMA OneFrom ==
  ASSUME NEW f
  PROVE  /\ From({f}, frames[f].port) = {f}
         /\ \A p : p # frames[f].port => From({f}, p) = {}
         /\ Cardinality({f}) = 1 /\ Cardinality({}) = 0
  BY FS_Singleton, FS_EmptySet DEF From

(* A decision by which one frame leaves is a departure of a set of one.    *)
LEMMA LeavesOne ==
  ASSUME TypeOK, NEW f \in DOMAIN frames, NEW how \in Hows, Depart(f, how),
         frames' = Delete(frames, {f}), UNCHANGED <<portVars, nextFID, flown, dropsTTL>>,
         how = "consumer" => ~frames[f].copied,
         how = "freed" => frames[f].copied, how # "ttl",
         dropsConsumer' = IF how = "consumer"
                          THEN [p \in PortIds |->
                                  IF p \in ports /\ p = frames[f].port
                                  THEN dropsConsumer[p] + 1 ELSE dropsConsumer[p]]
                          ELSE dropsConsumer
  PROVE  Leaves({f}, how)
  <1>1. /\ DOMAIN frames' = DOMAIN frames \ {f}
        /\ \A g \in DOMAIN frames \ {f} : frames'[g] = frames[g]
    BY DeleteFacts
  <1>2. ledger' = [g \in FrameIds |->
                    IF g \in {f} THEN Append(ledger[g], Departure(g, how)) ELSE ledger[g]]
    BY DEF Depart, TypeOK, HistoryType
  <1>3. \A p \in PortIds : dropsTTL[p] \in Nat /\ dropsConsumer[p] \in Nat
    BY DEF TypeOK, CounterType
  <1>4. ASSUME NEW p \in PortIds
        PROVE  dropsConsumer'[p] = dropsConsumer[p] + (IF how = "consumer" /\ p \in ports
                                       THEN Cardinality(From({f}, p)) ELSE 0)
    <2>1. dropsConsumer[p] \in Nat
      BY <1>3
    <2>2. CASE p = frames[f].port
      <3>1. Cardinality(From({f}, p)) = 1
        BY <2>2, OneFrom
      <3>. QED  BY <2>1, <2>2, <3>1
    <2>3. CASE p # frames[f].port
      <3>1. Cardinality(From({f}, p)) = 0
        BY <2>3, OneFrom
      <3>. QED  BY <2>1, <2>3, <3>1
    <2>. QED  BY <2>2, <2>3
  <1>5. \A p \in PortIds :
          dropsTTL'[p] = dropsTTL[p] + (IF how = "ttl" /\ p \in ports
                                       THEN Cardinality(From({f}, p)) ELSE 0)
    BY <1>3
  <1>6. /\ how = "consumer" => \A g \in {f} : ~frames[g].copied
        /\ how = "freed" => \A g \in {f} : frames[g].copied
    OBVIOUS
  <1>7. \A g \in DOMAIN frames \ {f} :
          frames'[g].port = frames[g].port /\ frames'[g].copied = frames[g].copied
    BY <1>1
  <1>8. {f} \subseteq DOMAIN frames /\ UNCHANGED <<portVars, nextFID, flown>>
    OBVIOUS
  <1>. QED  BY <1>1, <1>2, <1>4, <1>5, <1>6, <1>7, <1>8, Zenon DEF Leaves

(* A sweep is the departure, by ttl, of the frames that are stale.         *)
LEMMA SweepLeaves == TypeOK /\ Sweep => Leaves(Stale(frames), "ttl")
  <1> SUFFICES ASSUME TypeOK, Sweep PROVE Leaves(Stale(frames), "ttl")
    OBVIOUS
  <1>1. frames \in [DOMAIN frames -> BufFrame(PortIds)] /\ frames' = Swept(frames)
    BY DEF Sweep, TypeOK, FramesType
  <1>2. /\ Stale(frames) \subseteq DOMAIN frames
        /\ DOMAIN frames' = DOMAIN frames \ Stale(frames)
        /\ \A f \in DOMAIN frames \ Stale(frames) :
             frames'[f].port = frames[f].port /\ frames'[f].copied = frames[f].copied
    BY <1>1, SweptFacts
  <1>3. \A p \in PortIds :
          dropsTTL'[p] = dropsTTL[p] + (IF p \in ports
                                       THEN Cardinality(From(Stale(frames), p)) ELSE 0)
    <2> SUFFICES ASSUME NEW p \in PortIds
                 PROVE  dropsTTL'[p] = dropsTTL[p] + (IF p \in ports
                                       THEN Cardinality(From(Stale(frames), p)) ELSE 0)
      OBVIOUS
    <2>1. From(Stale(frames), p) = StaleFrom(p)
      BY DEF From, StaleFrom
    <2>2. dropsTTL[p] \in Nat
      BY DEF TypeOK, CounterType
    <2>. QED  BY <2>1, <2>2 DEF Sweep
  <1>4. \A p \in PortIds : dropsConsumer'[p] = dropsConsumer[p] + 0
    BY DEF Sweep, TypeOK, CounterType
  <1>5. /\ UNCHANGED <<portVars, nextFID, flown>>
        /\ ledger' = [f \in FrameIds |->
                       IF f \in Stale(frames)
                       THEN Append(ledger[f], Departure(f, "ttl")) ELSE ledger[f]]
    BY DEF Sweep
  <1>. QED  BY <1>2, <1>3, <1>4, <1>5 DEF Leaves

(* A verdict changes no frame, copies one, or lets one leave.              *)
LEMMA VerdictKinds ==
  ASSUME TypeOK, VerdictStep
  PROVE  Quiet \/ (\E f \in DOMAIN frames : Copies(f))
               \/ (\E f \in DOMAIN frames, how \in Hows : how # "ttl" /\ Leaves({f}, how))
  <1> PICK r \in Routers : DeliverLocal(r) \/ DropLocal(r)
    BY DEF VerdictStep
  <1> DEFINE v == Head(inbox[r])
             f == v.fid
  <1>1. UNCHANGED <<portVars, nextFID, dropsTTL>>
    BY DEF DeliverLocal, DropLocal, Read
  <1>2. CASE DeliverLocal(r)
    <2>1. CASE UNCHANGED <<frames, history>>
      BY <1>1, <1>2, <2>1 DEF Quiet, DeliverLocal, portVars, history
    <2>2. CASE f \in DOMAIN frames /\ v.t = "deliver" /\ frames' = Hand(frames, f, TRUE)
               /\ Depart(f, "delivered") /\ UNCHANGED flown
      <3>1. Leaves({f}, "delivered")
        BY <1>1, <1>2, <2>2, LeavesOne DEF DeliverLocal, Hand, Hows
      <3>. QED  BY <2>2, <3>1 DEF Hows
    <2>3. CASE f \in DOMAIN frames /\ v.t # "deliver" /\ frames' = Hand(frames, f, FALSE)
               /\ flown' = flown \cup {f} /\ UNCHANGED ledger
      <3>1. Copies(f)
        BY <1>1, <1>2, <2>3 DEF DeliverLocal, Hand, Copies
      <3>. QED  BY <2>3, <3>1
    <2>. QED  BY <1>2, <2>1, <2>2, <2>3 DEF DeliverLocal
  <1>3. CASE DropLocal(r)
    <2>1. CASE f \notin DOMAIN frames
      BY <1>1, <1>3, <2>1 DEF Quiet, DropLocal, portVars
    <2>2. CASE f \in DOMAIN frames /\ frames[f].copied
      <3>1. Leaves({f}, "freed")
        BY <1>1, <1>3, <2>2, LeavesOne DEF DropLocal, Hows
      <3>. QED  BY <2>2, <3>1 DEF Hows
    <2>3. CASE f \in DOMAIN frames /\ ~frames[f].copied
      <3>1. Leaves({f}, "consumer")
        BY <1>1, <1>3, <2>3, LeavesOne DEF DropLocal, Hows
      <3>. QED  BY <2>3, <3>1 DEF Hows
    <2>. QED  BY <2>1, <2>2, <2>3
  <1>. QED  BY <1>2, <1>3

(* Every step of the loft is one of the four kinds. *)
LEMMA Kinds ==
  ASSUME TypeOK, [Next]_vars
  PROVE  \/ Quiet
         \/ \E p \in PortIds : Admits(p)
         \/ \E f \in DOMAIN frames : Copies(f)
         \/ \E f \in DOMAIN frames, how \in Hows : how # "ttl" /\ Leaves({f}, how)
         \/ Leaves(Stale(frames), "ttl")
  <1>1. CASE PortStep
    <2>1. CASE AddPort
      <3>1. nextID \in PortIds
        BY <2>1, LoftAssumption DEF AddPort, TypeOK, PortType, PortIds
      <3>. QED  BY <2>1, <3>1 DEF AddPort, Quiet, bufferVars, counterVars, history
    <2>2. ASSUME NEW p \in PortIds, RemovePort(p) \/ ReaderExit(p) PROVE Quiet
      BY <2>2 DEF RemovePort, ReaderExit, Quiet, bufferVars, counterVars, history
    <2>3. ASSUME NEW p \in PortIds, IngestNoRouter(p) \/ IngestOverflow(p) \/ SendToken(p)
          PROVE  Quiet
      BY <2>3 DEF IngestNoRouter, IngestOverflow, SendToken, Quiet, bufferVars, counterVars,
                  history, portVars
    <2>4. ASSUME NEW p \in PortIds, IngestAdmit(p) PROVE Admits(p)
      <3>1. nextFID \in FrameIds
        BY <2>4, LoftAssumption DEF IngestAdmit, TypeOK, TokenType, FrameIds
      <3>. QED  BY <2>4, <3>1 DEF IngestAdmit, Admits, CanRead, Idle, history
    <2>. QED  BY <1>1, <2>1, <2>2, <2>3, <2>4 DEF PortStep, Ingest
  <1>2. CASE RouterStep
    BY <1>2 DEF RouterStep, Attach, HangUp, SendVerdict, Quiet, portVars, bufferVars,
                counterVars, history
  <1>3. CASE SendStats \/ UNCHANGED vars
    BY <1>3 DEF SendStats, vars, Quiet, portVars, bufferVars, counterVars, history
  <1>4. CASE ObserverStep \/ PeerStep
    BY <1>4 DEF ObserverStep, Watch, Unwatch, Tell, PeerStep, Stall, Resume, Quiet,
                portVars, bufferVars, counterVars, history
  <1>. QED  BY <1>1, <1>2, <1>3, <1>4, VerdictKinds, SweepLeaves DEF Next

-----------------------------------------------------------------------------
(* The safety invariants, one lemma for each conjunct of Inv and each kind *)
(* of step that can disturb it.                                            *)

(* The invariant holds initially.                                          *)
LEMMA InitInv == Init => Inv
  <1> SUFFICES ASSUME Init PROVE Inv
    OBVIOUS
  <1>1. \A h, p : ExitsOf(h, p) = {}
    BY DEF Init, ExitsOf, Left
  <1>2. \A p \in PortIds : ExactFor(p)
    BY <1>1, FS_EmptySet DEF Init, ExactFor, NoCounts
  <1>3. OneWayOut /\ FloodIsNoDrop /\ PastIds /\ CopiedFlag
    BY DEF Init, OneWayOut, FloodIsNoDrop, PastIds, CopiedFlag, FrameIds
  <1>4. BufferBound
    <2>1. DOMAIN frames = {}
      BY DEF Init
    <2>. QED  BY <2>1, FS_EmptySet, BufferAssumption DEF BufferBound
  <1>5. RouterKept
    BY LoftAssumption DEF Init, RouterKept
  <1>6. CountersExact /\ CleanPorts
    BY <1>2 DEF Init, CountersExact, CleanPorts
  <1>. QED  BY <1>3, <1>4, <1>5, <1>6 DEF Inv

(* A buffered frame has no exit on record yet. *)
LEMMA BufferedHasNoExit ==
  ASSUME TypeOK, OneWayOut, PastIds, NEW f \in DOMAIN frames
  PROVE  f \in FrameIds /\ f < nextFID /\ ledger[f] = <<>>
  <1>1. f \in FrameIds /\ f < nextFID
    BY DEF TypeOK, FramesType, PastIds
  <1>2. ledger[f] \in Seq(Exits) /\ Len(ledger[f]) = 0
    BY <1>1 DEF TypeOK, HistoryType, OneWayOut
  <1>. QED  BY <1>1, <1>2, EmptySeq

(* What a set of frames that leaves adds to the record. *)
LEMMA LeaveRecord ==
  ASSUME TypeOK, OneWayOut, PastIds, NEW S, NEW how, Leaves(S, how)
  PROVE  /\ S \subseteq FrameIds
         /\ \A f \in S : ledger'[f] = <<Departure(f, how)>>
         /\ \A f \in FrameIds \ S : ledger'[f] = ledger[f]
  <1>1. S \subseteq DOMAIN frames /\ S \subseteq FrameIds
    BY DEF Leaves, TypeOK, FramesType
  <1>2. \A f \in S : ledger[f] = <<>>
    BY <1>1, BufferedHasNoExit
  <1>3. ledger' = [f \in FrameIds |->
                    IF f \in S THEN Append(ledger[f], Departure(f, how)) ELSE ledger[f]]
    BY DEF Leaves
  <1>4. \A f \in S : ledger'[f] = <<Departure(f, how)>>
    <2> SUFFICES ASSUME NEW f \in S PROVE ledger'[f] = <<Departure(f, how)>>
      OBVIOUS
    <2>1. ledger'[f] = Append(ledger[f], Departure(f, how))
      BY <1>1, <1>3
    <2>2. ledger[f] = <<>>
      BY <1>2
    <2>3. \A x : Append(<<>>, x) = <<x>>
      OBVIOUS
    <2>. QED  BY <2>1, <2>2, <2>3, Zenon
  <1>. QED  BY <1>1, <1>3, <1>4

(* What an admission and a copy do to the buffer. *)
LEMMA AdmitFacts ==
  ASSUME NEW p, Admits(p)
  PROVE  /\ DOMAIN frames' = DOMAIN frames \cup {nextFID} /\ nextFID' = nextFID + 1
         /\ frames'[nextFID].port = p /\ frames'[nextFID].copied = FALSE
         /\ \A g \in DOMAIN frames \ {nextFID} : frames'[g] = frames[g]
  <1>1. frames' = Store(frames, nextFID, p) /\ nextFID' = nextFID + 1
    BY DEF Admits
  <1>2. frames' = [g \in DOMAIN frames \cup {nextFID} |->
                    IF g = nextFID THEN [port |-> p, age |-> 0, copied |-> FALSE] ELSE frames[g]]
    BY <1>1, Zenon DEF Store
  <1>3. frames'[nextFID].port = p
    BY <1>2
  <1>4. frames'[nextFID].copied = FALSE
    BY <1>2
  <1>5. /\ DOMAIN frames' = DOMAIN frames \cup {nextFID}
        /\ \A g \in DOMAIN frames \ {nextFID} : frames'[g] = frames[g]
    BY <1>2
  <1>. QED  BY <1>1, <1>3, <1>4, <1>5, Zenon

(* What a copy-deliver does to the buffer and to flown.                    *)
LEMMA CopyFacts ==
  ASSUME TypeOK, NEW f \in DOMAIN frames, Copies(f)
  PROVE  /\ DOMAIN frames' = DOMAIN frames
         /\ \A g \in DOMAIN frames : frames'[g].port = frames[g].port
         /\ frames'[f].copied = TRUE
         /\ \A g \in DOMAIN frames \ {f} : frames'[g] = frames[g]
         /\ flown' = flown \cup {f} /\ UNCHANGED <<portVars, nextFID, ledger>>
  <1>1. frames \in [DOMAIN frames -> BufFrame(PortIds)] /\ frames' = MarkCopied(frames, f)
    BY DEF TypeOK, FramesType, Copies
  <1>2. flown' = flown \cup {f} /\ UNCHANGED <<portVars, nextFID, ledger>>
    BY DEF Copies
  <1>3. frames' = [frames EXCEPT ![f].copied = TRUE]
    BY <1>1 DEF MarkCopied
  <1>4. \A g \in DOMAIN frames : frames'[g].port = frames[g].port
    BY <1>1, <1>3 DEF BufFrame
  <1>5. DOMAIN frames' = DOMAIN frames /\ \A g \in DOMAIN frames \ {f} : frames'[g] = frames[g]
    BY <1>3
  <1>6. frames'[f].copied = TRUE
    BY <1>1, <1>3 DEF BufFrame
  <1>. QED  BY <1>2, <1>4, <1>5, <1>6, Zenon

(* Frames, exits and ports stay among the ids already given out.           *)
LEMMA PastIdsStep ==
  ASSUME TypeOK, OneWayOut, PastIds, [Next]_vars PROVE PastIds'
  <1>1. CASE Quiet
    <2>1. nextID \in Nat /\ nextID <= nextID'
      BY <1>1 DEF Quiet, TypeOK, PortType
    <2>2. \A p \in ports' \cup readers' : p < nextID'
      <3>1. \A p \in ports \cup readers : p \in Nat /\ p < nextID
        BY DEF PastIds, TypeOK, PortType, PortIds
      <3>2. nextID \in Nat
        BY DEF TypeOK, PortType
      <3>3. \/ ports' \cup readers' \subseteq ports \cup readers
            \/ nextID' = nextID + 1 /\ ports' \cup readers' = ports \cup readers \cup {nextID}
        BY <1>1 DEF Quiet
      <3>4. \A p \in ports \cup readers \cup {nextID} : p \in Nat /\ p <= nextID
        BY <3>1, <3>2
      <3>5. CASE ports' \cup readers' \subseteq ports \cup readers
        <4>1. \A p \in ports \cup readers : p < nextID'
          BY <2>1, <3>1, <1>1 DEF Quiet, PortIds
        <4>. QED  BY <3>5, <4>1
      <3>6. CASE nextID' = nextID + 1 /\ ports' \cup readers' = ports \cup readers \cup {nextID}
        BY <3>2, <3>4, <3>6
      <3>. QED  BY <3>3, <3>5, <3>6
    <2>3. \A f \in DOMAIN frames : frames[f].port \in PortIds
      BY DEF TypeOK, FramesType, BufFrame
    <2>4. \A f \in DOMAIN frames : frames[f].port < nextID'
      BY <1>1, <2>1, <2>3 DEF Quiet, PastIds, PortIds
    <2>5. \A f \in FrameIds : \A i \in DOMAIN ledger[f] : ledger[f][i].port < nextID'
      <3> SUFFICES ASSUME NEW f \in FrameIds, NEW i \in DOMAIN ledger[f]
                   PROVE  ledger[f][i].port < nextID'
        OBVIOUS
      <3>1. ledger[f][i] \in Exits
        BY DEF TypeOK, HistoryType
      <3>2. ledger[f][i].port \in Nat
        BY <3>1 DEF Exits, PortIds
      <3>3. ledger[f][i].port < nextID
        BY DEF PastIds
      <3>. QED  BY <1>1, <2>1, <3>2, <3>3 DEF Quiet
    <2>. QED  BY <1>1, <2>2, <2>4, <2>5 DEF Quiet, PastIds
  <1>2. ASSUME NEW p \in PortIds, Admits(p) PROVE PastIds'
    <2>1. DOMAIN frames' = DOMAIN frames \cup {nextFID} /\ nextFID' = nextFID + 1
      BY <1>2, AdmitFacts
    <2>2. frames'[nextFID].port = p /\ \A g \in DOMAIN frames \ {nextFID} : frames'[g] = frames[g]
      BY <1>2, AdmitFacts
    <2>3. p < nextID /\ nextFID \in Nat
      BY <1>2 DEF Admits, PastIds, FrameIds
    <2>4. \A f \in DOMAIN frames' : f < nextFID' /\ frames'[f].port < nextID'
      <3>1. \A f \in DOMAIN frames : f \in Nat /\ f < nextFID /\ frames[f].port < nextID
        BY DEF PastIds, TypeOK, FramesType, FrameIds
      <3>2. nextID' = nextID
        BY <1>2 DEF Admits, portVars
      <3>3. \A f \in DOMAIN frames : f # nextFID
        BY <3>1, <2>3
      <3>4. nextFID < nextFID' /\ frames'[nextFID].port < nextID'
        BY <2>1, <2>2, <2>3, <3>2
      <3>5. ASSUME NEW f \in DOMAIN frames PROVE f < nextFID' /\ frames'[f].port < nextID'
        BY <2>1, <2>2, <2>3, <3>1, <3>2, <3>3
      <3>. QED  BY <2>1, <3>4, <3>5
    <2>5. \A f \in flown' : f < nextFID'
      BY <1>2, <2>1, <2>3 DEF Admits, PastIds, TypeOK, HistoryType, FrameIds
    <2>. QED  BY <1>2, <2>4, <2>5 DEF Admits, PastIds, portVars
  <1>3. ASSUME NEW f \in DOMAIN frames, Copies(f) PROVE PastIds'
    <2>1. DOMAIN frames' = DOMAIN frames /\ \A g \in DOMAIN frames : frames'[g].port = frames[g].port
      BY <1>3, CopyFacts
    <2>2. flown' = flown \cup {f} /\ UNCHANGED <<ports, readers, nextID, nextFID, ledger>>
      BY <1>3, CopyFacts DEF portVars
    <2>3. f < nextFID
      BY DEF PastIds
    <2>. QED  BY <2>1, <2>2, <2>3 DEF PastIds
  <1>4. ASSUME NEW S, NEW how, Leaves(S, how) PROVE PastIds'
    <2>1. \A f \in DOMAIN frames' : f < nextFID' /\ frames'[f].port < nextID'
      BY <1>4 DEF Leaves, PastIds, portVars
    <2>2. \A f \in FrameIds : \A i \in DOMAIN ledger'[f] : ledger'[f][i].port < nextID'
      <3>1. nextID' = nextID
        BY <1>4 DEF Leaves, portVars
      <3>2. ASSUME NEW f \in S, NEW i \in DOMAIN ledger'[f] PROVE ledger'[f][i].port < nextID'
        <4>1. ledger'[f] = <<Departure(f, how)>> /\ f \in DOMAIN frames
          BY <1>4, LeaveRecord DEF Leaves
        <4>2. ledger'[f][i] = Departure(f, how)
          BY <4>1
        <4>. QED  BY <3>1, <4>1, <4>2 DEF Departure, PastIds
      <3>3. \A f \in FrameIds \ S : ledger'[f] = ledger[f]
        BY <1>4, LeaveRecord
      <3>. QED  BY <3>1, <3>2, <3>3 DEF PastIds
    <2>. QED  BY <1>4, <2>1, <2>2 DEF Leaves, PastIds, portVars
  <1>. QED  BY <1>1, <1>2, <1>3, <1>4, Kinds

(* No step gives a frame a second exit or lets it leave without one.       *)
LEMMA OneWayOutStep ==
  ASSUME TypeOK, OneWayOut, PastIds, [Next]_vars PROVE OneWayOut'
  <1>1. CASE Quiet
    BY <1>1 DEF Quiet, OneWayOut
  <1>2. ASSUME NEW p \in PortIds, Admits(p) PROVE OneWayOut'
    <2>1. DOMAIN frames' = DOMAIN frames \cup {nextFID} /\ nextFID' = nextFID + 1
      BY <1>2, AdmitFacts
    <2>2. ledger' = ledger /\ nextFID \in FrameIds
      BY <1>2 DEF Admits
    <2>. QED  BY <2>1, <2>2 DEF OneWayOut, FrameIds
  <1>3. ASSUME NEW f \in DOMAIN frames, Copies(f) PROVE OneWayOut'
    BY <1>3, CopyFacts DEF OneWayOut
  <1>4. ASSUME NEW S, NEW how, Leaves(S, how) PROVE OneWayOut'
    <2>1. \A f \in S : Len(ledger'[f]) = 1 /\ f < nextFID /\ f \notin DOMAIN frames'
      BY <1>4, LeaveRecord, BufferedHasNoExit DEF Leaves
    <2>2. \A f \in FrameIds \ S : ledger'[f] = ledger[f]
                               /\ (f \in DOMAIN frames' <=> f \in DOMAIN frames)
      BY <1>4, LeaveRecord DEF Leaves
    <2>3. nextFID' = nextFID
      BY <1>4 DEF Leaves
    <2>. QED  BY <2>1, <2>2, <2>3 DEF OneWayOut
  <1>. QED  BY <1>1, <1>2, <1>3, <1>4, Kinds

(* What a departure does to the buffer and to flown. *)
LEMMA LeaveFacts ==
  ASSUME NEW S, NEW how, Leaves(S, how)
  PROVE  /\ S \subseteq DOMAIN frames /\ DOMAIN frames' = DOMAIN frames \ S
         /\ \A f \in DOMAIN frames \ S : frames'[f].copied = frames[f].copied
         /\ UNCHANGED <<portVars, nextFID, flown>>
         /\ how = "consumer" => \A f \in S : ~frames[f].copied
         /\ how = "freed" => \A f \in S : frames[f].copied
  BY Zenon DEF Leaves

(* The copied flag keeps saying which buffered frames were copied.         *)
LEMMA CopiedFlagStep ==
  ASSUME TypeOK, OneWayOut, PastIds, CopiedFlag, [Next]_vars PROVE CopiedFlag'
  <1>1. CASE Quiet
    BY <1>1, Zenon DEF Quiet, CopiedFlag
  <1>2. ASSUME NEW p \in PortIds, Admits(p) PROVE CopiedFlag'
    <2>1. flown' = flown /\ nextFID \in Nat
      BY <1>2 DEF Admits, FrameIds
    <2>2. nextFID \notin flown /\ nextFID \notin DOMAIN frames
      BY <2>1 DEF PastIds
    <2>3. frames'[nextFID].copied = FALSE
      BY <1>2, AdmitFacts, Zenon
    <2>4. /\ DOMAIN frames' = DOMAIN frames \cup {nextFID}
          /\ \A g \in DOMAIN frames \ {nextFID} : frames'[g] = frames[g]
      BY <1>2, AdmitFacts, Zenon
    <2>5. ASSUME NEW f \in DOMAIN frames PROVE frames'[f].copied <=> f \in flown'
      <3>1. frames'[f] = frames[f]
        BY <2>2, <2>4
      <3>. QED  BY <2>1, <3>1, Zenon DEF CopiedFlag
    <2>6. frames'[nextFID].copied <=> nextFID \in flown'
      BY <2>1, <2>2, <2>3, Zenon
    <2>. QED  BY <2>4, <2>5, <2>6, Zenon DEF CopiedFlag
  <1>3. ASSUME NEW f \in DOMAIN frames, Copies(f) PROVE CopiedFlag'
    <2>1. flown' = flown \cup {f} /\ DOMAIN frames' = DOMAIN frames
      BY <1>3, CopyFacts
    <2>2. frames'[f].copied = TRUE
      BY <1>3, CopyFacts, Zenon
    <2>3. ASSUME NEW g \in DOMAIN frames, g # f PROVE frames'[g].copied <=> g \in flown'
      <3>1. frames'[g] = frames[g]
        BY <1>3, <2>3, CopyFacts
      <3>2. g \in flown' <=> g \in flown
        BY <2>1, <2>3
      <3>. QED  BY <3>1, <3>2, Zenon DEF CopiedFlag
    <2>. QED  BY <2>1, <2>2, <2>3, Zenon DEF CopiedFlag
  <1>4. ASSUME NEW S, NEW how, Leaves(S, how) PROVE CopiedFlag'
    BY <1>4, LeaveFacts, Zenon DEF CopiedFlag
  <1>. QED  BY <1>1, <1>2, <1>3, <1>4, Kinds, Zenon

(* No step charges a copied frame as a consumer drop.                      *)
LEMMA FloodStep ==
  ASSUME TypeOK, OneWayOut, PastIds, CopiedFlag, FloodIsNoDrop, [Next]_vars
  PROVE  FloodIsNoDrop'
  <1>1. CASE Quiet
    BY <1>1, Zenon DEF Quiet, FloodIsNoDrop
  <1>2. ASSUME NEW p \in PortIds, Admits(p) PROVE FloodIsNoDrop'
    BY <1>2, Zenon DEF Admits, FloodIsNoDrop
  <1>3. ASSUME NEW f \in DOMAIN frames, Copies(f) PROVE FloodIsNoDrop'
    <2>1. flown' = flown \cup {f} /\ ledger' = ledger
      BY <1>3, CopyFacts
    <2>2. DOMAIN ledger[f] = {}
      BY BufferedHasNoExit
    <2>. QED  BY <2>1, <2>2 DEF FloodIsNoDrop
  <1>4. ASSUME NEW S, NEW how, Leaves(S, how) PROVE FloodIsNoDrop'
    <2>1. /\ S \subseteq FrameIds
          /\ \A f \in S : ledger'[f] = <<Departure(f, how)>>
          /\ \A f \in FrameIds \ S : ledger'[f] = ledger[f]
      BY <1>4, LeaveRecord
    <2>2. flown' = flown
      BY <1>4, LeaveFacts
    <2>3. \A f \in S : (how = "consumer" => f \notin flown) /\ (how = "freed" => f \in flown)
      BY <1>4, LeaveFacts, Zenon DEF CopiedFlag
    <2>4. ASSUME NEW f \in S, NEW i \in DOMAIN ledger'[f]
          PROVE  ledger'[f][i].how = how
      <3>1. ledger'[f] = <<Departure(f, how)>>
        BY <2>1
      <3>2. ledger'[f][i] = Departure(f, how)
        BY <3>1
      <3>. QED  BY <3>2 DEF Departure
    <2>. QED  BY <2>1, <2>2, <2>3, <2>4 DEF FloodIsNoDrop
  <1>. QED  BY <1>1, <1>2, <1>3, <1>4, Kinds, Zenon

(* Only finitely many frames are buffered. *)
LEMMA FramesFinite ==
  ASSUME TypeOK
  PROVE  IsFiniteSet(FrameIds) /\ IsFiniteSet(DOMAIN frames)
  <1>1. IsFiniteSet(FrameIds)
    BY FS_Interval, LoftAssumption DEF FrameIds
  <1>. QED  BY <1>1, FS_Subset DEF TypeOK, FramesType

(* No step takes the buffer over its limit.                                *)
LEMMA BufferBoundStep ==
  ASSUME TypeOK, OneWayOut, PastIds, BufferBound, [Next]_vars PROVE BufferBound'
  <1>1. CASE Quiet
    BY <1>1, Zenon DEF Quiet, BufferBound
  <1>2. ASSUME NEW p \in PortIds, Admits(p) PROVE BufferBound'
    <2>1. DOMAIN frames' = DOMAIN frames \cup {nextFID}
      BY <1>2, AdmitFacts
    <2>2. IsFiniteSet(DOMAIN frames) /\ Cardinality(DOMAIN frames) \in Nat
      BY FramesFinite, FS_CardinalityType
    <2>3. Cardinality(DOMAIN frames') <= Cardinality(DOMAIN frames) + 1
      BY <2>1, <2>2, FS_AddElement
    <2>4. Cardinality(DOMAIN frames) < MaxBuffered
      BY <1>2, <2>2, BufferAssumption DEF Admits, Full
    <2>5. Cardinality(DOMAIN frames') \in Nat
      BY <2>1, <2>2, FS_AddElement, FS_CardinalityType
    <2>. QED  BY <2>2, <2>3, <2>4, <2>5, BufferAssumption DEF BufferBound
  <1>3. ASSUME NEW f \in DOMAIN frames, Copies(f) PROVE BufferBound'
    <2>1. DOMAIN frames' = DOMAIN frames
      BY <1>3, CopyFacts
    <2>. QED  BY <2>1 DEF BufferBound
  <1>4. ASSUME NEW S, NEW how, Leaves(S, how) PROVE BufferBound'
    <2>1. DOMAIN frames' \subseteq DOMAIN frames
      BY <1>4, LeaveFacts
    <2>2. /\ Cardinality(DOMAIN frames') <= Cardinality(DOMAIN frames)
          /\ Cardinality(DOMAIN frames') \in Nat /\ Cardinality(DOMAIN frames) \in Nat
      BY <2>1, FramesFinite, FS_Subset, FS_CardinalityType
    <2>. QED  BY <2>2, BufferAssumption DEF BufferBound
  <1>. QED  BY <1>1, <1>2, <1>3, <1>4, Kinds, Zenon

(* The exits on record after a set of frames has left: those of the port   *)
(* in that way grow by its frames in the set, which were not among them.   *)
LEMMA LeaveExits ==
  ASSUME TypeOK, OneWayOut, PastIds, NEW S, NEW how, Leaves(S, how), NEW h, NEW p
  PROVE  /\ ExitsOf(h, p) \cap From(S, p) = {}
         /\ ExitsOf(h, p)' = IF h = how THEN ExitsOf(h, p) \cup From(S, p) ELSE ExitsOf(h, p)
         /\ From(S, p) \subseteq FrameIds /\ ExitsOf(h, p) \subseteq FrameIds
  <1>1. /\ S \subseteq FrameIds
        /\ \A f \in S : ledger'[f] = <<Departure(f, how)>>
        /\ \A f \in FrameIds \ S : ledger'[f] = ledger[f]
    BY LeaveRecord
  <1>2. \A f \in S : ledger[f] = <<>>
    BY LeaveFacts, BufferedHasNoExit
  <1>3. \A f \in S : ~Left(f, h, p)
    BY <1>2 DEF Left
  <1>4. ASSUME NEW f \in S PROVE Left(f, h, p)' <=> h = how /\ frames[f].port = p
    <2>1. DOMAIN ledger'[f] = {1} /\ ledger'[f][1] = Departure(f, how)
      BY <1>1
    <2>2. Departure(f, how).how = how /\ Departure(f, how).port = frames[f].port
      BY DEF Departure
    <2>. QED  BY <2>1, <2>2 DEF Left
  <1>5. \A f \in FrameIds \ S : Left(f, h, p)' <=> Left(f, h, p)
    BY <1>1 DEF Left
  <1>6. ExitsOf(h, p)' = {f \in FrameIds : Left(f, h, p)'}
    BY DEF ExitsOf
  <1>7. From(S, p) = {f \in S : frames[f].port = p}
    BY DEF From
  <1>8. ExitsOf(h, p) = {f \in FrameIds : Left(f, h, p)}
    BY DEF ExitsOf
  <1>9. ExitsOf(h, p) \cap From(S, p) = {}
    BY <1>3, <1>7, <1>8
  <1>10. ASSUME h = how PROVE ExitsOf(h, p)' = ExitsOf(h, p) \cup From(S, p)
    BY <1>1, <1>3, <1>4, <1>5, <1>6, <1>7, <1>8, <1>10
  <1>11. ASSUME h # how PROVE ExitsOf(h, p)' = ExitsOf(h, p)
    BY <1>1, <1>3, <1>4, <1>5, <1>6, <1>8, <1>11
  <1>. QED  BY <1>1, <1>7, <1>8, <1>9, <1>10, <1>11

(* A counter that was exact and is raised by the frames of its port in the *)
(* set that leaves is exact again.                                         *)
LEMMA ExactStep ==
  ASSUME TypeOK, OneWayOut, PastIds, NEW S, NEW how, Leaves(S, how), NEW h, NEW p,
         NEW count, count = Cardinality(ExitsOf(h, p)),
         NEW added, added = IF h = how THEN Cardinality(From(S, p)) ELSE 0
  PROVE  count + added = Cardinality(ExitsOf(h, p)')
  <1>1. IsFiniteSet(ExitsOf(h, p)) /\ IsFiniteSet(From(S, p))
    BY LeaveExits, FramesFinite, FS_Subset
  <1>2. count \in Nat /\ Cardinality(From(S, p)) \in Nat
    BY <1>1, FS_CardinalityType
  <1>3. CASE h = how
    <2>1. Cardinality(ExitsOf(h, p) \cap From(S, p)) = 0
      BY LeaveExits, FS_EmptySet
    <2>2. Cardinality(ExitsOf(h, p) \cup From(S, p))
            = Cardinality(ExitsOf(h, p)) + Cardinality(From(S, p)) - 0
      BY <1>1, <2>1, FS_Union
    <2>3. ExitsOf(h, p)' = ExitsOf(h, p) \cup From(S, p)
      BY <1>3, LeaveExits
    <2>. QED  BY <1>2, <1>3, <2>2, <2>3
  <1>4. CASE h # how
    <2>1. ExitsOf(h, p)' = ExitsOf(h, p)
      BY <1>4, LeaveExits
    <2>. QED  BY <1>2, <1>4, <2>1
  <1>. QED  BY <1>3, <1>4

(* A port whose counters must be exact: it is there, or yet to come. *)
Exact == CountersExact /\ CleanPorts

(* Every step keeps the drop counters of the ports exact.                  *)
LEMMA ExactnessStep ==
  ASSUME TypeOK, OneWayOut, PastIds, Exact, [Next]_vars PROVE Exact'
  <1>1. ports \subseteq PortIds /\ nextID \in Nat /\ PortIds \subseteq Nat
    BY DEF TypeOK, PortType, PortIds
  <1>2. ASSUME UNCHANGED <<ledger, dropsTTL, dropsConsumer>>, NEW p PROVE ExactFor(p)' <=> ExactFor(p)
    BY <1>2 DEF ExactFor, ExitsOf, Left
  <1>3. CASE Quiet
    <2>1. UNCHANGED <<ledger, dropsTTL, dropsConsumer>>
      BY <1>3 DEF Quiet
    <2>2. \A p \in ports' : p \in ports \/ p >= nextID
      BY <1>1, <1>3 DEF Quiet
    <2>3. \A p \in PortIds : p >= nextID' => p >= nextID
      BY <1>1, <1>3 DEF Quiet
    <2>4. ports' \subseteq PortIds
      BY <1>1, <1>3 DEF Quiet
    <2>. QED  BY <1>2, <2>1, <2>2, <2>3, <2>4 DEF Exact, CountersExact, CleanPorts
  <1>4. CASE \/ \E p \in PortIds : Admits(p)
             \/ \E f \in DOMAIN frames : Copies(f)
    <2>1. UNCHANGED <<ledger, dropsTTL, dropsConsumer, ports, nextID>>
      BY <1>4, Zenon DEF Admits, Copies, portVars
    <2>. QED  BY <1>2, <2>1 DEF Exact, CountersExact, CleanPorts
  <1>5. ASSUME NEW S, NEW how, Leaves(S, how) PROVE Exact'
    <2>1. ports' = ports /\ nextID' = nextID
      BY <1>5, LeaveFacts DEF portVars
    <2>2. ASSUME NEW p \in PortIds, p \in ports \/ p >= nextID PROVE ExactFor(p)'
      <3>1. dropsTTL[p] = Cardinality(ExitsOf("ttl", p))
            /\ dropsConsumer[p] = Cardinality(ExitsOf("consumer", p))
        BY <2>2 DEF Exact, CountersExact, CleanPorts, ExactFor
      <3>2. p \notin ports => From(S, p) = {}
        <4>1. \A f \in S : frames[f].port < nextID /\ frames[f].port \in PortIds
          BY <1>5, LeaveFacts DEF PastIds, TypeOK, FramesType, BufFrame
        <4>. QED  BY <1>1, <2>2, <4>1 DEF From
      <3>3. p \notin ports => Cardinality(From(S, p)) = 0
        BY <3>2, FS_EmptySet
      <3>4. dropsTTL'[p] = dropsTTL[p] + (IF "ttl" = how /\ p \in ports
                                         THEN Cardinality(From(S, p)) ELSE 0)
        BY <1>5 DEF Leaves
      <3>5. dropsConsumer'[p] = dropsConsumer[p] + (IF "consumer" = how /\ p \in ports
                                                   THEN Cardinality(From(S, p)) ELSE 0)
        BY <1>5 DEF Leaves
      <3>6. dropsTTL'[p] = dropsTTL[p] + (IF "ttl" = how THEN Cardinality(From(S, p)) ELSE 0)
        BY <3>3, <3>4
      <3>7. dropsConsumer'[p]
              = dropsConsumer[p] + (IF "consumer" = how THEN Cardinality(From(S, p)) ELSE 0)
        BY <3>3, <3>5
      <3>8. dropsTTL'[p] = Cardinality(ExitsOf("ttl", p)')
        BY <1>5, <3>1, <3>6, ExactStep
      <3>9. dropsConsumer'[p] = Cardinality(ExitsOf("consumer", p)')
        BY <1>5, <3>1, <3>7, ExactStep
      <3>. QED  BY <3>8, <3>9 DEF ExactFor
    <2>. QED  BY <1>1, <2>1, <2>2 DEF Exact, CountersExact, CleanPorts
  <1>. QED  BY <1>3, <1>4, <1>5, Kinds, Zenon

(* Every step keeps the router slot and the open connection one.           *)
LEMMA RouterKeptStep ==
  ASSUME TypeOK, RouterKept, [Next]_vars PROVE RouterKept'
  <1>1. conn \in [Routers -> {"new", "open", "bumped", "gone"}]
        /\ client \in Routers \cup {NoRouter}
    BY DEF TypeOK, RouterType
  <1>2. ASSUME UNCHANGED <<client, conn>> PROVE RouterKept'
    BY <1>2 DEF RouterKept
  <1>3. ASSUME NEW r \in Routers, Attach(r) PROVE RouterKept'
    <2>1. client' = r /\ conn'[r] = "open"
      BY <1>3 DEF Attach
    <2>2. ASSUME NEW c \in Routers, c # r PROVE conn'[c] # "open"
      <3>1. c = client => conn'[c] = "bumped"
        BY <1>3, <2>2 DEF Attach
      <3>2. c # client => conn'[c] = conn[c]
        BY <1>3, <2>2 DEF Attach
      <3>. QED  BY <3>1, <3>2 DEF RouterKept
    <2>. QED  BY <2>1, <2>2 DEF RouterKept
  <1>4. ASSUME NEW r \in Routers, HangUp(r) PROVE RouterKept'
    BY <1>1, <1>4, LoftAssumption DEF HangUp, RouterKept
  <1>5. CASE PortStep
    BY <1>2, <1>5 DEF PortStep, AddPort, RemovePort, ReaderExit, Ingest, IngestNoRouter,
                      IngestOverflow, IngestAdmit, SendToken, routerVars
  <1>6. CASE VerdictStep
    BY <1>2, <1>6 DEF VerdictStep, DeliverLocal, DropLocal, Read
  <1>7. CASE Sweep \/ SendStats \/ UNCHANGED vars
    BY <1>2, <1>7 DEF Sweep, SendStats, vars, routerVars
  <1>8. CASE RouterStep
    <2>1. ASSUME NEW r \in Routers, SendVerdict(r) PROVE RouterKept'
      BY <1>2, <2>1 DEF SendVerdict
    <2>. QED  BY <1>3, <1>4, <1>8, <2>1 DEF RouterStep
  <1>9. CASE ObserverStep \/ PeerStep
    BY <1>2, <1>9 DEF ObserverStep, Watch, Unwatch, Tell, PeerStep, Stall, Resume, routerVars
  <1>. QED  BY <1>5, <1>6, <1>7, <1>8, <1>9 DEF Next

(* The whole invariant is inductive: every way out of the buffer, every    *)
(* counter and the router slot stay right, whoever takes the next step.    *)
THEOREM Safety == Spec => []IInv
  <1>1. Init => IInv
    BY InitType, InitInv DEF IInv
  <1>2. IInv /\ [Next]_vars => IInv'
    <2> SUFFICES ASSUME IInv, [Next]_vars PROVE IInv'
      OBVIOUS
    <2>1. TypeOK /\ OneWayOut /\ PastIds /\ CopiedFlag /\ FloodIsNoDrop /\ BufferBound
          /\ RouterKept /\ Exact
      BY DEF IInv, Inv, Exact
    <2>2. TypeOK' /\ OneWayOut' /\ PastIds' /\ CopiedFlag'
      BY <2>1, NextType, OneWayOutStep, PastIdsStep, CopiedFlagStep
    <2>3. FloodIsNoDrop' /\ BufferBound' /\ RouterKept' /\ Exact'
      BY <2>1, FloodStep, BufferBoundStep, RouterKeptStep, ExactnessStep
    <2>. QED  BY <2>2, <2>3 DEF IInv, Inv, Exact
  <1>. QED  BY <1>1, <1>2, PTL DEF Spec

(* Every frame leaves the buffer exactly once. *)
THEOREM OneWayOutAlways == Spec => []OneWayOut
  <1>1. IInv => OneWayOut
    BY DEF IInv, Inv
  <1>. QED  BY <1>1, Safety, PTL

(* The drop counters of every port that is there are exact. *)
THEOREM CountersExactAlways == Spec => []CountersExact
  <1>1. IInv => CountersExact
    BY DEF IInv, Inv
  <1>. QED  BY <1>1, Safety, PTL

(* The buffer never holds more than maxBuffered frames. *)
THEOREM BufferBoundAlways == Spec => []BufferBound
  <1>1. IInv => BufferBound
    BY DEF IInv, Inv
  <1>. QED  BY <1>1, Safety, PTL

(* A flooded frame is never charged as a consumer drop. *)
THEOREM FloodIsNoDropAlways == Spec => []FloodIsNoDrop
  <1>1. IInv => FloodIsNoDrop
    BY DEF IInv, Inv
  <1>. QED  BY <1>1, Safety, PTL

(* The attached router is the one open connection. *)
THEOREM RouterKeptAlways == Spec => []RouterKept
  <1>1. IInv => RouterKept
    BY DEF IInv, Inv
  <1>. QED  BY <1>1, Safety, PTL

-----------------------------------------------------------------------------
(* Refinement: each kind of step is a step of the frame lifecycle.         *)

Stage == [f \in FrameIds |-> StageOf(f)]

(* The abstract stage of a frame, by what the loft records of it.          *)
LEMMA StageFacts ==
  ASSUME NEW f \in FrameIds
  PROVE  Stage[f] = StageOf(f) /\ Stage'[f] = StageOf(f)'
  BY DEF Stage

(* A frame stays in its stage while nothing happens to it. *)
LEMMA SameStage ==
  ASSUME NEW f, f \in DOMAIN frames <=> f \in DOMAIN frames', ledger'[f] = ledger[f],
         f \in flown <=> f \in flown'
  PROVE  StageOf(f)' = StageOf(f)
  BY DEF StageOf

(* A buffered frame is held or copied, as flown says.                      *)
LEMMA BufferedStage ==
  ASSUME IInv, NEW f \in DOMAIN frames
  PROVE  /\ StageOf(f) \in {"held", "copied"}
         /\ frames[f].copied => StageOf(f) = "copied"
         /\ ~frames[f].copied => StageOf(f) = "held"
  <1>1. frames[f].copied <=> f \in flown
    BY Zenon DEF IInv, Inv, CopiedFlag
  <1>2. f \in flown => StageOf(f) = "copied"
    BY DEF StageOf
  <1>3. f \notin flown => StageOf(f) = "held"
    BY DEF StageOf
  <1>. QED  BY <1>1, <1>2, <1>3, Zenon

(* Frames that leave move to the stage their way out stands for. *)
LEMMA LeaveStage ==
  ASSUME IInv, NEW S, NEW how, Leaves(S, how)
  PROVE  /\ S \subseteq FrameIds
         /\ \A f \in S : StageOf(f)' = StageAfter(how)
         /\ \A f \in FrameIds \ S : StageOf(f)' = StageOf(f)
  <1>1. TypeOK /\ OneWayOut /\ PastIds
    BY DEF IInv, Inv
  <1>2. /\ S \subseteq FrameIds
        /\ \A f \in S : ledger'[f] = <<Departure(f, how)>>
        /\ \A f \in FrameIds \ S : ledger'[f] = ledger[f]
    BY <1>1, LeaveRecord
  <1>3. S \subseteq DOMAIN frames /\ DOMAIN frames' = DOMAIN frames \ S /\ flown' = flown
    BY LeaveFacts
  <1>4. ASSUME NEW f \in S PROVE StageOf(f)' = StageAfter(how)
    <2>1. ledger'[f] # <<>> /\ ledger'[f][1] = Departure(f, how)
      BY <1>2
    <2>2. ledger'[f][1].how = how
      BY <2>1 DEF Departure
    <2>3. f \notin DOMAIN frames'
      BY <1>3
    <2>. QED  BY <2>1, <2>2, <2>3 DEF StageOf
  <1>5. ASSUME NEW f \in FrameIds \ S PROVE StageOf(f)' = StageOf(f)
    BY <1>2, <1>3, SameStage
  <1>. QED  BY <1>2, <1>4, <1>5

(* A move of the frames of fs, seen as an update of the stage function. *)
LEMMA AsAdvance ==
  ASSUME NEW fs, fs \subseteq FrameIds, NEW from, NEW to,
         \A f \in fs : StageOf(f) \in from /\ StageOf(f)' = to,
         \A f \in FrameIds \ fs : StageOf(f)' = StageOf(f)
  PROVE  Life!Advance(fs, from, to)
  <1>1. \A f \in fs : Stage[f] \in from
    BY StageFacts
  <1>2. Stage' = [f \in FrameIds |-> StageOf(f)']
    BY DEF Stage
  <1>3. Stage' = [f \in FrameIds |-> IF f \in fs THEN to ELSE Stage[f]]
    BY <1>2, StageFacts
  <1>. QED  BY <1>1, <1>3 DEF Life!Advance, Stage

(* Every step of the loft is a step of the frame lifecycle or a stutter.   *)
LEMMA LifeStep == IInv /\ [Next]_vars => [Life!LifeNext]_Stage
  <1> SUFFICES ASSUME IInv, [Next]_vars PROVE [Life!LifeNext]_Stage
    OBVIOUS
  <1>0. TypeOK /\ OneWayOut /\ PastIds
    BY DEF IInv, Inv
  <1>1. CASE Quiet
    <2>1. \A f \in FrameIds : StageOf(f)' = StageOf(f)
      BY <1>1, SameStage DEF Quiet
    <2>. QED  BY <2>1 DEF Stage
  <1>2. ASSUME NEW p \in PortIds, Admits(p) PROVE Life!LifeNext
    <2>. PICK n \in FrameIds : n = nextFID
      BY <1>2 DEF Admits
    <2>1. UNCHANGED <<ledger, flown>>
      BY <1>2 DEF Admits
    <2>2. DOMAIN frames' = DOMAIN frames \cup {n}
      BY <1>2, AdmitFacts, Zenon
    <2>3. n \notin DOMAIN frames /\ n \notin flown
      BY <1>0 DEF PastIds, FrameIds
    <2>4. ledger[n] = <<>>
      <3>1. ledger[n] \in Seq(Exits) /\ Len(ledger[n]) = 0
        BY <1>0 DEF TypeOK, HistoryType, OneWayOut, FrameIds
      <3>. QED  BY <3>1, EmptySeq
    <2>5. StageOf(n) = "unseen" /\ StageOf(n)' = "held"
      BY <2>1, <2>2, <2>3, <2>4 DEF StageOf
    <2>6. \A f \in FrameIds \ {n} : StageOf(f)' = StageOf(f)
      BY <2>1, <2>2, SameStage
    <2>7. Life!Advance({n}, {"unseen"}, "held")
      BY <2>5, <2>6, AsAdvance
    <2>. QED  BY <2>7 DEF Life!LifeNext, Life!Admit
  <1>3. ASSUME NEW f \in DOMAIN frames, Copies(f) PROVE Life!LifeNext
    <2>1. f \in FrameIds
      BY <1>0, BufferedHasNoExit
    <2>2. DOMAIN frames' = DOMAIN frames /\ flown' = flown \cup {f} /\ ledger' = ledger
      BY <1>0, <1>3, CopyFacts
    <2>3. StageOf(f) \in {"held", "copied"} /\ StageOf(f)' = "copied"
      BY <2>2, BufferedStage DEF StageOf
    <2>4. \A g \in FrameIds \ {f} : StageOf(g)' = StageOf(g)
      BY <2>2, SameStage
    <2>5. Life!Advance({f}, {"held", "copied"}, "copied")
      BY <2>1, <2>3, <2>4, AsAdvance
    <2>. QED  BY <2>1, <2>5 DEF Life!LifeNext, Life!Copy
  <1>4. ASSUME NEW f \in DOMAIN frames, NEW how \in Hows, how # "ttl", Leaves({f}, how)
        PROVE  Life!LifeNext
    <2>1. /\ f \in FrameIds /\ StageOf(f)' = StageAfter(how)
          /\ \A g \in FrameIds \ {f} : StageOf(g)' = StageOf(g)
      BY <1>4, LeaveStage
    <2>2. CASE how = "delivered"
      <3>1. Life!Advance({f}, {"held", "copied"}, "delivered")
        BY <2>1, <2>2, BufferedStage, AsAdvance DEF StageAfter
      <3>. QED  BY <2>1, <3>1 DEF Life!LifeNext, Life!Deliver
    <2>3. CASE how = "freed"
      <3>1. StageOf(f) = "copied"
        BY <1>4, <2>3, LeaveFacts, BufferedStage, Zenon
      <3>2. Life!Advance({f}, {"copied"}, "delivered")
        BY <2>1, <2>3, <3>1, AsAdvance DEF StageAfter
      <3>. QED  BY <2>1, <3>2 DEF Life!LifeNext, Life!Free
    <2>4. CASE how = "consumer"
      <3>1. StageOf(f) = "held"
        BY <1>4, <2>4, LeaveFacts, BufferedStage, Zenon
      <3>2. Life!Advance({f}, {"held"}, "dropped")
        BY <2>1, <2>4, <3>1, AsAdvance DEF StageAfter
      <3>. QED  BY <2>1, <3>2 DEF Life!LifeNext, Life!Drop
    <2>. QED  BY <1>4, <2>2, <2>3, <2>4 DEF Hows
  <1>5. ASSUME Leaves(Stale(frames), "ttl") PROVE Life!LifeNext
    <2>1. /\ Stale(frames) \subseteq FrameIds
          /\ \A f \in Stale(frames) : StageOf(f)' = "expired"
          /\ \A g \in FrameIds \ Stale(frames) : StageOf(g)' = StageOf(g)
      BY <1>5, LeaveStage DEF StageAfter
    <2>2. \A f \in Stale(frames) : StageOf(f) \in {"held", "copied"}
      BY BufferedStage DEF Stale
    <2>3. Life!Advance(Stale(frames), {"held", "copied"}, "expired")
      BY <2>1, <2>2, AsAdvance
    <2>. QED  BY <2>1, <2>3 DEF Life!LifeNext, Life!Expire
  <1>. QED  BY <1>0, <1>1, <1>2, <1>3, <1>4, <1>5, Kinds, Zenon

(* The loft implements the abstract frame lifecycle: no frame is decided   *)
(* twice, comes back, or is dropped by the router after a copy went out.   *)
THEOREM LifecycleAlways == Spec => Lifecycle
  <1>1. Init => Life!LifeInit
    BY DEF Init, Life!LifeInit, StageOf, FrameIds
  <1>2. IInv /\ [Next]_vars => [Life!LifeNext]_Stage
    BY LifeStep
  <1>. QED  BY <1>1, <1>2, Safety, PTL DEF Spec, Lifecycle, Life!LifeSpec, Stage
=============================================================================
