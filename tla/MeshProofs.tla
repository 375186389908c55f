----------------------------- MODULE MeshProofs -----------------------------
(***************************************************************************)
(* Theorems about MeshFrames, for any edges and every bound: what becomes  *)
(* of a frame between lofts, whatever breaks, restarts, expires or is      *)
(* decided twice.                                                          *)
(*                                                                         *)
(* The steps of MeshFrames are first sorted into a few kinds, by what they *)
(* do to the variables that the invariant is about (Step, StepKinds); each *)
(* part of the invariant is then shown to be kept by every kind.           *)
(***************************************************************************)
EXTENDS MeshFrames, SequenceTheorems, TLAPS

(* An element of a sequence's range has the type of its elements. *)
LEMMA Member ==
  ASSUME NEW S, NEW s \in Seq(S), NEW x \in Range(s)
  PROVE  x \in S
  BY DEF Range

(* Appending adds one element, and a sequence stays free of repetitions if *)
(* the element is new.                                                     *)
LEMMA Appended ==
  ASSUME NEW S, NEW s \in Seq(S), NEW x \in S
  PROVE  /\ Append(s, x) \in Seq(S) /\ Range(Append(s, x)) = Range(s) \cup {x}
         /\ IsInjective(s) /\ x \notin Range(s) => IsInjective(Append(s, x))
  <1>1. /\ Append(s, x) \in Seq(S) /\ DOMAIN Append(s, x) = 1..(Len(s) + 1)
        /\ Append(s, x)[Len(s) + 1] = x /\ DOMAIN s = 1..Len(s) /\ Len(s) \in Nat
        /\ \A i \in 1..Len(s) : Append(s, x)[i] = s[i]
    OBVIOUS
  <1>2. Range(Append(s, x)) = Range(s) \cup {x}
    BY <1>1 DEF Range
  <1>3. IsInjective(s) /\ x \notin Range(s) => IsInjective(Append(s, x))
    BY <1>1 DEF Range, IsInjective
  <1> QED BY <1>1, <1>2, <1>3

(* Reading the head of a sequence only takes it away. *)
LEMMA Read ==
  ASSUME NEW S, NEW s \in Seq(S), s # <<>>
  PROVE  /\ Head(s) \in S /\ Tail(s) \in Seq(S)
         /\ Head(s) \in Range(s) /\ Range(Tail(s)) \subseteq Range(s)
         /\ IsInjective(s) => IsInjective(Tail(s)) /\ Head(s) \notin Range(Tail(s))
  <1>1. /\ Head(s) \in S /\ Tail(s) \in Seq(S) /\ Len(s) \in Nat \ {0} /\ Head(s) = s[1]
        /\ DOMAIN Tail(s) = 1..(Len(s) - 1) /\ DOMAIN s = 1..Len(s)
        /\ \A i \in 1..(Len(s) - 1) : Tail(s)[i] = s[i + 1]
    OBVIOUS
  <1>2. \A i \in 1..(Len(s) - 1) : i + 1 \in 1..Len(s) /\ i + 1 # 1
    BY <1>1
  <1>3. \A i, j \in 1..(Len(s) - 1) : i + 1 = j + 1 => i = j
    OBVIOUS
  <1> QED BY <1>1, <1>2, <1>3 DEF Range, IsInjective

(* What is left of a sequence that is cut off was there before. *)
LEMMA Truncated ==
  ASSUME NEW S, NEW s \in Seq(S), NEW n \in 0..Len(s)
  PROVE  /\ SubSeq(s, 1, n) \in Seq(S) /\ Range(SubSeq(s, 1, n)) \subseteq Range(s)
         /\ IsInjective(s) => IsInjective(SubSeq(s, 1, n))
  <1>1. \A i \in 1..n : s[i] \in S
    OBVIOUS
  <1>2. /\ SubSeq(s, 1, n) \in Seq(S) /\ DOMAIN SubSeq(s, 1, n) = 1..n
        /\ 1..n \subseteq DOMAIN s
        /\ \A i \in 1..n : SubSeq(s, 1, n)[i] = s[i]
    BY <1>1, SubSeqProperties
  <1> QED BY <1>2 DEF Range, IsInjective

(* What it takes to be the buffer of a loft. *)
LEMMA IsBuffer ==
  ASSUME NEW b
  PROVE  b \in Buffers <=> DOMAIN b \subseteq FrameIds /\ b \in [DOMAIN b -> BOOLEAN]
  BY DEF Buffers

(* What it takes to be the gateway's book of remote frames. *)
LEMMA IsBook ==
  ASSUME NEW b
  PROVE  b \in Books <=> DOMAIN b \subseteq FrameIds /\ b \in [DOMAIN b -> [conn : Conns, fid : FrameIds]]
  BY DEF Books

(* Connections: one that an edge is trunked on was dialled in its present  *)
(* life, nothing travels on one that was never dialled, and what the book  *)
(* and the verdict under way name was dialled.                             *)
ConnsSound ==
  /\ \A k \in DOMAIN owner : owner[k][2] <= boot[owner[k][1]]
  /\ \A e \in Edges : trunk[e] # None => trunk[e] \in DOMAIN owner /\ owner[trunk[e]] = Pod(e)
  /\ \A k \in Conns \ DOMAIN owner : Range(up[k]) = {} /\ Range(down[k]) = {}
  /\ \A s \in DOMAIN remote : remote[s].conn \in serving
  /\ acting.t # "idle" =>
       /\ acting.dst \in {Gateway} \cup DOMAIN owner
       /\ acting.portRemote => acting.dst \in DOMAIN owner
       /\ acting.rf.conn \in {None} \cup DOMAIN owner

(* Loft and life p have given frame id f. *)
Given(p, f) == p[2] < boot[p[1]] \/ (p[2] = boot[p[1]] /\ f < nextFID[p[1]])

(* Every frame id that is in use anywhere was given by the loft, and in    *)
(* the life, it stands for.                                                *)
IdsGiven ==
  /\ \A n \in Lofts : \A f \in DOMAIN buf[n] : f < nextFID[n]
  /\ \A s \in DOMAIN remote : s < nextFID[Gateway] /\ Given(owner[remote[s].conn], remote[s].fid)
  /\ \A s \in shown : s < nextFID[Gateway]
  /\ \A k \in DOMAIN owner : \A f \in Range(up[k]) : Given(owner[k], f)
  /\ \A k \in DOMAIN owner : \A m \in Range(down[k]) : Given(owner[k], m.fid)
  /\ acting.t # "idle" =>
       /\ acting.fid < nextFID[Gateway]
       /\ acting.rf.conn # None => Given(owner[acting.rf.conn], acting.rf.fid)
  /\ \A fr \in Frames : taken[fr] # 0 \/ fr \in counted => Given(fr.pod, fr.fid)

(* The token of a frame is in one place at most: once on one connection on *)
(* its way to the gateway, or once in its book.                            *)
TokensOnce ==
  /\ \A k \in Conns : IsInjective(up[k])
  /\ \A k, j \in DOMAIN owner : k # j /\ owner[k] = owner[j] => Range(up[k]) \cap Range(up[j]) = {}
  /\ \A s \in DOMAIN remote, k \in DOMAIN owner :
       owner[remote[s].conn] = owner[k] => remote[s].fid \notin Range(up[k])
  /\ \A s, r \in DOMAIN remote :
       owner[remote[s].conn] = owner[remote[r].conn] /\ remote[s].fid = remote[r].fid => s = r
  /\ DOMAIN remote \cap DOMAIN buf[Gateway] = {}

(* A payload was consumed at most once, and no buffered one was. *)
TakenOnce ==
  /\ \A fr \in Frames : taken[fr] <= 1
  /\ \A n \in Lofts : \A f \in DOMAIN buf[n] : taken[Frame(n, f)] = 0

(* The entries of the book the router may still decide: all but the one    *)
(* whose instruction is out and which is about to be forgotten.            *)
Entries == IF acting.t = "sent" THEN DOMAIN remote \ {acting.fid} ELSE DOMAIN remote

(* The token of frame f of p is on its way to the gateway or in its book:  *)
(* the router may still decide the frame.                                  *)
Tokened(p, f) ==
  \/ \E k \in DOMAIN owner : owner[k] = p /\ f \in Range(up[k])
  \/ \E s \in Entries : owner[remote[s].conn] = p /\ remote[s].fid = f

(* Once a frame was consumed, or an instruction to consume it is on its    *)
(* way, no token of it is left: there is no second verdict to come.  While *)
(* the verdict under way is about a frame, only its own entry is.          *)
Settled ==
  /\ \A fr \in Frames : taken[fr] # 0 => ~Tokened(fr.pod, fr.fid)
  /\ \A k \in DOMAIN owner : \A m \in Range(down[k]) :
       m.t \in {"deliver", "push"} => ~Tokened(owner[k], m.fid)
  /\ acting.t # "idle" /\ acting.rf.conn # None =>
       /\ \A k \in DOMAIN owner : owner[k] = owner[acting.rf.conn] => acting.rf.fid \notin Range(up[k])
       /\ \A s \in DOMAIN remote :
            owner[remote[s].conn] = owner[acting.rf.conn] /\ remote[s].fid = acting.rf.fid =>
              s = acting.fid /\ remote[s] = acting.rf
  /\ \A s, d \in Lofts : \A m \in Range(wire[s][d]) : m.kind = "deliver" => taken[m.frame] # 0
  /\ \A d \in got : d[3] = "deliver" => taken[d[1]] # 0

(* The router ordered frame fr to be delivered so, to port p in its        *)
(* present life or an earlier one.                                         *)
Ordered(fr, kind, p) ==
  \E o \in ordered : /\ o[1] = fr /\ o[3] = kind
                     /\ p # None => o[2][1] = p /\ o[2][2] <= boot[p]

(* The kind of delivery that an instruction is about. *)
KindOf(t) == IF t \in {"deliver", "push"} THEN "deliver" ELSE "copy"

(* All that is on its way to be delivered was ordered, and so was all that *)
(* arrived.                                                                *)
AsOrdered ==
  /\ acting.t \notin {"idle", "drop", "sent"} =>
       <<IF acting.rf.conn # None THEN FrameOf(acting.rf.conn, acting.rf.fid)
         ELSE Frame(Gateway, acting.fid), PodBehind(acting.dst), acting.t>> \in ordered
  /\ \A k \in DOMAIN owner : \A m \in Range(down[k]) :
       m.t # "drop" => Ordered(FrameOf(k, m.fid), KindOf(m.t), m.port)
  /\ \A s, d \in Lofts : \A m \in Range(wire[s][d]) : Ordered(m.frame, m.kind, m.port)
  /\ DeliveredAsOrdered

(* A copy of the frame was ordered, or its trunk ended as the instruction  *)
(* to consume it had just left.                                            *)
Excused(fr) == Copied(fr) \/ fr \in torn

(* No order to consume the frame can reach its edge any more: it has no    *)
(* token, no instruction is on its way, and the one under way is for a     *)
(* trunk that the gateway no longer serves.                                *)
Doomed(n, f) ==
  /\ n # Gateway /\ ~Tokened(Pod(n), f)
  /\ \A k \in DOMAIN owner : owner[k] = Pod(n) =>
       /\ \A m \in Range(down[k]) : m.t \in {"deliver", "push"} => m.fid # f
       /\ acting.t = "deliver" /\ acting.rf.conn = k /\ acting.rf.fid = f => k \notin serving

(* A frame that a drop counter rose for is not consumed later, unless it   *)
(* is excused: it left its buffer, or it is doomed.                        *)
CountedGone ==
  /\ \A n \in Lofts : \A f \in DOMAIN buf[n] :
       Frame(n, f) \in counted => Excused(Frame(n, f)) \/ Doomed(n, f)
  /\ \A s, d \in Lofts : \A m \in Range(wire[s][d]) :
       m.kind = "deliver" /\ m.frame \in counted => Excused(m.frame)
  /\ OneFate

-----------------------------------------------------------------------------
(* The steps of MeshFrames, sorted by what they do to all this.            *)

(* What travels gets less: a connection that breaks, a notice of it, an    *)
(* entry that expires or that is forgotten, its instruction being out.     *)
Loses ==
  /\ \A k \in Conns : /\ Range(up'[k]) \subseteq Range(up[k]) /\ (IsInjective(up[k]) => IsInjective(up'[k]))
                      /\ Range(down'[k]) \subseteq Range(down[k])
  /\ DOMAIN remote' \subseteq DOMAIN remote /\ \A s \in DOMAIN remote' : remote'[s] = remote[s]
  /\ \A e \in Edges : trunk'[e] \in {trunk[e], None}
  /\ \/ acting' = acting
     \/ acting.t = "sent" /\ acting' = Idle /\ acting.fid \notin DOMAIN remote'
  /\ UNCHANGED <<boot, buf, nextFID, owner, serving, shown, wire, history>>

(* No buffer gets a frame. *)
Shrinks == buf' \in [Lofts -> Buffers] /\ \A j \in Lofts : DOMAIN buf'[j] \subseteq DOMAIN buf[j]

(* Frame f leaves the buffer of loft n and its payload is consumed. *)
TakenFrom(n, f) ==
  /\ f \in DOMAIN buf[n] \ DOMAIN buf'[n]
  /\ taken' = [taken EXCEPT ![Frame(n, f)] = @ + 1]

(* Loft n takes, copies or drops its frame f, for port p: what becomes of  *)
(* buffer, payload, counters, deliveries and pushes.                       *)
Handled(n, f, p, t) ==
  /\ Shrinks
  /\ taken' = taken \/ (t = "deliver" /\ TakenFrom(n, f))
  /\ \/ counted' = counted
     \/ /\ f \in DOMAIN buf[n] /\ counted' = counted \cup {Frame(n, f)}
        /\ t = "copy" \/ f \notin DOMAIN buf'[n]
  /\ \/ got' = got
     \/ /\ t # "drop" /\ p = n /\ f \in DOMAIN buf[n] /\ counted' = counted
        /\ t = "deliver" => TakenFrom(n, f)
        /\ got' = got \cup {<<Frame(n, f), Pod(n), t>>}
  /\ wire' \in [Lofts -> [Lofts -> Seq(Injects)]]
  /\ \A s, d \in Lofts : \A m \in Range(wire'[s][d]) :
       \/ m \in Range(wire[s][d])
       \/ /\ t # "drop" /\ f \in DOMAIN buf[n] /\ counted' = counted
          /\ t = "deliver" => TakenFrom(n, f)
          /\ m.frame = Frame(n, f) /\ m.port = p /\ m.kind = t
  /\ link' \in [Lofts -> [Lofts -> {"none", "open", "stale"}]]

(***************************************************************************)
(* The kinds of step there are, by what they do to the variables that the  *)
(* invariant is about.                                                     *)
(***************************************************************************)
Dials(e) ==
  \E k \in Conns \ DOMAIN owner :
    /\ DOMAIN owner' = DOMAIN owner \cup {k} /\ owner'[k] = Pod(e)
    /\ \A j \in DOMAIN owner : owner'[j] = owner[j]
    /\ \A d \in Edges : trunk'[d] = IF d = e THEN k ELSE trunk[d]
    /\ serving' = serving \cup {k}
    /\ UNCHANGED <<boot, buf, nextFID, up, down, remote, shown, acting, wire, history>>

(* An edge starts over. *)
Restarts(e) ==
  /\ \A n \in Lofts : /\ boot'[n] = IF n = e THEN boot[n] + 1 ELSE boot[n]
                      /\ nextFID'[n] = IF n = e THEN 1 ELSE nextFID[n]
                      /\ DOMAIN buf'[n] = IF n = e THEN {} ELSE DOMAIN buf[n]
  /\ \A d \in Edges : trunk'[d] = IF d = e THEN None ELSE trunk[d]
  /\ \A k \in Conns : Range(down'[k]) \subseteq Range(down[k])
  /\ \A s, d \in Lofts : Range(wire'[s][d]) \subseteq Range(wire[s][d])
  /\ UNCHANGED <<owner, up, serving, remote, shown, acting, history>>

(* The gateway ends a trunk connection. *)
Ends(k) ==
  /\ serving' = serving \ {k}
  /\ DOMAIN remote' = DOMAIN remote \ OfConn(k) /\ \A s \in DOMAIN remote' : remote'[s] = remote[s]
  /\ counted' = counted \cup {FrameOf(k, remote[g].fid) : g \in OfConn(k)}
  /\ torn \subseteq torn'
  /\ \A g \in OfConn(k) \ Entries : FrameOf(k, remote[g].fid) \in torn'
  /\ UNCHANGED <<boot, buf, nextFID, owner, trunk, up, down, shown, acting, wire, ordered, got, taken>>

(* A frame comes in. *)
Ingests(n) ==
  /\ \A j \in Lofts : /\ DOMAIN buf'[j] = IF j = n THEN DOMAIN buf[n] \cup {nextFID[n]} ELSE DOMAIN buf[j]
                      /\ nextFID'[j] = IF j = n THEN nextFID[n] + 1 ELSE nextFID[j]
  /\ shown' = IF n = Gateway THEN shown \cup {nextFID[Gateway]} ELSE shown
  /\ \A k \in Conns :
       \/ up'[k] = up[k]
       \/ /\ n \in Edges /\ k = trunk[n]
          /\ Range(up'[k]) = Range(up[k]) \cup {nextFID[n]}
          /\ IsInjective(up[k]) /\ nextFID[n] \notin Range(up[k]) => IsInjective(up'[k])
  /\ UNCHANGED <<boot, owner, trunk, down, serving, remote, acting, wire, history>>

(* The gateway reads a token. *)
Arrives(k, f) ==
  /\ f \in Range(up[k]) /\ Range(up'[k]) \subseteq Range(up[k])
  /\ IsInjective(up[k]) => IsInjective(up'[k]) /\ f \notin Range(up'[k])
  /\ \A j \in Conns \ {k} : up'[j] = up[j]
  /\ UNCHANGED <<boot, buf, owner, trunk, serving, acting, wire, history>>

(* The gateway has the edge drop the frame of a token it read. *)
Refuses(k, f) ==
  /\ Arrives(k, f)
  /\ \A j \in Conns : \A m \in Range(down'[j]) :
       m \in Range(down[j]) \/ (j = k /\ m.t = "drop" /\ m.fid = f)
  /\ UNCHANGED <<remote, nextFID, shown>>

(* The gateway books the frame of a token it read. *)
BooksIt(k, f) ==
  LET s == nextFID[Gateway] IN
  /\ Arrives(k, f)
  /\ DOMAIN remote' = DOMAIN remote \cup {s}
  /\ \A g \in DOMAIN remote' : remote'[g] = IF g = s THEN [conn |-> k, fid |-> f] ELSE remote[g]
  /\ \A n \in Lofts : nextFID'[n] = IF n = Gateway THEN s + 1 ELSE nextFID[n]
  /\ shown' = shown \cup {s} /\ down' = down

(* What the handling of a single frame leaves alone. *)
elsewhere == <<boot, nextFID, owner, trunk, up, serving, shown, ordered, torn>>

(* A frame is swept from its buffer. *)
Expires(n, f) ==
  /\ Handled(n, f, None, "drop") /\ UNCHANGED <<elsewhere, down, remote, acting>>

(* An edge carries out an instruction. *)
ReadsInstruction(e) ==
  LET k == trunk[e] IN
  /\ k # None
  /\ \E m \in Range(down[k]), t \in {"deliver", "copy", "drop"} :
       /\ IF m.t = "drop" THEN t = "drop" ELSE t = KindOf(m.t)
       /\ Handled(e, m.fid, m.port, t)
  /\ \A j \in Conns : Range(down'[j]) \subseteq Range(down[j])
  /\ UNCHANGED <<elsewhere, remote, acting>>

(* A loft reads a payload that was pushed to it. *)
ReadsInject(s, d) ==
  /\ \E m \in Range(wire[s][d]) :
       got' = got \/ (m.port = d /\ got' = got \cup {<<m.frame, Pod(d), m.kind>>})
  /\ \A r, e \in Lofts : Range(wire'[r][e]) \subseteq Range(wire[r][e])
  /\ UNCHANGED <<elsewhere, buf, down, remote, acting, taken, counted>>

(* The gateway carries out a verdict on a frame of its own. *)
ActsAtGateway ==
  /\ acting.t \notin {"idle", "sent"} /\ acting.rf.conn = None /\ acting' = Idle
  /\ \E p \in Lofts \cup {None} :
       /\ p # None => p = PodBehind(acting.dst)[1]
       /\ Handled(Gateway, acting.fid, p, acting.t)
  /\ UNCHANGED <<elsewhere, down, remote>>

(* The verdict under way is about the same frame and port. *)
SameVerdict ==
  /\ acting'.fid = acting.fid /\ acting'.rf = acting.rf
  /\ acting'.dst = acting.dst /\ acting'.portRemote = acting.portRemote

(* The gateway sends the verdict on a remote frame to its edge. *)
ActsOnEdge ==
  LET k == acting.rf.conn IN
  /\ acting.t \notin {"idle", "sent"} /\ k # None
  /\ IF acting.t = "deliver" THEN acting'.t = "sent" /\ SameVerdict ELSE acting' = Idle
  /\ \E m \in Instrs :
       /\ m.fid = acting.rf.fid
       /\ IF acting.t = "drop" THEN m.t = "drop"
          ELSE /\ m.t # "drop" /\ KindOf(m.t) = acting.t
               /\ m.port # None => m.port = PodBehind(acting.dst)[1]
       /\ \A j \in Conns : \A i \in Range(down'[j]) :
            i \in Range(down[j]) \/ (j = k /\ k \in serving /\ i = m)
  /\ DOMAIN remote' \subseteq DOMAIN remote /\ \A s \in DOMAIN remote' : remote'[s] = remote[s]
  /\ UNCHANGED <<elsewhere, buf, wire, got, taken, counted>>

(* consumerMsg reads a verdict and looks frame and port up. *)
Decides(t, dst, f) ==
  /\ f \in shown /\ acting.t = "idle"
  /\ acting' = [t |-> t, dst |-> dst, fid |-> f,
                rf |-> IF f \in DOMAIN remote THEN remote[f] ELSE [conn |-> None, fid |-> f],
                portRemote |-> dst \in registered]
  /\ ordered' = IF t = "drop" THEN ordered
                ELSE ordered \cup {<<IF f \in DOMAIN remote THEN FrameOf(remote[f].conn, remote[f].fid)
                                     ELSE Frame(Gateway, f), PodBehind(dst), t>>}
  /\ UNCHANGED <<boot, buf, nextFID, trunk, owner, up, down, serving, remote, shown, wire, got, taken,
                 counted, torn>>

(* Removing a frame from a buffer. *)
LEMMA WithoutFacts ==
  ASSUME TypeOK, NEW n \in Lofts, NEW f, f \in DOMAIN buf[n], buf' = [buf EXCEPT ![n] = Without(@, {f})]
  PROVE  Shrinks /\ f \notin DOMAIN buf'[n]
  <1> DEFINE b == Without(buf[n], {f})
  <1>1. buf[n] \in Buffers /\ buf \in [Lofts -> Buffers]
    BY DEF TypeOK
  <1>2. DOMAIN b = DOMAIN buf[n] \ {f} /\ b \in [DOMAIN b -> BOOLEAN] /\ DOMAIN b \subseteq FrameIds
    BY <1>1, IsBuffer DEF Without
  <1>3. b \in Buffers
    BY <1>2, IsBuffer
  <1>4. buf' = [buf EXCEPT ![n] = b]
    OBVIOUS
  <1> HIDE DEF b
  <1> QED BY <1>1, <1>2, <1>3, <1>4 DEF Shrinks

(* Taking a frame for a delivery: consumed, it leaves; copied, it stays. *)
LEMMA TakeFacts ==
  ASSUME TypeOK, NEW n \in Lofts, NEW f, f \in DOMAIN buf[n], NEW c \in BOOLEAN, Take(n, f, c)
  PROVE  Shrinks /\ IF c THEN TakenFrom(n, f) ELSE taken' = taken
  <1>1. CASE c
    BY <1>1, WithoutFacts DEF Take, TakenFrom
  <1>2. CASE ~c
    <2> DEFINE b == [buf[n] EXCEPT ![f] = TRUE]
    <2>1. buf[n] \in Buffers /\ buf \in [Lofts -> Buffers]
      BY DEF TypeOK
    <2>2. DOMAIN b = DOMAIN buf[n] /\ b \in [DOMAIN b -> BOOLEAN] /\ DOMAIN b \subseteq FrameIds
      BY <2>1, IsBuffer
    <2>3. b \in Buffers
      BY <2>2, IsBuffer
    <2>4. buf' = [buf EXCEPT ![n] = b] /\ taken' = taken
      BY <1>2 DEF Take
    <2> HIDE DEF b
    <2> QED BY <1>2, <2>1, <2>2, <2>3, <2>4 DEF Shrinks
  <1> QED BY <1>1, <1>2

(* What a step leaves alone keeps its type. *)
LEMMA StayTyped ==
  ASSUME TypeOK
  PROVE  /\ buf' = buf => Shrinks
         /\ wire' = wire => wire' \in [Lofts -> [Lofts -> Seq(Injects)]]
         /\ link' = link => link' \in [Lofts -> [Lofts -> {"none", "open", "stale"}]]
  BY DEF TypeOK, Shrinks

(* The two kinds of delivery. *)
LEMMA KindFacts ==
  ASSUME NEW c \in BOOLEAN
  PROVE  /\ Kind(c) \in {"deliver", "copy"} /\ Kind(c) # "drop"
         /\ Kind(c) = "deliver" <=> c
  BY DEF Kind

(* deliverLocal handles the frame in the sense of Handled. *)
LEMMA DeliverLocalFacts ==
  ASSUME TypeOK, NEW n \in Lofts, NEW p, NEW f, NEW c \in BOOLEAN,
         DeliverLocal(n, p, f, c), UNCHANGED <<peerVars, counted>>
  PROVE  Handled(n, f, p, Kind(c))
  <1>1. CASE /\ f \in DOMAIN buf[n] /\ Take(n, f, c) /\ p = n
             /\ got' = got \cup {<<Frame(n, f), Pod(n), Kind(c)>>}
    <2>1. Shrinks /\ IF c THEN TakenFrom(n, f) ELSE taken' = taken
      BY <1>1, TakeFacts
    <2> QED BY <1>1, <2>1, KindFacts, StayTyped DEF Handled, peerVars
  <1>2. CASE UNCHANGED <<buf, taken, got>>
    BY <1>2, StayTyped DEF Handled, peerVars
  <1> QED BY <1>1, <1>2 DEF DeliverLocal

(* So does dropLocal. *)
LEMMA DropLocalFacts ==
  ASSUME TypeOK, NEW n \in Lofts, NEW f, NEW p, DropLocal(n, f), UNCHANGED <<peerVars, got, taken>>
  PROVE  Handled(n, f, p, "drop")
  <1>1. CASE f \in DOMAIN buf[n]
    BY <1>1, WithoutFacts, StayTyped DEF DropLocal, Handled, peerVars
  <1>2. CASE f \notin DOMAIN buf[n]
    BY <1>2, StayTyped DEF DropLocal, Handled, peerVars
  <1> QED BY <1>1, <1>2

(* A loft's frame is a frame. *)
LEMMA FrameTyped ==
  ASSUME TypeOK, NEW n \in Lofts, NEW f \in FrameIds
  PROVE  Frame(n, f) \in Frames /\ Pod(n) \in Pods
  BY DEF TypeOK, Frame, Pod, Pods, Frames

(* peerSend adds the payload to the wire, or counts it, or loses it. *)
LEMMA PeerSendFacts ==
  ASSUME TypeOK, NEW n \in Lofts, NEW d \in Lofts, NEW f \in FrameIds, NEW p \in Lofts \cup {None},
         NEW c \in BOOLEAN, PeerSend(n, d, Frame(n, f), p, c)
  PROVE  /\ wire' \in [Lofts -> [Lofts -> Seq(Injects)]]
         /\ link' \in [Lofts -> [Lofts -> {"none", "open", "stale"}]]
         /\ \/ counted' = counted
            \/ counted' = counted \cup {Frame(n, f)}
         /\ \A s, e \in Lofts : \A m \in Range(wire'[s][e]) :
              \/ m \in Range(wire[s][e])
              \/ m.frame = Frame(n, f) /\ m.port = p /\ m.kind = Kind(c) /\ counted' = counted
  <1> DEFINE new == [frame |-> Frame(n, f), port |-> p, kind |-> Kind(c)]
  <1>1. new \in Injects /\ new.frame = Frame(n, f) /\ new.port = p /\ new.kind = Kind(c)
    BY FrameTyped DEF Injects, Kind
  <1>2. CASE /\ link' = [link EXCEPT ![n][d] = "open"] /\ UNCHANGED counted
             /\ wire' = [wire EXCEPT ![n][d] = Append(@, new)]
    <2>1. /\ Append(wire[n][d], new) \in Seq(Injects)
          /\ Range(Append(wire[n][d], new)) = Range(wire[n][d]) \cup {new}
      BY <1>1, Appended DEF TypeOK
    <2> HIDE DEF new
    <2>2. wire' \in [Lofts -> [Lofts -> Seq(Injects)]]
      BY <1>2, <2>1 DEF TypeOK
    <2>3. \A s, e \in Lofts :
            wire'[s][e] = IF s = n /\ e = d THEN Append(wire[n][d], new) ELSE wire[s][e]
      BY <1>2 DEF TypeOK
    <2> QED BY <1>1, <1>2, <2>1, <2>2, <2>3 DEF TypeOK
  <1>3. CASE wire' = wire /\ link' = [link EXCEPT ![n][d] = "none"] /\ counted' = counted \cup {Frame(n, f)}
    BY <1>3 DEF TypeOK
  <1>4. CASE UNCHANGED <<link, wire, counted>>
    BY <1>4 DEF TypeOK
  <1> QED BY <1>2, <1>3, <1>4 DEF PeerSend

(* A push handles the frame in the sense of Handled. *)
LEMMA PushFacts ==
  ASSUME TypeOK, NEW n \in Lofts, NEW d \in Lofts, NEW f \in FrameIds, NEW p \in Lofts \cup {None},
         NEW c \in BOOLEAN, Push(n, d, p, f, c), UNCHANGED got
  PROVE  Handled(n, f, p, Kind(c))
  <1>1. CASE f \in DOMAIN buf[n] /\ Take(n, f, c) /\ PeerSend(n, d, Frame(n, f), p, c)
    <2>1. Shrinks /\ IF c THEN TakenFrom(n, f) ELSE taken' = taken
      BY <1>1, TakeFacts
    <2>2. c => f \notin DOMAIN buf'[n]
      BY <2>1 DEF TakenFrom
    <2>3. /\ wire' \in [Lofts -> [Lofts -> Seq(Injects)]]
          /\ link' \in [Lofts -> [Lofts -> {"none", "open", "stale"}]]
          /\ counted' = counted \/ counted' = counted \cup {Frame(n, f)}
          /\ \A s, e \in Lofts : \A m \in Range(wire'[s][e]) :
               \/ m \in Range(wire[s][e])
               \/ m.frame = Frame(n, f) /\ m.port = p /\ m.kind = Kind(c) /\ counted' = counted
      BY <1>1, PeerSendFacts
    <2> QED BY <1>1, <2>1, <2>2, <2>3, KindFacts DEF Handled
  <1>2. CASE UNCHANGED <<buf, taken, counted, peerVars>>
    BY <1>2, StayTyped DEF Handled, peerVars
  <1> QED BY <1>1, <1>2 DEF Push

(* The connections that were dialled. *)
LEMMA OwnerFacts ==
  ASSUME TypeOK
  PROVE  /\ DOMAIN owner = 1..Len(owner) /\ Len(owner) \in Nat /\ DOMAIN owner \subseteq Conns
         /\ \A k \in DOMAIN owner : owner[k] \in Edges \X (1..MaxBoots)
         /\ serving \subseteq Conns
  BY MeshAssumption DEF TypeOK, Conns

(* Dial is a step of one of the kinds above, and keeps the types. *)
LEMMA DialStep ==
  ASSUME TypeOK, NEW e \in Edges, Dial(e)
  PROVE  TypeOK' /\ Dials(e)
  <1> DEFINE k == Len(owner) + 1
  <1>1. /\ k \in Conns /\ owner' = Append(owner, Pod(e)) /\ trunk' = [trunk EXCEPT ![e] = k]
        /\ serving' = serving \cup {k}
        /\ UNCHANGED <<boot, port, buf, nextFID, broken, up, down, registered, remote, router, shown,
                       acting, verdicts, link, wire, ordered, got, taken, counted, torn>>
    BY DEF Dial, loftVars, routerVars, peerVars, history
  <1>2. k \notin DOMAIN owner /\ k = Len(owner) + 1 /\ Len(owner) \in Nat
    BY OwnerFacts
  <1>3. Pod(e) \in Edges \X (1..MaxBoots)
    BY DEF Pod, TypeOK, Lofts
  <1>4. /\ owner' \in Seq(Edges \X (1..MaxBoots)) /\ Len(owner') = k
        /\ DOMAIN owner' = DOMAIN owner \cup {k} /\ owner'[k] = Pod(e)
        /\ \A j \in DOMAIN owner : owner'[j] = owner[j]
    BY <1>1, <1>2, <1>3 DEF TypeOK
  <1> HIDE DEF k
  <1>5. Len(owner') <= MaxConns
    BY <1>1, <1>4, MeshAssumption DEF Conns
  <1>6. serving' \subseteq DOMAIN owner' /\ registered' \subseteq serving'
    BY <1>1, <1>4 DEF TypeOK
  <1>7. trunk' \in [Edges -> Conns \cup {None}]
    BY <1>1 DEF TypeOK
  <1>8. TypeOK'
    BY <1>1, <1>4, <1>5, <1>6, <1>7 DEF TypeOK
  <1>9. \A d \in Edges : trunk'[d] = IF d = e THEN k ELSE trunk[d]
    BY <1>1 DEF TypeOK
  <1> QED BY <1>1, <1>2, <1>4, <1>8, <1>9 DEF Dials, history

(* The steps that leave all this alone are steps of one of the kinds       *)
(* above, and keeps the types.                                             *)
LEMMA QuietStep ==
  ASSUME TypeOK,
         \/ \E k \in Conns : RegisterPort(k) \/ UnregisterPort(k)
         \/ \E n \in Lofts : RemovePort(n)
         \/ \E e \in Edges : EdgeNotices(e)
         \/ RouterAttaches \/ RouterLeaves
         \/ UNCHANGED vars
  PROVE  TypeOK' /\ Loses
  <1>1. /\ UNCHANGED <<boot, buf, nextFID, owner, up, down, serving, remote, shown, acting, wire,
                       ordered, got, taken, counted, torn, broken, verdicts, link>>
        /\ \A d \in Edges : trunk'[d] \in {trunk[d], None}
        /\ trunk' \in [Edges -> Conns \cup {None}]
        /\ port' \subseteq Lofts /\ registered' \subseteq serving /\ router' \in BOOLEAN
    <2>1. CASE \E k \in Conns : RegisterPort(k) \/ UnregisterPort(k)
      BY <2>1 DEF RegisterPort, UnregisterPort, loftVars, trunkVars, routerVars, peerVars, history, TypeOK
    <2>2. CASE \E n \in Lofts : RemovePort(n)
      BY <2>2 DEF RemovePort, trunkVars, gwVars, routerVars, peerVars, history, TypeOK
    <2>3. CASE \E e \in Edges : EdgeNotices(e)
      BY <2>3 DEF EdgeNotices, loftVars, gwVars, routerVars, peerVars, history, TypeOK
    <2>4. CASE RouterAttaches \/ RouterLeaves
      BY <2>4 DEF RouterAttaches, RouterLeaves, loftVars, trunkVars, gwVars, peerVars, history, TypeOK
    <2>5. CASE UNCHANGED vars
      BY <2>5 DEF vars, loftVars, trunkVars, gwVars, routerVars, peerVars, history, TypeOK
    <2> QED BY <2>1, <2>2, <2>3, <2>4, <2>5
  <1>2. TypeOK'
    BY <1>1 DEF TypeOK
  <1> QED BY <1>1, <1>2 DEF Loses, history

(* ExpireRemote is a step of one of the kinds above, and keeps the types. *)
LEMMA ExpireRemoteStep ==
  ASSUME TypeOK, NEW s \in FrameIds, ExpireRemote(s)
  PROVE  TypeOK' /\ Loses
  <1>1. remote' = Without(remote, {s})
        /\ UNCHANGED <<boot, port, buf, nextFID, trunk, owner, broken, up, down, serving, registered,
                       router, shown, acting, verdicts, link, wire, ordered, got, taken, counted, torn>>
    BY DEF ExpireRemote, loftVars, trunkVars, routerVars, peerVars, history
  <1>2. /\ DOMAIN remote' = DOMAIN remote \ {s} /\ \A g \in DOMAIN remote' : remote'[g] = remote[g]
        /\ remote' \in Books
    <2>1. remote \in Books
      BY DEF TypeOK
    <2> QED BY <1>1, <2>1, IsBook DEF Without
  <1>3. TypeOK'
    BY <1>1, <1>2 DEF TypeOK
  <1> QED BY <1>1, <1>2, <1>3 DEF Loses, TypeOK, history

(* Break is a step of one of the kinds above, and keeps the types. *)
LEMMA BreakStep ==
  ASSUME TypeOK, NEW k \in Conns, Break(k)
  PROVE  TypeOK' /\ Loses
  <1>1. PICK n \in 0..Len(up[k]), m \in 0..Len(down[k]) :
          /\ up' = [up EXCEPT ![k] = SubSeq(@, 1, n)]
          /\ down' = [down EXCEPT ![k] = SubSeq(@, 1, m)]
    BY DEF Break
  <1>2. /\ broken' \subseteq Conns
        /\ UNCHANGED <<boot, port, buf, nextFID, trunk, owner, serving, registered, remote, router,
                       shown, acting, verdicts, link, wire, ordered, got, taken, counted, torn>>
    BY OwnerFacts DEF Break, loftVars, gwVars, routerVars, peerVars, history, TypeOK
  <1>3. up \in [Conns -> Seq(FrameIds)] /\ down \in [Conns -> Seq(Instrs)]
    BY DEF TypeOK
  <1>4. /\ SubSeq(up[k], 1, n) \in Seq(FrameIds) /\ Range(SubSeq(up[k], 1, n)) \subseteq Range(up[k])
        /\ IsInjective(up[k]) => IsInjective(SubSeq(up[k], 1, n))
    BY <1>3, Truncated
  <1>5. /\ SubSeq(down[k], 1, m) \in Seq(Instrs)
        /\ Range(SubSeq(down[k], 1, m)) \subseteq Range(down[k])
    BY <1>3, Truncated
  <1>6. up' \in [Conns -> Seq(FrameIds)] /\ down' \in [Conns -> Seq(Instrs)]
    BY <1>1, <1>3, <1>4, <1>5
  <1>7. TypeOK'
    BY <1>2, <1>6 DEF TypeOK
  <1>8. \A j \in Conns : /\ up'[j] = IF j = k THEN SubSeq(up[k], 1, n) ELSE up[j]
                         /\ down'[j] = IF j = k THEN SubSeq(down[k], 1, m) ELSE down[j]
    BY <1>1, <1>3
  <1>9. \A j \in Conns : /\ Range(up'[j]) \subseteq Range(up[j])
                         /\ IsInjective(up[j]) => IsInjective(up'[j])
                         /\ Range(down'[j]) \subseteq Range(down[j])
    BY <1>4, <1>5, <1>8
  <1> QED BY <1>2, <1>7, <1>9 DEF Loses, TypeOK, history

(* EdgeGone is a step of one of the kinds above, and keeps the types. *)
LEMMA EdgeGoneStep ==
  ASSUME TypeOK, NEW k \in Conns, EdgeGone(k)
  PROVE  TypeOK' /\ Ends(k)
  <1>1. /\ serving' = serving \ {k} /\ registered' = registered \ {k} /\ k \in serving
        /\ remote' = Without(remote, OfConn(k))
        /\ counted' = counted \cup {FrameOf(k, remote[g].fid) : g \in OfConn(k)}
        /\ torn' = torn \cup JustSent(k)
        /\ UNCHANGED <<boot, port, buf, nextFID, trunk, owner, broken, up, down, router, shown,
                       acting, verdicts, link, wire, ordered, got, taken>>
    BY DEF EdgeGone, InSight, loftVars, trunkVars, routerVars, peerVars
  <1>2. remote \in Books /\ k \in DOMAIN owner /\ owner[k] \in Pods
    BY <1>1, OwnerFacts DEF TypeOK, Pods, Lofts
  <1>3. /\ DOMAIN remote' = DOMAIN remote \ OfConn(k) /\ \A s \in DOMAIN remote' : remote'[s] = remote[s]
        /\ remote' \in Books
    BY <1>1, <1>2, IsBook DEF Without
  <1>4. \A g \in OfConn(k) : FrameOf(k, remote[g].fid) \in Frames
    BY <1>2, IsBook DEF FrameOf, Frames, OfConn
  <1>5. counted' \subseteq Frames /\ torn' \subseteq Frames
    BY <1>1, <1>4 DEF TypeOK, JustSent
  <1>6. TypeOK'
    BY <1>1, <1>3, <1>5 DEF TypeOK
  <1>7. torn \subseteq torn' /\ \A g \in OfConn(k) \ Entries : FrameOf(k, remote[g].fid) \in torn'
    BY <1>1 DEF JustSent, Entries, OfConn
  <1> QED BY <1>1, <1>3, <1>6, <1>7 DEF Ends

(* Forget is a step of one of the kinds above, and keeps the types. *)
LEMMA ForgetStep ==
  ASSUME TypeOK, Forget
  PROVE  TypeOK' /\ Loses
  <1>1. /\ acting.t = "sent" /\ acting' = Idle /\ remote' = Without(remote, {acting.fid})
        /\ UNCHANGED <<boot, port, buf, nextFID, trunk, owner, broken, up, down, serving, registered,
                       router, shown, verdicts, link, wire, ordered, got, taken, counted, torn>>
    BY DEF Forget, loftVars, trunkVars, peerVars, history
  <1>2. /\ DOMAIN remote' = DOMAIN remote \ {acting.fid}
        /\ \A g \in DOMAIN remote' : remote'[g] = remote[g]
        /\ remote' \in Books
    <2>1. remote \in Books
      BY DEF TypeOK
    <2> QED BY <1>1, <2>1, IsBook DEF Without
  <1>3. TypeOK'
    BY <1>1, <1>2 DEF TypeOK
  <1> QED BY <1>1, <1>2, <1>3 DEF Loses, TypeOK, history

(* Restart is a step of one of the kinds above, and keeps the types. *)
LEMMA RestartStep ==
  ASSUME TypeOK, NEW e \in Edges, Restart(e)
  PROVE  TypeOK' /\ Restarts(e)
  <1>1. /\ boot[e] < MaxBoots /\ boot' = [boot EXCEPT ![e] = @ + 1] /\ port' = port \cup {e}
        /\ buf' = [buf EXCEPT ![e] = <<>>] /\ nextFID' = [nextFID EXCEPT ![e] = 1]
        /\ trunk' = [trunk EXCEPT ![e] = None]
        /\ broken' = broken \cup {k \in DOMAIN owner : owner[k][1] = e}
        /\ down' = [k \in Conns |-> IF k \in DOMAIN owner /\ owner[k][1] = e THEN <<>> ELSE down[k]]
        /\ link' = [s \in Lofts |-> [d \in Lofts |->
                      IF s = e THEN "none"
                      ELSE IF d = e /\ link[s][d] = "open" THEN "stale" ELSE link[s][d]]]
        /\ wire' = [s \in Lofts |-> [wire[s] EXCEPT ![e] = <<>>]]
        /\ UNCHANGED <<owner, up, serving, registered, remote, router, shown, acting, verdicts,
                       ordered, got, taken, counted, torn>>
    BY DEF Restart, gwVars, routerVars, history
  <1>2. e \in Lofts /\ MaxBoots \in Nat /\ MaxFrames \in Nat
    BY MeshAssumption DEF Lofts
  <1>3. <<>> \in Buffers /\ DOMAIN <<>> = {} /\ <<>> \in Seq(Instrs) /\ <<>> \in Seq(Injects)
    <2> DEFINE b == <<>>
    <2>1. /\ DOMAIN b = {} /\ DOMAIN b \subseteq FrameIds /\ b \in [DOMAIN b -> BOOLEAN]
          /\ b \in Seq(Instrs) /\ b \in Seq(Injects)
      OBVIOUS
    <2> HIDE DEF b
    <2>2. b \in Buffers
      BY <2>1, IsBuffer
    <2> QED BY <2>1, <2>2 DEF b
  <1>4. boot' \in [Lofts -> 1..MaxBoots] /\ nextFID' \in [Lofts -> 1..(MaxFrames + 1)]
    BY <1>1, <1>2 DEF TypeOK
  <1>5. buf' \in [Lofts -> Buffers] /\ trunk' \in [Edges -> Conns \cup {None}] /\ port' \subseteq Lofts
    BY <1>1, <1>2, <1>3 DEF TypeOK
  <1>6. down' \in [Conns -> Seq(Instrs)]
    BY <1>1, <1>3 DEF TypeOK
  <1>7. wire' \in [Lofts -> [Lofts -> Seq(Injects)]]
    BY <1>1, <1>2, <1>3 DEF TypeOK
  <1>8. link' \in [Lofts -> [Lofts -> {"none", "open", "stale"}]]
    BY <1>1 DEF TypeOK
  <1>9. broken' \subseteq Conns
    BY <1>1, OwnerFacts DEF TypeOK
  <1>10. TypeOK'
    BY <1>1, <1>4, <1>5, <1>6, <1>7, <1>8, <1>9 DEF TypeOK
  <1>11. \A n \in Lofts : /\ boot'[n] = IF n = e THEN boot[n] + 1 ELSE boot[n]
                          /\ nextFID'[n] = IF n = e THEN 1 ELSE nextFID[n]
                          /\ DOMAIN buf'[n] = IF n = e THEN {} ELSE DOMAIN buf[n]
    BY <1>1, <1>3 DEF TypeOK
  <1>12. \A d \in Edges : trunk'[d] = IF d = e THEN None ELSE trunk[d]
    BY <1>1 DEF TypeOK
  <1>13. \A k \in Conns : Range(down'[k]) \subseteq Range(down[k])
    BY <1>1, <1>3 DEF Range
  <1>14. \A s, d \in Lofts : Range(wire'[s][d]) \subseteq Range(wire[s][d])
    BY <1>1, <1>3 DEF Range, TypeOK
  <1> QED BY <1>1, <1>10, <1>11, <1>12, <1>13, <1>14 DEF Restarts, history

(* Storing a frame adds it under the next id. *)
LEMMA BufferFacts ==
  ASSUME TypeOK, NEW n \in Lofts, Buffer(n)
  PROVE  /\ nextFID[n] \in FrameIds /\ buf' \in [Lofts -> Buffers]
         /\ nextFID' \in [Lofts -> 1..(MaxFrames + 1)]
         /\ \A j \in Lofts :
              /\ DOMAIN buf'[j] = IF j = n THEN DOMAIN buf[n] \cup {nextFID[n]} ELSE DOMAIN buf[j]
              /\ nextFID'[j] = IF j = n THEN nextFID[n] + 1 ELSE nextFID[j]
  <1> DEFINE b == [f \in DOMAIN buf[n] \cup {nextFID[n]} |-> IF f = nextFID[n] THEN FALSE ELSE buf[n][f]]
  <1>1. nextFID[n] \in FrameIds /\ buf' = [buf EXCEPT ![n] = b] /\ nextFID' = [nextFID EXCEPT ![n] = @ + 1]
    BY DEF Buffer
  <1>2. buf \in [Lofts -> Buffers] /\ nextFID \in [Lofts -> 1..(MaxFrames + 1)] /\ MaxFrames \in Nat
    BY MeshAssumption DEF TypeOK
  <1>3. DOMAIN buf[n] \subseteq FrameIds /\ buf[n] \in [DOMAIN buf[n] -> BOOLEAN]
    BY <1>2, IsBuffer
  <1>4. DOMAIN b = DOMAIN buf[n] \cup {nextFID[n]} /\ b \in [DOMAIN b -> BOOLEAN] /\ DOMAIN b \subseteq FrameIds
    BY <1>1, <1>3
  <1>5. b \in Buffers
    BY <1>4, IsBuffer
  <1> HIDE DEF b
  <1> QED BY <1>1, <1>2, <1>4, <1>5 DEF FrameIds

(* IngestAtGateway is a step of one of the kinds above, and keeps the      *)
(* types.                                                                  *)
LEMMA IngestAtGatewayStep ==
  ASSUME TypeOK, IngestAtGateway
  PROVE  TypeOK' /\ Ingests(Gateway)
  <1>1. /\ Buffer(Gateway) /\ shown' = shown \cup {nextFID[Gateway]} /\ Gateway \in Lofts
        /\ UNCHANGED <<boot, port, trunk, owner, broken, up, down, serving, registered, remote, router,
                       acting, verdicts, link, wire, ordered, got, taken, counted, torn>>
    BY DEF IngestAtGateway, trunkVars, gwVars, peerVars, history, Lofts
  <1>2. /\ nextFID[Gateway] \in FrameIds /\ buf' \in [Lofts -> Buffers]
        /\ nextFID' \in [Lofts -> 1..(MaxFrames + 1)]
        /\ \A j \in Lofts :
             /\ DOMAIN buf'[j] = IF j = Gateway THEN DOMAIN buf[Gateway] \cup {nextFID[Gateway]}
                                 ELSE DOMAIN buf[j]
             /\ nextFID'[j] = IF j = Gateway THEN nextFID[Gateway] + 1 ELSE nextFID[j]
    BY <1>1, BufferFacts
  <1>3. TypeOK'
    BY <1>1, <1>2 DEF TypeOK
  <1> QED BY <1>1, <1>2, <1>3 DEF Ingests, history

(* IngestAtEdge is a step of one of the kinds above, and keeps the types. *)
LEMMA IngestAtEdgeStep ==
  ASSUME TypeOK, NEW e \in Edges, IngestAtEdge(e)
  PROVE  TypeOK' /\ Ingests(e)
  <1> DEFINE k == trunk[e]
             f == nextFID[e]
  <1>1. /\ k # None /\ Buffer(e) /\ e \in Lofts
        /\ up' = IF k \in broken THEN up ELSE [up EXCEPT ![k] = Append(@, f)]
        /\ UNCHANGED <<boot, port, trunk, owner, broken, down, serving, registered, remote, router,
                       shown, acting, verdicts, link, wire, ordered, got, taken, counted, torn>>
    BY DEF IngestAtEdge, gwVars, routerVars, peerVars, history, Lofts
  <1>2. k \in Conns /\ up \in [Conns -> Seq(FrameIds)] /\ up[k] \in Seq(FrameIds)
    BY <1>1 DEF TypeOK
  <1>3. /\ f \in FrameIds /\ buf' \in [Lofts -> Buffers]
        /\ nextFID' \in [Lofts -> 1..(MaxFrames + 1)]
        /\ \A j \in Lofts :
             /\ DOMAIN buf'[j] = IF j = e THEN DOMAIN buf[e] \cup {f} ELSE DOMAIN buf[j]
             /\ nextFID'[j] = IF j = e THEN f + 1 ELSE nextFID[j]
    BY <1>1, BufferFacts
  <1>4. /\ Append(up[k], f) \in Seq(FrameIds) /\ Range(Append(up[k], f)) = Range(up[k]) \cup {f}
        /\ IsInjective(up[k]) /\ f \notin Range(up[k]) => IsInjective(Append(up[k], f))
    BY <1>2, <1>3, Appended
  <1>5. up' \in [Conns -> Seq(FrameIds)]
    BY <1>1, <1>2, <1>4
  <1>6. TypeOK'
    BY <1>1, <1>3, <1>5 DEF TypeOK
  <1>7. \A j \in Conns :
          \/ up'[j] = up[j]
          \/ j = k /\ up'[j] = Append(up[k], f)
    BY <1>1, <1>2
  <1>8. \A j \in Conns :
          \/ up'[j] = up[j]
          \/ /\ e \in Edges /\ j = trunk[e]
             /\ Range(up'[j]) = Range(up[j]) \cup {nextFID[e]}
             /\ IsInjective(up[j]) /\ nextFID[e] \notin Range(up[j]) => IsInjective(up'[j])
    BY <1>4, <1>7
  <1>9. e # Gateway
    BY MeshAssumption
  <1> QED BY <1>1, <1>3, <1>6, <1>8, <1>9 DEF Ingests, history

(* An instruction is on its way afterwards, or was lost. *)
LEMMA InstructFacts ==
  ASSUME TypeOK, NEW k \in Conns, NEW m \in Instrs, Instruct(k, m)
  PROVE  /\ down' \in [Conns -> Seq(Instrs)]
         /\ \A j \in Conns : \A i \in Range(down'[j]) :
              i \in Range(down[j]) \/ (j = k /\ k \in serving /\ i = m)
  <1>1. down \in [Conns -> Seq(Instrs)]
    BY DEF TypeOK
  <1>2. CASE k \in serving \ broken
    <2>1. /\ Append(down[k], m) \in Seq(Instrs)
          /\ Range(Append(down[k], m)) = Range(down[k]) \cup {m}
      BY <1>1, Appended
    <2>2. down' = [down EXCEPT ![k] = Append(@, m)]
      BY <1>2 DEF Instruct
    <2> QED BY <1>1, <1>2, <2>1, <2>2
  <1>3. CASE k \notin serving \ broken
    BY <1>1, <1>3 DEF Instruct
  <1> QED BY <1>2, <1>3

(* GatewayToken is a step of one of the kinds above, and keeps the types. *)
LEMMA GatewayTokenStep ==
  ASSUME TypeOK, NEW k \in Conns, GatewayToken(k)
  PROVE  TypeOK' /\ k \in serving /\ \E f \in FrameIds : Refuses(k, f) \/ BooksIt(k, f)
  <1> DEFINE f == Head(up[k])
             s == nextFID[Gateway]
             m == Instruction("drop", f, Gateway, None)
  <1>1. /\ k \in serving /\ up[k] # <<>> /\ up' = [up EXCEPT ![k] = Tail(@)]
        /\ UNCHANGED <<boot, port, buf, trunk, owner, broken, serving, registered, router, acting,
                       verdicts, link, wire, ordered, got, taken, counted, torn>>
    BY DEF GatewayToken, peerVars, history
  <1>2. up \in [Conns -> Seq(FrameIds)] /\ up[k] \in Seq(FrameIds)
    BY DEF TypeOK
  <1>3. /\ f \in FrameIds /\ Tail(up[k]) \in Seq(FrameIds)
        /\ f \in Range(up[k]) /\ Range(Tail(up[k])) \subseteq Range(up[k])
        /\ IsInjective(up[k]) => IsInjective(Tail(up[k])) /\ f \notin Range(Tail(up[k]))
    BY <1>1, <1>2, Read
  <1>4. /\ up' \in [Conns -> Seq(FrameIds)] /\ up'[k] = Tail(up[k])
        /\ \A j \in Conns \ {k} : up'[j] = up[j]
    BY <1>1, <1>2, <1>3
  <1>5. Arrives(k, f)
    BY <1>1, <1>3, <1>4 DEF Arrives, history
  <1>6. CASE Instruct(k, m) /\ UNCHANGED <<remote, shown, nextFID>>
    <2>1. m \in Instrs /\ m.t = "drop" /\ m.fid = f
      BY <1>3 DEF Instruction, Instrs, Lofts
    <2> HIDE DEF m, f
    <2>2. /\ down' \in [Conns -> Seq(Instrs)]
          /\ \A j \in Conns : \A i \in Range(down'[j]) :
               i \in Range(down[j]) \/ (j = k /\ k \in serving /\ i = m)
      BY <1>6, <2>1, InstructFacts
    <2>3. Refuses(k, f)
      BY <1>5, <1>6, <2>1, <2>2 DEF Refuses
    <2>4. TypeOK'
      BY <1>1, <1>4, <1>6, <2>2 DEF TypeOK
    <2> QED BY <1>1, <1>3, <2>3, <2>4
  <1>7. CASE /\ s \in FrameIds
             /\ remote' = [g \in DOMAIN remote \cup {s} |->
                             IF g = s THEN [conn |-> k, fid |-> f] ELSE remote[g]]
             /\ nextFID' = [nextFID EXCEPT ![Gateway] = s + 1] /\ shown' = shown \cup {s}
             /\ UNCHANGED down
    <2>1. remote \in Books /\ nextFID \in [Lofts -> 1..(MaxFrames + 1)] /\ Gateway \in Lofts
      BY DEF TypeOK, Lofts
    <2> HIDE DEF f
    <2>2. DOMAIN remote \subseteq FrameIds /\ remote \in [DOMAIN remote -> [conn : Conns, fid : FrameIds]]
      BY <2>1, IsBook
    <2>3. /\ DOMAIN remote' = DOMAIN remote \cup {s} /\ DOMAIN remote' \subseteq FrameIds
          /\ remote' \in [DOMAIN remote' -> [conn : Conns, fid : FrameIds]]
          /\ \A g \in DOMAIN remote' : remote'[g] = IF g = s THEN [conn |-> k, fid |-> f] ELSE remote[g]
      BY <1>3, <1>7, <2>2
    <2>4. remote' \in Books
      BY <2>3, IsBook
    <2>5. /\ nextFID' \in [Lofts -> 1..(MaxFrames + 1)]
          /\ \A n \in Lofts : nextFID'[n] = IF n = Gateway THEN s + 1 ELSE nextFID[n]
      BY <1>7, <2>1, MeshAssumption DEF FrameIds
    <2>6. BooksIt(k, f)
      BY <1>5, <1>7, <2>3, <2>5 DEF BooksIt
    <2>7. TypeOK'
      BY <1>1, <1>4, <1>7, <2>4, <2>5 DEF TypeOK
    <2> QED BY <1>1, <1>3, <2>6, <2>7
  <1> QED BY <1>6, <1>7 DEF GatewayToken

(* A step that handles a frame keeps the types. *)
LEMMA HandledTyped ==
  ASSUME TypeOK, NEW n \in Lofts, NEW f \in FrameIds, NEW p, NEW t \in {"deliver", "copy", "drop"},
         Handled(n, f, p, t)
  PROVE  /\ buf' \in [Lofts -> Buffers] /\ wire' \in [Lofts -> [Lofts -> Seq(Injects)]]
         /\ link' \in [Lofts -> [Lofts -> {"none", "open", "stale"}]]
         /\ {ordered, got'} \subseteq SUBSET (Frames \X Pods \X {"deliver", "copy"})
         /\ taken' \in [Frames -> Nat] /\ counted' \subseteq Frames
  <1>1. Frame(n, f) \in Frames /\ Pod(n) \in Pods
    BY FrameTyped
  <1>2. taken' \in [Frames -> Nat]
    <2>1. taken' = taken \/ taken' = [taken EXCEPT ![Frame(n, f)] = @ + 1]
      BY DEF Handled, TakenFrom
    <2>2. taken \in [Frames -> Nat]
      BY DEF TypeOK
    <2> QED BY <1>1, <2>1, <2>2
  <1>3. counted' \subseteq Frames
    BY <1>1 DEF Handled, TypeOK
  <1>4. got' \in SUBSET (Frames \X Pods \X {"deliver", "copy"})
    BY <1>1 DEF Handled, TypeOK
  <1> QED BY <1>2, <1>3, <1>4 DEF Handled, TypeOK, Shrinks

(* Expire is a step of one of the kinds above, and keeps the types. *)
LEMMA ExpireStep ==
  ASSUME TypeOK, NEW n \in Lofts, NEW f \in FrameIds, Expire(n, f)
  PROVE  TypeOK' /\ Expires(n, f)
  <1>1. /\ f \in DOMAIN buf[n] /\ buf' = [buf EXCEPT ![n] = Without(@, {f})]
        /\ counted' = counted \/ counted' = counted \cup {Frame(n, f)}
        /\ UNCHANGED <<boot, port, nextFID, trunk, owner, broken, up, down, serving, registered, remote,
                       router, shown, acting, verdicts, link, wire, ordered, got, taken, torn>>
    BY DEF Expire, trunkVars, gwVars, routerVars, peerVars
  <1>2. Handled(n, f, None, "drop")
    BY <1>1, WithoutFacts, StayTyped DEF Handled
  <1>3. TypeOK'
    BY <1>1, <1>2, HandledTyped DEF TypeOK
  <1> QED BY <1>1, <1>2, <1>3 DEF Expires, elsewhere

(* ServePeer is a step of one of the kinds above, and keeps the types. *)
LEMMA ServePeerStep ==
  ASSUME TypeOK, NEW s \in Lofts, NEW d \in Lofts, ServePeer(s, d)
  PROVE  TypeOK' /\ ReadsInject(s, d)
  <1> DEFINE m == Head(wire[s][d])
  <1>1. /\ wire[s][d] # <<>> /\ wire' = [wire EXCEPT ![s][d] = Tail(@)]
        /\ got' = got \/ (m.port = d /\ got' = got \cup {<<m.frame, Pod(d), m.kind>>})
        /\ UNCHANGED <<boot, port, buf, nextFID, trunk, owner, broken, up, down, serving, registered,
                       remote, router, shown, acting, verdicts, link, ordered, taken, counted, torn>>
    BY DEF ServePeer, loftVars, trunkVars, gwVars, routerVars
  <1>2. wire \in [Lofts -> [Lofts -> Seq(Injects)]] /\ wire[s][d] \in Seq(Injects)
    BY DEF TypeOK
  <1>3. /\ m \in Injects /\ Tail(wire[s][d]) \in Seq(Injects)
        /\ m \in Range(wire[s][d]) /\ Range(Tail(wire[s][d])) \subseteq Range(wire[s][d])
    BY <1>1, <1>2, Read
  <1> HIDE DEF m
  <1>4. wire' \in [Lofts -> [Lofts -> Seq(Injects)]]
    BY <1>1, <1>2, <1>3
  <1>5. \A r, e \in Lofts : Range(wire'[r][e]) \subseteq Range(wire[r][e])
    <2>1. \A r, e \in Lofts : wire'[r][e] = IF r = s /\ e = d THEN Tail(wire[s][d]) ELSE wire[r][e]
      BY <1>1, <1>2
    <2> QED BY <1>3, <2>1
  <1>6. got' \in SUBSET (Frames \X Pods \X {"deliver", "copy"})
    <2>1. m.frame \in Frames /\ m.kind \in {"deliver", "copy"} /\ Pod(d) \in Pods
      BY <1>3 DEF Injects, TypeOK, Pod, Pods
    <2> QED BY <1>1, <2>1 DEF TypeOK
  <1>7. TypeOK'
    BY <1>1, <1>4, <1>6 DEF TypeOK
  <1> QED BY <1>1, <1>3, <1>5, <1>7 DEF ReadsInject, elsewhere

(* Lookup is a step of one of the kinds above, and keeps the types. *)
LEMMA LookupStep ==
  ASSUME TypeOK, ConnsSound, NEW t \in {"deliver", "copy", "drop"}, NEW dst \in {Gateway} \cup Conns,
         NEW f \in FrameIds, Lookup(t, dst, f)
  PROVE  TypeOK' /\ dst \in {Gateway} \cup DOMAIN owner /\ Decides(t, dst, f)
  <1>1. /\ f \in shown
        /\ acting' = [t |-> t, dst |-> dst, fid |-> f,
                      rf |-> IF f \in DOMAIN remote THEN remote[f] ELSE [conn |-> None, fid |-> f],
                      portRemote |-> dst \in registered]
        /\ ordered' = IF t = "drop" THEN ordered
                      ELSE ordered \cup {<<IF f \in DOMAIN remote
                                             THEN FrameOf(remote[f].conn, remote[f].fid)
                                           ELSE Frame(Gateway, f), PodBehind(dst), t>>}
        /\ verdicts < MaxVerdicts /\ verdicts' = verdicts + 1 /\ dst \in {Gateway} \cup DOMAIN owner
        /\ acting.t = "idle"
        /\ UNCHANGED <<boot, port, buf, nextFID, trunk, owner, broken, up, down, serving, registered,
                       remote, router, shown, link, wire, got, taken, counted, torn>>
    BY DEF Idle, Lookup, loftVars, trunkVars, gwVars, peerVars
  <1>2. f \in DOMAIN remote => remote[f] \in [conn : Conns, fid : FrameIds]
    BY IsBook DEF TypeOK
  <1>3. acting' \in Lookups
    BY <1>1, <1>2 DEF Lookups
  <1>4. \A k \in Conns : owner[k] \in Pods \/ k \notin DOMAIN owner
    BY OwnerFacts DEF Pods, Lofts
  <1>5. verdicts' \in 0..MaxVerdicts
    BY <1>1, MeshAssumption DEF TypeOK
  <1>6. PodBehind(dst) \in Pods /\ Frame(Gateway, f) \in Frames
    BY <1>1, <1>4, OwnerFacts, FrameTyped DEF PodBehind, Lofts
  <1>7. f \in DOMAIN remote => FrameOf(remote[f].conn, remote[f].fid) \in Frames
    <2> SUFFICES ASSUME f \in DOMAIN remote PROVE FrameOf(remote[f].conn, remote[f].fid) \in Frames
      OBVIOUS
    <2>1. remote[f].conn \in DOMAIN owner /\ remote[f].fid \in FrameIds
      BY <1>2 DEF ConnsSound, TypeOK
    <2> QED BY <1>2, <1>4, <2>1 DEF FrameOf, Frames
  <1>8. ordered' \in SUBSET (Frames \X Pods \X {"deliver", "copy"})
    BY <1>1, <1>6, <1>7 DEF TypeOK
  <1>9. TypeOK'
    BY <1>1, <1>3, <1>5, <1>8 DEF TypeOK
  <1> QED BY <1>1, <1>9 DEF Decides

(* The port that a verdict is for is the one the router named, or none. *)
LEMMA TargetFacts ==
  ASSUME TypeOK, ConnsSound, acting.t # "idle"
  PROVE  /\ acting \in Lookups
         /\ Target \in Lofts /\ TargetPort \in Lofts \cup {None}
         /\ TargetPort # None => TargetPort = PodBehind(acting.dst)[1]
  <1>1. acting \in Lookups
    BY DEF TypeOK, Idle
  <1>2. acting.t # "idle"
    OBVIOUS
  <1>3. /\ acting.dst \in {Gateway} \cup DOMAIN owner
        /\ acting.portRemote => acting.dst \in DOMAIN owner
        /\ acting.portRemote \in BOOLEAN
    BY <1>1, <1>2 DEF ConnsSound, Lookups
  <1>4. \A k \in DOMAIN owner : owner[k] \in Edges \X (1..MaxBoots) /\ k # Gateway
    BY OwnerFacts, MeshAssumption
  <1>5. CASE acting.portRemote
    BY <1>1, <1>2, <1>3, <1>4, <1>5 DEF Target, TargetPort, PodBehind, Lofts
  <1>6. CASE ~acting.portRemote
    BY <1>1, <1>2, <1>6 DEF Target, TargetPort, PodBehind, Pod, Lofts
  <1> QED BY <1>3, <1>5, <1>6

(* A verdict that is carried out was looked up. *)
LEMMA ActedFacts ==
  ASSUME Acting
  PROVE  /\ acting.t \notin {"idle", "sent"}
         /\ UNCHANGED <<elsewhere, port, broken, registered, router, verdicts>>
  BY DEF Acting, elsewhere

(* The acts on a frame of the gateway are steps of one of the kinds above, *)
(* and keeps the types.                                                    *)
LEMMA AtGatewayStep ==
  ASSUME TypeOK, ConnsSound,
         ActLocal \/ ActPush \/ (ActDrop /\ ~FrameRemote)
  PROVE  TypeOK' /\ ActsAtGateway
  <1>1. Acting /\ acting' = Idle /\ ~FrameRemote /\ UNCHANGED <<down, remote>>
    BY DEF ActLocal, ActPush, ActDrop, Acted
  <1>2. /\ acting \in Lookups /\ acting.t \notin {"idle", "sent"} /\ Target \in Lofts
        /\ TargetPort \in Lofts \cup {None}
        /\ TargetPort # None => TargetPort = PodBehind(acting.dst)[1]
    BY <1>1, ActedFacts, TargetFacts
  <1>3. /\ acting.fid \in FrameIds /\ acting.t \in {"deliver", "copy", "drop"} /\ Gateway \in Lofts
        /\ Consume \in BOOLEAN /\ (acting.t # "drop" => Kind(Consume) = acting.t)
    BY <1>2 DEF Lookups, Lofts, Consume, Kind
  <1>4. \E p \in Lofts \cup {None} : /\ p # None => p = PodBehind(acting.dst)[1]
                                     /\ Handled(Gateway, acting.fid, p, acting.t)
    <2>1. CASE ActLocal
      <3>1. Handled(Gateway, acting.fid, TargetPort, Kind(Consume))
        BY <2>1, <1>3, DeliverLocalFacts DEF ActLocal
      <3> QED BY <1>2, <1>3, <2>1, <3>1 DEF ActLocal
    <2>2. CASE ActPush
      <3>1. Handled(Gateway, acting.fid, TargetPort, Kind(Consume))
        BY <2>2, <1>2, <1>3, PushFacts DEF ActPush
      <3> QED BY <1>2, <1>3, <2>2, <3>1 DEF ActPush
    <2>3. CASE ActDrop /\ ~FrameRemote
      <3>1. Handled(Gateway, acting.fid, None, "drop") /\ acting.t = "drop"
        BY <2>3, <1>3, DropLocalFacts DEF ActDrop
      <3> QED BY <3>1
    <2> QED BY <2>1, <2>2, <2>3
  <1>5. TypeOK'
    <2>1. /\ buf' \in [Lofts -> Buffers] /\ wire' \in [Lofts -> [Lofts -> Seq(Injects)]]
          /\ link' \in [Lofts -> [Lofts -> {"none", "open", "stale"}]]
          /\ {ordered, got'} \subseteq SUBSET (Frames \X Pods \X {"deliver", "copy"})
          /\ taken' \in [Frames -> Nat] /\ counted' \subseteq Frames
      BY <1>3, <1>4, HandledTyped
    <2> QED BY <1>1, <2>1, ActedFacts DEF TypeOK, elsewhere
  <1> QED BY <1>1, <1>2, <1>4, <1>5, ActedFacts DEF ActsAtGateway, FrameRemote

(* The acts on a frame of an edge are steps of one of the kinds above, and *)
(* keeps the types.                                                        *)
LEMMA OnEdgeStep ==
  ASSUME TypeOK, ConnsSound,
         ActForward \/ ActRemote \/ (ActDrop /\ FrameRemote)
  PROVE  TypeOK' /\ ActsOnEdge
  <1> DEFINE k == acting.rf.conn
  <1>1. /\ Acting /\ FrameRemote
        /\ UNCHANGED <<buf, peerVars, got, taken, counted>>
        /\ acting' = IF acting.t = "deliver" THEN [acting EXCEPT !.t = "sent"] ELSE Idle
    BY DEF ActForward, ActRemote, ActDrop, Acted, Sent, Consume
  <1>2. /\ acting \in Lookups /\ acting.t \notin {"idle", "sent"} /\ Target \in Lofts
        /\ TargetPort \in Lofts \cup {None}
        /\ TargetPort # None => TargetPort = PodBehind(acting.dst)[1]
    BY <1>1, ActedFacts, TargetFacts
  <1>3. /\ k \in Conns /\ acting.rf.fid \in FrameIds
        /\ acting.t \in {"deliver", "copy", "drop"} /\ Gateway \in Lofts
    BY <1>1, <1>2 DEF Lookups, Lofts, FrameRemote
  <1>4. PICK m \in Instrs :
          /\ Instruct(k, m) /\ m.fid = acting.rf.fid
          /\ IF acting.t = "drop" THEN m.t = "drop"
             ELSE /\ m.t # "drop" /\ KindOf(m.t) = acting.t
                  /\ m.port # None => m.port = PodBehind(acting.dst)[1]
    <2>1. CASE ActForward
      <3> DEFINE m == Instruction(acting.t, acting.rf.fid, Target, TargetPort)
      <3>1. m \in Instrs /\ m.fid = acting.rf.fid /\ m.t = acting.t /\ m.port = TargetPort
        BY <1>2, <1>3 DEF Instruction, Instrs
      <3>2. acting.t # "drop" /\ Instruct(k, m)
        BY <2>1 DEF ActForward
      <3> HIDE DEF m
      <3> QED BY <1>2, <1>3, <3>1, <3>2 DEF KindOf
    <2>2. CASE ActRemote
      <3> DEFINE m == Instruction(IF Consume THEN "push" ELSE "pushCopy", acting.rf.fid, Target, TargetPort)
      <3>1. /\ m \in Instrs /\ m.fid = acting.rf.fid /\ m.port = TargetPort
            /\ m.t = IF acting.t = "deliver" THEN "push" ELSE "pushCopy"
        BY <1>2, <1>3 DEF Instruction, Instrs, Consume
      <3>2. acting.t # "drop" /\ Instruct(k, m)
        BY <2>2 DEF ActRemote
      <3> HIDE DEF m
      <3> QED BY <1>2, <1>3, <3>1, <3>2 DEF KindOf
    <2>3. CASE ActDrop /\ FrameRemote
      <3> DEFINE m == Instruction("drop", acting.rf.fid, Gateway, None)
      <3>1. m \in Instrs /\ m.fid = acting.rf.fid /\ m.t = "drop"
        BY <1>3 DEF Instruction, Instrs
      <3>2. acting.t = "drop" /\ Instruct(k, m)
        BY <2>3 DEF ActDrop
      <3> HIDE DEF m
      <3> QED BY <3>1, <3>2
    <2> QED BY <2>1, <2>2, <2>3
  <1>5. /\ down' \in [Conns -> Seq(Instrs)]
        /\ \A j \in Conns : \A i \in Range(down'[j]) :
             i \in Range(down[j]) \/ (j = k /\ k \in serving /\ i = m)
    BY <1>3, <1>4, InstructFacts
  <1>6. remote' = remote \/ remote' = Without(remote, {acting.fid})
    BY DEF ActForward, ActRemote, ActDrop
  <1>7. DOMAIN remote' \subseteq DOMAIN remote /\ \A s \in DOMAIN remote' : remote'[s] = remote[s]
    BY <1>6 DEF Without
  <1>8. remote' \in Books
    <2>1. remote \in Books
      BY DEF TypeOK
    <2>2. Without(remote, {acting.fid}) \in Books
      BY <2>1, IsBook DEF Without
    <2> QED BY <1>6, <2>1, <2>2
  <1>9. /\ IF acting.t = "deliver" THEN acting'.t = "sent" /\ SameVerdict ELSE acting' = Idle
        /\ acting' \in Lookups \cup {Idle}
    BY <1>1, <1>2 DEF Lookups, SameVerdict
  <1>10. UNCHANGED <<elsewhere, buf, wire, got, taken, counted>>
    BY <1>1, ActedFacts DEF peerVars
  <1>11. TypeOK'
    BY <1>1, <1>5, <1>8, <1>9, ActedFacts DEF TypeOK, elsewhere, peerVars
  <1> QED BY <1>1, <1>2, <1>4, <1>5, <1>7, <1>9, <1>10, <1>11 DEF ActsOnEdge, FrameRemote

(* EdgeReads is a step of one of the kinds above, and keeps the types. *)
LEMMA EdgeReadsStep ==
  ASSUME TypeOK, NEW e \in Edges, EdgeReads(e)
  PROVE  TypeOK' /\ ReadsInstruction(e)
  <1> DEFINE k == trunk[e]
             m == Head(down[k])
  <1>1. /\ k # None /\ down[k] # <<>> /\ down' = [down EXCEPT ![k] = Tail(@)]
        /\ UNCHANGED <<boot, port, nextFID, trunk, owner, broken, up, serving, registered, remote,
                       router, shown, acting, verdicts, ordered, torn>>
    BY DEF EdgeReads, gwVars, routerVars
  <1>2. k \in Conns /\ down \in [Conns -> Seq(Instrs)] /\ down[k] \in Seq(Instrs) /\ e \in Lofts
    BY <1>1 DEF TypeOK, Lofts
  <1>3. /\ m \in Instrs /\ Tail(down[k]) \in Seq(Instrs)
        /\ m \in Range(down[k]) /\ Range(Tail(down[k])) \subseteq Range(down[k])
    BY <1>1, <1>2, Read
  <1>4. \/ /\ m.t \in {"deliver", "copy"} /\ DeliverLocal(e, m.port, m.fid, m.t = "deliver")
           /\ UNCHANGED <<peerVars, counted>>
        \/ /\ m.t \in {"push", "pushCopy"} /\ Push(e, m.to, m.port, m.fid, m.t = "push")
           /\ UNCHANGED got
        \/ m.t = "drop" /\ DropLocal(e, m.fid) /\ UNCHANGED <<peerVars, got, taken>>
    BY DEF EdgeReads
  <1>5. down' \in [Conns -> Seq(Instrs)] /\ \A j \in Conns : Range(down'[j]) \subseteq Range(down[j])
    <2>1. \A j \in Conns : down'[j] = IF j = k THEN Tail(down[k]) ELSE down[j]
      BY <1>1, <1>2
    <2>2. down' \in [Conns -> Seq(Instrs)]
      BY <1>1, <1>2, <1>3
    <2> QED BY <1>3, <2>1, <2>2
  <1> HIDE DEF m
  <1>6. m.fid \in FrameIds /\ m.to \in Lofts /\ m.port \in Lofts \cup {None}
    BY <1>3 DEF Instrs
  <1>7. PICK t \in {"deliver", "copy", "drop"} :
          /\ IF m.t = "drop" THEN t = "drop" ELSE t = KindOf(m.t)
          /\ Handled(e, m.fid, m.port, t)
    <2>1. CASE /\ m.t \in {"deliver", "copy"} /\ DeliverLocal(e, m.port, m.fid, m.t = "deliver")
               /\ UNCHANGED <<peerVars, counted>>
      <3>1. Handled(e, m.fid, m.port, Kind(m.t = "deliver"))
        BY <1>2, <2>1, DeliverLocalFacts
      <3>2. Kind(m.t = "deliver") = KindOf(m.t) /\ KindOf(m.t) \in {"deliver", "copy", "drop"}
        BY <2>1 DEF Kind, KindOf
      <3> QED BY <2>1, <3>1, <3>2
    <2>2. CASE /\ m.t \in {"push", "pushCopy"} /\ Push(e, m.to, m.port, m.fid, m.t = "push")
               /\ UNCHANGED got
      <3>1. Handled(e, m.fid, m.port, Kind(m.t = "push"))
        BY <1>2, <1>6, <2>2, PushFacts
      <3>2. Kind(m.t = "push") = KindOf(m.t) /\ KindOf(m.t) \in {"deliver", "copy", "drop"}
        BY <2>2 DEF Kind, KindOf
      <3> QED BY <2>2, <3>1, <3>2
    <2>3. CASE m.t = "drop" /\ DropLocal(e, m.fid) /\ UNCHANGED <<peerVars, got, taken>>
      BY <1>2, <2>3, DropLocalFacts
    <2> QED BY <1>4, <2>1, <2>2, <2>3
  <1>8. TypeOK'
    <2>1. /\ buf' \in [Lofts -> Buffers] /\ wire' \in [Lofts -> [Lofts -> Seq(Injects)]]
          /\ link' \in [Lofts -> [Lofts -> {"none", "open", "stale"}]]
          /\ {ordered, got'} \subseteq SUBSET (Frames \X Pods \X {"deliver", "copy"})
          /\ taken' \in [Frames -> Nat] /\ counted' \subseteq Frames
      BY <1>2, <1>6, <1>7, HandledTyped
    <2> QED BY <1>1, <1>5, <2>1 DEF TypeOK
  <1> QED BY <1>1, <1>3, <1>5, <1>7, <1>8 DEF ReadsInstruction, elsewhere

(* A step of one of these kinds. *)
Step ==
  \/ Loses \/ ActsAtGateway \/ ActsOnEdge
  \/ \E e \in Edges : Dials(e) \/ Restarts(e) \/ ReadsInstruction(e)
  \/ \E n \in Lofts : Ingests(n) \/ \E f \in FrameIds : Expires(n, f)
  \/ \E k \in Conns : Ends(k)
  \/ \E k \in serving, f \in FrameIds : Refuses(k, f) \/ BooksIt(k, f)
  \/ \E s, d \in Lofts : ReadsInject(s, d)
  \/ \E t \in {"deliver", "copy", "drop"}, dst \in {Gateway} \cup DOMAIN owner, f \in FrameIds :
       Decides(t, dst, f)

(* Every step keeps the types and is of one of these kinds. *)
LEMMA StepKinds ==
  ASSUME TypeOK, ConnsSound, [Next]_vars
  PROVE  TypeOK' /\ Step
  <1>1. CASE \E e \in Edges : Dial(e) \/ EdgeNotices(e) \/ Restart(e) \/ IngestAtEdge(e) \/ EdgeReads(e)
    BY <1>1, DialStep, QuietStep, RestartStep, IngestAtEdgeStep, EdgeReadsStep DEF Step, Lofts
  <1>2. CASE \E k \in Conns : RegisterPort(k) \/ UnregisterPort(k) \/ Break(k) \/ EdgeGone(k)
                              \/ GatewayToken(k)
    BY <1>2, QuietStep, BreakStep, EdgeGoneStep, GatewayTokenStep DEF Step
  <1>3. CASE \E n \in Lofts : RemovePort(n) \/ \E f \in FrameIds : Expire(n, f)
    BY <1>3, QuietStep, ExpireStep DEF Step
  <1>4. CASE \E s, d \in Lofts : ServePeer(s, d)
    BY <1>4, ServePeerStep DEF Step
  <1>5. CASE IngestAtGateway \/ \E s \in FrameIds : ExpireRemote(s)
    BY <1>5, IngestAtGatewayStep, ExpireRemoteStep DEF Step, Lofts
  <1>6. CASE RouterAttaches \/ RouterLeaves \/ UNCHANGED vars
    BY <1>6, QuietStep DEF Step
  <1>7. CASE \E t \in {"deliver", "copy", "drop"}, dst \in {Gateway} \cup Conns, f \in FrameIds :
               Lookup(t, dst, f)
    BY <1>7, LookupStep DEF Step
  <1>8. CASE ActLocal \/ ActPush \/ ActForward \/ ActRemote \/ Forget \/ ActDrop
    BY <1>8, AtGatewayStep, OnEdgeStep, ForgetStep DEF Step
  <1> QED BY <1>1, <1>2, <1>3, <1>4, <1>5, <1>6, <1>7, <1>8 DEF Next

-----------------------------------------------------------------------------
(* Every step keeps the connections sound.                                 *)

(* The facts about types that the steps are compared with. *)
LEMMA TypeFacts ==
  ASSUME TypeOK
  PROVE  /\ DOMAIN owner \subseteq Conns /\ serving \subseteq DOMAIN owner /\ registered \subseteq serving
         /\ \A k \in DOMAIN owner : owner[k][1] \in Edges /\ owner[k][2] \in Nat /\ k # Gateway /\ k # None
         /\ Gateway \notin Conns /\ None \notin Conns
         /\ None \notin Lofts /\ Gateway \notin Edges /\ Gateway \in Lofts /\ Edges \subseteq Lofts
         /\ \A n \in Lofts : boot[n] \in Nat /\ nextFID[n] \in Nat
         /\ \A s \in DOMAIN remote : s \in Nat /\ remote[s].fid \in Nat /\ remote[s].conn \in Conns
         /\ Idle.t = "idle"
  <1>1. DOMAIN owner \subseteq Conns /\ \A k \in DOMAIN owner : owner[k] \in Edges \X (1..MaxBoots)
    BY OwnerFacts
  <1>2. DOMAIN remote \subseteq FrameIds /\ remote \in [DOMAIN remote -> [conn : Conns, fid : FrameIds]]
    BY IsBook DEF TypeOK
  <1>3. MaxBoots \in Nat /\ MaxConns \in Nat /\ MaxFrames \in Nat
    BY MeshAssumption
  <1>4. \A k \in Conns : k \in Nat /\ k # 0
    BY <1>3 DEF Conns
  <1>5. serving \subseteq DOMAIN owner /\ registered \subseteq serving
    BY DEF TypeOK
  <1>6. \A k \in DOMAIN owner : owner[k][1] \in Edges /\ owner[k][2] \in Nat
    BY <1>1, <1>3
  <1>7. /\ \A k \in DOMAIN owner : k # Gateway /\ k # None
        /\ Gateway \notin Conns /\ None \notin Conns
    BY <1>1, <1>4, MeshAssumption DEF None
  <1>8. /\ None \notin Lofts /\ Gateway \notin Edges /\ Gateway \in Lofts /\ Edges \subseteq Lofts
        /\ Idle.t = "idle"
    BY MeshAssumption DEF Lofts, None, Idle
  <1>9. \A n \in Lofts : boot[n] \in Nat /\ nextFID[n] \in Nat
    BY <1>3 DEF TypeOK
  <1>10. \A s \in DOMAIN remote : s \in Nat /\ remote[s].fid \in Nat /\ remote[s].conn \in Conns
    BY <1>2, <1>3 DEF FrameIds
  <1> QED BY <1>1, <1>5, <1>6, <1>7, <1>8, <1>9, <1>10

(* Every step keeps the connections sound. *)
LEMMA ConnsKeep ==
  ASSUME TypeOK, ConnsSound, Step
  PROVE  ConnsSound'
  <1> USE TypeFacts DEF ConnsSound
  <1>1. CASE Loses
    <2>1. \A k \in DOMAIN owner' : owner'[k][2] <= boot'[owner'[k][1]]
      BY <1>1 DEF Loses, Pod
    <2>2. \A d \in Edges : trunk'[d] # None => trunk'[d] \in DOMAIN owner' /\ owner'[trunk'[d]] = Pod(d)'
      BY <1>1 DEF Loses, Pod
    <2>3. \A k \in Conns \ DOMAIN owner' : Range(up'[k]) = {} /\ Range(down'[k]) = {}
      BY <1>1 DEF Loses, Pod
    <2>4. \A s \in DOMAIN remote' : remote'[s].conn \in serving'
      BY <1>1 DEF Loses, Pod
    <2>5. acting'.t # "idle" =>
            /\ acting'.dst \in {Gateway} \cup DOMAIN owner'
            /\ acting'.portRemote => acting'.dst \in DOMAIN owner'
            /\ acting'.rf.conn \in {None} \cup DOMAIN owner'
      BY <1>1 DEF Loses, Pod
    <2> QED BY <2>1, <2>2, <2>3, <2>4, <2>5
  <1>2. CASE ActsAtGateway
    BY <1>2 DEF ActsAtGateway, elsewhere, Pod
  <1>3. CASE ActsOnEdge
    BY <1>3 DEF ActsOnEdge, SameVerdict, elsewhere, Pod
  <1>4. ASSUME NEW e \in Edges, Dials(e) PROVE ConnsSound'
    <2>1. \A k \in DOMAIN owner' : owner'[k][2] <= boot'[owner'[k][1]]
      BY <1>4 DEF Dials, Pod
    <2>2. \A d \in Edges : trunk'[d] # None => trunk'[d] \in DOMAIN owner' /\ owner'[trunk'[d]] = Pod(d)'
      BY <1>4 DEF Dials, Pod
    <2>3. \A k \in Conns \ DOMAIN owner' : Range(up'[k]) = {} /\ Range(down'[k]) = {}
      BY <1>4 DEF Dials, Pod
    <2>4. \A s \in DOMAIN remote' : remote'[s].conn \in serving'
      BY <1>4 DEF Dials, Pod
    <2>5. acting'.t # "idle" =>
            /\ acting'.dst \in {Gateway} \cup DOMAIN owner'
            /\ acting'.portRemote => acting'.dst \in DOMAIN owner'
            /\ acting'.rf.conn \in {None} \cup DOMAIN owner'
      BY <1>4 DEF Dials, Pod
    <2> QED BY <2>1, <2>2, <2>3, <2>4, <2>5
  <1>5. ASSUME NEW e \in Edges, Restarts(e) PROVE ConnsSound'
    <2>1. \A k \in DOMAIN owner' : owner'[k][2] <= boot'[owner'[k][1]]
      BY <1>5 DEF Restarts, Pod
    <2>2. \A d \in Edges : trunk'[d] # None => trunk'[d] \in DOMAIN owner' /\ owner'[trunk'[d]] = Pod(d)'
      BY <1>5 DEF Restarts, Pod
    <2>3. \A k \in Conns \ DOMAIN owner' : Range(up'[k]) = {} /\ Range(down'[k]) = {}
      BY <1>5 DEF Restarts, Pod
    <2>4. \A s \in DOMAIN remote' : remote'[s].conn \in serving'
      BY <1>5 DEF Restarts, Pod
    <2>5. acting'.t # "idle" =>
            /\ acting'.dst \in {Gateway} \cup DOMAIN owner'
            /\ acting'.portRemote => acting'.dst \in DOMAIN owner'
            /\ acting'.rf.conn \in {None} \cup DOMAIN owner'
      BY <1>5 DEF Restarts, Pod
    <2> QED BY <2>1, <2>2, <2>3, <2>4, <2>5
  <1>6. ASSUME NEW e \in Edges, ReadsInstruction(e) PROVE ConnsSound'
    BY <1>6 DEF ReadsInstruction, elsewhere, Pod
  <1>7. ASSUME NEW n \in Lofts, Ingests(n) PROVE ConnsSound'
    <2>1. \A k \in DOMAIN owner' : owner'[k][2] <= boot'[owner'[k][1]]
      BY <1>7 DEF Ingests, Pod
    <2>2. \A d \in Edges : trunk'[d] # None => trunk'[d] \in DOMAIN owner' /\ owner'[trunk'[d]] = Pod(d)'
      BY <1>7 DEF Ingests, Pod
    <2>3. \A k \in Conns \ DOMAIN owner' : Range(up'[k]) = {} /\ Range(down'[k]) = {}
      <3> SUFFICES ASSUME NEW k \in Conns \ DOMAIN owner PROVE Range(up'[k]) = {} /\ Range(down'[k]) = {}
        BY <1>7 DEF Ingests
      <3>1. ~(n \in Edges /\ k = trunk[n])
        OBVIOUS
      <3>2. up'[k] = up[k] /\ down' = down
        BY <1>7, <3>1 DEF Ingests
      <3> QED BY <3>2
    <2>4. \A s \in DOMAIN remote' : remote'[s].conn \in serving'
      BY <1>7 DEF Ingests, Pod
    <2>5. acting'.t # "idle" =>
            /\ acting'.dst \in {Gateway} \cup DOMAIN owner'
            /\ acting'.portRemote => acting'.dst \in DOMAIN owner'
            /\ acting'.rf.conn \in {None} \cup DOMAIN owner'
      BY <1>7 DEF Ingests, Pod
    <2> QED BY <2>1, <2>2, <2>3, <2>4, <2>5
  <1>8. ASSUME NEW n \in Lofts, NEW f \in FrameIds, Expires(n, f) PROVE ConnsSound'
    BY <1>8 DEF Expires, elsewhere, Pod
  <1>9. ASSUME NEW k \in Conns, Ends(k) PROVE ConnsSound'
    BY <1>9 DEF Ends, OfConn, Pod
  <1>10. ASSUME NEW k \in serving, NEW f \in FrameIds, Refuses(k, f) PROVE ConnsSound'
    BY <1>10 DEF Refuses, Arrives, Pod
  <1>11. ASSUME NEW k \in serving, NEW f \in FrameIds, BooksIt(k, f) PROVE ConnsSound'
    <2>1. \A j \in DOMAIN owner' : owner'[j][2] <= boot'[owner'[j][1]]
      BY <1>11 DEF BooksIt, Arrives, Pod
    <2>2. \A d \in Edges : trunk'[d] # None => trunk'[d] \in DOMAIN owner' /\ owner'[trunk'[d]] = Pod(d)'
      BY <1>11 DEF BooksIt, Arrives, Pod
    <2>3. \A j \in Conns \ DOMAIN owner' : Range(up'[j]) = {} /\ Range(down'[j]) = {}
      BY <1>11 DEF BooksIt, Arrives, Pod
    <2>4. \A s \in DOMAIN remote' : remote'[s].conn \in serving'
      BY <1>11 DEF BooksIt, Arrives, Pod
    <2>5. acting'.t # "idle" =>
            /\ acting'.dst \in {Gateway} \cup DOMAIN owner'
            /\ acting'.portRemote => acting'.dst \in DOMAIN owner'
            /\ acting'.rf.conn \in {None} \cup DOMAIN owner'
      BY <1>11 DEF BooksIt, Arrives, Pod
    <2> QED BY <2>1, <2>2, <2>3, <2>4, <2>5
  <1>12. ASSUME NEW s \in Lofts, NEW d \in Lofts, ReadsInject(s, d) PROVE ConnsSound'
    BY <1>12 DEF ReadsInject, elsewhere, Pod
  <1>13. ASSUME NEW t \in {"deliver", "copy", "drop"}, NEW dst \in {Gateway} \cup DOMAIN owner,
                NEW f \in FrameIds, Decides(t, dst, f)
         PROVE  ConnsSound'
    BY <1>13 DEF Decides, Pod
  <1> QED BY <1>1, <1>2, <1>3, <1>4, <1>5, <1>6, <1>7, <1>8, <1>9, <1>10, <1>11, <1>12, <1>13 DEF Step

-----------------------------------------------------------------------------
(* What a step moves.                                                      *)

(* A connection keeps the edge, and the life, that dialled it. *)
LEMMA OwnerStays ==
  ASSUME Step
  PROVE  /\ DOMAIN owner \subseteq DOMAIN owner' /\ \A k \in DOMAIN owner : owner'[k] = owner[k]
         /\ \/ boot' = boot
            \/ \E e \in Edges : Restarts(e)
  BY DEF Step, Loses, ActsAtGateway, ActsOnEdge, Dials, Restarts, ReadsInstruction, Ingests, Expires,
         Ends, Refuses, BooksIt, Arrives, ReadsInject, Decides, elsewhere

(* Where the tokens on their way come from. *)
LEMMA TokensMove ==
  ASSUME TypeOK, ConnsSound, Step, NEW k \in DOMAIN owner', NEW f \in Range(up'[k])
  PROVE  /\ k \in DOMAIN owner
         /\ \/ f \in Range(up[k])
            \/ \E n \in Edges : Ingests(n) /\ k = trunk[n] /\ owner[k] = Pod(n) /\ f = nextFID[n]
  <1> USE TypeFacts DEF ConnsSound
  <1>1. CASE \E e \in Edges : Dials(e)
    BY <1>1 DEF Dials
  <1>2. ASSUME NEW n \in Lofts, Ingests(n)
        PROVE  /\ k \in DOMAIN owner
               /\ f \in Range(up[k]) \/ (n \in Edges /\ k = trunk[n] /\ owner[k] = Pod(n) /\ f = nextFID[n])
    <2>1. k \in DOMAIN owner
      BY <1>2 DEF Ingests
    <2>2. \/ up'[k] = up[k]
          \/ n \in Edges /\ k = trunk[n] /\ Range(up'[k]) = Range(up[k]) \cup {nextFID[n]}
      BY <1>2, <2>1 DEF Ingests
    <2> QED BY <2>1, <2>2
  <1>3. CASE \E j \in serving, g \in FrameIds : Refuses(j, g) \/ BooksIt(j, g)
    BY <1>3 DEF Refuses, BooksIt, Arrives
  <1>4. CASE Loses
    BY <1>4 DEF Loses
  <1>5. CASE up' = up /\ owner' = owner
    BY <1>5
  <1> QED BY <1>1, <1>2, <1>3, <1>4, <1>5
          DEF Step, ActsAtGateway, ActsOnEdge, Restarts, ReadsInstruction, Expires, Ends, ReadsInject,
              Decides, elsewhere

(* Where the entries of the book come from. *)
LEMMA BookMoves ==
  ASSUME TypeOK, Step, NEW s \in DOMAIN remote'
  PROVE  \/ s \in DOMAIN remote /\ remote'[s] = remote[s]
         \/ \E k \in serving, f \in FrameIds :
              BooksIt(k, f) /\ s = nextFID[Gateway] /\ remote'[s] = [conn |-> k, fid |-> f]
  <1>1. CASE \E k \in serving, f \in FrameIds : BooksIt(k, f)
    BY <1>1 DEF BooksIt
  <1>2. CASE \A g \in DOMAIN remote' : g \in DOMAIN remote /\ remote'[g] = remote[g]
    BY <1>2
  <1> QED BY <1>1, <1>2
          DEF Step, Loses, ActsAtGateway, ActsOnEdge, Dials, Restarts, ReadsInstruction, Ingests,
              Expires, Ends, Refuses, ReadsInject, Decides, elsewhere

(* Where the instructions on their way come from. *)
LEMMA InstructionsMove ==
  ASSUME TypeOK, ConnsSound, Step, NEW k \in DOMAIN owner', NEW m \in Range(down'[k])
  PROVE  /\ k \in DOMAIN owner
         /\ \/ m \in Range(down[k])
            \/ \E f \in FrameIds : Refuses(k, f) /\ k \in serving /\ m.t = "drop" /\ m.fid = f
            \/ /\ ActsOnEdge /\ k = acting.rf.conn /\ k \in serving /\ m.fid = acting.rf.fid
               /\ IF acting.t = "drop" THEN m.t = "drop"
                  ELSE /\ m.t # "drop" /\ KindOf(m.t) = acting.t
                       /\ m.port # None => m.port = PodBehind(acting.dst)[1]
  <1> USE TypeFacts
  <1>1. k \in Conns
    BY DEF Step, Loses, ActsAtGateway, ActsOnEdge, Dials, Restarts, ReadsInstruction, Ingests, Expires,
           Ends, Refuses, BooksIt, Arrives, ReadsInject, Decides, elsewhere
  <1>2. CASE \E j \in serving, f \in FrameIds : Refuses(j, f)
    BY <1>1, <1>2 DEF Refuses, Arrives
  <1>3. CASE ActsOnEdge
    BY <1>1, <1>3 DEF ActsOnEdge, elsewhere
  <1>4. CASE \A j \in Conns : Range(down'[j]) \subseteq Range(down[j])
    BY <1>1, <1>4 DEF ConnsSound
  <1> QED BY <1>2, <1>3, <1>4
          DEF Step, Loses, ActsAtGateway, Dials, Restarts, ReadsInstruction, Ingests,
              Expires, Ends, BooksIt, ReadsInject, Decides, elsewhere

(* The verdict under way ends, stays, is sent, or was just read. *)
LEMMA ActingMoves ==
  ASSUME TypeOK, Step
  PROVE  \/ acting'.t = "idle" /\ (acting.t = "sent" => acting.fid \notin DOMAIN remote')
         \/ /\ SameVerdict /\ acting.t # "idle"
            /\ \/ acting'.t = acting.t /\ ~ActsOnEdge
               \/ ActsOnEdge /\ acting.t = "deliver" /\ acting'.t = "sent"
         \/ \E t \in {"deliver", "copy", "drop"}, dst \in {Gateway} \cup DOMAIN owner, f \in FrameIds :
              Decides(t, dst, f)
  <1>1. CASE ActsOnEdge
    BY <1>1, TypeFacts DEF ActsOnEdge
  <1>2. CASE acting' = acting /\ ~ActsOnEdge
    BY <1>2 DEF SameVerdict
  <1>3. CASE Loses \/ ActsAtGateway
    BY <1>2, <1>3, TypeFacts DEF Loses, ActsAtGateway, ActsOnEdge
  <1> QED BY <1>1, <1>2, <1>3
          DEF Step, Dials, Restarts, ReadsInstruction, Ingests, Expires, Ends, Refuses, BooksIt, Arrives,
              ReadsInject, elsewhere

(* Where the entries that may still be decided come from. *)
LEMMA EntriesMove ==
  ASSUME TypeOK, ConnsSound, Step, NEW s \in Entries'
  PROVE  \/ s \in Entries /\ s \in DOMAIN remote /\ remote'[s] = remote[s]
         \/ \E k \in serving, f \in FrameIds :
              BooksIt(k, f) /\ s = nextFID[Gateway] /\ remote'[s] = [conn |-> k, fid |-> f]
  <1>1. s \in DOMAIN remote'
    BY DEF Entries
  <1>2. acting.t = "sent" => s # acting.fid
    <2> SUFFICES ASSUME acting.t = "sent" PROVE s # acting.fid
      OBVIOUS
    <2>1. CASE acting'.t = "idle" /\ acting.fid \notin DOMAIN remote'
      BY <1>1, <2>1
    <2>2. CASE SameVerdict /\ acting'.t = "sent"
      BY <2>2 DEF Entries, SameVerdict
    <2>3. ~\E t \in {"deliver", "copy", "drop"}, dst \in {Gateway} \cup DOMAIN owner, f \in FrameIds :
            Decides(t, dst, f)
      BY DEF Decides
    <2> QED BY <2>1, <2>2, <2>3, ActingMoves
  <1> QED BY <1>1, <1>2, BookMoves DEF Entries

(* Where the buffered frames come from. *)
LEMMA BuffersMove ==
  ASSUME TypeOK, Step, NEW n \in Lofts, NEW f \in DOMAIN buf'[n]
  PROVE  /\ boot'[n] = boot[n]
         /\ f \in DOMAIN buf[n] \/ (Ingests(n) /\ f = nextFID[n])
  <1>1. ASSUME NEW j \in Lofts, Ingests(j)
        PROVE  boot'[n] = boot[n] /\ (f \in DOMAIN buf[n] \/ (j = n /\ f = nextFID[n]))
    BY <1>1 DEF Ingests
  <1>2. CASE \E e \in Edges : Restarts(e)
    BY <1>2 DEF Restarts
  <1>3. CASE boot' = boot /\ \A j \in Lofts : DOMAIN buf'[j] \subseteq DOMAIN buf[j]
    BY <1>3
  <1> QED BY <1>1, <1>2, <1>3
          DEF Step, Loses, ActsAtGateway, ActsOnEdge, Dials, ReadsInstruction, Expires, Handled, Shrinks,
              Ends, Refuses, BooksIt, Arrives, ReadsInject, Decides, elsewhere

(* How lives and ids are counted. *)
LEMMA IdsMove ==
  ASSUME TypeOK, Step
  PROVE  \/ UNCHANGED <<nextFID, boot>>
         \/ \E e \in Edges : Restarts(e)
         \/ /\ boot' = boot
            /\ \E n \in Lofts : \A j \in Lofts : nextFID'[j] = IF j = n THEN nextFID[n] + 1 ELSE nextFID[j]
  <1>1. CASE \E n \in Lofts : Ingests(n)
    BY <1>1 DEF Ingests
  <1>2. CASE \E k \in serving, f \in FrameIds : BooksIt(k, f)
    BY <1>2, TypeFacts DEF BooksIt, Arrives
  <1> QED BY <1>1, <1>2
          DEF Step, Loses, ActsAtGateway, ActsOnEdge, Dials, ReadsInstruction, Expires,
              Ends, Refuses, Arrives, ReadsInject, Decides, elsewhere

(* An id that was given stays given. *)
LEMMA GivenStays ==
  ASSUME TypeOK, Step, NEW p, p[1] \in Lofts, p[2] \in Nat, NEW f \in Nat, Given(p, f)
  PROVE  Given(p, f)'
  <1>1. CASE UNCHANGED <<nextFID, boot>>
    BY <1>1 DEF Given
  <1>2. CASE \E e \in Edges : Restarts(e)
    BY <1>2, TypeFacts DEF Given, Restarts
  <1>3. CASE /\ boot' = boot
             /\ \E n \in Lofts : \A j \in Lofts : nextFID'[j] = IF j = n THEN nextFID[n] + 1 ELSE nextFID[j]
    BY <1>3, TypeFacts DEF Given
  <1> QED BY <1>1, <1>2, <1>3, IdsMove

(* The next id only grows in a loft's life, and lives only grow. *)
LEMMA NextGrows ==
  ASSUME TypeOK, Step, NEW n \in Lofts
  PROVE  /\ boot'[n] = boot[n] => nextFID'[n] \in Nat /\ nextFID'[n] >= nextFID[n]
         /\ boot'[Gateway] = boot[Gateway] /\ boot'[n] \in Nat /\ boot'[n] >= boot[n]
  <1>1. CASE UNCHANGED <<nextFID, boot>>
    BY <1>1, TypeFacts
  <1>2. CASE \E e \in Edges : Restarts(e)
    BY <1>2, TypeFacts DEF Restarts
  <1>3. CASE /\ boot' = boot
             /\ \E i \in Lofts : \A j \in Lofts : nextFID'[j] = IF j = i THEN nextFID[i] + 1 ELSE nextFID[j]
    BY <1>3, TypeFacts
  <1> QED BY <1>1, <1>2, <1>3, IdsMove

(* Where the ids that routers were shown come from. *)
LEMMA ShownMoves ==
  ASSUME TypeOK, Step, NEW s \in shown'
  PROVE  s \in shown \/ (s = nextFID[Gateway] /\ nextFID'[Gateway] = s + 1)
  <1>1. ASSUME NEW n \in Lofts, Ingests(n)
        PROVE  s \in shown \/ (s = nextFID[Gateway] /\ nextFID'[Gateway] = s + 1)
    BY <1>1, TypeFacts DEF Ingests
  <1>2. CASE \E k \in serving, f \in FrameIds : BooksIt(k, f)
    BY <1>2, TypeFacts DEF BooksIt
  <1> QED BY <1>1, <1>2
          DEF Step, Loses, ActsAtGateway, ActsOnEdge, Dials, Restarts, ReadsInstruction, Expires,
              Ends, Refuses, ReadsInject, Decides, elsewhere

(* A loft handles a frame of its own: for the verdict the gateway carries  *)
(* out, for an instruction that an edge reads, or to drop it.              *)
Handles(n, f, p, t) ==
  /\ Handled(n, f, p, t) /\ UNCHANGED elsewhere
  /\ \A s \in DOMAIN remote' : s \in DOMAIN remote /\ remote'[s] = remote[s]
  /\ \/ t = "drop"
     \/ /\ ActsAtGateway /\ n = Gateway /\ f = acting.fid /\ t = acting.t
        /\ p # None => p = PodBehind(acting.dst)[1]
     \/ /\ ReadsInstruction(n) /\ n \in Edges /\ trunk[n] # None
        /\ \E m \in Range(down[trunk[n]]) : m.fid = f /\ m.port = p /\ m.t # "drop" /\ t = KindOf(m.t)

(* A payload is handled at its loft, or arrives where it was pushed, or    *)
(* stays where it is.                                                      *)
LEMMA PayloadsMove ==
  ASSUME TypeOK, ConnsSound, Step
  PROVE  \/ \E n \in Lofts, f \in FrameIds, p \in Lofts \cup {None}, t \in {"deliver", "copy", "drop"} :
              Handles(n, f, p, t)
         \/ /\ taken' = taken
            /\ \A s, d \in Lofts : Range(wire'[s][d]) \subseteq Range(wire[s][d])
            /\ \/ counted' = counted /\ got' = got
               \/ got' = got /\ \E k \in Conns : Ends(k)
               \/ /\ counted' = counted /\ UNCHANGED elsewhere
                  /\ \E s, d \in Lofts : \E m \in Range(wire[s][d]) :
                       m.port = d /\ got' = got \cup {<<m.frame, Pod(d), m.kind>>}
  <1>1. ASSUME NEW n \in Lofts, NEW f \in FrameIds, Expires(n, f)
        PROVE  Handles(n, f, None, "drop")
    BY <1>1 DEF Expires, Handles
  <1>2. ASSUME NEW e \in Edges, ReadsInstruction(e)
        PROVE  \E f \in FrameIds, p \in Lofts \cup {None}, t \in {"deliver", "copy", "drop"} :
                 Handles(e, f, p, t)
    <2>1. PICK m \in Range(down[trunk[e]]), t \in {"deliver", "copy", "drop"} :
            /\ IF m.t = "drop" THEN t = "drop" ELSE t = KindOf(m.t)
            /\ Handled(e, m.fid, m.port, t)
      BY <1>2 DEF ReadsInstruction
    <2>2. trunk[e] # None /\ UNCHANGED <<elsewhere, remote>>
      BY <1>2 DEF ReadsInstruction
    <2>3. trunk[e] \in Conns /\ down[trunk[e]] \in Seq(Instrs)
      BY <2>2 DEF TypeOK
    <2>4. m \in Instrs
      BY <2>3 DEF Range
    <2>5. m.fid \in FrameIds /\ m.port \in Lofts \cup {None}
      BY <2>4 DEF Instrs
    <2>6. Handles(e, m.fid, m.port, t)
      BY <1>2, <2>1, <2>2 DEF Handles
    <2> QED BY <2>5, <2>6
  <1>3. ASSUME ActsAtGateway
        PROVE  \E f \in FrameIds, p \in Lofts \cup {None}, t \in {"deliver", "copy", "drop"} :
                 Handles(Gateway, f, p, t)
    <2>1. PICK p \in Lofts \cup {None} : /\ p # None => p = PodBehind(acting.dst)[1]
                                         /\ Handled(Gateway, acting.fid, p, acting.t)
      BY <1>3 DEF ActsAtGateway
    <2>2. acting.t \notin {"idle", "sent"} /\ UNCHANGED <<elsewhere, remote>>
      BY <1>3 DEF ActsAtGateway
    <2>3. acting.fid \in FrameIds /\ acting.t \in {"deliver", "copy", "drop"} /\ Gateway \in Lofts
      BY <2>2, TypeFacts DEF TypeOK, Lookups
    <2>4. Handles(Gateway, acting.fid, p, acting.t)
      BY <1>3, <2>1, <2>2 DEF Handles
    <2> QED BY <2>3, <2>4
  <1>4. ASSUME NEW s \in Lofts, NEW d \in Lofts, ReadsInject(s, d)
        PROVE  /\ taken' = taken /\ counted' = counted /\ UNCHANGED elsewhere
               /\ \A r, e \in Lofts : Range(wire'[r][e]) \subseteq Range(wire[r][e])
               /\ \/ got' = got
                  \/ \E m \in Range(wire[s][d]) : m.port = d /\ got' = got \cup {<<m.frame, Pod(d), m.kind>>}
    BY <1>4 DEF ReadsInject
  <1>5. CASE \E k \in Conns : Ends(k)
    BY <1>5 DEF Ends
  <1>6. CASE \E e \in Edges : Restarts(e)
    BY <1>6 DEF Restarts, history
  <1>7. CASE UNCHANGED <<taken, wire, counted, got>>
    BY <1>7
  <1>8. Edges \subseteq Lofts
    BY TypeFacts
  <1>9. CASE \E n \in Lofts, f \in FrameIds : Expires(n, f)
    BY <1>1, <1>9
  <1>10. CASE \E e \in Edges : ReadsInstruction(e)
    BY <1>2, <1>8, <1>10
  <1>11. CASE \E s, d \in Lofts : ReadsInject(s, d)
    BY <1>4, <1>11
  <1>12. CASE ActsAtGateway
    BY <1>3, <1>12, TypeFacts
  <1> QED BY <1>5, <1>6, <1>7, <1>9, <1>10, <1>11, <1>12
          DEF Step, Loses, ActsOnEdge, Dials, Ingests, Refuses, BooksIt, Arrives, Decides, history

-----------------------------------------------------------------------------
(* Frame ids are given once, and so is their token.                        *)

(* A buffered frame has an id that its loft gave. *)
LEMMA HandledFrames ==
  ASSUME TypeOK, IdsGiven, NEW n \in Lofts, NEW f \in DOMAIN buf[n]
  PROVE  f \in FrameIds /\ Frame(n, f) \in Frames /\ Given(Pod(n), f)
  <1>1. f \in FrameIds
    BY IsBuffer DEF TypeOK
  <1> QED BY <1>1, FrameTyped, TypeFacts DEF IdsGiven, Given, Pod

(* The parts of IdsKeep: tokens, *)
LEMMA TokensGiven ==
  ASSUME TypeOK, ConnsSound, IdsGiven, Step, NEW k \in DOMAIN owner', NEW f \in Range(up'[k])
  PROVE  Given(owner[k], f)'
  <1>1. k \in DOMAIN owner /\ owner'[k] = owner[k]
    BY TokensMove, OwnerStays
  <1>2. CASE f \in Range(up[k])
    <2>1. f \in Nat
      <3>1. up[k] \in Seq(FrameIds)
        BY <1>1, TypeFacts DEF TypeOK
      <3>2. f \in FrameIds
        BY <1>2, <3>1, Member
      <3> QED BY <3>2, MeshAssumption DEF FrameIds
    <2>2. Given(owner[k], f) /\ owner[k][1] \in Lofts /\ owner[k][2] \in Nat
      BY <1>1, <1>2, TypeFacts DEF IdsGiven
    <2> QED BY <1>1, <2>1, <2>2, GivenStays DEF Given
  <1>3. CASE \E n \in Edges : Ingests(n) /\ k = trunk[n] /\ owner[k] = Pod(n) /\ f = nextFID[n]
    BY <1>1, <1>3, TypeFacts DEF Ingests, Given, Pod
  <1> QED BY <1>2, <1>3, TokensMove

(* the book, *)
LEMMA BookGiven ==
  ASSUME TypeOK, ConnsSound, IdsGiven, Step, NEW s \in DOMAIN remote'
  PROVE  s < nextFID'[Gateway] /\ Given(owner[remote[s].conn], remote[s].fid)'
  <1>1. CASE s \in DOMAIN remote /\ remote'[s] = remote[s]
    <2>1. remote[s].conn \in DOMAIN owner
      BY <1>1, TypeFacts DEF ConnsSound
    <2>2. /\ Given(owner[remote[s].conn], remote[s].fid) /\ owner'[remote[s].conn] = owner[remote[s].conn]
          /\ owner[remote[s].conn][1] \in Lofts /\ owner[remote[s].conn][2] \in Nat
          /\ remote[s].fid \in Nat
      BY <1>1, <2>1, TypeFacts, OwnerStays DEF IdsGiven
    <2>3. Given(owner[remote[s].conn], remote[s].fid)'
      BY <1>1, <2>2, GivenStays DEF Given
    <2>4. s < nextFID[Gateway] /\ s \in Nat
      BY <1>1, TypeFacts DEF IdsGiven
    <2> QED BY <2>3, <2>4, NextGrows, TypeFacts
  <1>2. ASSUME NEW k \in serving, NEW f \in FrameIds, BooksIt(k, f), s = nextFID[Gateway],
               remote'[s] = [conn |-> k, fid |-> f]
        PROVE  s < nextFID'[Gateway] /\ Given(owner[remote[s].conn], remote[s].fid)'
    <2>1. k \in DOMAIN owner /\ f \in Range(up[k]) /\ owner' = owner /\ boot' = boot
      BY <1>2, TypeFacts DEF BooksIt, Arrives
    <2>2. Given(owner[k], f) /\ owner[k][1] \in Lofts /\ owner[k][2] \in Nat /\ f \in Nat
      BY <2>1, TypeFacts DEF IdsGiven, FrameIds
    <2>3. Given(owner[k], f)'
      BY <2>1, <2>2, GivenStays DEF Given
    <2>4. s < nextFID'[Gateway]
      BY <1>2, TypeFacts DEF BooksIt
    <2> QED BY <1>2, <2>1, <2>3, <2>4 DEF Given
  <1> QED BY <1>1, <1>2, BookMoves

(* instructions, *)
LEMMA InstructionsGiven ==
  ASSUME TypeOK, ConnsSound, IdsGiven, Step, NEW k \in DOMAIN owner', NEW m \in Range(down'[k])
  PROVE  Given(owner[k], m.fid)'
  <1>1. k \in DOMAIN owner /\ owner'[k] = owner[k] /\ k \in Conns
    BY InstructionsMove, OwnerStays, TypeFacts
  <1>2. Given(owner[k], m.fid) /\ m.fid \in Nat
    <2>1. ASSUME m \in Range(down[k]) PROVE Given(owner[k], m.fid) /\ m.fid \in Nat
      <3>1. down[k] \in Seq(Instrs)
        BY <1>1 DEF TypeOK
      <3>2. m.fid \in FrameIds
        <4>1. m \in Instrs
          BY <2>1, <3>1, Member
        <4> QED BY <4>1 DEF Instrs
      <3> QED BY <1>1, <2>1, <3>2 DEF IdsGiven, FrameIds
    <2>2. ASSUME NEW f \in FrameIds, Refuses(k, f), m.fid = f PROVE Given(owner[k], m.fid) /\ m.fid \in Nat
      BY <1>1, <2>2 DEF Refuses, Arrives, IdsGiven, FrameIds
    <2>3. ASSUME ActsOnEdge, k = acting.rf.conn, m.fid = acting.rf.fid
          PROVE  Given(owner[k], m.fid) /\ m.fid \in Nat
      <3>1. acting.t # "idle" /\ acting.rf.conn # None
        BY <2>3 DEF ActsOnEdge
      <3>2. acting.rf.fid \in FrameIds
        BY <3>1, TypeFacts DEF TypeOK, Lookups
      <3> QED BY <2>3, <3>1, <3>2 DEF IdsGiven, FrameIds
    <2> QED BY <2>1, <2>2, <2>3, InstructionsMove
  <1> QED BY <1>1, <1>2, GivenStays, TypeFacts DEF Given

(* the verdict under way, *)
LEMMA ActingGiven ==
  ASSUME TypeOK, ConnsSound, IdsGiven, Step, acting'.t # "idle"
  PROVE  /\ acting'.fid < nextFID'[Gateway]
         /\ acting'.rf.conn # None => Given(owner[acting.rf.conn], acting.rf.fid)'
  <1>1. CASE SameVerdict /\ acting.t # "idle"
    <2> USE DEF SameVerdict
    <2>1. acting \in Lookups
      BY <1>1, TypeFacts DEF TypeOK
    <2>2. acting.fid \in Nat /\ acting.rf.fid \in Nat /\ acting.rf.conn \in {None} \cup DOMAIN owner
      BY <1>1, <2>1 DEF Lookups, FrameIds, ConnsSound
    <2>3. acting'.fid < nextFID'[Gateway]
      BY <1>1, <2>2, NextGrows, TypeFacts DEF IdsGiven
    <2>4. ASSUME acting.rf.conn # None PROVE Given(owner[acting.rf.conn], acting.rf.fid)'
      <3>1. /\ Given(owner[acting.rf.conn], acting.rf.fid) /\ owner[acting.rf.conn][1] \in Lofts
            /\ owner[acting.rf.conn][2] \in Nat /\ owner'[acting.rf.conn] = owner[acting.rf.conn]
        BY <1>1, <2>2, <2>4, OwnerStays, TypeFacts DEF IdsGiven
      <3> QED BY <1>1, <2>2, <3>1, GivenStays DEF Given
    <2> QED BY <1>1, <2>3, <2>4
  <1>2. ASSUME NEW t \in {"deliver", "copy", "drop"}, NEW dst \in {Gateway} \cup DOMAIN owner,
               NEW f \in FrameIds, Decides(t, dst, f)
        PROVE  /\ acting'.fid < nextFID'[Gateway]
               /\ acting'.rf.conn # None => Given(owner[acting.rf.conn], acting.rf.fid)'
    <2>1. /\ acting'.fid = f /\ f \in shown /\ UNCHANGED <<nextFID, boot, owner>>
          /\ acting'.rf = IF f \in DOMAIN remote THEN remote[f] ELSE [conn |-> None, fid |-> f]
      BY <1>2 DEF Decides
    <2>2. acting'.rf.conn # None => f \in DOMAIN remote /\ acting'.rf = remote[f]
      BY <2>1
    <2> QED BY <2>1, <2>2 DEF IdsGiven, Given
  <1> QED BY <1>1, <1>2, ActingMoves

(* frames that were consumed or counted. *)
LEMMA FatesGiven ==
  ASSUME TypeOK, ConnsSound, IdsGiven, Step, NEW fr \in Frames, taken'[fr] # 0 \/ fr \in counted'
  PROVE  Given(fr.pod, fr.fid)'
  <1>1. fr.pod[1] \in Lofts /\ fr.pod[2] \in Nat /\ fr.fid \in Nat
    BY MeshAssumption DEF Frames, Pods, FrameIds
  <1>2. Given(fr.pod, fr.fid)
    <2>1. CASE taken[fr] # 0 \/ fr \in counted
      BY <2>1 DEF IdsGiven
    <2>2. ASSUME NEW n \in Lofts, NEW f \in FrameIds, NEW p \in Lofts \cup {None},
                 NEW t \in {"deliver", "copy", "drop"}, Handles(n, f, p, t)
          PROVE  taken[fr] # 0 \/ fr \in counted \/ Given(fr.pod, fr.fid)
      <3>1. ASSUME f \in DOMAIN buf[n], fr = Frame(n, f) PROVE Given(fr.pod, fr.fid)
        BY <3>1, HandledFrames DEF Frame
      <3>2. \/ taken' = taken
            \/ f \in DOMAIN buf[n] /\ taken' = [taken EXCEPT ![Frame(n, f)] = @ + 1]
        BY <2>2 DEF Handles, Handled, TakenFrom
      <3>3. \/ counted' = counted
            \/ f \in DOMAIN buf[n] /\ counted' = counted \cup {Frame(n, f)}
        BY <2>2 DEF Handles, Handled
      <3>4. taken \in [Frames -> Nat]
        BY DEF TypeOK
      <3> QED BY <3>1, <3>2, <3>3, <3>4
    <2>3. ASSUME NEW k \in Conns, Ends(k), fr \in counted'
          PROVE  fr \in counted \/ Given(fr.pod, fr.fid)
      <3> SUFFICES ASSUME fr \notin counted PROVE Given(fr.pod, fr.fid)
        OBVIOUS
      <3>1. PICK g \in DOMAIN remote : remote[g].conn = k /\ fr = FrameOf(k, remote[g].fid)
        BY <2>3 DEF Ends, OfConn
      <3> QED BY <3>1 DEF FrameOf, IdsGiven
    <2> QED BY <2>1, <2>2, <2>3, PayloadsMove
  <1> QED BY <1>1, <1>2, GivenStays

(* Every step keeps IdsGiven. *)
LEMMA IdsKeep ==
  ASSUME TypeOK, ConnsSound, IdsGiven, Step
  PROVE  IdsGiven'
  <1>1. ASSUME NEW n \in Lofts, NEW f \in DOMAIN buf'[n] PROVE f < nextFID'[n]
    <2>1. boot'[n] = boot[n] /\ (f \in DOMAIN buf[n] \/ (Ingests(n) /\ f = nextFID[n]))
      BY BuffersMove
    <2>2. CASE f \in DOMAIN buf[n]
      BY <2>1, <2>2, NextGrows, HandledFrames, TypeFacts DEF IdsGiven, FrameIds
    <2>3. CASE Ingests(n) /\ f = nextFID[n]
      BY <2>3, TypeFacts DEF Ingests
    <2> QED BY <2>1, <2>2, <2>3
  <1>2. ASSUME NEW s \in shown' PROVE s < nextFID'[Gateway]
    <2>1. CASE s \in shown
      <3>1. s \in Nat
        BY <2>1 DEF TypeOK, FrameIds
      <3> QED BY <2>1, <3>1, NextGrows, TypeFacts DEF IdsGiven
    <2>2. CASE s = nextFID[Gateway] /\ nextFID'[Gateway] = s + 1
      BY <2>2, TypeFacts
    <2> QED BY <2>1, <2>2, ShownMoves
  <1> QED BY <1>1, <1>2, TokensGiven, BookGiven, InstructionsGiven, ActingGiven, FatesGiven DEF IdsGiven

(* The next id of a loft was not given. *)
LEMMA Fresh ==
  ASSUME TypeOK, NEW n \in Lofts
  PROVE  ~Given(Pod(n), nextFID[n])
  BY TypeFacts DEF Given, Pod

(* No connection gets a token twice. *)
LEMMA InjectiveKeeps ==
  ASSUME TypeOK, ConnsSound, IdsGiven, TokensOnce, Step, NEW k \in Conns
  PROVE  IsInjective(up'[k])
  <1> USE DEF TokensOnce
  <1>1. ASSUME NEW n \in Lofts, Ingests(n) PROVE IsInjective(up'[k])
    <2>1. CASE up'[k] = up[k]
      BY <2>1
    <2>2. CASE n \in Edges /\ k = trunk[n] /\ (nextFID[n] \notin Range(up[k]) => IsInjective(up'[k]))
      BY <2>2, Fresh, TypeFacts DEF ConnsSound, IdsGiven
    <2> QED BY <1>1, <2>1, <2>2 DEF Ingests
  <1>2. CASE \E j \in serving, f \in FrameIds : Refuses(j, f) \/ BooksIt(j, f)
    <2>1. IsInjective(up[k])
      OBVIOUS
    <2> QED BY <1>2, <2>1 DEF Refuses, BooksIt, Arrives
  <1>3. CASE Loses
    BY <1>3 DEF Loses
  <1>4. CASE up' = up
    BY <1>4
  <1> QED BY <1>1, <1>2, <1>3, <1>4
          DEF Step, ActsAtGateway, ActsOnEdge, Dials, Restarts, ReadsInstruction, Expires, Ends,
              ReadsInject, Decides, elsewhere

(* A token that is booked was on its way, and nowhere else. *)
LEMMA BooksOne ==
  ASSUME TypeOK, ConnsSound, TokensOnce, NEW k \in serving, NEW f \in FrameIds, BooksIt(k, f)
  PROVE  /\ k \in DOMAIN owner /\ f \in Range(up[k]) /\ UNCHANGED <<owner, buf>>
         /\ \A j \in DOMAIN owner : owner[j] = owner[k] => f \notin Range(up'[j])
         /\ \A s \in DOMAIN remote : owner[remote[s].conn] = owner[k] => remote[s].fid # f
  <1>1. /\ k \in DOMAIN owner /\ f \in Range(up[k]) /\ UNCHANGED <<owner, buf>>
        /\ IsInjective(up[k]) => f \notin Range(up'[k])
        /\ \A j \in Conns \ {k} : up'[j] = up[j]
    BY TypeFacts DEF BooksIt, Arrives
  <1>2. \A j \in DOMAIN owner : owner[j] = owner[k] => f \notin Range(up'[j])
    BY <1>1, TypeFacts DEF TokensOnce
  <1> QED BY <1>1, <1>2 DEF TokensOnce

(* Every step keeps TokensOnce. *)
LEMMA TokensKeep ==
  ASSUME TypeOK, ConnsSound, IdsGiven, TokensOnce, Step
  PROVE  TokensOnce'
  <1>1. \A k \in Conns : IsInjective(up'[k])
    BY InjectiveKeeps
  <1>2. ASSUME NEW k \in DOMAIN owner', NEW j \in DOMAIN owner', k # j, owner'[k] = owner'[j],
               NEW f \in Range(up'[k]), f \in Range(up'[j])
        PROVE  FALSE
    <2>1. k \in DOMAIN owner /\ j \in DOMAIN owner /\ owner[k] = owner[j]
      BY <1>2, TokensMove, OwnerStays
    <2>2. /\ f \in Range(up[k]) \/ \E n \in Edges : k = trunk[n] /\ owner[k] = Pod(n) /\ f = nextFID[n]
          /\ f \in Range(up[j]) \/ \E n \in Edges : j = trunk[n] /\ owner[j] = Pod(n) /\ f = nextFID[n]
      BY <1>2, TokensMove
    <2>3. ASSUME NEW n \in Edges, owner[k] = Pod(n), f = nextFID[n]
          PROVE  f \notin Range(up[k]) /\ f \notin Range(up[j])
      BY <2>1, <2>3, Fresh, TypeFacts DEF IdsGiven
    <2>4. \A n, i \in Edges : Pod(n) = Pod(i) => n = i
      BY DEF Pod
    <2> QED BY <1>2, <2>1, <2>2, <2>3, <2>4 DEF TokensOnce
  <1>3. ASSUME NEW s \in DOMAIN remote', NEW k \in DOMAIN owner', owner'[remote'[s].conn] = owner'[k],
               remote'[s].fid \in Range(up'[k])
        PROVE  FALSE
    <2>1. k \in DOMAIN owner /\ owner'[k] = owner[k]
      BY <1>3, TokensMove, OwnerStays
    <2>2. CASE s \in DOMAIN remote /\ remote'[s] = remote[s]
      <3>1. remote[s].conn \in DOMAIN owner
        BY <2>2, TypeFacts DEF ConnsSound
      <3>2. owner[remote[s].conn] = owner[k] /\ Given(owner[k], remote[s].fid)
        BY <1>3, <2>1, <2>2, <3>1, OwnerStays DEF IdsGiven
      <3>3. remote[s].fid \notin Range(up[k])
        BY <2>1, <2>2, <3>2 DEF TokensOnce
      <3>4. \A n \in Edges : owner[k] = Pod(n) => remote[s].fid # nextFID[n]
        BY <3>2, Fresh, TypeFacts
      <3> QED BY <1>3, <2>2, <3>3, <3>4, TokensMove
    <2>3. ASSUME NEW j \in serving, NEW f \in FrameIds, BooksIt(j, f), remote'[s] = [conn |-> j, fid |-> f]
          PROVE  FALSE
      BY <1>3, <2>1, <2>3, BooksOne
    <2> QED BY <2>2, <2>3, BookMoves
  <1>4. ASSUME NEW s \in DOMAIN remote', NEW r \in DOMAIN remote',
               owner'[remote'[s].conn] = owner'[remote'[r].conn], remote'[s].fid = remote'[r].fid
        PROVE  s = r
    <2>1. ASSUME NEW i \in DOMAIN remote', i \in DOMAIN remote, remote'[i] = remote[i]
          PROVE  owner'[remote'[i].conn] = owner[remote[i].conn]
      BY <2>1, OwnerStays, TypeFacts DEF ConnsSound
    <2>2. ASSUME NEW i \in DOMAIN remote', NEW j \in DOMAIN remote',
                 owner'[remote'[i].conn] = owner'[remote'[j].conn], remote'[i].fid = remote'[j].fid,
                 NEW k \in serving, NEW f \in FrameIds, BooksIt(k, f), remote'[i] = [conn |-> k, fid |-> f],
                 j \in DOMAIN remote, remote'[j] = remote[j]
          PROVE  FALSE
      <3>1. owner'[k] = owner[k]
        BY <2>2, BooksOne
      <3> QED BY <2>1, <2>2, <3>1, BooksOne
    <2>3. CASE /\ s \in DOMAIN remote /\ remote'[s] = remote[s]
               /\ r \in DOMAIN remote /\ remote'[r] = remote[r]
      BY <1>4, <2>1, <2>3 DEF TokensOnce
    <2>4. CASE s = nextFID[Gateway] /\ r = nextFID[Gateway]
      BY <2>4
    <2> QED BY <1>4, <2>2, <2>3, <2>4, BookMoves
  <1>5. ASSUME NEW s \in DOMAIN remote', s \in DOMAIN buf'[Gateway] PROVE FALSE
    <2>1. s \in DOMAIN buf[Gateway] \/ s = nextFID[Gateway]
      BY <1>5, BuffersMove, TypeFacts
    <2>2. CASE s \in DOMAIN remote
      BY <2>1, <2>2, TypeFacts DEF TokensOnce, IdsGiven
    <2>3. ASSUME NEW k \in serving, NEW f \in FrameIds, BooksIt(k, f), s = nextFID[Gateway] PROVE FALSE
      <3>1. s \in DOMAIN buf[Gateway]
        BY <1>5, <2>3, BooksOne
      <3> QED BY <2>3, <3>1, TypeFacts DEF IdsGiven
    <2> QED BY <2>2, <2>3, BookMoves
  <1> QED BY <1>1, <1>2, <1>3, <1>4, <1>5 DEF TokensOnce

(* What was consumed stays consumed. *)
LEMMA TakenGrows ==
  ASSUME TypeOK, ConnsSound, Step, NEW fr \in Frames, taken[fr] # 0
  PROVE  taken'[fr] # 0
  <1>1. taken \in [Frames -> Nat]
    BY DEF TypeOK
  <1>2. CASE taken' = taken
    BY <1>2
  <1>3. ASSUME NEW n \in Lofts, NEW f, TakenFrom(n, f) PROVE taken'[fr] # 0
    BY <1>1, <1>3 DEF TakenFrom
  <1> QED BY <1>2, <1>3, PayloadsMove DEF Handles, Handled

(* Every step keeps TakenOnce. *)
LEMMA TakenKeeps ==
  ASSUME TypeOK, TypeOK', ConnsSound, IdsGiven, TakenOnce, Step
  PROVE  TakenOnce'
  <1> USE DEF TakenOnce
  <1>1. taken \in [Frames -> Nat]
    BY DEF TypeOK
  <1>2. ASSUME NEW n \in Lofts, NEW f \in DOMAIN buf'[n] PROVE Frame(n, f)' = Frame(n, f) /\ taken[Frame(n, f)] = 0
    <2>1. boot'[n] = boot[n] /\ (f \in DOMAIN buf[n] \/ (Ingests(n) /\ f = nextFID[n]))
      BY BuffersMove
    <2>2. CASE f = nextFID[n] /\ Ingests(n)
      <3>1. buf'[n] \in Buffers
        BY DEF TypeOK
      <3>2. Frame(n, f) \in Frames
        BY <3>1, IsBuffer, FrameTyped
      <3>3. taken[Frame(n, f)] # 0 => Given(Pod(n), f)
        BY <3>2 DEF IdsGiven, Frame
      <3> QED BY <2>1, <2>2, <3>3, Fresh DEF Frame, Pod
    <2> QED BY <2>1, <2>2 DEF Frame, Pod
  <1>3. CASE taken' = taken
    BY <1>2, <1>3
  <1>4. ASSUME NEW n \in Lofts, NEW f \in FrameIds, TakenFrom(n, f) PROVE TakenOnce'
    <2>1. /\ f \in DOMAIN buf[n] /\ f \notin DOMAIN buf'[n]
          /\ taken' = [taken EXCEPT ![Frame(n, f)] = @ + 1] /\ taken[Frame(n, f)] = 0
      BY <1>4 DEF TakenFrom
    <2>2. \A j \in Lofts : \A g \in DOMAIN buf'[j] : Frame(j, g) # Frame(n, f)
      BY <2>1 DEF Frame, Pod
    <2> QED BY <1>1, <1>2, <2>1, <2>2
  <1> QED BY <1>3, <1>4, PayloadsMove DEF Handles, Handled

(* A frame gets its token when it comes in, never later. *)
LEMMA TokenedStays ==
  ASSUME TypeOK, ConnsSound, Step, NEW p, NEW f, Tokened(p, f)'
  PROVE  Tokened(p, f) \/ \E n \in Edges : p = Pod(n) /\ f = nextFID[n]
  <1>1. ASSUME NEW k \in DOMAIN owner', owner'[k] = p, f \in Range(up'[k])
        PROVE  Tokened(p, f) \/ \E n \in Edges : p = Pod(n) /\ f = nextFID[n]
    BY <1>1, TokensMove, OwnerStays DEF Tokened
  <1>2. ASSUME NEW s \in Entries', owner'[remote'[s].conn] = p, remote'[s].fid = f
        PROVE  Tokened(p, f)
    <2>1. CASE s \in Entries /\ s \in DOMAIN remote /\ remote'[s] = remote[s]
      BY <1>2, <2>1, OwnerStays, TypeFacts DEF Tokened, ConnsSound
    <2>2. ASSUME NEW k \in serving, NEW g \in FrameIds, BooksIt(k, g), remote'[s] = [conn |-> k, fid |-> g]
          PROVE  Tokened(p, f)
      <3>1. k \in DOMAIN owner /\ g \in Range(up[k]) /\ owner' = owner
        BY <2>2, TypeFacts DEF BooksIt, Arrives
      <3> QED BY <1>2, <2>2, <3>1 DEF Tokened
    <2> QED BY <2>1, <2>2, EntriesMove
  <1> QED BY <1>1, <1>2 DEF Tokened

(* Hence one that lost it never has one again. *)
LEMMA NotTokenedStays ==
  ASSUME TypeOK, ConnsSound, Step, NEW p, NEW f, Given(p, f), ~Tokened(p, f)
  PROVE  ~Tokened(p, f)'
  BY TokenedStays, Fresh, TypeFacts

(* The gateway's own frames need no token. *)
LEMMA GatewayNotTokened ==
  ASSUME TypeOK, ConnsSound, NEW f
  PROVE  ~Tokened(Pod(Gateway), f)
  BY TypeFacts DEF Tokened, Entries, Pod, ConnsSound

(* What a loft consumes has no token left. *)
LEMMA ConsumesSettled ==
  ASSUME TypeOK, ConnsSound, Settled, NEW n \in Lofts, NEW f, NEW p, Handles(n, f, p, "deliver")
  PROVE  ~Tokened(Pod(n), f)
  <1>1. CASE n = Gateway
    BY <1>1, GatewayNotTokened
  <1>2. ASSUME n \in Edges, trunk[n] # None, NEW m \in Range(down[trunk[n]]), m.fid = f, m.t # "drop",
               KindOf(m.t) = "deliver"
        PROVE  ~Tokened(Pod(n), f)
    <2>1. m.t \in {"deliver", "push"}
      BY <1>2 DEF KindOf
    <2>2. trunk[n] \in DOMAIN owner /\ owner[trunk[n]] = Pod(n)
      BY <1>2 DEF ConnsSound
    <2> QED BY <1>2, <2>1, <2>2 DEF Settled
  <1> QED BY <1>1, <1>2 DEF Handles

(* The parts of SettledKeeps: what was consumed, *)
LEMMA TakenSettled ==
  ASSUME TypeOK, ConnsSound, IdsGiven, Settled, Step, NEW fr \in Frames, taken'[fr] # 0
  PROVE  ~Tokened(fr.pod, fr.fid)'
  <1>1. Given(fr.pod, fr.fid) /\ ~Tokened(fr.pod, fr.fid)
    <2>1. CASE taken[fr] # 0
      BY <2>1 DEF IdsGiven, Settled
    <2>2. ASSUME NEW n \in Lofts, NEW f \in FrameIds, NEW p \in Lofts \cup {None},
                 NEW t \in {"deliver", "copy", "drop"}, Handles(n, f, p, t), taken[fr] = 0
          PROVE  Given(fr.pod, fr.fid) /\ ~Tokened(fr.pod, fr.fid)
      <3>1. taken' # taken
        BY <2>2
      <3>2. t = "deliver" /\ f \in DOMAIN buf[n] /\ taken' = [taken EXCEPT ![Frame(n, f)] = @ + 1]
        BY <2>2, <3>1 DEF Handles, Handled, TakenFrom
      <3>3. fr = Frame(n, f)
        BY <2>2, <3>2 DEF TypeOK
      <3> QED BY <2>2, <3>2, <3>3, HandledFrames, ConsumesSettled DEF Frame
    <2> QED BY <2>1, <2>2, PayloadsMove
  <1> QED BY <1>1, NotTokenedStays

(* what an instruction will consume, *)
LEMMA InstructionsSettled ==
  ASSUME TypeOK, ConnsSound, IdsGiven, Settled, Step, NEW k \in DOMAIN owner',
         NEW m \in Range(down'[k]), m.t \in {"deliver", "push"}
  PROVE  ~Tokened(owner[k], m.fid)'
  <1>1. k \in DOMAIN owner /\ owner'[k] = owner[k]
    BY InstructionsMove, OwnerStays
  <1>2. CASE m \in Range(down[k])
    <2>1. ~Tokened(owner[k], m.fid)'
      <3>1. ~Tokened(owner[k], m.fid) /\ Given(owner[k], m.fid)
        BY <1>1, <1>2 DEF Settled, IdsGiven
      <3>2. \A p : p = owner[k] => ~Tokened(p, m.fid)'
        BY <3>1, NotTokenedStays
      <3> QED BY <1>1, <3>2 DEF Tokened
    <2> QED BY <2>1
  <1>3. CASE ActsOnEdge /\ k = acting.rf.conn /\ m.fid = acting.rf.fid /\ KindOf(m.t) = acting.t
    <2>1. /\ acting.t = "deliver" /\ acting.rf.conn # None /\ acting.fid \notin Entries'
          /\ owner' = owner /\ up' = up
          /\ \A s \in Entries' : s \in DOMAIN remote /\ remote'[s] = remote[s]
      BY <1>3 DEF ActsOnEdge, SameVerdict, Entries, KindOf, elsewhere
    <2>2. \A j \in DOMAIN owner : owner[j] = owner[k] => m.fid \notin Range(up[j])
      BY <1>3, <2>1 DEF Settled
    <2>3. \A s \in DOMAIN remote : owner[remote[s].conn] = owner[k] /\ remote[s].fid = m.fid => s = acting.fid
      BY <1>3, <2>1 DEF Settled
    <2> QED BY <2>1, <2>2, <2>3 DEF Tokened
  <1> QED BY <1>2, <1>3, InstructionsMove

(* what the verdict under way is about, *)
LEMMA ActingSettled ==
  ASSUME TypeOK, ConnsSound, IdsGiven, TokensOnce, Settled, Step, acting'.t # "idle", acting'.rf.conn # None
  PROVE  /\ \A k \in DOMAIN owner' : owner'[k] = owner'[acting'.rf.conn] =>
              acting'.rf.fid \notin Range(up'[k])
         /\ \A s \in DOMAIN remote' :
              owner'[remote'[s].conn] = owner'[acting'.rf.conn] /\ remote'[s].fid = acting'.rf.fid =>
                s = acting'.fid /\ remote'[s] = acting'.rf
  <1>1. CASE SameVerdict /\ acting.t # "idle"
    <2> USE DEF SameVerdict
    <2> DEFINE c == acting.rf.conn
               g == acting.rf.fid
    <2>1. c \in DOMAIN owner /\ owner'[c] = owner[c] /\ Given(owner[c], g)
      BY <1>1, OwnerStays DEF ConnsSound, IdsGiven
    <2>2. /\ \A k \in DOMAIN owner : owner[k] = owner[c] => g \notin Range(up[k])
          /\ \A s \in DOMAIN remote :
               owner[remote[s].conn] = owner[c] /\ remote[s].fid = g => s = acting.fid /\ remote[s] = acting.rf
      BY <1>1 DEF Settled
    <2>3. \A n \in Edges : Pod(n) = owner[c] => g # nextFID[n]
      BY <2>1, Fresh, TypeFacts
    <2>4. ASSUME NEW k \in DOMAIN owner', owner'[k] = owner'[c] PROVE g \notin Range(up'[k])
      BY <2>1, <2>2, <2>3, <2>4, TokensMove, OwnerStays
    <2>5. ASSUME NEW s \in DOMAIN remote', owner'[remote'[s].conn] = owner'[c], remote'[s].fid = g
          PROVE  s = acting.fid /\ remote'[s] = acting.rf
      <3>1. CASE s \in DOMAIN remote /\ remote'[s] = remote[s]
        BY <2>1, <2>2, <2>5, <3>1, OwnerStays, TypeFacts DEF ConnsSound
      <3>2. ASSUME NEW k \in serving, NEW f \in FrameIds, BooksIt(k, f), remote'[s] = [conn |-> k, fid |-> f]
            PROVE  FALSE
        BY <2>1, <2>2, <2>5, <3>2, BooksOne
      <3> QED BY <3>1, <3>2, BookMoves
    <2> QED BY <1>1, <2>4, <2>5
  <1>2. ASSUME NEW t \in {"deliver", "copy", "drop"}, NEW dst \in {Gateway} \cup DOMAIN owner,
               NEW f \in FrameIds, Decides(t, dst, f)
        PROVE  /\ \A k \in DOMAIN owner' : owner'[k] = owner'[acting'.rf.conn] =>
                    acting'.rf.fid \notin Range(up'[k])
               /\ \A s \in DOMAIN remote' :
                    owner'[remote'[s].conn] = owner'[acting'.rf.conn] /\ remote'[s].fid = acting'.rf.fid =>
                      s = acting'.fid /\ remote'[s] = acting'.rf
    <2>1. /\ acting'.fid = f /\ UNCHANGED <<owner, up, remote>>
          /\ acting'.rf = IF f \in DOMAIN remote THEN remote[f] ELSE [conn |-> None, fid |-> f]
      BY <1>2 DEF Decides
    <2>2. f \in DOMAIN remote /\ acting'.rf = remote[f]
      BY <2>1
    <2> QED BY <2>1, <2>2 DEF TokensOnce
  <1> QED BY <1>1, <1>2, ActingMoves

(* and what is delivered. *)
LEMMA DeliveriesTaken ==
  ASSUME TypeOK, ConnsSound, IdsGiven, Settled, Step
  PROVE  /\ \A s, d \in Lofts : \A m \in Range(wire'[s][d]) : m.kind = "deliver" => taken'[m.frame] # 0
         /\ \A d \in got' : d[3] = "deliver" => taken'[d[1]] # 0
  <1>1. ASSUME NEW s \in Lofts, NEW d \in Lofts, NEW m \in Range(wire[s][d])
        PROVE  m.frame \in Frames /\ (m.kind = "deliver" => taken'[m.frame] # 0)
    <2>1. wire[s][d] \in Seq(Injects)
      BY DEF TypeOK
    <2>2. m \in Injects
      BY <2>1, Member
    <2>3. m.frame \in Frames
      BY <2>2 DEF Injects
    <2> QED BY <2>3, TakenGrows DEF Settled
  <1>2. ASSUME NEW d \in got, d[3] = "deliver" PROVE taken'[d[1]] # 0
    <2>1. d[1] \in Frames
      BY DEF TypeOK
    <2> QED BY <1>2, <2>1, TakenGrows DEF Settled
  <1>3. ASSUME NEW n \in Lofts, NEW f \in FrameIds, TakenFrom(n, f) PROVE taken'[Frame(n, f)] # 0
    BY <1>3, FrameTyped DEF TakenFrom, TypeOK
  <1>4. ASSUME NEW n \in Lofts, NEW f \in FrameIds, NEW p \in Lofts \cup {None},
               NEW t \in {"deliver", "copy", "drop"}, Handles(n, f, p, t)
        PROVE  /\ \A s, d \in Lofts : \A m \in Range(wire'[s][d]) : m.kind = "deliver" => taken'[m.frame] # 0
               /\ \A d \in got' : d[3] = "deliver" => taken'[d[1]] # 0
    BY <1>1, <1>2, <1>3, <1>4 DEF Handles, Handled
  <1>5. ASSUME \A s, d \in Lofts : Range(wire'[s][d]) \subseteq Range(wire[s][d])
        PROVE  \A s, d \in Lofts : \A m \in Range(wire'[s][d]) : m.kind = "deliver" => taken'[m.frame] # 0
    BY <1>1, <1>5
  <1>6. ASSUME NEW s \in Lofts, NEW d \in Lofts, NEW m \in Range(wire[s][d]),
               got' = got \cup {<<m.frame, Pod(d), m.kind>>}
        PROVE  \A g \in got' : g[3] = "deliver" => taken'[g[1]] # 0
    BY <1>1, <1>2, <1>6
  <1>7. ASSUME got' = got PROVE \A d \in got' : d[3] = "deliver" => taken'[d[1]] # 0
    BY <1>2, <1>7
  <1> QED BY <1>4, <1>5, <1>6, <1>7, PayloadsMove

(* Every step keeps Settled. *)
LEMMA SettledKeeps ==
  ASSUME TypeOK, ConnsSound, IdsGiven, TokensOnce, Settled, Step
  PROVE  Settled'
  BY TakenSettled, InstructionsSettled, ActingSettled, DeliveriesTaken DEF Settled

-----------------------------------------------------------------------------
(* What was ordered.                                                       *)

(* Orders are never forgotten, *)
LEMMA OrdersStay ==
  ASSUME Step
  PROVE  ordered \subseteq ordered'
  BY DEF Step, Loses, ActsAtGateway, ActsOnEdge, Dials, Restarts, ReadsInstruction, Ingests, Expires,
         Ends, Refuses, BooksIt, Arrives, ReadsInject, Decides, elsewhere, history

(* nor do they stop to be for a port when its loft restarts. *)
LEMMA OrderedStays ==
  ASSUME TypeOK, Step, NEW fr, NEW kind, NEW p \in Lofts \cup {None}, Ordered(fr, kind, p)
  PROVE  Ordered(fr, kind, p)'
  <1>1. PICK o \in ordered : /\ o[1] = fr /\ o[3] = kind
                             /\ p # None => o[2][1] = p /\ o[2][2] <= boot[p]
    BY DEF Ordered
  <1>2. o[2][2] \in Nat
    BY MeshAssumption DEF TypeOK, Pods
  <1>3. p # None => o[2][2] <= boot'[p]
    BY <1>1, <1>2, NextGrows, TypeFacts
  <1> QED BY <1>1, <1>3, OrdersStay DEF Ordered

(* The pod behind a port that was looked up is of the loft's life now, or  *)
(* of an earlier one.                                                      *)
LEMMA PodBehindFacts ==
  ASSUME TypeOK, ConnsSound, NEW dst \in {Gateway} \cup DOMAIN owner
  PROVE  PodBehind(dst)[1] \in Lofts /\ PodBehind(dst)[2] <= boot[PodBehind(dst)[1]]
  BY TypeFacts DEF PodBehind, Pod, ConnsSound

(* What a loft delivers or copies was ordered. *)
LEMMA HandlesOrdered ==
  ASSUME TypeOK, ConnsSound, AsOrdered, NEW n \in Lofts, NEW f, NEW p, NEW t, t # "drop", Handles(n, f, p, t)
  PROVE  Ordered(Frame(n, f), t, p)
  <1>1. CASE /\ ActsAtGateway /\ n = Gateway /\ f = acting.fid /\ t = acting.t
             /\ p # None => p = PodBehind(acting.dst)[1]
    <2>1. acting.t \notin {"idle", "sent"} /\ acting.rf.conn = None
      BY <1>1 DEF ActsAtGateway
    <2>2. <<Frame(Gateway, acting.fid), PodBehind(acting.dst), acting.t>> \in ordered
      BY <1>1, <2>1 DEF AsOrdered
    <2>3. PodBehind(acting.dst)[2] <= boot[PodBehind(acting.dst)[1]]
      BY <2>1, PodBehindFacts DEF ConnsSound
    <2> QED BY <1>1, <2>2, <2>3 DEF Ordered
  <1>2. ASSUME n \in Edges, trunk[n] # None, NEW m \in Range(down[trunk[n]]), m.fid = f, m.port = p,
               m.t # "drop", t = KindOf(m.t)
        PROVE  Ordered(Frame(n, f), t, p)
    <2>1. trunk[n] \in DOMAIN owner /\ FrameOf(trunk[n], f) = Frame(n, f)
      BY <1>2 DEF ConnsSound, FrameOf, Frame
    <2> QED BY <1>2, <2>1 DEF AsOrdered
  <1> QED BY <1>1, <1>2 DEF Handles

(* The parts of OrderedKeeps: the verdict under way, *)
LEMMA ActingOrdered ==
  ASSUME TypeOK, ConnsSound, AsOrdered, Step, acting'.t \notin {"idle", "drop", "sent"}
  PROVE  (<<IF acting.rf.conn # None THEN FrameOf(acting.rf.conn, acting.rf.fid)
            ELSE Frame(Gateway, acting.fid), PodBehind(acting.dst), acting.t>> \in ordered)'
  <1>1. CASE SameVerdict /\ acting.t # "idle" /\ acting'.t = acting.t
    <2> USE DEF SameVerdict
    <2>1. /\ acting.dst \in {Gateway} \cup DOMAIN owner
          /\ acting.rf.conn \in {None} \cup DOMAIN owner
      BY <1>1 DEF ConnsSound
    <2>2. acting.rf.conn # None => owner'[acting.rf.conn] = owner[acting.rf.conn]
      BY <2>1, OwnerStays
    <2>3. PodBehind(acting.dst)' = PodBehind(acting.dst)
      BY <1>1, <2>1, OwnerStays, NextGrows, TypeFacts DEF PodBehind, Pod
    <2>4. Frame(Gateway, acting.fid)' = Frame(Gateway, acting.fid)
      BY <1>1, NextGrows, TypeFacts DEF Frame, Pod
    <2> QED BY <1>1, <2>2, <2>3, <2>4, OrdersStay DEF AsOrdered, FrameOf
  <1>2. ASSUME NEW t \in {"deliver", "copy", "drop"}, NEW dst \in {Gateway} \cup DOMAIN owner,
               NEW f \in FrameIds, Decides(t, dst, f)
        PROVE  (<<IF acting.rf.conn # None THEN FrameOf(acting.rf.conn, acting.rf.fid)
                  ELSE Frame(Gateway, acting.fid), PodBehind(acting.dst), acting.t>> \in ordered)'
    <2>1. /\ acting'.fid = f /\ acting'.dst = dst /\ acting'.t = t /\ t # "drop"
          /\ acting'.rf = IF f \in DOMAIN remote THEN remote[f] ELSE [conn |-> None, fid |-> f]
          /\ UNCHANGED <<owner, boot>>
          /\ <<IF f \in DOMAIN remote THEN FrameOf(remote[f].conn, remote[f].fid) ELSE Frame(Gateway, f),
               PodBehind(dst), t>> \in ordered'
      BY <1>2 DEF Decides
    <2>2. acting'.rf.conn # None <=> f \in DOMAIN remote
      BY <2>1, TypeFacts
    <2>3. PodBehind(acting.dst)' = PodBehind(dst) /\ Frame(Gateway, acting.fid)' = Frame(Gateway, f)
      BY <2>1 DEF PodBehind, Pod, Frame
    <2>4. f \in DOMAIN remote =>
            FrameOf(acting.rf.conn, acting.rf.fid)' = FrameOf(remote[f].conn, remote[f].fid)
      BY <2>1 DEF FrameOf
    <2> QED BY <2>1, <2>2, <2>3, <2>4
  <1> QED BY <1>1, <1>2, ActingMoves

(* instructions, *)
LEMMA InstructionsOrdered ==
  ASSUME TypeOK, ConnsSound, AsOrdered, Step, NEW k \in DOMAIN owner', NEW m \in Range(down'[k]),
         m.t # "drop"
  PROVE  Ordered(FrameOf(k, m.fid), KindOf(m.t), m.port)'
  <1>1. k \in DOMAIN owner /\ owner'[k] = owner[k] /\ FrameOf(k, m.fid)' = FrameOf(k, m.fid)
    BY InstructionsMove, OwnerStays DEF FrameOf
  <1>2. CASE m \in Range(down[k])
    <2>1. down[k] \in Seq(Instrs)
      BY <1>1, TypeFacts DEF TypeOK
    <2>2. m \in Instrs
      BY <1>2, <2>1, Member
    <2>3. Ordered(FrameOf(k, m.fid), KindOf(m.t), m.port) /\ m.port \in Lofts \cup {None}
      BY <1>1, <1>2, <2>2 DEF AsOrdered, Instrs
    <2>4. \A fr : fr = FrameOf(k, m.fid) => Ordered(fr, KindOf(m.t), m.port)'
      BY <2>3, OrderedStays
    <2> QED BY <1>1, <2>4 DEF Ordered
  <1>3. CASE /\ ActsOnEdge /\ k = acting.rf.conn /\ m.fid = acting.rf.fid /\ acting.t # "drop"
             /\ KindOf(m.t) = acting.t
             /\ m.port # None => m.port = PodBehind(acting.dst)[1]
    <2>1. acting.t \notin {"idle", "sent"} /\ acting.rf.conn # None /\ UNCHANGED <<ordered, boot>>
      BY <1>3 DEF ActsOnEdge, elsewhere
    <2>2. <<FrameOf(k, m.fid), PodBehind(acting.dst), KindOf(m.t)>> \in ordered
      BY <1>3, <2>1 DEF AsOrdered
    <2>3. PodBehind(acting.dst)[2] <= boot[PodBehind(acting.dst)[1]]
      BY <2>1, PodBehindFacts DEF ConnsSound
    <2> QED BY <1>1, <1>3, <2>1, <2>2, <2>3 DEF Ordered
  <1> QED BY <1>2, <1>3, InstructionsMove

(* The type of what was pushed. *)
LEMMA InjectFacts ==
  ASSUME TypeOK, NEW s \in Lofts, NEW d \in Lofts, NEW m \in Range(wire[s][d])
  PROVE  m.frame \in Frames /\ m.port \in Lofts \cup {None} /\ m.kind \in {"deliver", "copy"}
  <1>1. wire[s][d] \in Seq(Injects)
    BY DEF TypeOK
  <1>2. m \in Injects
    BY <1>1, Member
  <1> QED BY <1>2 DEF Injects

(* Some order is for this delivery. *)
Matched(d) == \E o \in ordered : d[1] = o[1] /\ d[3] = o[3] /\ d[2][1] = o[2][1] /\ d[2][2] >= o[2][2]

(* and payloads, pushed or delivered. *)
LEMMA DeliveriesOrdered ==
  ASSUME TypeOK, ConnsSound, AsOrdered, Step
  PROVE  /\ \A s, d \in Lofts : \A m \in Range(wire'[s][d]) : Ordered(m.frame, m.kind, m.port)'
         /\ DeliveredAsOrdered'
  <1>1. ASSUME NEW s \in Lofts, NEW d \in Lofts, NEW m \in Range(wire[s][d])
        PROVE  Ordered(m.frame, m.kind, m.port)'
    <2>1. Ordered(m.frame, m.kind, m.port) /\ m.port \in Lofts \cup {None}
      BY InjectFacts DEF AsOrdered
    <2> QED BY <2>1, OrderedStays
  <1>2. \A d \in got : Matched(d)'
    BY OrdersStay DEF AsOrdered, DeliveredAsOrdered, Matched
  <1>3. ASSUME NEW fr, NEW n \in Lofts, NEW kind, Ordered(fr, kind, n), UNCHANGED <<boot, ordered>>,
               NEW d, d = <<fr, Pod(n), kind>>
        PROVE  Matched(d)'
    <2>1. PICK o \in ordered : o[1] = fr /\ o[3] = kind /\ o[2][1] = n /\ o[2][2] <= boot[n]
      BY <1>3, TypeFacts DEF Ordered
    <2>2. ordered \subseteq Frames \X Pods \X {"deliver", "copy"}
      BY DEF TypeOK
    <2>3. o[2] \in Pods
      BY <2>2
    <2>4. o[2][2] \in Nat /\ boot[n] \in Nat
      BY <2>3, MeshAssumption, TypeFacts DEF Pods
    <2> QED BY <1>3, <2>1, <2>4 DEF Pod, Matched
  <1>4. ASSUME NEW n \in Lofts, NEW f \in FrameIds, NEW p \in Lofts \cup {None},
               NEW t \in {"deliver", "copy", "drop"}, Handles(n, f, p, t)
        PROVE  /\ \A s, d \in Lofts : \A m \in Range(wire'[s][d]) : Ordered(m.frame, m.kind, m.port)'
               /\ \A d \in got' : Matched(d)'
    <2>1. UNCHANGED <<boot, ordered>>
      BY <1>4 DEF Handles, elsewhere
    <2>2. t # "drop" => Ordered(Frame(n, f), t, p)
      BY <1>4, HandlesOrdered
    <2>3. ASSUME NEW s \in Lofts, NEW d \in Lofts, NEW m \in Range(wire'[s][d])
          PROVE  Ordered(m.frame, m.kind, m.port)'
      <3>1. \/ m \in Range(wire[s][d])
            \/ t # "drop" /\ m.frame = Frame(n, f) /\ m.port = p /\ m.kind = t
        BY <1>4 DEF Handles, Handled
      <3>2. CASE t # "drop" /\ m.frame = Frame(n, f) /\ m.port = p /\ m.kind = t
        BY <2>1, <2>2, <3>2 DEF Ordered
      <3> QED BY <1>1, <3>1, <3>2
    <2>4. \/ got' = got
          \/ t # "drop" /\ p = n /\ got' = got \cup {<<Frame(n, f), Pod(n), t>>}
      BY <1>4 DEF Handles, Handled
    <2>5. ASSUME t # "drop", p = n, NEW d, d = <<Frame(n, f), Pod(n), t>> PROVE Matched(d)'
      BY <1>3, <2>1, <2>2, <2>5
    <2> QED BY <1>2, <2>3, <2>4, <2>5
  <1>5. ASSUME NEW s \in Lofts, NEW d \in Lofts, NEW m \in Range(wire[s][d]), m.port = d,
               got' = got \cup {<<m.frame, Pod(d), m.kind>>}, UNCHANGED elsewhere
        PROVE  \A g \in got' : Matched(g)'
    <2>1. Ordered(m.frame, m.kind, d) /\ UNCHANGED <<boot, ordered>>
      BY <1>5 DEF AsOrdered, elsewhere
    <2>2. \A g : g = <<m.frame, Pod(d), m.kind>> => Matched(g)'
      BY <1>3, <2>1
    <2> QED BY <1>2, <1>5, <2>2
  <1>6. /\ \A s, d \in Lofts : \A m \in Range(wire'[s][d]) : Ordered(m.frame, m.kind, m.port)'
        /\ \A d \in got' : Matched(d)'
    <2>1. CASE \E n \in Lofts, f \in FrameIds, p \in Lofts \cup {None}, t \in {"deliver", "copy", "drop"} :
                 Handles(n, f, p, t)
      BY <1>4, <2>1
    <2>2. ASSUME \A s, d \in Lofts : Range(wire'[s][d]) \subseteq Range(wire[s][d])
          PROVE  \A s, d \in Lofts : \A m \in Range(wire'[s][d]) : Ordered(m.frame, m.kind, m.port)'
      BY <1>1, <2>2
    <2>3. ASSUME got' = got PROVE \A d \in got' : Matched(d)'
      BY <1>2, <2>3
    <2> QED BY <1>5, <2>1, <2>2, <2>3, PayloadsMove
  <1> QED BY <1>6 DEF DeliveredAsOrdered, Matched

(* Every step keeps AsOrdered. *)
LEMMA OrderedKeeps ==
  ASSUME TypeOK, ConnsSound, AsOrdered, Step
  PROVE  AsOrdered'
  BY ActingOrdered, InstructionsOrdered, DeliveriesOrdered DEF AsOrdered

-----------------------------------------------------------------------------
(* What was counted.                                                       *)

(* A connection that the gateway no longer serves is never served again. *)
LEMMA ServingMoves ==
  ASSUME TypeOK, Step, NEW k \in DOMAIN owner, k \notin serving
  PROVE  k \notin serving'
  <1>1. CASE \E e \in Edges : Dials(e)
    <2>1. PICK e \in Edges, j \in Conns \ DOMAIN owner : serving' = serving \cup {j}
      BY <1>1 DEF Dials
    <2> QED BY <2>1
  <1>2. CASE \E j \in Conns : Ends(j)
    BY <1>2 DEF Ends
  <1>3. CASE serving' = serving
    BY <1>3
  <1> QED BY <1>1, <1>2, <1>3
          DEF Step, Loses, ActsAtGateway, ActsOnEdge, Restarts, ReadsInstruction, Ingests, Expires,
              Refuses, BooksIt, Arrives, ReadsInject, Decides, elsewhere

(* An excused frame stays excused. *)
LEMMA ExcusedStays ==
  ASSUME Step, NEW fr, Excused(fr)
  PROVE  Excused(fr)'
  <1>1. torn \subseteq torn'
    BY DEF Step, Loses, ActsAtGateway, ActsOnEdge, Dials, Restarts, ReadsInstruction, Ingests, Expires,
           Ends, Refuses, BooksIt, Arrives, ReadsInject, Decides, elsewhere, history
  <1> QED BY <1>1, OrdersStay DEF Copied, Excused

(* A doomed frame stays doomed, as long as its loft lives. *)
LEMMA DoomedStays ==
  ASSUME TypeOK, ConnsSound, Step, NEW n \in Lofts, NEW f, boot'[n] = boot[n], Given(Pod(n), f), Doomed(n, f)
  PROVE  Doomed(n, f)'
  <1>1. Pod(n)' = Pod(n)
    BY DEF Pod
  <1>2. ~Tokened(Pod(n), f)'
    <2>1. \A p : p = Pod(n) => ~Tokened(p, f)'
      BY NotTokenedStays DEF Doomed
    <2> QED BY <1>1, <2>1 DEF Tokened
  <1>3. ASSUME NEW k \in DOMAIN owner', owner'[k] = Pod(n), NEW m \in Range(down'[k]),
               m.t \in {"deliver", "push"}, m.fid = f
        PROVE  FALSE
    <2>1. k \in DOMAIN owner /\ owner[k] = Pod(n)
      BY <1>3, InstructionsMove, OwnerStays
    <2>2. m \notin Range(down[k])
      BY <1>3, <2>1 DEF Doomed
    <2>3. /\ k = acting.rf.conn /\ k \in serving /\ f = acting.rf.fid
          /\ acting.t # "drop" /\ KindOf(m.t) = acting.t
      BY <1>3, <2>2, InstructionsMove
    <2> QED BY <1>3, <2>1, <2>3 DEF Doomed, KindOf
  <1>4. ASSUME NEW k \in DOMAIN owner', owner'[k] = Pod(n), acting'.t = "deliver", acting'.rf.conn = k,
               acting'.rf.fid = f
        PROVE  k \notin serving'
    <2>1. CASE SameVerdict /\ acting.t # "idle" /\ acting'.t = acting.t
      <3> USE DEF SameVerdict
      <3>1. k \in DOMAIN owner \/ k \in Conns
        BY DEF Step, Loses, ActsAtGateway, ActsOnEdge, Dials, Restarts, ReadsInstruction, Ingests, Expires,
               Ends, Refuses, BooksIt, Arrives, ReadsInject, Decides, elsewhere
      <3>2. k \in DOMAIN owner
        BY <1>4, <2>1, <3>1, TypeFacts DEF ConnsSound
      <3> QED BY <1>4, <2>1, <3>2, ServingMoves, OwnerStays DEF Doomed
    <2>2. ASSUME NEW t \in {"deliver", "copy", "drop"}, NEW dst \in {Gateway} \cup DOMAIN owner,
                 NEW g \in FrameIds, Decides(t, dst, g)
          PROVE  FALSE
      <3>1. /\ owner' = owner /\ acting.t = "idle"
            /\ acting'.rf = IF g \in DOMAIN remote THEN remote[g] ELSE [conn |-> None, fid |-> g]
        BY <2>2 DEF Decides
      <3>2. g \in DOMAIN remote /\ remote[g].conn = k /\ remote[g].fid = f
        BY <1>4, <3>1, TypeFacts
      <3>3. Tokened(Pod(n), f)
        BY <1>4, <3>1, <3>2 DEF Tokened, Entries
      <3> QED BY <3>3 DEF Doomed
    <2> QED BY <1>4, <2>1, <2>2, ActingMoves
  <1> QED BY <1>1, <1>2, <1>3, <1>4 DEF Doomed

(* No doomed frame is consumed. *)
LEMMA HandlesDoomed ==
  ASSUME TypeOK, ConnsSound, NEW n \in Lofts, NEW f, NEW p, Handles(n, f, p, "deliver")
  PROVE  ~Doomed(n, f)
  <1>1. ASSUME trunk[n] # None, n \in Edges, NEW m \in Range(down[trunk[n]]), m.fid = f,
               "deliver" = KindOf(m.t)
        PROVE  ~Doomed(n, f)
    <2>1. trunk[n] \in DOMAIN owner /\ owner[trunk[n]] = Pod(n) /\ m.t \in {"deliver", "push"}
      BY <1>1 DEF ConnsSound, KindOf
    <2> QED BY <1>1, <2>1 DEF Doomed
  <1> QED BY <1>1 DEF Handles, Doomed

(* What a drop counter may rise for: a frame that is still in its buffer,  *)
(* or one that is booked for a trunk that ends.                            *)
LEMMA CountedMoves ==
  ASSUME TypeOK, ConnsSound, Step, NEW fr \in counted', fr \notin counted
  PROVE  \/ \E n \in Lofts, f \in FrameIds, p \in Lofts \cup {None}, t \in {"deliver", "copy", "drop"} :
              /\ Handles(n, f, p, t) /\ f \in DOMAIN buf[n] /\ fr = Frame(n, f)
              /\ t = "copy" \/ f \notin DOMAIN buf'[n]
         \/ \E k \in DOMAIN owner, g \in DOMAIN remote :
              Ends(k) /\ remote[g].conn = k /\ fr = FrameOf(k, remote[g].fid)
  <1>1. ASSUME NEW n \in Lofts, NEW f \in FrameIds, NEW p \in Lofts \cup {None},
               NEW t \in {"deliver", "copy", "drop"}, Handles(n, f, p, t)
        PROVE  f \in DOMAIN buf[n] /\ fr = Frame(n, f) /\ (t = "copy" \/ f \notin DOMAIN buf'[n])
    <2>1. \/ counted' = counted
          \/ /\ f \in DOMAIN buf[n] /\ counted' = counted \cup {Frame(n, f)}
             /\ t = "copy" \/ f \notin DOMAIN buf'[n]
      BY <1>1 DEF Handles, Handled
    <2> QED BY <2>1
  <1>2. ASSUME NEW k \in Conns, Ends(k)
        PROVE  \E g \in DOMAIN remote : k \in DOMAIN owner /\ remote[g].conn = k /\ fr = FrameOf(k, remote[g].fid)
    <2>1. PICK g \in OfConn(k) : fr = FrameOf(k, remote[g].fid)
      BY <1>2 DEF Ends
    <2> QED BY <2>1, TypeFacts DEF OfConn, ConnsSound
  <1>3. CASE \E n \in Lofts, f \in FrameIds, p \in Lofts \cup {None}, t \in {"deliver", "copy", "drop"} :
               Handles(n, f, p, t)
    BY <1>1, <1>3
  <1>4. CASE \E k \in Conns : Ends(k)
    BY <1>2, <1>4
  <1> QED BY <1>3, <1>4, PayloadsMove

(* No consumed frame is counted any more, but the one that is excused for  *)
(* its trunk's end.                                                        *)
LEMMA CountedNotTaken ==
  ASSUME TypeOK, ConnsSound, TakenOnce, Settled, Step, NEW fr \in Frames, fr \in counted', fr \notin counted
  PROVE  taken[fr] = 0 \/ fr \in torn'
  <1>1. ASSUME NEW k \in DOMAIN owner, NEW g \in DOMAIN remote, Ends(k), remote[g].conn = k,
               fr = FrameOf(k, remote[g].fid)
        PROVE  taken[fr] = 0 \/ fr \in torn'
    <2>1. CASE g \in Entries
      <3>1. Tokened(fr.pod, fr.fid)
        BY <1>1, <2>1 DEF FrameOf, Tokened
      <3> QED BY <3>1 DEF Settled
    <2>2. CASE g \notin Entries
      BY <1>1, <2>2 DEF Ends, OfConn
    <2> QED BY <2>1, <2>2
  <1>2. ASSUME NEW n \in Lofts, NEW f \in DOMAIN buf[n], fr = Frame(n, f) PROVE taken[fr] = 0
    BY <1>2 DEF TakenOnce
  <1> QED BY <1>1, <1>2, CountedMoves

(* The end of a trunk drops what was booked for it, and no order to        *)
(* deliver it can reach its loft any more.                                 *)
LEMMA EndDooms ==
  ASSUME TypeOK, ConnsSound, TokensOnce, Settled, NEW k \in DOMAIN owner, Ends(k), NEW g \in Entries,
         g \in DOMAIN remote, remote[g].conn = k, NEW n \in Lofts, owner[k] = Pod(n), NEW f, f = remote[g].fid
  PROVE  Doomed(n, f)'
  <1>1. /\ UNCHANGED <<owner, up, down, acting, boot>> /\ serving' = serving \ {k}
        /\ DOMAIN remote' = DOMAIN remote \ OfConn(k) /\ \A s \in DOMAIN remote' : remote'[s] = remote[s]
    BY DEF Ends
  <1>2. n # Gateway /\ Pod(n)' = Pod(n)
    BY <1>1, TypeFacts DEF Pod
  <1>3. g \notin DOMAIN remote' /\ Tokened(Pod(n), f)
    BY <1>1 DEF OfConn, Tokened
  <1>4. ASSUME NEW j \in DOMAIN owner, owner[j] = Pod(n) PROVE f \notin Range(up[j])
    BY <1>4 DEF TokensOnce
  <1>5. ASSUME NEW s \in Entries', owner[remote[s].conn] = Pod(n), remote[s].fid = f PROVE FALSE
    BY <1>1, <1>3, <1>5 DEF TokensOnce, Entries
  <1>6. ~Tokened(Pod(n), f)'
    BY <1>1, <1>2, <1>4, <1>5 DEF Tokened, Entries
  <1>7. ASSUME NEW j \in DOMAIN owner, owner[j] = Pod(n), NEW m \in Range(down[j]), m.t \in {"deliver", "push"}
        PROVE  m.fid # f
    BY <1>3, <1>7 DEF Settled
  <1>8. ASSUME NEW j \in DOMAIN owner, owner[j] = Pod(n), acting.t = "deliver", acting.rf.conn = j,
               acting.rf.fid = f
        PROVE  j = k
    <2>1. acting.t # "idle" /\ acting.rf.conn # None
      BY <1>8, TypeFacts
    <2>2. remote[g] = acting.rf
      BY <1>8, <2>1 DEF Settled
    <2> QED BY <1>8, <2>2
  <1> QED BY <1>1, <1>2, <1>6, <1>7, <1>8 DEF Doomed

(* A buffered frame that is counted is excused or doomed. *)
LEMMA BufferedCounted ==
  ASSUME TypeOK, ConnsSound, IdsGiven, TokensOnce, Settled, AsOrdered, CountedGone, Step,
         NEW n \in Lofts, NEW f \in DOMAIN buf'[n], NEW fr, fr = Frame(n, f), fr \in counted', boot'[n] = boot[n]
  PROVE  Excused(fr)' \/ Doomed(n, f)'
  <1>1. f \in DOMAIN buf[n] \/ (Ingests(n) /\ f = nextFID[n])
    BY BuffersMove
  <1>2. CASE Ingests(n) /\ f = nextFID[n]
    <2>1. fr \in counted /\ fr \in Frames
      BY <1>2 DEF Ingests, history, TypeOK
    <2>2. Given(Pod(n), f)
      BY <2>1 DEF IdsGiven, Frame
    <2> QED BY <1>2, <2>2, Fresh
  <1>3. CASE f \in DOMAIN buf[n] /\ fr \in counted
    <2>1. Excused(fr) \/ Doomed(n, f)
      BY <1>3 DEF CountedGone
    <2> QED BY <1>3, <2>1, ExcusedStays, DoomedStays, HandledFrames
  <1>4. CASE f \in DOMAIN buf[n] /\ fr \notin counted
    <2>1. ASSUME NEW j \in Lofts, NEW g \in FrameIds, NEW p \in Lofts \cup {None}, NEW t, Handles(j, g, p, t),
                 fr = Frame(j, g), t = "copy" \/ g \notin DOMAIN buf'[j]
          PROVE  Excused(fr)'
      <3>1. j = n /\ g = f
        BY <2>1 DEF Frame, Pod
      <3>2. t = "copy"
        BY <2>1, <3>1
      <3>3. Excused(fr)
        BY <2>1, <3>2, HandlesOrdered DEF Ordered, Copied, Excused
      <3> QED BY <3>3, ExcusedStays
    <2>2. ASSUME NEW k \in DOMAIN owner, NEW g \in DOMAIN remote, Ends(k), remote[g].conn = k,
                 fr = FrameOf(k, remote[g].fid)
          PROVE  Excused(fr)' \/ Doomed(n, f)'
      <3>1. owner[k] = Pod(n) /\ remote[g].fid = f
        BY <2>2 DEF Frame, FrameOf
      <3>2. g \notin Entries => fr \in torn'
        BY <2>2 DEF Ends, OfConn
      <3> QED BY <2>2, <3>1, <3>2, EndDooms DEF Excused
    <2> QED BY <1>4, <2>1, <2>2, CountedMoves
  <1> QED BY <1>1, <1>2, <1>3, <1>4

(* What a consuming handling counts is nothing, and what it handles was    *)
(* not counted, unless it is excused.                                      *)
LEMMA ConsumesCounted ==
  ASSUME TypeOK, ConnsSound, CountedGone, NEW n \in Lofts, NEW f \in DOMAIN buf[n], NEW p,
         Handles(n, f, p, "deliver"), Frame(n, f) \in counted
  PROVE  Excused(Frame(n, f))
  BY HandlesDoomed DEF CountedGone

(* Every step keeps CountedGone. *)
LEMMA CountedKeeps ==
  ASSUME TypeOK, TypeOK', ConnsSound, IdsGiven, TokensOnce, TakenOnce, Settled, AsOrdered, CountedGone, Step
  PROVE  CountedGone'
  <1>1. ASSUME NEW n \in Lofts, NEW f \in DOMAIN buf'[n], Frame(n, f)' \in counted'
        PROVE  Excused(Frame(n, f))' \/ Doomed(n, f)'
    <2>1. boot'[n] = boot[n]
      BY BuffersMove
    <2>2. Frame(n, f)' = Frame(n, f)
      BY <2>1 DEF Frame, Pod
    <2>3. \A fr : fr = Frame(n, f) => Excused(fr)' \/ Doomed(n, f)'
      BY <1>1, <2>1, <2>2, BufferedCounted
    <2> QED BY <2>2, <2>3 DEF Excused
  <1>2. ASSUME NEW fr \in Frames, fr \in counted', taken[fr] # 0, fr \in counted => Excused(fr)
        PROVE  Excused(fr)'
    BY <1>2, CountedNotTaken, ExcusedStays DEF Excused
  <1>3. ASSUME NEW n \in Lofts, NEW f \in FrameIds, f \in DOMAIN buf[n], NEW p,
               Handles(n, f, p, "deliver"), counted' = counted, NEW fr, fr = Frame(n, f), fr \in counted'
        PROVE  Excused(fr)'
    BY <1>3, ConsumesCounted, ExcusedStays
  <1>4. ASSUME NEW s \in Lofts, NEW d \in Lofts, NEW m \in Range(wire'[s][d]), m.kind = "deliver",
               m.frame \in counted'
        PROVE  Excused(m.frame)'
    <2>1. CASE m \in Range(wire[s][d])
      <3>1. m.frame \in Frames /\ taken[m.frame] # 0 /\ (m.frame \in counted => Excused(m.frame))
        BY <1>4, <2>1, InjectFacts DEF Settled, CountedGone
      <3> QED BY <1>2, <1>4, <3>1
    <2>2. ASSUME NEW n \in Lofts, NEW f \in FrameIds, NEW p \in Lofts \cup {None}, Handles(n, f, p, "deliver"),
                 f \in DOMAIN buf[n], counted' = counted, m.frame = Frame(n, f)
          PROVE  Excused(m.frame)'
      BY <1>3, <1>4, <2>2
    <2>3. ASSUME NEW n \in Lofts, NEW f \in FrameIds, NEW p \in Lofts \cup {None},
                 NEW t \in {"deliver", "copy", "drop"}, Handles(n, f, p, t), m \notin Range(wire[s][d])
          PROVE  Excused(m.frame)'
      <3>1. counted' = counted /\ f \in DOMAIN buf[n] /\ m.frame = Frame(n, f) /\ m.kind = t
        BY <2>3 DEF Handles, Handled
      <3> QED BY <1>4, <2>2, <2>3, <3>1
    <2> QED BY <2>1, <2>3, PayloadsMove
  <1>5. ASSUME NEW d \in got', d[3] = "deliver", d[1] \in counted'
        PROVE  Excused(d[1])'
    <2>1. CASE d \in got
      <3>1. d[1] \in Frames /\ taken[d[1]] # 0
        BY <1>5, <2>1 DEF Settled, TypeOK
      <3>2. d[1] \in counted => Excused(d[1])
        BY <1>5, <2>1 DEF CountedGone, OneFate, Arrived, Copied, Excused
      <3> QED BY <1>2, <1>5, <3>1, <3>2
    <2>2. ASSUME NEW n \in Lofts, NEW f \in FrameIds, NEW p \in Lofts \cup {None}, Handles(n, f, p, "deliver"),
                 f \in DOMAIN buf[n], counted' = counted, d = <<Frame(n, f), Pod(n), "deliver">>
          PROVE  Excused(d[1])'
      BY <1>3, <1>5, <2>2
    <2>3. ASSUME NEW s \in Lofts, NEW e \in Lofts, NEW m \in Range(wire[s][e]), counted' = counted,
                 d = <<m.frame, Pod(e), m.kind>>
          PROVE  Excused(d[1])'
      <3>1. m.kind = "deliver" /\ m.frame \in counted /\ d[1] = m.frame
        BY <1>5, <2>3
      <3> QED BY <3>1, ExcusedStays DEF CountedGone
    <2>4. ASSUME NEW n \in Lofts, NEW f \in FrameIds, NEW p \in Lofts \cup {None},
                 NEW t \in {"deliver", "copy", "drop"}, Handles(n, f, p, t), d \notin got
          PROVE  Excused(d[1])'
      <3>1. counted' = counted /\ f \in DOMAIN buf[n] /\ d = <<Frame(n, f), Pod(n), t>>
        BY <2>4 DEF Handles, Handled
      <3> QED BY <1>5, <2>2, <2>4, <3>1
    <2> QED BY <2>1, <2>3, <2>4, PayloadsMove
  <1> QED BY <1>1, <1>4, <1>5 DEF CountedGone, OneFate, Arrived, Copied, Excused

-----------------------------------------------------------------------------
(* The inductive invariant, and the theorems.                              *)

(* The inductive invariant. *)
MeshInv ==
  /\ TypeOK /\ ConnsSound /\ IdsGiven /\ TokensOnce
  /\ TakenOnce /\ Settled /\ AsOrdered /\ CountedGone

(* It holds initially, *)
LEMMA MeshInvInit ==
  Init => MeshInv
  <1> SUFFICES ASSUME Init PROVE MeshInv
    OBVIOUS
  <1>1. /\ owner = <<>> /\ DOMAIN owner = {} /\ remote = <<>> /\ DOMAIN remote = {} /\ acting.t = "idle"
        /\ \A n \in Lofts : buf[n] = <<>> /\ DOMAIN buf[n] = {} /\ boot[n] = 1 /\ nextFID[n] = 1
        /\ \A k \in Conns : up[k] = <<>> /\ down[k] = <<>> /\ Range(up[k]) = {} /\ Range(down[k]) = {}
                            /\ IsInjective(up[k])
        /\ \A s, d \in Lofts : wire[s][d] = <<>> /\ Range(wire[s][d]) = {}
        /\ \A e \in Edges : trunk[e] = None
        /\ shown = {} /\ serving = {} /\ got = {} /\ ordered = {} /\ counted = {} /\ torn = {} /\ registered = {}
        /\ taken = [f \in Frames |-> 0]
    BY DEF Init, Idle, Range, IsInjective
  <1>2. TypeOK
    <2>1. <<>> \in Buffers /\ <<>> \in Books
      <3> DEFINE b == <<>>
      <3>1. DOMAIN b = {} /\ b \in [{} -> BOOLEAN] /\ b \in [{} -> [conn : Conns, fid : FrameIds]]
        OBVIOUS
      <3> HIDE DEF b
      <3>2. b \in Buffers /\ b \in Books
        BY <3>1, IsBuffer, IsBook
      <3> QED BY <3>2 DEF b
    <2>2. MaxBoots \in Nat \ {0} /\ MaxFrames \in Nat /\ MaxConns \in Nat /\ MaxVerdicts \in Nat
      BY MeshAssumption
    <2>3. /\ boot \in [Lofts -> 1..MaxBoots] /\ nextFID \in [Lofts -> 1..(MaxFrames + 1)]
          /\ verdicts \in 0..MaxVerdicts
      BY <2>2 DEF Init
    <2>4. buf \in [Lofts -> Buffers] /\ remote \in Books
      BY <1>1, <2>1 DEF Init
    <2>5. /\ owner \in Seq(Edges \X (1..MaxBoots)) /\ Len(owner) <= MaxConns
          /\ up \in [Conns -> Seq(FrameIds)] /\ down \in [Conns -> Seq(Instrs)]
          /\ wire \in [Lofts -> [Lofts -> Seq(Injects)]]
      BY <2>2 DEF Init
    <2>6. taken \in [Frames -> Nat] /\ link \in [Lofts -> [Lofts -> {"none", "open", "stale"}]]
          /\ trunk \in [Edges -> Conns \cup {None}] /\ router \in BOOLEAN /\ acting \in Lookups \cup {Idle}
          /\ port \subseteq Lofts /\ broken \subseteq Conns
      BY DEF Init
    <2> QED BY <1>1, <2>3, <2>4, <2>5, <2>6 DEF TypeOK
  <1>3. ConnsSound /\ IdsGiven /\ TokensOnce
    BY <1>1 DEF ConnsSound, IdsGiven, TokensOnce
  <1>4. TakenOnce /\ Settled
    <2>1. \A n \in Lofts : \A f \in DOMAIN buf[n] : FALSE
      BY <1>1
    <2>2. \A fr \in Frames : taken[fr] = 0
      BY <1>1
    <2>3. TakenOnce
      BY <2>1, <2>2 DEF TakenOnce
    <2>4. Settled
      BY <1>1, <2>2 DEF Settled
    <2> QED BY <2>3, <2>4
  <1>5. AsOrdered /\ CountedGone
    BY <1>1 DEF AsOrdered, CountedGone, DeliveredAsOrdered, OneFate
  <1> QED BY <1>2, <1>3, <1>4, <1>5 DEF MeshInv

(* every step keeps it, *)
LEMMA MeshInvKeeps ==
  MeshInv /\ [Next]_vars => MeshInv'
  <1> SUFFICES ASSUME MeshInv, [Next]_vars PROVE MeshInv'
    OBVIOUS
  <1> USE DEF MeshInv
  <1>1. TypeOK' /\ Step
    BY StepKinds
  <1>2. ConnsSound'
    BY <1>1, ConnsKeep
  <1> QED BY <1>1, <1>2, IdsKeep, TokensKeep, TakenKeeps, SettledKeeps, OrderedKeeps, CountedKeeps

(* and so it always holds. *)
LEMMA MeshInvHolds ==
  Spec => []MeshInv
  BY MeshInvInit, MeshInvKeeps, PTL DEF Spec

(* The invariant implies the properties of MeshFrames. *)
LEMMA InvImplies ==
  ASSUME MeshInv
  PROVE  BookSound /\ ConsumedOnce /\ DeliveredAsOrdered /\ OneFate
  <1> USE DEF MeshInv
  <1>1. BookSound
    BY TypeFacts DEF BookSound, ConnsSound, TokensOnce
  <1>2. ConsumedOnce
    BY FrameTyped DEF ConsumedOnce, TakenOnce
  <1> QED BY <1>1, <1>2 DEF AsOrdered, CountedGone

(* Every reachable state is well typed. *)
THEOREM TypeInvariant ==
  Spec => []TypeOK
  BY MeshInvHolds, PTL DEF MeshInv

(* The gateway's book of remote frames is always sound: edgeGone, the      *)
(* verdicts and the sweep leave no entry behind for a trunk that ended,    *)
(* serveTrunk books no frame twice, and no id stands for two frames.       *)
THEOREM BooksAreSound ==
  Spec => []BookSound
  <1>1. MeshInv => BookSound
    BY InvImplies
  <1> QED BY <1>1, MeshInvHolds, PTL

(* A payload is consumed at most once, however many lofts restart, trunks  *)
(* break and verdicts cross, and a consumed frame is in no buffer.         *)
THEOREM PayloadConsumedOnce ==
  Spec => []ConsumedOnce
  <1>1. MeshInv => ConsumedOnce
    BY InvImplies
  <1> QED BY <1>1, MeshInvHolds, PTL

(* Every delivery that happens, by deliverLocal or servePeer, is one the   *)
(* router ordered, to that pod or the one that has its port id after a     *)
(* restart.                                                                *)
THEOREM DeliveriesWereOrdered ==
  Spec => []DeliveredAsOrdered
  <1>1. MeshInv => DeliveredAsOrdered
    BY InvImplies
  <1> QED BY <1>1, MeshInvHolds, PTL

(* No frame that was consumed by a delivery that arrived is counted as a   *)
(* drop as well - by either loft's sweep, dropLocal, edgeGone or a failed  *)
(* push - unless a copy of it was ordered too, or edgeGone counted it just *)
(* between the sending of its instruction and the deletion of its entry.   *)
THEOREM NoFrameHasTwoFates ==
  Spec => []OneFate
  <1>1. MeshInv => OneFate
    BY InvImplies
  <1> QED BY <1>1, MeshInvHolds, PTL
=============================================================================
