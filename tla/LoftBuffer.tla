----------------------------- MODULE LoftBuffer -----------------------------
(***************************************************************************)
(* The frame buffer of one loft: the map l.frames of loftd, from frame id  *)
(* to a bufFrame.  The payload is left out: every property speaks of a     *)
(* frame by its id.  The age of a frame is counted in sweeps of            *)
(* housekeeping (1 Hz), so BufTTL is bufTTL in seconds.                    *)
(***************************************************************************)
EXTENDS Naturals, FiniteSets

CONSTANTS
  MaxBuffered,  \* maxBuffered: frames a loft holds before it sheds load
  BufTTL        \* bufTTL: sweeps a frame survives undecided

ASSUME BufferAssumption == MaxBuffered \in Nat \ {0} /\ BufTTL \in Nat

(* A buffered frame: its ingress port, its age, and whether a copy of it   *)
(* has left the loft (bufFrame).                                           *)
BufFrame(portIds) == [port : portIds, age : 0..BufTTL, copied : BOOLEAN]

(* l.frames[fid] = &bufFrame{port: p.ID, data: data, added: time.Now()}    *)
Store(buf, fid, port) ==
  [g \in DOMAIN buf \cup {fid} |->
     IF g = fid THEN [port |-> port, age |-> 0, copied |-> FALSE] ELSE buf[g]]

(* delete(l.frames, fid), for every fid of a set.                          *)
Delete(buf, fids) == [g \in DOMAIN buf \ fids |-> buf[g]]

(* Mutant of MarkCopied: a copy-deliver forgets to mark the frame.         *)
MarkCopiedForgets(buf, fid) == buf

(* f.copied = true                                                         *)
MarkCopied(buf, fid) == [buf EXCEPT ![fid].copied = TRUE]

(* Mutant of Hand: a deliver leaves the frame in the buffer.               *)
HandKeeps(buf, fid, consume) == MarkCopied(buf, fid)

(* What a deliver (consume) or a copy-deliver leaves of the buffer.        *)
Hand(buf, fid, consume) ==
  IF consume THEN Delete(buf, {fid}) ELSE MarkCopied(buf, fid)

Full(buf) == Cardinality(DOMAIN buf) >= MaxBuffered

(* The hysteresis line under which an overflowing loft counts as drained.  *)
Drained(buf) == Cardinality(DOMAIN buf) < (MaxBuffered * 3) \div 4

(* now.Sub(f.added) > bufTTL at the next sweep.                            *)
Stale(buf) == {g \in DOMAIN buf : buf[g].age + 1 > BufTTL}

(* Mutant of Swept: the sweep rebuilds the frames and loses the flag.      *)
SweptUnmarks(buf) ==
  [g \in DOMAIN buf \ Stale(buf) |-> [buf[g] EXCEPT !.age = @ + 1, !.copied = FALSE]]

(* The buffer after a sweep: stale frames evicted, the others one older.   *)
Swept(buf) ==
  [g \in DOMAIN buf \ Stale(buf) |-> [buf[g] EXCEPT !.age = @ + 1]]
=============================================================================
