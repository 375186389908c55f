----------------------------- MODULE FloorProofs -----------------------------
(***************************************************************************)
(* Theorems about Pigeons, for every number of frames and restarts and all *)
(* sizes of flock, queue and floods (none of them depends on how large the *)
(* flock is, so that Full stays unexpanded); about Switch and Board, for   *)
(* all hosts, slots, ports and lanes and every size and time to live of    *)
(* the database; and about MCFloor, which explores the three.              *)
(***************************************************************************)
EXTENDS MCFloor, SequenceTheorems, FiniteSetTheorems, TLAPS

-----------------------------------------------------------------------------
(* Pigeons: what the operations do.                                        *)

(* A verdict is written down for its frame only, and never lost.           *)
LEMMA DecideFacts ==
  ASSUME NEW v \in [Frames -> 0..2], NEW f \in Frames
  PROVE  /\ Decide(v, f) \in [Frames -> 0..2]
         /\ Decide(v, f)[f] # 0
         /\ v[f] = 0 => Decide(v, f)[f] = 1
         /\ \A g \in Frames \ {f} : Decide(v, f)[g] = v[g]
  BY DEF Decide

(* A released reference is one reference less, and the last one a verdict. *)
LEMMA ReleaseFacts ==
  ASSUME TypeOK, NEW f \in Frames, Release(f)
  PROVE  /\ refs' \in [Frames -> Nat] /\ verdicts' \in [Frames -> 0..2]
         /\ \A g \in Frames \ {f} : refs'[g] = refs[g] /\ verdicts'[g] = verdicts[g]
         /\ refs[f] > 0 => refs'[f] = refs[f] - 1
         /\ refs[f] = 0 => refs'[f] = 0
         /\ refs'[f] = 0 => verdicts'[f] # 0
         /\ refs'[f] > 0 => verdicts'[f] = verdicts[f]
         /\ verdicts[f] = 0 => verdicts'[f] <= 1
         /\ verdicts'[f] = 0 => verdicts[f] = 0
  <1>1. CASE refs[f] > 1
    <2>1. refs' = [refs EXCEPT ![f] = refs[f] - 1] /\ verdicts' = verdicts
      BY <1>1 DEF Release
    <2>2. verdicts \in [Frames -> 0..2] /\ refs \in [Frames -> Nat] /\ refs[f] - 1 \in Nat \ {0}
      BY <1>1 DEF TypeOK
    <2> QED BY <2>1, <2>2
  <1>2. CASE ~(refs[f] > 1)
    <2>1. refs' = [refs EXCEPT ![f] = 0] /\ verdicts' = Decide(verdicts, f)
      BY <1>2 DEF Release
    <2>2. verdicts \in [Frames -> 0..2] /\ refs \in [Frames -> Nat]
      BY DEF TypeOK
    <2> QED BY <1>2, <2>1, <2>2, DecideFacts
  <1> QED BY <1>1, <1>2

(* The first of a queue, and the rest of it.                               *)
LEMMA QueueFacts ==
  ASSUME NEW S, NEW q \in Seq(S), q # <<>>
  PROVE  /\ Head(q) \in S /\ Tail(q) \in Seq(S)
         /\ Len(q) \in Nat \ {0} /\ Len(Tail(q)) = Len(q) - 1
         /\ Head(q) = q[1]
         /\ \A i \in 1..Len(Tail(q)) : Tail(q)[i] = q[i + 1]
  OBVIOUS

(* What an enqueued token leaves of the queue, in terms of positions: with *)
(* k = 0 the whole queue, with k = 1 all but its head.                     *)
LEMMA EnqueueFacts ==
  ASSUME TypeOK, Enqueue
  PROVE  /\ nextFID \in Frames /\ nextFID' \in 1..(MaxFrames + 1)
         /\ queue' \in Seq(Frames) /\ verdicts' \in [Frames -> 0..2]
         /\ \E k \in {0, 1} :
              /\ k <= Len(queue) /\ Len(queue') = Len(queue) + 1 - k
              /\ \A i \in 1..Len(queue') :
                   queue'[i] = IF i + k <= Len(queue) THEN queue[i + k] ELSE nextFID
              /\ k = 0 => verdicts' = [verdicts EXCEPT ![nextFID] = 0]
              /\ k = 1 => verdicts' = Decide([verdicts EXCEPT ![nextFID] = 0], queue[1])
  <1> DEFINE pushed == Append(queue, nextFID)
  <1> DEFINE fresh == [verdicts EXCEPT ![nextFID] = 0]
  <1> DEFINE Left(k) ==
        /\ k <= Len(queue) /\ Len(queue') = Len(queue) + 1 - k
        /\ \A i \in 1..Len(queue') :
             queue'[i] = IF i + k <= Len(queue) THEN queue[i + k] ELSE nextFID
        /\ k = 0 => verdicts' = [verdicts EXCEPT ![nextFID] = 0]
        /\ k = 1 => verdicts' = Decide([verdicts EXCEPT ![nextFID] = 0], queue[1])
  <1>1. /\ nextFID \in Frames /\ queue \in Seq(Frames) /\ fresh \in [Frames -> 0..2]
        /\ nextFID' = nextFID + 1 /\ Len(queue) \in Nat
    BY DEF Enqueue, TypeOK
  <1>2. nextFID' \in 1..(MaxFrames + 1)
    BY <1>1, PigeonsAssumption DEF Frames
  <1>3. /\ pushed \in Seq(Frames) /\ Len(pushed) = Len(queue) + 1
        /\ \A i \in 1..Len(pushed) :
             pushed[i] = IF i <= Len(queue) THEN queue[i] ELSE nextFID
    BY <1>1
  <1>4. CASE Len(pushed) > MaxQueue
    <2>1. queue' = Tail(pushed) /\ verdicts' = Decide(fresh, Head(pushed))
      BY <1>4 DEF Enqueue
    <2>2. Len(queue) >= 1
      BY <1>1, <1>3, <1>4, PigeonsAssumption
    <2>3. pushed # <<>>
      <3> HIDE DEF pushed
      <3> QED BY <1>1, <1>3
    <2>4. /\ Head(pushed) = queue[1] /\ queue[1] \in Frames
          /\ queue' \in Seq(Frames) /\ Len(queue') = Len(queue)
          /\ \A i \in 1..Len(queue') : queue'[i] = pushed[i + 1]
      BY <1>1, <1>3, <2>1, <2>2, <2>3, QueueFacts
    <2>5. verdicts' \in [Frames -> 0..2]
      BY <1>1, <2>1, <2>4, DecideFacts
    <2>6. \A i \in 1..Len(queue') :
            queue'[i] = IF i + 1 <= Len(queue) THEN queue[i + 1] ELSE nextFID
      BY <1>1, <1>3, <2>4
    <2>7. Len(queue') = Len(queue) + 1 - 1 /\ 1 <= Len(queue)
      BY <1>1, <2>2, <2>4
    <2>8. verdicts' = Decide(fresh, queue[1])
      BY <2>1, <2>4
    <2>9. Left(1)
      BY <2>6, <2>7, <2>8
    <2> HIDE DEF Left
    <2>10. \E k \in {0, 1} : Left(k)
      BY <2>9
    <2> QED BY <1>1, <1>2, <2>4, <2>5, <2>10 DEF Left
  <1>5. CASE ~(Len(pushed) > MaxQueue)
    <2>1. queue' = pushed /\ verdicts' = fresh
      BY <1>5 DEF Enqueue
    <2>2. Left(0)
      BY <1>1, <1>3, <2>1
    <2> HIDE DEF Left
    <2>3. \E k \in {0, 1} : Left(k)
      BY <2>2
    <2> QED BY <1>1, <1>2, <1>3, <2>1, <2>3 DEF Left
  <1> QED BY <1>4, <1>5

(* A token leaves the queue, for the floor or for good.                    *)
LEMMA SpawnFacts ==
  ASSUME TypeOK, NEW b \in BOOLEAN, Spawn(b)
  PROVE  /\ Head(queue) \in Frames /\ queue' \in Seq(Frames)
         /\ flock' \in [Frames -> Nat] /\ refs' \in [Frames -> Nat]
         /\ verdicts' \in [Frames -> 0..2]
         /\ \/ /\ flock' = [flock EXCEPT ![Head(queue)] = flock[Head(queue)] + 1]
               /\ refs' = [refs EXCEPT ![Head(queue)] = 1]
               /\ verdicts' = verdicts
            \/ /\ flock' = flock /\ refs' = refs
               /\ verdicts' = Decide(verdicts, Head(queue))
  <1>1. Head(queue) \in Frames /\ queue' \in Seq(Frames)
    BY QueueFacts DEF Spawn, TypeOK
  <1>2. CASE b
    <2>1. /\ flock' = [flock EXCEPT ![Head(queue)] = flock[Head(queue)] + 1]
          /\ refs' = [refs EXCEPT ![Head(queue)] = 1]
          /\ verdicts' = verdicts
      BY <1>2 DEF Spawn
    <2> QED BY <1>1, <2>1 DEF TypeOK
  <1>3. CASE ~b
    <2>1. flock' = flock /\ refs' = refs /\ verdicts' = Decide(verdicts, Head(queue))
      BY <1>3 DEF Spawn
    <2> QED BY <1>1, <2>1, DecideFacts DEF TypeOK
  <1> QED BY <1>2, <1>3

(* A clone is made, of a frame that is still held, or it is not.           *)
LEMMA CloneFacts ==
  ASSUME TypeOK, NEW b \in BOOLEAN, Clone(b)
  PROVE  /\ Head(backlog) \in Frames /\ backlog' \in Seq(Frames)
         /\ flock' \in [Frames -> Nat] /\ refs' \in [Frames -> Nat]
         /\ \/ /\ refs[Head(backlog)] > 0
               /\ flock' = [flock EXCEPT ![Head(backlog)] = flock[Head(backlog)] + 1]
               /\ refs' = [refs EXCEPT ![Head(backlog)] = refs[Head(backlog)] + 1]
            \/ flock' = flock /\ refs' = refs
  <1>1. Head(backlog) \in Frames /\ backlog' \in Seq(Frames)
    BY QueueFacts DEF Clone, TypeOK
  <1>2. CASE Clonable(Head(backlog), b)
    <2>1. /\ refs[Head(backlog)] > 0
          /\ flock' = [flock EXCEPT ![Head(backlog)] = flock[Head(backlog)] + 1]
          /\ refs' = [refs EXCEPT ![Head(backlog)] = refs[Head(backlog)] + 1]
      BY <1>2 DEF Clone, Clonable
    <2>2. flock \in [Frames -> Nat] /\ refs \in [Frames -> Nat]
      BY DEF TypeOK
    <2>3. flock' \in [Frames -> Nat]
      BY <1>1, <2>1, <2>2
    <2>4. refs' \in [Frames -> Nat]
      BY <1>1, <2>1, <2>2
    <2> QED BY <1>1, <2>1, <2>3, <2>4
  <1>3. CASE ~Clonable(Head(backlog), b)
    BY <1>1, <1>3 DEF Clone, TypeOK
  <1> QED BY <1>2, <1>3

-----------------------------------------------------------------------------
(* Type correctness.                                                       *)

(* The initial state is well typed.                                        *)
LEMMA InitType == Init => TypeOK
  BY PigeonsAssumption DEF Init, TypeOK, Frames

(* Every step keeps the types.                                             *)
LEMMA NextType == TypeOK /\ Covered /\ [Next]_vars => TypeOK'
  <1> SUFFICES ASSUME TypeOK, Covered, [Next]_vars PROVE TypeOK'
    OBVIOUS
  <1>1. CASE Enqueue
    <2>1. nextFID \in Frames /\ nextFID' \in 1..(MaxFrames + 1)
          /\ queue' \in Seq(Frames) /\ verdicts' \in [Frames -> 0..2]
      BY <1>1, EnqueueFacts
    <2>2. arrived' \subseteq Frames /\ spoiled' \subseteq Frames
      BY <1>1, <2>1 DEF Enqueue, TypeOK
    <2> QED BY <1>1, <2>1, <2>2 DEF Enqueue, TypeOK
  <1>2. CASE Restart
    <2>1. restarts' \in 0..MaxRestarts /\ nextFID' \in 1..(MaxFrames + 1)
      BY <1>2, PigeonsAssumption DEF Restart, TypeOK
    <2> QED BY <1>2, <2>1 DEF Restart, TypeOK
  <1>3. CASE Tick \/ TakeOff \/ TickDone
    BY <1>3 DEF Tick, TakeOff, TickDone, loftVars, TypeOK
  <1>4. ASSUME NEW b \in BOOLEAN, Spawn(b) PROVE TypeOK'
    BY <1>4, SpawnFacts DEF Spawn, loftVars, TypeOK
  <1>5. ASSUME NEW f \in Frames, NEW n \in 0..MaxAsked, Asks(f, n)
        PROVE  due' \in [Frames -> Nat] /\ backlog' \in Seq(Frames)
    <2>1. [i \in 1..n |-> f] \in Seq(Frames)
      BY PigeonsAssumption
    <2> QED BY <1>5, <2>1 DEF Asks, TypeOK
  <1>6. ASSUME NEW f \in Frames, NEW n \in 0..MaxAsked, FlyOn(f, n) PROVE TypeOK'
    BY <1>5, <1>6 DEF FlyOn, loftVars, TypeOK
  <1>7. ASSUME NEW f \in Frames, NEW n \in 0..MaxAsked, Depart(f, n) PROVE TypeOK'
    <2>1. due' \in [Frames -> Nat] /\ backlog' \in Seq(Frames)
      BY <1>5, <1>7 DEF Depart
    <2>2. flock' \in [Frames -> Nat]
      BY <1>7 DEF Depart, Asks, Covered, TypeOK
    <2>3. refs' \in [Frames -> Nat] /\ verdicts' \in [Frames -> 0..2]
      BY <1>7, ReleaseFacts DEF Depart
    <2> QED BY <1>7, <2>1, <2>2, <2>3 DEF Depart, loftVars, TypeOK
  <1>8. CASE RefuseClone
    <2>1. Head(backlog) \in Frames /\ backlog' \in Seq(Frames)
      BY <1>8, QueueFacts DEF RefuseClone, TypeOK
    <2>2. refs' \in [Frames -> Nat] /\ verdicts' \in [Frames -> 0..2]
      BY <1>8, <2>1, ReleaseFacts DEF RefuseClone
    <2> QED BY <1>8, <2>1, <2>2 DEF RefuseClone, loftVars, TypeOK
  <1>9. ASSUME NEW b \in BOOLEAN, Clone(b) PROVE TypeOK'
    BY <1>9, CloneFacts DEF Clone, loftVars, TypeOK
  <1>10. CASE UNCHANGED vars
    BY <1>10 DEF vars, loftVars, TypeOK
  <1> QED BY <1>1, <1>2, <1>3, <1>4, <1>6, <1>7, <1>8, <1>9, <1>10 DEF Next

-----------------------------------------------------------------------------
(* The invariant, action by action.                                        *)

(* A queue without its head waits for the same frames, the head excepted.  *)
LEMMA TailFacts ==
  ASSUME TypeOK, queue # <<>>, queue' = Tail(queue)
  PROVE  /\ Head(queue) \in Waiting
         /\ \A g \in Waiting : g \in Waiting' \/ g = Head(queue)
         /\ Waiting' \subseteq Waiting
         /\ OnePlace /\ Head(queue) \notin spoiled =>
              flock[Head(queue)] = 0 /\ Head(queue) \notin Waiting'
  <1>1. /\ Len(queue) \in Nat \ {0} /\ Len(queue') = Len(queue) - 1 /\ Head(queue) = queue[1]
        /\ \A i \in 1..Len(queue') : queue'[i] = queue[i + 1]
    BY QueueFacts DEF TypeOK
  <1>2. \A i \in 1..Len(queue') : i + 1 \in 1..Len(queue) /\ i + 1 # 1
    BY <1>1
  <1>3. ASSUME NEW i \in 1..Len(queue), i # 1
        PROVE  i - 1 \in 1..Len(queue') /\ queue'[i - 1] = queue[i]
    BY <1>1, <1>3
  <1>4. 1 \in 1..Len(queue)
    BY <1>1
  <1>5. \A g \in Waiting : g \in Waiting' \/ g = Head(queue)
    <2> SUFFICES ASSUME NEW i \in 1..Len(queue), i # 1 PROVE queue[i] \in Waiting'
      BY <1>1 DEF Waiting
    <2>1. i - 1 \in 1..Len(queue') /\ queue'[i - 1] = queue[i]
      BY <1>3
    <2> QED BY <2>1 DEF Waiting
  <1>6. Waiting' \subseteq Waiting
    BY <1>1, <1>2 DEF Waiting
  <1>7. ASSUME OnePlace, Head(queue) \notin spoiled
        PROVE  flock[Head(queue)] = 0 /\ Head(queue) \notin Waiting'
    <2>1. flock[queue[1]] = 0 /\ \A j \in 1..Len(queue) : queue[1] = queue[j] => 1 = j
      BY <1>1, <1>4, <1>7 DEF OnePlace
    <2> QED BY <1>1, <1>2, <2>1 DEF Waiting
  <1> QED BY <1>1, <1>4, <1>5, <1>6, <1>7 DEF Waiting

(* Nothing in the initial state.                                           *)
LEMMA InitInv == Init => Inv
  <1> SUFFICES ASSUME Init PROVE Inv
    OBVIOUS
  <1>1. Len(queue) = 0
    BY DEF Init
  <1>2. Owed /\ Covered
    BY DEF Init, Owed, Covered
  <1>3. OnePlace
    BY <1>1 DEF OnePlace
  <1>4. OneVerdict
    BY DEF Init, OneVerdict
  <1> QED BY <1>2, <1>3, <1>4 DEF Inv

(* Steps that move nothing but the pigeons still due.                      *)
LEMMA QuietInv ==
  ASSUME TypeOK, Inv, UNCHANGED <<queue, flock, refs, arrived, verdicts, spoiled>>,
         \A f \in Frames : due'[f] <= flock[f]
  PROVE  Inv'
  <1>1. Owed' /\ OneVerdict'
    BY DEF Inv, Owed, OneVerdict, Waiting
  <1>2. Covered' /\ OnePlace'
    BY DEF Inv, Covered, OnePlace
  <1> QED BY <1>1, <1>2 DEF Inv

(* A token that comes is owed a verdict, and spoils an id still in use.    *)
LEMMA EnqueueInv == ASSUME TypeOK, Inv, Enqueue PROVE Inv'
  <1> DEFINE fid == nextFID
  <1> DEFINE fresh == [verdicts EXCEPT ![nextFID] = 0]
  <1>1. /\ fid \in Frames /\ queue' \in Seq(Frames) /\ verdicts' \in [Frames -> 0..2]
        /\ queue \in Seq(Frames) /\ Len(queue) \in Nat /\ Len(queue') \in Nat
    <2>1. fid \in Frames /\ queue' \in Seq(Frames) /\ verdicts' \in [Frames -> 0..2]
      BY EnqueueFacts
    <2>2. queue \in Seq(Frames)
      BY DEF TypeOK
    <2> QED BY <2>1, <2>2
  <1>2. PICK k \in {0, 1} :
          /\ k <= Len(queue) /\ Len(queue') = Len(queue) + 1 - k
          /\ \A i \in 1..Len(queue') :
               queue'[i] = IF i + k <= Len(queue) THEN queue[i + k] ELSE fid
          /\ k = 0 => verdicts' = fresh
          /\ k = 1 => verdicts' = Decide(fresh, queue[1])
    BY EnqueueFacts
  <1>3. /\ flock' = flock /\ refs' = refs /\ due' = due /\ arrived' = arrived \cup {fid}
        /\ spoiled' = IF fid \in Waiting \/ flock[fid] > 0
                        THEN spoiled \cup {fid} ELSE spoiled \ {fid}
    BY DEF Enqueue
  <1>4. fid \in Waiting'
    <2>1. Len(queue') \in 1..Len(queue') /\ Len(queue') + k = Len(queue) + 1
      BY <1>1, <1>2
    <2>2. queue'[Len(queue')] = fid
      BY <1>1, <1>2, <2>1
    <2> QED BY <2>1, <2>2 DEF Waiting
  <1>5. ASSUME NEW g \in Waiting PROVE g \in Waiting' \/ (k = 1 /\ g = queue[1])
    <2>1. PICK i \in 1..Len(queue) : g = queue[i]
      BY DEF Waiting
    <2>2. CASE i - k = 0
      BY <1>1, <1>2, <2>1, <2>2
    <2>3. CASE i - k # 0
      <3>1. i - k \in 1..Len(queue') /\ queue'[i - k] = queue[i]
        BY <1>1, <1>2, <2>1, <2>3
      <3> QED BY <2>1, <3>1 DEF Waiting
    <2> QED BY <2>2, <2>3
  <1>6. \A g \in Waiting' : g \in Waiting \/ g = fid
    <2>1. \A i \in 1..Len(queue') :
            i + k <= Len(queue) => i + k \in 1..Len(queue) /\ queue'[i] = queue[i + k]
      BY <1>1, <1>2
    <2> QED BY <1>2, <2>1 DEF Waiting
  <1>7. k = 1 => 1 \in 1..Len(queue) /\ queue[1] \in Frames /\ queue[1] \in Waiting
    BY <1>1, <1>2 DEF Waiting
  <1>d. /\ \A g \in Frames \ {fid} : ~(k = 1 /\ g = queue[1]) => verdicts'[g] = verdicts[g]
        /\ ~(k = 1 /\ fid = queue[1]) => verdicts'[fid] = 0
        /\ k = 1 => /\ verdicts'[queue[1]] # 0
                    /\ queue[1] # fid /\ verdicts[queue[1]] = 0 => verdicts'[queue[1]] = 1
    <2>1. /\ fresh \in [Frames -> 0..2] /\ fresh[fid] = 0
          /\ \A g \in Frames \ {fid} : fresh[g] = verdicts[g]
      BY <1>1 DEF TypeOK
    <2> HIDE DEF fresh, fid
    <2>2. CASE k = 0
      BY <1>1, <1>2, <2>1, <2>2
    <2>3. CASE k = 1
      <3>1. verdicts' = Decide(fresh, queue[1]) /\ queue[1] \in Frames
        BY <1>2, <1>7, <2>3
      <3> QED BY <1>1, <2>1, <2>3, <3>1, DecideFacts
    <2> QED BY <2>2, <2>3
  <1>8. Covered'
    BY <1>3 DEF Inv, Covered
  <1>9. Owed'
    <2> SUFFICES ASSUME NEW g \in arrived', verdicts'[g] = 0 PROVE g \in Waiting' \/ refs'[g] > 0
      BY DEF Owed
    <2>1. CASE g = fid
      BY <1>4, <2>1
    <2>2. CASE g # fid
      <3>1. g \in arrived /\ g \in Frames
        BY <1>3, <2>2 DEF TypeOK
      <3>2. verdicts[g] = 0 /\ ~(k = 1 /\ g = queue[1])
        BY <1>d, <2>2, <3>1
      <3> QED BY <1>3, <1>5, <3>1, <3>2 DEF Inv, Owed
    <2> QED BY <2>1, <2>2
  <1>10. ASSUME fid \notin spoiled' PROVE fid \notin Waiting /\ flock[fid] = 0
    BY <1>1, <1>3, <1>10 DEF TypeOK
  <1>11. OnePlace'
    <2> SUFFICES ASSUME NEW i \in 1..Len(queue'), NEW j \in 1..Len(queue'),
                        queue'[i] \notin spoiled'
                 PROVE  flock[queue'[i]] = 0 /\ (queue'[i] = queue'[j] => i = j)
      BY <1>3 DEF OnePlace
    <2>1. CASE queue'[i] = fid
      <3>1. fid \notin Waiting /\ flock[fid] = 0
        BY <1>10, <2>1
      <3>2. \A n \in 1..Len(queue') : queue'[n] = fid => n + k = Len(queue) + 1
        <4> SUFFICES ASSUME NEW n \in 1..Len(queue'), queue'[n] = fid, n + k <= Len(queue)
                     PROVE  FALSE
          BY <1>1, <1>2
        <4>1. n + k \in 1..Len(queue) /\ queue[n + k] = fid
          BY <1>1, <1>2
        <4> QED BY <3>1, <4>1 DEF Waiting
      <3> QED BY <1>1, <2>1, <3>1, <3>2
    <2>2. CASE queue'[i] # fid
      <3>1. i + k \in 1..Len(queue) /\ queue'[i] = queue[i + k]
        BY <1>1, <1>2, <2>2
      <3>2. queue[i + k] \notin spoiled
        BY <1>3, <2>2, <3>1
      <3>3. flock[queue[i + k]] = 0
            /\ \A n \in 1..Len(queue) : queue[i + k] = queue[n] => i + k = n
        BY <3>1, <3>2 DEF Inv, OnePlace
      <3>4. ASSUME queue'[i] = queue'[j] PROVE i = j
        <4>1. j + k \in 1..Len(queue) /\ queue'[j] = queue[j + k]
          BY <1>1, <1>2, <2>2, <3>4
        <4> QED BY <1>1, <3>1, <3>3, <3>4, <4>1
      <3> QED BY <3>1, <3>3, <3>4
    <2> QED BY <2>1, <2>2
  <1>12. OneVerdict'
    <2> SUFFICES ASSUME NEW g \in Frames \ spoiled'
                 PROVE  /\ refs[g] = flock[g]
                        /\ \/ verdicts'[g] = 0
                           \/ verdicts'[g] = 1 /\ flock[g] = 0 /\ g \notin Waiting'
      BY <1>3 DEF OneVerdict
    <2>1. CASE g = fid
      <3>1. fid \notin Waiting /\ flock[fid] = 0
        BY <1>10, <2>1
      <3>2. refs[fid] = 0
        BY <1>1, <3>1 DEF Inv, Covered, TypeOK
      <3>3. verdicts'[fid] = 0
        BY <1>7, <1>d, <3>1
      <3> QED BY <2>1, <3>1, <3>2, <3>3
    <2>2. CASE g # fid
      <3>1. g \notin spoiled
        BY <1>3, <2>2
      <3>2. /\ refs[g] = flock[g]
            /\ \/ verdicts[g] = 0
               \/ verdicts[g] = 1 /\ flock[g] = 0 /\ g \notin Waiting
        BY <3>1 DEF Inv, OneVerdict
      <3>3. CASE k = 1 /\ g = queue[1]
        <4>1. flock[g] = 0 /\ verdicts[g] = 0
              /\ \A n \in 1..Len(queue) : queue[1] = queue[n] => 1 = n
          BY <1>7, <3>1, <3>2, <3>3 DEF Inv, OnePlace
        <4>2. verdicts'[g] = 1
          BY <1>d, <2>2, <3>3, <4>1
        <4>3. g \notin Waiting'
          <5> SUFFICES ASSUME NEW n \in 1..Len(queue'), queue'[n] = g PROVE FALSE
            BY DEF Waiting
          <5>1. n + 1 \in 1..Len(queue) /\ queue[n + 1] = g
            BY <1>1, <1>2, <2>2, <3>3
          <5>2. 1 = n + 1
            BY <3>3, <4>1, <5>1
          <5> QED BY <1>1, <5>2
        <4> QED BY <3>2, <4>1, <4>2, <4>3
      <3>4. CASE ~(k = 1 /\ g = queue[1])
        <4>1. verdicts'[g] = verdicts[g]
          BY <1>d, <2>2, <3>4
        <4> QED BY <1>6, <2>2, <3>2, <4>1
      <3> QED BY <3>3, <3>4
    <2> QED BY <2>1, <2>2
  <1> QED BY <1>8, <1>9, <1>11, <1>12 DEF Inv

(* A token that takes off has a pigeon and a reference, or is dropped.     *)
LEMMA SpawnInv == ASSUME TypeOK, Inv, NEW b \in BOOLEAN, Spawn(b) PROVE Inv'
  <1> DEFINE h == Head(queue)
  <1>1. /\ h \in Frames /\ verdicts \in [Frames -> 0..2] /\ refs \in [Frames -> Nat]
        /\ flock \in [Frames -> Nat] /\ due \in [Frames -> Nat]
    BY SpawnFacts DEF TypeOK
  <1>2. due' = due /\ arrived' = arrived /\ spoiled' = spoiled
    BY DEF Spawn
  <1>3. /\ h \in Waiting /\ Waiting' \subseteq Waiting
        /\ \A g \in Waiting : g \in Waiting' \/ g = h
        /\ h \notin spoiled => flock[h] = 0 /\ h \notin Waiting'
    BY TailFacts DEF Spawn, Inv
  <1>4. /\ \A g \in Frames \ {h} :
             flock'[g] = flock[g] /\ refs'[g] = refs[g] /\ verdicts'[g] = verdicts[g]
        /\ \/ flock'[h] = flock[h] + 1 /\ refs'[h] = 1 /\ verdicts'[h] = verdicts[h]
           \/ /\ flock'[h] = flock[h] /\ refs'[h] = refs[h]
              /\ verdicts'[h] # 0 /\ (verdicts[h] = 0 => verdicts'[h] = 1)
    <2> HIDE DEF h
    <2>1. CASE /\ flock' = [flock EXCEPT ![h] = flock[h] + 1]
               /\ refs' = [refs EXCEPT ![h] = 1] /\ verdicts' = verdicts
      BY <1>1, <2>1
    <2>2. CASE flock' = flock /\ refs' = refs /\ verdicts' = Decide(verdicts, h)
      BY <1>1, <2>2, DecideFacts
    <2> QED BY <2>1, <2>2, SpawnFacts DEF h
  <1>5. Covered'
    BY <1>1, <1>2, <1>4 DEF Inv, Covered
  <1>6. Owed'
    <2> SUFFICES ASSUME NEW g \in arrived, verdicts'[g] = 0 PROVE g \in Waiting' \/ refs'[g] > 0
      BY <1>2 DEF Owed
    <2>1. g \in Frames /\ (verdicts[g] = 0 => g \in Waiting \/ refs[g] > 0)
      BY DEF TypeOK, Inv, Owed
    <2> HIDE DEF h
    <2>2. CASE g = h
      BY <1>1, <1>4, <2>2
    <2>3. CASE g # h
      BY <1>3, <1>4, <2>1, <2>3
    <2> QED BY <2>2, <2>3
  <1>7. OneVerdict'
    <2> SUFFICES ASSUME NEW g \in Frames \ spoiled
                 PROVE  /\ refs'[g] = flock'[g]
                        /\ \/ verdicts'[g] = 0
                           \/ verdicts'[g] = 1 /\ flock'[g] = 0 /\ g \notin Waiting'
      BY <1>2 DEF OneVerdict
    <2>1. /\ refs[g] = flock[g]
          /\ \/ verdicts[g] = 0
             \/ verdicts[g] = 1 /\ flock[g] = 0 /\ g \notin Waiting
      BY DEF Inv, OneVerdict
    <2> QED BY <1>1, <1>3, <1>4, <2>1
  <1>8. OnePlace'
    <2>1. /\ Len(queue) \in Nat \ {0} /\ Len(queue') = Len(queue) - 1
          /\ \A i \in 1..Len(queue') : queue'[i] = queue[i + 1]
      BY QueueFacts DEF Spawn, TypeOK
    <2> SUFFICES ASSUME NEW i \in 1..Len(queue'), NEW j \in 1..Len(queue'),
                        queue'[i] \notin spoiled
                 PROVE  flock'[queue'[i]] = 0 /\ (queue'[i] = queue'[j] => i = j)
      BY <1>2 DEF OnePlace
    <2>2. /\ i + 1 \in 1..Len(queue) /\ queue'[i] = queue[i + 1]
          /\ j + 1 \in 1..Len(queue) /\ queue'[j] = queue[j + 1]
      BY <2>1
    <2>3. flock[queue'[i]] = 0 /\ (queue'[i] = queue'[j] => i + 1 = j + 1)
      BY <2>2 DEF Inv, OnePlace
    <2>4. queue'[i] \in Waiting' /\ queue'[i] \in Frames
      BY SpawnFacts, <2>1 DEF Waiting
    <2>5. queue'[i] # h
      BY <1>3, <2>4
    <2> QED BY <1>4, <2>2, <2>3, <2>4, <2>5
  <1> QED BY <1>5, <1>6, <1>7, <1>8 DEF Inv

(* A pigeon that is gone takes its reference along, the last one with a    *)
(* verdict; a clone that is refused takes one, too, and spoils its frame.  *)
LEMMA ReleaseInv ==
  ASSUME TypeOK, Inv, NEW f \in Frames, Release(f),
         flock' \in [Frames -> Nat],
         UNCHANGED <<queue, arrived>>,
         \A g \in Frames \ {f} : flock'[g] = flock[g] /\ due'[g] <= flock[g],
         due'[f] <= flock'[f],
         \/ flock[f] > 0 /\ flock'[f] = flock[f] - 1 /\ spoiled' = spoiled
         \/ flock'[f] = flock[f] /\ spoiled' = spoiled \cup {f}
  PROVE  Inv'
  <1>1. /\ \A g \in Frames \ {f} : refs'[g] = refs[g] /\ verdicts'[g] = verdicts[g]
        /\ refs[f] > 0 => refs'[f] = refs[f] - 1
        /\ refs[f] = 0 => refs'[f] = 0
        /\ refs'[f] = 0 => verdicts'[f] # 0
        /\ refs'[f] > 0 => verdicts'[f] = verdicts[f]
        /\ verdicts[f] = 0 => verdicts'[f] <= 1
        /\ verdicts'[f] = 0 => verdicts[f] = 0
        /\ refs' \in [Frames -> Nat] /\ verdicts' \in [Frames -> 0..2]
    BY ReleaseFacts
  <1>2. /\ flock \in [Frames -> Nat] /\ refs \in [Frames -> Nat] /\ verdicts \in [Frames -> 0..2]
        /\ arrived \subseteq Frames /\ due \in [Frames -> Nat]
        /\ queue \in Seq(Frames) /\ \A i \in 1..Len(queue) : queue[i] \in Frames
    BY DEF TypeOK
  <1>3. Waiting' = Waiting
    BY DEF Waiting
  <1>4. Covered'
    <2> SUFFICES ASSUME NEW g \in Frames PROVE refs'[g] <= flock'[g] /\ due'[g] <= flock'[g]
      BY DEF Covered
    <2>1. refs[g] <= flock[g]
      BY DEF Inv, Covered
    <2>2. CASE g = f
      BY <1>1, <1>2, <2>1, <2>2
    <2>3. CASE g # f
      BY <1>1, <2>1, <2>3
    <2> QED BY <2>2, <2>3
  <1>5. Owed'
    BY <1>1, <1>2, <1>3 DEF Inv, Owed
  <1>6. OnePlace'
    <2> SUFFICES ASSUME NEW i \in 1..Len(queue), NEW j \in 1..Len(queue),
                        queue[i] \notin spoiled'
                 PROVE  flock'[queue[i]] = 0 /\ (queue[i] = queue[j] => i = j)
      BY DEF OnePlace
    <2>1. flock[queue[i]] = 0 /\ (queue[i] = queue[j] => i = j)
      BY DEF Inv, OnePlace
    <2>2. CASE queue[i] = f
      BY <2>1, <2>2
    <2>3. CASE queue[i] # f
      BY <1>2, <2>1, <2>3
    <2> QED BY <2>2, <2>3
  <1>7. OneVerdict'
    <2> SUFFICES ASSUME NEW g \in Frames \ spoiled'
                 PROVE  /\ refs'[g] = flock'[g]
                        /\ \/ verdicts'[g] = 0
                           \/ verdicts'[g] = 1 /\ flock'[g] = 0 /\ g \notin Waiting
      BY <1>3 DEF OneVerdict
    <2>1. /\ refs[g] = flock[g]
          /\ \/ verdicts[g] = 0
             \/ verdicts[g] = 1 /\ flock[g] = 0 /\ g \notin Waiting
      BY DEF Inv, OneVerdict
    <2>2. g \in Waiting => flock[g] = 0
      <3>1. g \notin spoiled
        OBVIOUS
      <3> QED BY <3>1 DEF Waiting, Inv, OnePlace
    <2>3. CASE g = f
      BY <1>1, <1>2, <2>1, <2>2, <2>3
    <2>4. CASE g # f
      BY <1>1, <2>1, <2>4
    <2> QED BY <2>3, <2>4
  <1> QED BY <1>4, <1>5, <1>6, <1>7 DEF Inv

(* A clone has a reference of its own, to a frame still undecided.         *)
LEMMA CloneInv == ASSUME TypeOK, Inv, NEW b \in BOOLEAN, Clone(b) PROVE Inv'
  <1> DEFINE h == Head(backlog)
  <1>1. /\ h \in Frames /\ refs \in [Frames -> Nat] /\ verdicts \in [Frames -> 0..2]
        /\ flock \in [Frames -> Nat] /\ due \in [Frames -> Nat] /\ arrived \subseteq Frames
        /\ queue \in Seq(Frames) /\ \A i \in 1..Len(queue) : queue[i] \in Frames
    BY CloneFacts DEF TypeOK
  <1>2. UNCHANGED <<queue, due, arrived, verdicts, spoiled>>
    BY DEF Clone
  <1>3. CASE flock' = flock /\ refs' = refs
    <2>1. \A f \in Frames : due'[f] <= flock[f]
      BY <1>2 DEF Inv, Covered
    <2> QED BY <1>2, <1>3, <2>1, QuietInv
  <1>4. CASE /\ refs[h] > 0 /\ flock' = [flock EXCEPT ![h] = flock[h] + 1]
             /\ refs' = [refs EXCEPT ![h] = refs[h] + 1]
    <2>1. /\ \A g \in Frames \ {h} : flock'[g] = flock[g] /\ refs'[g] = refs[g]
          /\ flock'[h] = flock[h] + 1 /\ refs'[h] = refs[h] + 1
      BY <1>1, <1>4
    <2>2. flock[h] > 0
      BY <1>1, <1>4 DEF Inv, Covered
    <2>3. Waiting' = Waiting
      BY <1>2 DEF Waiting
    <2> HIDE DEF h
    <2>4. Covered'
      <3> SUFFICES ASSUME NEW g \in Frames PROVE refs'[g] <= flock'[g] /\ due'[g] <= flock'[g]
        BY DEF Covered
      <3>1. refs[g] <= flock[g] /\ due[g] <= flock[g] /\ due'[g] = due[g]
        BY <1>2 DEF Inv, Covered
      <3>2. refs[g] \in Nat /\ flock[g] \in Nat /\ due[g] \in Nat
        BY <1>1
      <3> QED BY <2>1, <3>1, <3>2
    <2>5. Owed'
      <3> SUFFICES ASSUME NEW g \in arrived, verdicts[g] = 0, g \notin Waiting PROVE refs'[g] > 0
        BY <1>2, <2>3 DEF Owed
      <3>1. g \in Frames /\ refs[g] > 0 /\ refs[g] \in Nat
        BY <1>1 DEF Inv, Owed
      <3> QED BY <2>1, <3>1
    <2>6. OnePlace'
      <3> SUFFICES ASSUME NEW i \in 1..Len(queue), NEW j \in 1..Len(queue),
                          queue[i] \notin spoiled
                   PROVE  flock'[queue[i]] = 0 /\ (queue[i] = queue[j] => i = j)
        BY <1>2 DEF OnePlace
      <3>1. flock[queue[i]] = 0 /\ (queue[i] = queue[j] => i = j)
        BY DEF Inv, OnePlace
      <3>2. queue[i] \in Frames /\ queue[i] # h
        BY <1>1, <2>2, <3>1
      <3> QED BY <2>1, <3>1, <3>2
    <2>7. OneVerdict'
      <3> SUFFICES ASSUME NEW g \in Frames \ spoiled
                   PROVE  /\ refs'[g] = flock'[g]
                          /\ \/ verdicts[g] = 0
                             \/ verdicts[g] = 1 /\ flock'[g] = 0 /\ g \notin Waiting
        BY <1>2, <2>3 DEF OneVerdict
      <3>1. /\ refs[g] = flock[g]
            /\ \/ verdicts[g] = 0
               \/ verdicts[g] = 1 /\ flock[g] = 0 /\ g \notin Waiting
        BY DEF Inv, OneVerdict
      <3>2. CASE g = h
        BY <2>1, <2>2, <3>1, <3>2
      <3>3. CASE g # h
        BY <2>1, <3>1, <3>3
      <3> QED BY <3>2, <3>3
    <2> QED BY <2>4, <2>5, <2>6, <2>7 DEF Inv
  <1> QED BY <1>3, <1>4, CloneFacts

(* Every step keeps the invariant.                                         *)
LEMMA NextInv == TypeOK /\ Inv /\ [Next]_vars => Inv'
  <1> SUFFICES ASSUME TypeOK, Inv, [Next]_vars PROVE Inv'
    OBVIOUS
  <1>1. /\ flock \in [Frames -> Nat] /\ due \in [Frames -> Nat]
        /\ \A g \in Frames : due[g] <= flock[g]
    BY DEF TypeOK, Inv, Covered
  <1>2. CASE Enqueue
    BY <1>2, EnqueueInv
  <1>3. CASE Restart \/ Tick \/ TickDone \/ UNCHANGED vars
    BY <1>1, <1>3, QuietInv DEF Restart, Tick, TickDone, vars
  <1>4. CASE TakeOff
    BY <1>1, <1>4, QuietInv DEF TakeOff
  <1>5. ASSUME NEW b \in BOOLEAN, Spawn(b) PROVE Inv'
    BY <1>5, SpawnInv
  <1>6. ASSUME NEW f \in Frames, NEW n \in 0..MaxAsked, FlyOn(f, n) PROVE Inv'
    BY <1>1, <1>6, QuietInv DEF FlyOn, Asks
  <1>7. ASSUME NEW f \in Frames, NEW n \in 0..MaxAsked, Depart(f, n) PROVE Inv'
    <2>1. /\ due[f] > 0 /\ due' = [due EXCEPT ![f] = due[f] - 1]
          /\ flock' = [flock EXCEPT ![f] = flock[f] - 1]
          /\ Release(f) /\ UNCHANGED <<queue, arrived, spoiled>>
      BY <1>7 DEF Depart, Asks
    <2>2. /\ flock[f] > 0 /\ flock'[f] = flock[f] - 1 /\ due'[f] <= flock'[f]
          /\ flock' \in [Frames -> Nat]
          /\ \A g \in Frames \ {f} : flock'[g] = flock[g] /\ due'[g] <= flock[g]
      BY <1>1, <2>1
    <2> QED BY <2>1, <2>2, ReleaseInv
  <1>8. CASE RefuseClone
    <2>1. Head(backlog) \in Frames
      BY <1>8, QueueFacts DEF RefuseClone, TypeOK
    <2>2. /\ Release(Head(backlog)) /\ UNCHANGED <<queue, arrived, flock, due>>
          /\ spoiled' = spoiled \cup {Head(backlog)}
      BY <1>8 DEF RefuseClone
    <2> QED BY <1>1, <2>1, <2>2, ReleaseInv
  <1>9. ASSUME NEW b \in BOOLEAN, Clone(b) PROVE Inv'
    BY <1>9, CloneInv
  <1> QED BY <1>2, <1>3, <1>4, <1>5, <1>6, <1>7, <1>8, <1>9 DEF Next

-----------------------------------------------------------------------------
(* Pigeons: the inductive invariant.                                       *)
THEOREM PigeonsSafety == Spec => [](TypeOK /\ Inv)
  <1>1. Init => TypeOK /\ Inv
    BY InitType, InitInv
  <1>2. TypeOK /\ Inv /\ [Next]_vars => (TypeOK /\ Inv)'
    BY NextType, NextInv DEF Inv
  <1> QED BY <1>1, <1>2, PTL DEF Spec

(* Every reachable state is well typed.                                    *)
THEOREM PigeonsTypeCorrect == Spec => []TypeOK
  BY PigeonsSafety, PTL

(* The game never forgets a frame, whatever its limits, the floor and the  *)
(* loft do: a frame without a verdict is queued or has a pigeon (update,   *)
(* enqueue, resolve, unref).                                               *)
THEOREM NoFrameForgottenAlways == Spec => []NoFrameForgotten
  <1>1. TypeOK /\ Inv => NoFrameForgotten
    <2> SUFFICES ASSUME TypeOK, Inv, NEW f \in arrived, verdicts[f] = 0, f \notin Waiting
                 PROVE  flock[f] > 0
      BY DEF NoFrameForgotten
    <2>1. f \in Frames /\ refs[f] > 0
      BY DEF TypeOK, Inv, Owed
    <2>2. refs[f] \in Nat /\ flock[f] \in Nat /\ refs[f] <= flock[f]
      BY <2>1 DEF TypeOK, Inv, Covered
    <2> QED BY <2>1, <2>2
  <1> QED BY <1>1, PigeonsSafety, PTL

(* A frame none of whose clones was refused, and whose id was not given    *)
(* again in its time, is decided once, by its last pigeon.                 *)
THEOREM OneVerdictAlways == Spec => []OneVerdict
  <1>1. Inv => OneVerdict
    BY DEF Inv
  <1> QED BY <1>1, PigeonsSafety, PTL

-----------------------------------------------------------------------------
(* Switch: what its invariant is about.                                    *)

(* The entries of a database.                                              *)
Databases == [Macs -> [port : 0..Cardinality(Lanes), age : 0..(FdbTTL + 1)]]

LEMMA SwitchNumbers == Cardinality(Lanes) \in Nat /\ FdbTTL \in Nat
  BY SwitchAssumption, FS_CardinalityType

(* The inductive invariant: FdbTrue, and that a lane has one port, without *)
(* which another index could be the port a frame came from.                *)
SwitchInv ==
  /\ ports \in Seq(Lanes) /\ IsInjective(ports)
  /\ fdb \in Databases
  /\ heard \in [Macs -> SUBSET Lanes] /\ renumbered \subseteq Macs
  /\ FdbTrue

-----------------------------------------------------------------------------
(* What the operations do.                                                 *)

(* An eviction forgets one entry or none, and only a full database forgets.*)
LEMMA EvictionFacts ==
  ASSUME NEW base \in Databases, NEW src \in Macs, NEW db \in Evictions(base, src),
         Cardinality(Entries(base)) <= MaxEntries
  PROVE  /\ db \in Databases
         /\ \A m \in Macs : db[m] = base[m] \/ db[m] = Absent
         /\ Cardinality(Entries(db) \cup {src}) <= MaxEntries
  <1> DEFINE old == Entries(base)
  <1>1. IsFiniteSet(old) /\ Cardinality(old) \in Nat
    BY SwitchAssumption, FS_Subset, FS_CardinalityType DEF Entries
  <1>2. MaxEntries \in Nat
    BY SwitchAssumption
  <1>3. Cardinality(old) <= MaxEntries
    OBVIOUS
  <1>4. CASE src \in old \/ Cardinality(old) < MaxEntries
    <2>1. db = base
      BY <1>4 DEF Evictions
    <2>2. Cardinality(old \cup {src}) =
            IF src \in old THEN Cardinality(old) ELSE Cardinality(old) + 1
      BY <1>1, FS_AddElement
    <2>3. Cardinality(old \cup {src}) <= MaxEntries
      <3> HIDE DEF old
      <3> QED BY <1>1, <1>2, <1>4, <1>3, <2>2
    <2> QED BY <2>1, <2>3
  <1>5. CASE ~(src \in old \/ Cardinality(old) < MaxEntries)
    <2>1. PICK m \in old : db = [base EXCEPT ![m] = Absent]
      BY <1>5 DEF Evictions
    <2>2. db \in Databases /\ \A n \in Macs : db[n] = base[n] \/ db[n] = Absent
      <3>1. Absent \in [port : 0..Cardinality(Lanes), age : 0..(FdbTTL + 1)]
        BY SwitchNumbers DEF Absent, NoPort
      <3> QED BY <2>1, <3>1 DEF Databases
    <2>3. Entries(db) = old \ {m}
      BY <2>1 DEF Databases, Entries, Absent, NoPort
    <2>4. IsFiniteSet(old \ {m}) /\ Cardinality(old \ {m}) = Cardinality(old) - 1
      BY <1>1, <2>1, FS_RemoveElement
    <2>5. Cardinality((old \ {m}) \cup {src}) =
            IF src \in old \ {m} THEN Cardinality(old \ {m}) ELSE Cardinality(old \ {m}) + 1
      BY <2>4, FS_AddElement
    <2>6. Cardinality((old \ {m}) \cup {src}) <= MaxEntries
      <3> HIDE DEF old
      <3> QED BY <1>1, <1>2, <1>3, <2>4, <2>5
    <2> QED BY <2>2, <2>3, <2>6
  <1> QED BY <1>4, <1>5

(* Learning writes the source's entry and no other.                        *)
LEMMA LearnedFacts ==
  ASSUME NEW db \in Databases, NEW src \in Macs, NEW index \in Nat
  PROVE  /\ index \in 1..Cardinality(Lanes) => Learned(db, src, index) \in Databases
         /\ Learned(db, src, index)[src].port = index
         /\ \A m \in Macs \ {src} : Learned(db, src, index)[m] = db[m]
  BY SwitchNumbers DEF Learned, Databases

(* Looking up a stale entry forgets it and no other.                       *)
LEMMA ForgottenFacts ==
  ASSUME NEW db \in Databases, NEW dst \in Macs \cup {Nobody}
  PROVE  /\ Forgotten(db, dst) \in Databases
         /\ \A m \in Macs : Forgotten(db, dst)[m] = db[m] \/ Forgotten(db, dst)[m] = Absent
  BY SwitchNumbers DEF Forgotten, Databases, Absent, NoPort

(* A new port has the last index.                                          *)
LEMMA AppendFacts ==
  ASSUME NEW s \in Seq(Lanes), NEW lane \in Lanes
  PROVE  /\ Append(s, lane) \in Seq(Lanes)
         /\ Len(Append(s, lane)) = Len(s) + 1
         /\ \A i \in 1..Len(s) : Append(s, lane)[i] = s[i]
         /\ Append(s, lane)[Len(s) + 1] = lane
  OBVIOUS

(* The ports behind a removed one move up by one.                          *)
LEMMA RemoveFacts ==
  ASSUME NEW s \in Seq(Lanes), NEW index \in 1..Len(s)
  PROVE  /\ RemoveAt(s, index) \in Seq(Lanes)
         /\ Len(RemoveAt(s, index)) = Len(s) - 1
         /\ \A i \in 1..(Len(s) - 1) :
              RemoveAt(s, index)[i] = IF i < index THEN s[i] ELSE s[i + 1]
  <1> DEFINE front == SubSeq(s, 1, index - 1)
             back == SubSeq(s, index + 1, Len(s))
  <1>1. /\ front \in Seq(Lanes) /\ Len(front) = index - 1
        /\ \A i \in 1..(index - 1) : front[i] = s[i]
    OBVIOUS
  <1>2. /\ back \in Seq(Lanes) /\ Len(back) = Len(s) - index
        /\ \A i \in 1..(Len(s) - index) : back[i] = s[index + i]
    OBVIOUS
  <1>3. Len(s) \in Nat /\ index \in Nat
    OBVIOUS
  <1>4. /\ front \o back \in Seq(Lanes) /\ Len(front \o back) = Len(front) + Len(back)
        /\ \A i \in 1..(Len(front) + Len(back)) :
             (front \o back)[i] = IF i <= Len(front) THEN front[i] ELSE back[i - Len(front)]
    <2> HIDE DEF front, back
    <2> QED BY <1>1, <1>2, ConcatProperties
  <1>5. ASSUME NEW i \in 1..(Len(s) - 1)
        PROVE  (front \o back)[i] = IF i < index THEN s[i] ELSE s[i + 1]
    <2> HIDE DEF front, back
    <2>1. CASE i < index
      BY <1>1, <1>2, <1>3, <1>4, <2>1
    <2>2. CASE ~(i < index)
      <3>1. (front \o back)[i] = back[i - (index - 1)]
        BY <1>1, <1>2, <1>3, <1>4, <2>2
      <3>2. i - (index - 1) \in 1..(Len(s) - index) /\ index + (i - (index - 1)) = i + 1
        BY <1>3, <2>2
      <3>3. back[i - (index - 1)] = s[index + (i - (index - 1))]
        BY <1>2, <3>2
      <3> QED BY <2>2, <3>1, <3>2, <3>3
    <2> QED BY <2>1, <2>2
  <1>6. RemoveAt(s, index) = front \o back
    BY DEF RemoveAt
  <1>7. Len(front) + Len(back) = Len(s) - 1
    <2> HIDE DEF front, back
    <2> QED BY <1>1, <1>2, <1>3
  <1> HIDE DEF front, back
  <1> QED BY <1>4, <1>5, <1>6, <1>7

-----------------------------------------------------------------------------
(* A forwarding step writes the entry of the address just heard, and keeps *)
(* or forgets the others.                                                  *)
LEMMA RouteKeeps ==
  ASSUME SwitchInv, NEW src \in Macs, NEW index \in 1..Cardinality(Lanes),
         NEW dst \in (Macs \ {src}) \cup {Nobody}, Route(src, dst, index)
  PROVE  SwitchInv'
  <1>1. PICK db \in Evictions(fdb, src) : fdb' = Forgotten(Learned(db, src, index), dst)
    BY DEF Route
  <1> DEFINE new == Learned(db, src, index)
  <1>2. /\ index \in 1..Len(ports) /\ ports' = ports
        /\ heard' = [heard EXCEPT ![src] = {ports[index]}]
        /\ renumbered' = renumbered \ {src}
    BY DEF Route
  <1>3. fdb \in Databases /\ Cardinality(Entries(fdb)) <= MaxEntries
    BY DEF SwitchInv, FdbTrue
  <1>4. /\ db \in Databases /\ Cardinality(Entries(db) \cup {src}) <= MaxEntries
        /\ \A m \in Macs : db[m] = fdb[m] \/ db[m] = Absent
    BY <1>1, <1>3, EvictionFacts
  <1>5. /\ new \in Databases /\ new[src].port = index
        /\ \A m \in Macs \ {src} : new[m] = db[m]
    BY <1>4, LearnedFacts
  <1>6. /\ fdb' \in Databases
        /\ \A m \in Macs : fdb'[m] = new[m] \/ fdb'[m] = Absent
    BY <1>1, <1>5, ForgottenFacts
  <1>7. ports \in Seq(Lanes) /\ ports[index] \in Lanes
    BY <1>2 DEF SwitchInv
  <1>8. heard' \in [Macs -> SUBSET Lanes] /\ renumbered' \subseteq Macs
    BY <1>2, <1>7 DEF SwitchInv
  <1>9. Cardinality(Entries(fdb)') <= MaxEntries
    <2>1. Entries(fdb)' \subseteq Entries(db) \cup {src}
      BY <1>5, <1>6 DEF Entries, Absent
    <2>2. IsFiniteSet(Entries(db) \cup {src})
      BY SwitchAssumption, FS_Subset, FS_AddElement DEF Entries
    <2>3. /\ Cardinality(Entries(fdb)') <= Cardinality(Entries(db) \cup {src})
          /\ Cardinality(Entries(fdb)') \in Nat
          /\ Cardinality(Entries(db) \cup {src}) \in Nat
      BY <2>1, <2>2, FS_Subset, FS_CardinalityType
    <2> QED BY <1>4, <2>3, SwitchAssumption
  <1>10. ASSUME NEW m \in Entries(fdb)' \ renumbered'
         PROVE  fdb'[m].port \in 1..Len(ports) /\ heard'[m] = {ports[fdb'[m].port]}
    <2>1. m \in Macs /\ fdb'[m] = new[m] /\ new[m].port # NoPort
      BY <1>6 DEF Entries, Absent
    <2>2. CASE m = src
      BY <1>2, <1>5, <2>1, <2>2 DEF SwitchInv
    <2>3. CASE m # src
      <3>1. new[m] = fdb[m] /\ m \in Entries(fdb) \ renumbered
        BY <1>2, <1>4, <1>5, <2>1, <2>3 DEF Entries, Absent
      <3>2. heard'[m] = heard[m]
        BY <1>2, <2>1, <2>3 DEF SwitchInv
      <3> QED BY <2>1, <3>1, <3>2 DEF SwitchInv, FdbTrue
    <2> QED BY <2>2, <2>3
  <1> QED BY <1>2, <1>6, <1>8, <1>9, <1>10 DEF SwitchInv, FdbTrue

LEMMA AgeKeeps ==
  ASSUME SwitchInv, Age
  PROVE  SwitchInv'
  <1>1. FdbTTL \in Nat
    BY SwitchNumbers
  <1>2. fdb' \in Databases /\ \A m \in Macs : fdb'[m].port = fdb[m].port
    BY <1>1 DEF Age, SwitchInv, Databases
  <1>3. Entries(fdb)' = Entries(fdb)
    BY <1>2 DEF Entries
  <1> QED BY <1>2, <1>3 DEF Age, SwitchInv, FdbTrue, Entries

LEMMA AddKeeps ==
  ASSUME SwitchInv, NEW lane \in Lanes, AddSwitchPort(lane)
  PROVE  SwitchInv'
  <1>1. /\ ports \in Seq(Lanes) /\ IsInjective(ports)
        /\ ports' = Append(ports, lane) /\ UNCHANGED <<fdb, heard, renumbered>>
        /\ \A i \in 1..Len(ports) : ports[i] # lane
    BY DEF SwitchInv, AddSwitchPort, Wired, ToSet
  <1>2. /\ ports' \in Seq(Lanes) /\ Len(ports') = Len(ports) + 1 /\ Len(ports) \in Nat
        /\ \A i \in 1..Len(ports) : ports'[i] = ports[i]
        /\ ports'[Len(ports) + 1] = lane
    BY <1>1, AppendFacts
  <1>3. IsInjective(ports')
    BY <1>1, <1>2 DEF IsInjective
  <1>4. FdbTrue'
    <2>1. Entries(fdb)' = Entries(fdb)
      BY <1>1 DEF Entries
    <2>2. \A m \in Entries(fdb) \ renumbered :
            fdb[m].port \in 1..Len(ports) /\ heard[m] = {ports[fdb[m].port]}
      BY DEF SwitchInv, FdbTrue
    <2>3. \A m \in Entries(fdb) \ renumbered :
            fdb[m].port \in 1..Len(ports') /\ heard[m] = {ports'[fdb[m].port]}
      BY <1>2, <2>2
    <2> QED BY <1>1, <2>1, <2>3 DEF SwitchInv, FdbTrue
  <1> QED BY <1>1, <1>2, <1>3, <1>4 DEF SwitchInv

LEMMA RemoveKeeps ==
  ASSUME SwitchInv, NEW index \in Nat, RemoveSwitchPort(index)
  PROVE  SwitchInv'
  <1>1. /\ ports \in Seq(Lanes) /\ IsInjective(ports) /\ Len(ports) \in Nat
        /\ index \in 1..Len(ports) /\ ports' = RemoveAt(ports, index)
        /\ UNCHANGED <<fdb, heard>>
        /\ renumbered' = renumbered \cup {m \in Entries(fdb) : fdb[m].port >= index}
    BY DEF SwitchInv, RemoveSwitchPort
  <1>2. /\ ports' \in Seq(Lanes) /\ Len(ports') = Len(ports) - 1
        /\ \A i \in 1..(Len(ports) - 1) :
             ports'[i] = IF i < index THEN ports[i] ELSE ports[i + 1]
    BY <1>1, RemoveFacts
  <1>3. IsInjective(ports')
    <2>1. ASSUME NEW i \in 1..(Len(ports) - 1), NEW j \in 1..(Len(ports) - 1),
                 ports'[i] = ports'[j]
          PROVE  i = j
      <3> DEFINE from(k) == IF k < index THEN k ELSE k + 1
      <3>1. from(i) \in 1..Len(ports) /\ from(j) \in 1..Len(ports)
        BY <1>1
      <3>2. ports[from(i)] = ports[from(j)]
        BY <1>1, <1>2, <2>1
      <3>3. from(i) = from(j)
        BY <1>1, <3>1, <3>2 DEF IsInjective
      <3> QED BY <1>1, <3>3
    <2>2. DOMAIN ports' = 1..(Len(ports) - 1)
      BY <1>1, <1>2
    <2> QED BY <2>1, <2>2 DEF IsInjective
  <1>4. renumbered' \subseteq Macs
    BY <1>1 DEF SwitchInv, Entries
  <1>5. Entries(fdb)' = Entries(fdb)
    BY <1>1 DEF Entries
  <1>6. ASSUME NEW m \in Entries(fdb) \ renumbered'
        PROVE  fdb[m].port \in 1..Len(ports') /\ heard[m] = {ports'[fdb[m].port]}
    <2>1. fdb[m].port \in 1..Len(ports) /\ heard[m] = {ports[fdb[m].port]}
      BY <1>1 DEF SwitchInv, FdbTrue
    <2>2. fdb[m].port < index
      BY <1>1, <2>1
    <2> QED BY <1>1, <1>2, <2>1, <2>2
  <1> QED BY <1>1, <1>2, <1>3, <1>4, <1>5, <1>6 DEF SwitchInv, FdbTrue

-----------------------------------------------------------------------------
LEMMA SwitchInitial == SwitchInit => SwitchInv
  <1> SUFFICES ASSUME SwitchInit PROVE SwitchInv
    OBVIOUS
  <1>1. fdb \in Databases /\ Entries(fdb) = {}
    BY SwitchNumbers DEF SwitchInit, Databases, Entries, Absent, NoPort
  <1>2. Cardinality(Entries(fdb)) <= MaxEntries
    BY <1>1, FS_EmptySet, SwitchAssumption
  <1>3. ports \in Seq(Lanes) /\ IsInjective(ports)
    BY DEF SwitchInit, IsInjective
  <1> QED BY <1>1, <1>2, <1>3 DEF SwitchInit, SwitchInv, FdbTrue

LEMMA SwitchInductive == SwitchInv /\ [SwitchNext]_switchVars => SwitchInv'
  <1> SUFFICES ASSUME SwitchInv, [SwitchNext]_switchVars PROVE SwitchInv'
    OBVIOUS
  <1>1. ASSUME NEW src \in Macs, NEW index \in 1..Cardinality(Lanes),
               NEW dst \in (Macs \ {src}) \cup {Nobody}, Route(src, dst, index)
        PROVE  SwitchInv'
    BY <1>1, RouteKeeps
  <1>2. CASE Age
    BY <1>2, AgeKeeps
  <1>3. ASSUME NEW lane \in Lanes, AddSwitchPort(lane) PROVE SwitchInv'
    BY <1>3, AddKeeps
  <1>4. ASSUME NEW index \in 1..Cardinality(Lanes), RemoveSwitchPort(index)
        PROVE  SwitchInv'
    <2>1. index \in Nat
      BY <1>4 DEF RemoveSwitchPort, SwitchInv
    <2> QED BY <1>4, <2>1, RemoveKeeps
  <1>5. CASE UNCHANGED switchVars
    BY <1>5 DEF switchVars, SwitchInv, FdbTrue, Entries
  <1> QED BY <1>1, <1>2, <1>3, <1>4, <1>5 DEF SwitchNext

(* A frame leaves towards where its destination was last heard, because    *)
(* an entry that survived the eviction still says so, and without one the  *)
(* frame leaves by every other port.                                       *)
LEMMA RightWayFollows == SwitchInv => RightWay
  <1> SUFFICES ASSUME SwitchInv, NEW src \in Macs, NEW index \in 1..Len(ports),
                      NEW db \in Evictions(fdb, src),
                      NEW dst \in (Macs \ {src}) \cup {Nobody}
               PROVE  LET out == Emitted(Learned(db, src, index), dst, index) IN
                      /\ ports[index] \notin out
                      /\ dst \in Macs \ renumbered =>
                           (heard[dst] \cap Wired) \ {ports[index]} \subseteq out
    BY DEF RightWay
  <1> DEFINE new == Learned(db, src, index)
             exits == Exits(new, dst, index) \cap (1..Len(ports))
             out == {ports[i] : i \in exits}
  <1>1. ports \in Seq(Lanes) /\ Len(ports) \in Nat /\ DOMAIN ports = 1..Len(ports)
    BY DEF SwitchInv
  <1>2. index \notin exits
    BY DEF Exits
  <1>3. \A i \in exits : ports[i] # ports[index]
    BY <1>1, <1>2 DEF SwitchInv, IsInjective
  <1>4. ASSUME NEW x \in (heard[dst] \cap Wired) \ {ports[index]}, dst \in Macs \ renumbered
        PROVE  x \in out
    <2>1. dst # Nobody /\ dst \in Macs /\ dst # src
      BY <1>4, SwitchAssumption
    <2>2. PICK i \in 1..Len(ports) : x = ports[i]
      BY <1>1 DEF Wired, ToSet
    <2>3. CASE ~Fresh(new[dst])
      BY <2>1, <2>2, <2>3, <1>1 DEF Exits
    <2>4. CASE Fresh(new[dst])
      <3>1. new[dst] = db[dst]
        <4>1. db \in Databases
          BY EvictionFacts DEF SwitchInv, FdbTrue
        <4> QED BY <2>1, <4>1, <1>1, LearnedFacts
      <3>2. fdb[dst] = new[dst] /\ dst \in Entries(fdb)
        <4>1. db[dst] = fdb[dst] \/ db[dst] = Absent
          BY <2>1, EvictionFacts DEF SwitchInv, FdbTrue
        <4> QED BY <2>1, <2>4, <3>1, <4>1 DEF Fresh, Entries, Absent
      <3>3. new[dst].port \in 1..Len(ports) /\ x = ports[new[dst].port]
        BY <1>4, <3>2 DEF SwitchInv, FdbTrue
      <3>4. new[dst].port \in exits
        BY <2>1, <2>4, <3>3 DEF Exits
      <3> QED BY <3>3, <3>4
    <2> QED BY <2>3, <2>4
  <1> QED BY <1>3, <1>4 DEF Emitted

(* The database stays within its limit and knows hosts where they were     *)
(* last heard, for any sequence of frames, timeouts and clicks.            *)
THEOREM FdbTrueAlways == SwitchSpec => []FdbTrue
  <1>1. SwitchInv => FdbTrue
    BY DEF SwitchInv
  <1> QED BY <1>1, SwitchInitial, SwitchInductive, PTL DEF SwitchSpec

(* A frame leaves towards the last known place of its destination and      *)
(* never back where it came from, whatever the switch forgot before.       *)
THEOREM RightWayAlways == SwitchSpec => []RightWay
  BY RightWayFollows, SwitchInitial, SwitchInductive, PTL DEF SwitchSpec

-----------------------------------------------------------------------------
(* Board: what its invariant is about.                                     *)

(* What the board takes for a port's host is the one it has.               *)
OwnersLive == \A i \in Ids : owner[i] # NoHost => owner[i] = live[i]

(* A host that is present has a port of its own.                           *)
PresentKnown == \A h \in present : port[h] # None /\ owner[port[h]] = h

(* What a hello has still to add is not known yet.                         *)
SnapshotFresh == \A i \in snapshot : owner[i] = NoHost /\ live[i] # NoHost

(* Hosts that never had two ports at once have one at most.                *)
OnePort == \A i, j \in Ids : live[i] = live[j] /\ live[i] \notin twice \cup {NoHost} => i = j

(* Every port that the loft has and that was reported is known, and what   *)
(* stands on the board is.                                                 *)
Owned ==
  ~muddled =>
    /\ \A i \in Ids : Placed(i) => owner[i] # NoHost
    /\ \A i \in Ids \ snapshot : live[i] # NoHost => owner[i] = live[i]

(* The port of a host that never had two is the one the board goes by.     *)
Latest ==
  ~muddled =>
    \A i \in Ids \ snapshot : live[i] \in Hosts \ twice => live[i] \in present /\ port[live[i]] = i

(* The inductive invariant.                                                *)
Known == OwnersLive /\ PresentKnown /\ SnapshotFresh /\ OnePort

BoardInv == BoardTypeOK /\ Known /\ Owned /\ Latest /\ SlotsExact /\ ShownAsIs /\ HomesKept

-----------------------------------------------------------------------------
(* What placing and vacating do to a floor.                                *)

(* The type of a floor.                                                    *)
Floors ==
  [used : SUBSET Slots, placed : [Ids -> Slots \cup {None}], roost : [Slots -> Ids \cup {None}]]

(* A slot is used exactly by the one port that stands on it.               *)
Exact(fl) ==
  /\ \A i \in Ids : fl.placed[i] # None => fl.roost[fl.placed[i]] = i
  /\ \A s \in Slots :
       /\ s \in fl.used <=> fl.roost[s] # None
       /\ fl.roost[s] # None => fl.placed[fl.roost[s]] = s

(* None is no slot and no port.                                            *)
LEMMA NoneIsNone ==
  /\ None \notin Slots /\ None \notin Ids /\ NoHost \notin Hosts
  /\ \A i \in Ids, s \in Slots : i \in Nat /\ s \in Nat
  BY BoardAssumption DEF None, Slots, Ids

(* Vacating takes the port off the floor and leaves the others.            *)
LEMMA Vacated ==
  ASSUME NEW fl \in Floors, NEW i \in Ids, fl.placed[i] # None
  PROVE  /\ Vacate(fl, i) \in Floors /\ Vacate(fl, i).placed[i] = None
         /\ \A j \in Ids \ {i} : Vacate(fl, i).placed[j] = fl.placed[j]
         /\ Vacate(fl, i).used \subseteq fl.used
         /\ Exact(fl) => Exact(Vacate(fl, i))
  <1>1. /\ Vacate(fl, i) \in Floors /\ Vacate(fl, i).placed[i] = None
        /\ \A j \in Ids \ {i} : Vacate(fl, i).placed[j] = fl.placed[j]
        /\ Vacate(fl, i).used \subseteq fl.used
    BY DEF Vacate, Floors
  <1>2. ASSUME Exact(fl) PROVE Exact(Vacate(fl, i))
    <2> DEFINE v == Vacate(fl, i)
               t == fl.placed[i]
    <2>1. /\ t \in Slots /\ v.used = fl.used \ {t} /\ v.roost[t] = None
          /\ \A s \in Slots \ {t} : v.roost[s] = fl.roost[s]
          /\ fl.roost[t] = i
      BY <1>2 DEF Vacate, Floors, Exact
    <2>2. \A j \in Ids \ {i} : fl.placed[j] # None => fl.placed[j] # t
      BY <1>2, <2>1 DEF Exact
    <2>3. \A s \in Slots \ {t} : fl.roost[s] # i
      BY <1>2, NoneIsNone DEF Exact
    <2>4. /\ \A j \in Ids : fl.placed[j] \in Slots \cup {None}
          /\ \A s \in Slots : fl.roost[s] \in Ids \cup {None}
      BY DEF Floors
    <2> HIDE DEF v, t
    <2> QED BY <1>1, <1>2, <2>1, <2>2, <2>3, <2>4 DEF Exact, v
  <1> QED BY <1>1, <1>2

(* Placing puts the port on the slot and leaves the others.                *)
LEMMA PlacedThere ==
  ASSUME NEW fl \in Floors, NEW i \in Ids \cup {None}, NEW s \in Slots
  PROVE  /\ PlaceAt(fl, i, s) \in Floors
         /\ \A j \in Ids : PlaceAt(fl, i, s).placed[j] = IF j = i THEN s ELSE fl.placed[j]
         /\ Exact(fl) /\ i # None /\ fl.placed[i] = None /\ s \notin fl.used => Exact(PlaceAt(fl, i, s))
  <1>1. /\ PlaceAt(fl, i, s) \in Floors
        /\ \A j \in Ids : PlaceAt(fl, i, s).placed[j] = IF j = i THEN s ELSE fl.placed[j]
    BY NoneIsNone DEF PlaceAt, Floors
  <1>2. ASSUME Exact(fl), i # None, fl.placed[i] = None, s \notin fl.used PROVE Exact(PlaceAt(fl, i, s))
    <2> DEFINE p == PlaceAt(fl, i, s)
    <2>1. /\ p.used = fl.used \cup {s} /\ p.roost[s] = i
          /\ \A t \in Slots \ {s} : p.roost[t] = fl.roost[t]
      BY DEF PlaceAt, Floors
    <2>2. /\ fl.roost[s] = None /\ \A t \in Slots : fl.roost[t] # i
          /\ \A j \in Ids : fl.placed[j] # s
      BY <1>2, NoneIsNone DEF Exact
    <2>3. /\ \A j \in Ids : fl.placed[j] \in Slots \cup {None}
          /\ \A t \in Slots : fl.roost[t] \in Ids \cup {None}
      BY DEF Floors
    <2> HIDE DEF p
    <2> QED BY <1>1, <1>2, <2>1, <2>2, <2>3, NoneIsNone DEF Exact, p
  <1> QED BY <1>1, <1>2

-----------------------------------------------------------------------------
(* Where a host is put, and what is saved.                                 *)

(* pickSlot names a slot.                                                  *)
LEMMA PicksSlot ==
  ASSUME BoardTypeOK, NEW h \in Hosts, NEW s \in Picks(h)
  PROVE  s \in Slots
  BY BoardAssumption DEF Picks, Free, Lowest, Slots

(* A slot that is given is saved for nobody else, or contested from then on. *)
LEMMA GivenKeeps ==
  ASSUME BoardTypeOK, HomesKept, NEW h \in Hosts, NEW s \in Slots, NEW c \in BOOLEAN,
         Takes(h, s, c), c \/ s \in Picks(h)
  PROVE  /\ saved' \in [Hosts -> Slots \cup {None}] /\ contested' \subseteq Slots
         /\ HomesKept'
  <1>1. saved' \in [Hosts -> Slots \cup {None}] /\ contested' \subseteq Slots
    BY DEF Takes, BoardTypeOK
  <1>2. ASSUME NEW g \in Hosts, g # h, saved[g] = s PROVE s \in contested' \/ saved[h] = s
    <2>1. CASE c
      BY <2>1 DEF Takes
    <2>2. CASE ~c /\ saved[h] # s
      <3>1. s \notin Free
        BY <1>2 DEF Free
      <3>2. Free = {}
        BY <2>2, <3>1 DEF Picks
      <3>3. AllSpokenFor
        BY <3>2 DEF Free, AllSpokenFor
      <3> QED BY <2>2, <3>3 DEF Takes
    <2> QED BY <2>1, <2>2
  <1>3. saved' = [saved EXCEPT ![h] = s] /\ contested \subseteq contested' /\ saved \in [Hosts -> Slots \cup {None}]
    BY DEF Takes, BoardTypeOK
  <1>4. HomesKept'
    BY <1>2, <1>3 DEF HomesKept
  <1> QED BY <1>1, <1>4

-----------------------------------------------------------------------------
(* The steps.                                                              *)

(* The parts of the type invariant, for the provers.                       *)
LEMMA BoardTypes ==
  BoardTypeOK <=>
    /\ live \in [Ids -> Hosts \cup {NoHost}] /\ snapshot \subseteq Ids /\ floor \in Floors
    /\ owner \in [Ids -> Hosts \cup {NoHost}]
    /\ port \in [Hosts -> Ids \cup {None}] /\ present \subseteq Hosts
    /\ saved \in [Hosts -> Slots \cup {None}] /\ shelved \subseteq Hosts
    /\ twice \subseteq Hosts /\ contested \subseteq Slots /\ muddled \in BOOLEAN
  BY DEF BoardTypeOK, Floors

(* While the board is not muddled, its floor is exact.                     *)
LEMMA FloorExact ==
  SlotsExact <=> (~muddled => Exact(floor))
  BY DEF SlotsExact, Exact, Placed

(* addPort, for a port that was reported or is in the hello.               *)
LEMMA AddPortKeeps ==
  ASSUME BoardInv, NEW i \in Ids, NEW h \in Hosts, AddPort(i, h),
         live[i] \in {NoHost, h}, live' = [live EXCEPT ![i] = h], snapshot' = snapshot \ {i},
         UNCHANGED shelved, twice' \in {twice, twice \cup {h}}, PortsOf(h) \ {i} # {} => h \in twice'
  PROVE  BoardInv'
  <1> USE NoneIsNone
  <1>1. /\ live \in [Ids -> Hosts \cup {NoHost}] /\ snapshot \subseteq Ids /\ floor \in Floors
        /\ owner \in [Ids -> Hosts \cup {NoHost}]
        /\ port \in [Hosts -> Ids \cup {None}] /\ present \subseteq Hosts
        /\ saved \in [Hosts -> Slots \cup {None}] /\ shelved \subseteq Hosts
        /\ twice \subseteq Hosts /\ contested \subseteq Slots /\ muddled \in BOOLEAN
    BY BoardTypes DEF BoardInv
  <1>2. \/ Placed(i) /\ UNCHANGED <<shown, saved, contested, muddled>>
        \/ /\ ~Placed(i)
           /\ owner' = [owner EXCEPT ![i] = h] /\ port' = [port EXCEPT ![h] = i] /\ present' = present \cup {h}
           /\ \/ h \in shelved /\ UNCHANGED <<floor, saved, contested, muddled>>
              \/ h \notin shelved /\ \E s \in Picks(h) :
                   /\ Takes(h, s, FALSE) /\ floor' = PlaceAt(floor, i, s)
                   /\ muddled' = (muddled \/ s \in floor.used)
    BY DEF AddPort
  <1>3. /\ floor' \in Floors /\ saved' \in [Hosts -> Slots \cup {None}] /\ contested' \subseteq Slots
        /\ muddled' \in BOOLEAN /\ HomesKept' /\ (muddled => muddled')
        /\ \A j \in Ids \ {i} : floor'.placed[j] = floor.placed[j]
        /\ SlotsExact'
        /\ Placed(i)' <=> Placed(i) \/ h \notin shelved
    <2>1. CASE UNCHANGED <<floor, saved, contested, muddled>> /\ (Placed(i) \/ h \in shelved)
      BY <1>1, <2>1, FloorExact DEF BoardInv, HomesKept, Placed, SlotsExact
    <2>2. ASSUME ~Placed(i), h \notin shelved, NEW s \in Picks(h), Takes(h, s, FALSE),
                 floor' = PlaceAt(floor, i, s), muddled' = (muddled \/ s \in floor.used)
          PROVE  /\ floor' \in Floors /\ saved' \in [Hosts -> Slots \cup {None}] /\ contested' \subseteq Slots
                 /\ muddled' \in BOOLEAN /\ HomesKept' /\ (muddled => muddled')
                 /\ \A j \in Ids \ {i} : floor'.placed[j] = floor.placed[j]
                 /\ SlotsExact'
                 /\ Placed(i)' <=> Placed(i) \/ h \notin shelved
      <3>1. s \in Slots
        BY PicksSlot DEF BoardInv
      <3>2. saved' \in [Hosts -> Slots \cup {None}] /\ contested' \subseteq Slots /\ HomesKept'
        BY <2>2, <3>1, GivenKeeps DEF BoardInv
      <3>3. /\ floor' \in Floors
            /\ \A j \in Ids : floor'.placed[j] = IF j = i THEN s ELSE floor.placed[j]
            /\ Exact(floor) /\ floor.placed[i] = None /\ s \notin floor.used => Exact(floor')
        BY <1>1, <2>2, <3>1, PlacedThere
      <3>4. ~muddled' => Exact(floor')
        BY <1>1, <2>2, <3>3, FloorExact DEF BoardInv, Placed
      <3>5. SlotsExact'
        BY <3>4 DEF SlotsExact, Exact, Placed
      <3> QED BY <1>1, <2>2, <3>1, <3>2, <3>3, <3>5 DEF Placed
    <2> QED BY <1>2, <2>1, <2>2 DEF shown
  <1>4. owner[i] \in {NoHost, h}
    BY DEF BoardInv, Known, OwnersLive
  <1>5. \/ owner' = owner /\ port' = port /\ present' = present /\ Placed(i)
        \/ owner' = [owner EXCEPT ![i] = h] /\ port' = [port EXCEPT ![h] = i] /\ present' = present \cup {h}
    BY <1>2 DEF shown
  <1>6. BoardTypeOK'
    BY <1>1, <1>3, <1>5 DEF BoardTypeOK, Floors
  <1>7. Known'
    BY <1>1, <1>4, <1>5 DEF BoardInv, Known, OwnersLive, PresentKnown, SnapshotFresh, OnePort, PortsOf
  <1>8. Owned'
    BY <1>1, <1>3, <1>4, <1>5 DEF BoardInv, Known, Owned, OwnersLive, Placed
  <1>9. Latest' /\ ShownAsIs'
    <2> SUFFICES ASSUME ~muddled', NEW j \in Ids \ snapshot'
                 PROVE  /\ live'[j] \in Hosts \ twice' => live'[j] \in present' /\ port'[live'[j]] = j
                        /\ live'[j] = NoHost => ~Placed(j)'
                        /\ live'[j] \in Hosts \ twice' => (Placed(j)' <=> live'[j] \notin shelved')
      BY DEF Latest, ShownAsIs
    <2>1. CASE j # i
      <3>1. live'[j] = live[j] /\ Placed(j)' = Placed(j) /\ j \in Ids \ snapshot
        BY <1>1, <1>3, <2>1 DEF Placed
      <3>2. live[j] \in Hosts \ twice' => live[j] # h
        BY <2>1, <3>1 DEF PortsOf
      <3> QED BY <1>1, <1>3, <1>5, <3>1, <3>2 DEF BoardInv, Latest, ShownAsIs
    <2>2. CASE j = i
      <3>1. ~muddled /\ live'[j] = h
        BY <1>1, <1>3, <2>2
      <3>2. CASE Placed(i)
        <4>1. live[i] = h /\ i \notin snapshot
          BY <1>1, <3>1, <3>2 DEF BoardInv, Owned, ShownAsIs, Known, SnapshotFresh
        <4> QED BY <1>1, <1>3, <1>5, <2>2, <3>1, <3>2, <4>1 DEF BoardInv, Latest, ShownAsIs
      <3>3. CASE ~Placed(i)
        <4>1. port' = [port EXCEPT ![h] = i] /\ present' = present \cup {h}
          BY <1>2, <3>3
        <4>2. port'[h] = i /\ h \in present'
          BY <1>1, <4>1
        <4>3. Placed(i)' <=> h \notin shelved
          BY <1>3, <3>3
        <4>4. h # NoHost /\ shelved' = shelved
          BY <1>1
        <4> QED BY <2>2, <3>1, <4>2, <4>3, <4>4
      <3> QED BY <3>2, <3>3
    <2> QED BY <2>1, <2>2
  <1> QED BY <1>3, <1>6, <1>7, <1>8, <1>9 DEF BoardInv

(* The bridge's events. *)
LEMMA PortAddedKeeps ==
  ASSUME BoardInv, NEW i \in Ids, NEW h \in Hosts, OnPortAdded(i, h)
  PROVE  BoardInv'
  BY AddPortKeeps, BoardTypes DEF OnPortAdded, BoardInv

LEMMA HelloPortKeeps ==
  ASSUME BoardInv, NEW i \in Ids, OnHelloPort(i)
  PROVE  BoardInv'
  <1>1. /\ i \in snapshot /\ snapshot' = snapshot \ {i} /\ AddPort(i, live[i])
        /\ UNCHANGED <<live, shelved, twice>>
    BY DEF OnHelloPort
  <1>2. /\ live \in [Ids -> Hosts \cup {NoHost}] /\ twice \subseteq Hosts
    BY BoardTypes DEF BoardInv
  <1>3. live[i] \in Hosts /\ live' = [live EXCEPT ![i] = live[i]]
    BY <1>1, <1>2 DEF BoardInv, Known, SnapshotFresh
  <1>4. PortsOf(live[i]) \ {i} # {} => live[i] \in twice'
    BY <1>1, <1>2, <1>3, NoneIsNone DEF BoardInv, Known, OnePort, PortsOf
  <1> QED BY <1>1, <1>3, <1>4, AddPortKeeps

LEMMA PortRemovedKeeps ==
  ASSUME BoardInv, NEW i \in Ids, OnPortRemoved(i)
  PROVE  BoardInv'
  <1> USE NoneIsNone
  <1>1. /\ live \in [Ids -> Hosts \cup {NoHost}] /\ snapshot \subseteq Ids /\ floor \in Floors
        /\ owner \in [Ids -> Hosts \cup {NoHost}]
        /\ port \in [Hosts -> Ids \cup {None}] /\ present \subseteq Hosts
        /\ twice \subseteq Hosts
    BY BoardTypes DEF BoardInv
  <1>2. /\ snapshot = {} /\ live[i] # NoHost /\ live' = [live EXCEPT ![i] = NoHost]
        /\ present' = present \ {owner[i]} /\ owner' = [owner EXCEPT ![i] = NoHost]
        /\ floor' = IF Placed(i) THEN Vacate(floor, i) ELSE floor
        /\ UNCHANGED <<snapshot, port, saved, shelved, twice, contested, muddled>>
    BY DEF OnPortRemoved
  <1>3. /\ floor' \in Floors /\ ~Placed(i)' /\ (Exact(floor) => Exact(floor'))
        /\ \A j \in Ids \ {i} : Placed(j)' <=> Placed(j)
    BY <1>1, <1>2, Vacated DEF Placed
  <1>4. BoardTypeOK' /\ HomesKept'
    BY <1>1, <1>2, <1>3 DEF BoardInv, BoardTypeOK, Floors, HomesKept
  <1>5. SlotsExact'
    <2>1. ~muddled' => Exact(floor')
      BY <1>2, <1>3, FloorExact DEF BoardInv
    <2> QED BY <2>1 DEF SlotsExact, Exact, Placed
  <1>6. Known'
    BY <1>1, <1>2 DEF BoardInv, Known, OwnersLive, PresentKnown, SnapshotFresh, OnePort
  <1>7. Owned'
    BY <1>1, <1>2, <1>3 DEF BoardInv, Owned
  <1>8. Latest' /\ ShownAsIs'
    <2> SUFFICES ASSUME ~muddled', NEW j \in Ids \ snapshot'
                 PROVE  /\ live'[j] \in Hosts \ twice' => live'[j] \in present' /\ port'[live'[j]] = j
                        /\ live'[j] = NoHost => ~Placed(j)'
                        /\ live'[j] \in Hosts \ twice' => (Placed(j)' <=> live'[j] \notin shelved')
      BY DEF Latest, ShownAsIs
    <2>1. CASE j = i
      BY <1>1, <1>2, <1>3, <2>1
    <2>2. CASE j # i
      <3>1. live[j] \notin twice \cup {NoHost} => live[j] # live[i]
        BY <2>2 DEF BoardInv, Known, OnePort
      <3>2. owner[i] \in {NoHost, live[i]}
        BY DEF BoardInv, Known, OwnersLive
      <3> QED BY <1>1, <1>2, <1>3, <2>2, <3>1, <3>2 DEF BoardInv, Latest, ShownAsIs
    <2> QED BY <2>1, <2>2
  <1> QED BY <1>4, <1>5, <1>6, <1>7, <1>8 DEF BoardInv

LEMMA HelloKeeps ==
  ASSUME BoardInv, NEW up \in [Ids -> Hosts \cup {NoHost}],
         \A i, j \in Ids : up[i] = up[j] /\ up[i] # NoHost => i = j, OnHello(up)
  PROVE  BoardInv'
  <1> USE NoneIsNone
  <1>1. floor \in Floors /\ (~muddled => Exact(floor))
    BY BoardTypes, FloorExact DEF BoardInv
  <1>2. /\ live' = up /\ snapshot' = {i \in Ids : up[i] # NoHost}
        /\ floor' = Wiped(floor) /\ owner' = [i \in Ids |-> NoHost] /\ present' = {} /\ twice' = {}
        /\ UNCHANGED <<port, saved, shelved, contested, muddled>>
    BY DEF OnHello
  <1>3. /\ floor' \in Floors /\ floor'.placed = [i \in Ids |-> None] /\ floor'.used = {}
        /\ floor'.roost = [s \in Slots |-> IF \E i \in Ids : floor.placed[i] = s THEN None ELSE floor.roost[s]]
    BY <1>1, <1>2 DEF Wiped, Floors
  <1>4. Exact(floor) => Exact(floor')
    <2> SUFFICES ASSUME Exact(floor), NEW s \in Slots PROVE floor'.roost[s] = None
      BY <1>3 DEF Exact
    <2>1. floor.roost[s] \in Ids \cup {None}
      BY <1>1 DEF Floors
    <2>2. floor.roost[s] # None => floor.placed[floor.roost[s]] = s
      BY DEF Exact
    <2> QED BY <1>3, <2>1, <2>2
  <1>5. SlotsExact'
    <2>1. ~muddled' => Exact(floor')
      BY <1>1, <1>2, <1>4
    <2> QED BY <2>1 DEF SlotsExact, Exact, Placed
  <1>6. BoardTypeOK' /\ HomesKept'
    BY <1>2, <1>3 DEF BoardInv, BoardTypeOK, Floors, HomesKept
  <1>7. Known' /\ Owned' /\ Latest' /\ ShownAsIs'
    BY <1>2, <1>3 DEF BoardInv, Known, OwnersLive, PresentKnown, SnapshotFresh, OnePort, Owned, Latest,
                      ShownAsIs, Placed
  <1> QED BY <1>5, <1>6, <1>7 DEF BoardInv

(* The page is loaded again. *)
LEMMA ReloadKeeps ==
  ASSUME BoardInv, Reload
  PROVE  BoardInv'
  <1> USE NoneIsNone
  <1>1. BoardTypeOK' /\ HomesKept'
    BY DEF BoardInv, Reload, BoardTypeOK, HomesKept, EmptyFloor
  <1>2. SlotsExact' /\ Known' /\ Owned' /\ Latest' /\ ShownAsIs'
    BY DEF Reload, EmptyFloor, SlotsExact, Known, OwnersLive, PresentKnown, SnapshotFresh, OnePort, Owned,
           Latest, ShownAsIs, Placed
  <1> QED BY <1>1, <1>2 DEF BoardInv

(* A host that is moved. *)
LEMMA MoveHostKeeps ==
  ASSUME BoardInv, NEW h \in Hosts, NEW s \in Slots, MoveHost(h, s)
  PROVE  BoardInv'
  <1> USE NoneIsNone
  <1>1. /\ live \in [Ids -> Hosts \cup {NoHost}] /\ snapshot \subseteq Ids /\ floor \in Floors
        /\ owner \in [Ids -> Hosts \cup {NoHost}] /\ muddled \in BOOLEAN
        /\ port \in [Hosts -> Ids \cup {None}] /\ present \subseteq Hosts
        /\ (~muddled => Exact(floor))
    BY BoardTypes, FloorExact DEF BoardInv
  <1>2. PICK i \in PlacedOf(h) : /\ floor' = PlaceAt(Vacate(floor, i), port[h], s)
                                 /\ muddled' = (muddled \/ i # port[h])
    BY DEF MoveHost
  <1>3. /\ snapshot = {} /\ s \notin floor.used /\ Takes(h, s, TRUE)
        /\ UNCHANGED <<live, snapshot, owner, port, present, shelved, twice>>
    BY DEF MoveHost
  <1>4. i \in Ids /\ Placed(i) /\ owner[i] = h
    BY <1>2 DEF PlacedOf
  <1> DEFINE v == Vacate(floor, i)
  <1>5. /\ v \in Floors /\ v.placed[i] = None /\ s \notin v.used /\ (Exact(floor) => Exact(v))
        /\ \A j \in Ids \ {i} : v.placed[j] = floor.placed[j]
    BY <1>1, <1>3, <1>4, Vacated DEF Placed
  <1>6. floor' = PlaceAt(v, port[h], s)
    BY <1>2
  <1> HIDE DEF v
  <1>7. /\ floor' \in Floors
        /\ \A j \in Ids : floor'.placed[j] = IF j = port[h] THEN s ELSE v.placed[j]
        /\ Exact(v) /\ port[h] # None /\ v.placed[port[h]] = None => Exact(floor')
    BY <1>1, <1>5, <1>6, PlacedThere
  <1>8. saved' \in [Hosts -> Slots \cup {None}] /\ contested' \subseteq Slots /\ HomesKept'
    BY <1>3, GivenKeeps DEF BoardInv
  <1>9. BoardTypeOK'
    BY <1>1, <1>2, <1>3, <1>7, <1>8 DEF BoardInv, BoardTypeOK, Floors
  <1>10. ~muddled' => ~muddled /\ Exact(floor') /\ \A j \in Ids : Placed(j)' <=> Placed(j)
    BY <1>1, <1>2, <1>4, <1>5, <1>7 DEF Placed
  <1>11. SlotsExact'
    BY <1>10 DEF SlotsExact, Exact, Placed
  <1>12. Known'
    BY <1>3 DEF BoardInv, Known, OwnersLive, PresentKnown, SnapshotFresh, OnePort
  <1>13. Owned' /\ Latest' /\ ShownAsIs'
    BY <1>3, <1>10 DEF BoardInv, Owned, Latest, ShownAsIs
  <1> QED BY <1>8, <1>9, <1>11, <1>12, <1>13 DEF BoardInv

(* A host that is shelved. *)
LEMMA ShelveHostKeeps ==
  ASSUME BoardInv, NEW h \in Hosts, ShelveHost(h)
  PROVE  BoardInv'
  <1> USE NoneIsNone
  <1>1. /\ live \in [Ids -> Hosts \cup {NoHost}] /\ snapshot \subseteq Ids /\ floor \in Floors
        /\ owner \in [Ids -> Hosts \cup {NoHost}] /\ muddled \in BOOLEAN
        /\ shelved \subseteq Hosts /\ (~muddled => Exact(floor))
    BY BoardTypes, FloorExact DEF BoardInv
  <1>2. /\ snapshot = {} /\ shelved' = shelved \cup {h}
        /\ UNCHANGED <<live, snapshot, owner, port, present, saved, twice, contested, muddled>>
    BY DEF ShelveHost
  <1>3. /\ floor' \in Floors /\ (Exact(floor) => Exact(floor'))
        /\ \/ PlacedOf(h) = {} /\ \A j \in Ids : Placed(j)' <=> Placed(j)
           \/ \E i \in PlacedOf(h) : ~Placed(i)' /\ \A j \in Ids \ {i} : Placed(j)' <=> Placed(j)
    <2>1. CASE PlacedOf(h) = {}
      BY <1>1, <2>1 DEF ShelveHost, Placed
    <2>2. ASSUME NEW i \in PlacedOf(h), floor' = Vacate(floor, i)
          PROVE  /\ floor' \in Floors /\ (Exact(floor) => Exact(floor')) /\ ~Placed(i)'
                 /\ \A j \in Ids \ {i} : Placed(j)' <=> Placed(j)
      BY <1>1, <2>2, Vacated DEF Placed, PlacedOf
    <2> QED BY <2>1, <2>2 DEF ShelveHost
  <1>4. BoardTypeOK' /\ HomesKept'
    BY <1>2, <1>3 DEF BoardInv, BoardTypeOK, Floors, HomesKept
  <1>5. SlotsExact'
    <2>1. ~muddled' => Exact(floor')
      BY <1>1, <1>2, <1>3
    <2> QED BY <2>1 DEF SlotsExact, Exact, Placed
  <1>6. Known'
    BY <1>2 DEF BoardInv, Known, OwnersLive, PresentKnown, SnapshotFresh, OnePort
  <1>7. Owned' /\ Latest'
    BY <1>2, <1>3 DEF BoardInv, Owned, Latest
  <1>8. ShownAsIs'
    <2> SUFFICES ASSUME ~muddled, NEW j \in Ids
                 PROVE  /\ live[j] = NoHost => ~Placed(j)'
                        /\ live[j] \in Hosts \ twice => (Placed(j)' <=> live[j] \notin shelved')
      BY <1>2 DEF ShownAsIs
    <2>1. /\ live[j] = NoHost => ~Placed(j)
          /\ live[j] \in Hosts \ twice => (Placed(j) <=> live[j] \notin shelved)
          /\ live[j] # NoHost => owner[j] = live[j]
      BY <1>2 DEF BoardInv, ShownAsIs, Owned
    <2>2. CASE live[j] # h
      BY <1>2, <1>3, <2>1, <2>2 DEF PlacedOf, BoardInv, Known, OwnersLive
    <2>3. ASSUME live[j] = h, h \notin twice PROVE ~Placed(j)'
      <3>1. \A i \in PlacedOf(h) : i = j
        BY <2>3 DEF PlacedOf, BoardInv, Known, OwnersLive, OnePort
      <3>2. Placed(j) => j \in PlacedOf(h)
        BY <2>1, <2>3 DEF PlacedOf
      <3> QED BY <1>3, <3>1, <3>2
    <2> QED BY <1>2, <2>1, <2>2, <2>3
  <1> QED BY <1>4, <1>5, <1>6, <1>7, <1>8 DEF BoardInv

(* A host that is brought back. *)
LEMMA UnshelveHostKeeps ==
  ASSUME BoardInv, NEW h \in Hosts, UnshelveHost(h)
  PROVE  BoardInv'
  <1> USE NoneIsNone
  <1>1. /\ live \in [Ids -> Hosts \cup {NoHost}] /\ snapshot \subseteq Ids /\ floor \in Floors
        /\ owner \in [Ids -> Hosts \cup {NoHost}] /\ muddled \in BOOLEAN
        /\ port \in [Hosts -> Ids \cup {None}] /\ present \subseteq Hosts
        /\ shelved \subseteq Hosts /\ (~muddled => Exact(floor))
    BY BoardTypes, FloorExact DEF BoardInv
  <1>2. /\ snapshot = {} /\ h \in shelved /\ shelved' = shelved \ {h}
        /\ UNCHANGED <<live, snapshot, port, present, twice>>
    BY DEF UnshelveHost
  <1>3. CASE ~(h \in present /\ PlacedOf(h) = {})
    <2>1. UNCHANGED <<owner, floor, saved, contested, muddled>>
      BY <1>3 DEF UnshelveHost
    <2>2. BoardTypeOK' /\ HomesKept' /\ SlotsExact' /\ Known' /\ Owned' /\ Latest'
      BY <1>2, <2>1 DEF BoardInv, BoardTypeOK, HomesKept, SlotsExact, Known, OwnersLive, PresentKnown,
                        SnapshotFresh, OnePort, Owned, Latest, Placed
    <2>3. ASSUME ~muddled, NEW j \in Ids, live[j] = h, h \notin twice PROVE FALSE
      <3>1. h \in present /\ ~Placed(j)
        BY <1>2, <2>3 DEF BoardInv, Latest, ShownAsIs
      <3>2. PICK i \in Ids : Placed(i) /\ owner[i] = h
        BY <1>3, <3>1 DEF PlacedOf
      <3>3. i = j
        BY <2>3, <3>2 DEF BoardInv, Known, OwnersLive, OnePort
      <3> QED BY <3>1, <3>2, <3>3
    <2>4. ShownAsIs'
      BY <1>2, <2>1, <2>3 DEF BoardInv, ShownAsIs, Placed
    <2> QED BY <2>2, <2>4 DEF BoardInv
  <1>4. CASE h \in present /\ PlacedOf(h) = {}
    <2>1. PICK s \in Picks(h) : /\ owner' = [owner EXCEPT ![port[h]] = h]
                                /\ Takes(h, s, FALSE)
                                /\ floor' = PlaceAt(floor, port[h], s)
                                /\ muddled' = (muddled \/ s \in floor.used)
      BY <1>4 DEF UnshelveHost
    <2>2. PICK i \in Ids : i = port[h]
      BY <1>1, <1>4 DEF BoardInv, Known, PresentKnown
    <2>3. owner[i] = h /\ ~Placed(i) /\ owner' = owner /\ s \in Slots
      BY <1>1, <1>4, <2>1, <2>2, PicksSlot DEF BoardInv, Known, PresentKnown, PlacedOf
    <2>4. saved' \in [Hosts -> Slots \cup {None}] /\ contested' \subseteq Slots /\ HomesKept'
      BY <2>1, <2>3, GivenKeeps DEF BoardInv
    <2>5. /\ floor' \in Floors /\ Placed(i)' /\ \A j \in Ids \ {i} : Placed(j)' <=> Placed(j)
          /\ ~muddled' => Exact(floor') /\ ~muddled
      <3>1. floor' = PlaceAt(floor, i, s) /\ floor.placed[i] = None
        BY <2>1, <2>3, <2>2 DEF Placed
      <3>2. /\ floor' \in Floors
            /\ \A j \in Ids : floor'.placed[j] = IF j = i THEN s ELSE floor.placed[j]
            /\ Exact(floor) /\ i # None /\ s \notin floor.used => Exact(floor')
        BY <1>1, <2>3, <3>1, PlacedThere
      <3> QED BY <1>1, <2>1, <2>3, <3>2 DEF Placed
    <2>6. BoardTypeOK'
      BY <1>1, <1>2, <2>1, <2>3, <2>4, <2>5 DEF BoardInv, BoardTypeOK, Floors
    <2>7. SlotsExact'
      BY <2>5 DEF SlotsExact, Exact, Placed
    <2>8. Known'
      BY <1>2, <2>3 DEF BoardInv, Known, OwnersLive, PresentKnown, SnapshotFresh, OnePort
    <2>9. Owned' /\ Latest'
      BY <1>2, <2>3, <2>5 DEF BoardInv, Owned, Latest
    <2>10. ShownAsIs'
      <3> SUFFICES ASSUME ~muddled', NEW j \in Ids
                   PROVE  /\ live[j] = NoHost => ~Placed(j)'
                          /\ live[j] \in Hosts \ twice => (Placed(j)' <=> live[j] \notin shelved')
        BY <1>2 DEF ShownAsIs
      <3>1. /\ live[j] = NoHost => ~Placed(j)
            /\ live[j] \in Hosts \ twice => (Placed(j) <=> live[j] \notin shelved)
            /\ live[j] \in Hosts \ twice => port[live[j]] = j
            /\ live[i] = h
        BY <1>2, <2>3, <2>5 DEF BoardInv, ShownAsIs, Latest, Known, OwnersLive
      <3> QED BY <1>2, <2>3, <2>5, <2>2, <3>1
    <2> QED BY <2>4, <2>6, <2>7, <2>8, <2>9, <2>10 DEF BoardInv
  <1> QED BY <1>3, <1>4

-----------------------------------------------------------------------------
(* The theorems.                                                           *)

(* The page starts with an empty board.                                    *)
LEMMA BoardInvInit == BoardInit => BoardInv
  <1> SUFFICES ASSUME BoardInit PROVE BoardInv
    OBVIOUS
  <1> USE NoneIsNone DEF BoardInit, EmptyFloor
  <1>1. BoardTypeOK
    BY DEF BoardTypeOK
  <1>2. SlotsExact /\ HomesKept
    BY DEF SlotsExact, HomesKept, Placed
  <1>3. Known /\ Owned /\ Latest /\ ShownAsIs
    BY DEF Known, OwnersLive, PresentKnown, SnapshotFresh, OnePort, Owned, Latest, ShownAsIs, Placed
  <1> QED BY <1>1, <1>2, <1>3 DEF BoardInv

(* Every operation keeps the invariant.                                    *)
LEMMA BoardInvKeeps == BoardInv /\ [BoardNext]_boardVars => BoardInv'
  <1> SUFFICES ASSUME BoardInv, [BoardNext]_boardVars PROVE BoardInv'
    OBVIOUS
  <1>1. CASE UNCHANGED boardVars
    BY <1>1 DEF boardVars, shown, BoardInv, BoardTypeOK, Known, OwnersLive, PresentKnown, SnapshotFresh,
                OnePort, Owned, Latest, SlotsExact, ShownAsIs, HomesKept, Placed
  <1> QED BY <1>1, PortAddedKeeps, PortRemovedKeeps, HelloPortKeeps, HelloKeeps, ReloadKeeps, MoveHostKeeps,
             ShelveHostKeeps, UnshelveHostKeeps DEF BoardNext

(* What the bridge reports and what the player does, in any order, keep    *)
(* the board's own books (board.ts addPort, removePort, pickSlot,          *)
(* placeAtSlot, moveHost, shelveHost, unshelveHost).                       *)
THEOREM BoardSafety == BoardSpec => []BoardInv
  BY BoardInvInit, BoardInvKeeps, PTL DEF BoardSpec

(* Each part keeps what it relies on while another part works.             *)
FloorInv == BoardInv /\ SwitchInv /\ TypeOK /\ Inv

LEMMA FloorSafety == FloorSpec => []FloorInv
  <1>1. FloorInit => FloorInv
    BY BoardInvInit, SwitchInitial, InitType, InitInv DEF FloorInit, FloorInv
  <1>2. FloorInv /\ [FloorNext]_floorVars => FloorInv'
    <2> SUFFICES ASSUME FloorInv, [FloorNext]_floorVars PROVE FloorInv'
      OBVIOUS
    <2>1. [BoardNext]_boardVars /\ [SwitchNext]_switchVars /\ [Next]_vars
      BY DEF FloorNext, floorVars
    <2>2. BoardInv'
      BY <2>1, BoardInvKeeps DEF FloorInv
    <2>3. SwitchInv'
      BY <2>1, SwitchInductive DEF FloorInv
    <2>4. Inv'
      BY <2>1, NextInv DEF FloorInv
    <2>5. TypeOK'
      BY <2>1, NextType DEF FloorInv, Inv
    <2> QED BY <2>2, <2>3, <2>4, <2>5 DEF FloorInv
  <1> QED BY <1>1, <1>2, PTL DEF FloorSpec

(* No port that is gone stands on the board, and one that is there does    *)
(* exactly if its host is not shelved (addPort, removePort, shelveHost).   *)
THEOREM ShownAsIsAlways == FloorSpec => []ShownAsIs
  <1>1. FloorInv => ShownAsIs
    BY DEF FloorInv, BoardInv
  <1> QED BY <1>1, FloorSafety, PTL

(* The parts of the floor, none of which disturbs another, keep their      *)
(* types; and each slot is one port's or free, and saved for one host.     *)
THEOREM SlotsAgreeAlways == FloorSpec => []SlotsAgree
  <1>1. SwitchInv => SwitchTypeOK
    BY DEF SwitchInv, SwitchTypeOK, Databases
  <1>2. FloorInv => SlotsAgree
    BY <1>1 DEF FloorInv, BoardInv, SlotsAgree
  <1> QED BY <1>2, FloorSafety, PTL
=============================================================================
