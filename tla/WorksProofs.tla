------------------------------ MODULE WorksProofs ------------------------------
(***************************************************************************)
(* Theorems about Meter, for every limit, mix of lengths and clock; about  *)
(* Tables, for all sets of tables and keys and every size and time to live *)
(* of a table; and about Machinery, Workbench and Traffic, for a board of  *)
(* any size with any slots, machines, hosts and tools.                     *)
(***************************************************************************)
EXTENDS Workbench, Traffic, Meter, Tables, Folding, FiniteSetTheorems, SequenceTheorems, TLAPS

(***************************************************************************)
(* The meter: what passed and what is left together are bounded from both  *)
(* sides, over every stretch of time up to a second.                       *)
(***************************************************************************)

(* A full bucket. *)
Full == limit * Second

(* No stretch of i ticks passes more than a full bucket and the refills    *)
(* within it, what is left in the bucket being counted as passed ...       *)
NeverMore ==
  \A i \in 1..Second : Second * window[i] + Refilled <= Full + (i - 1) * limit

(* ... and, of a meter left alone for that long, none passes less than its *)
(* refills, unless it is still in the bucket.                              *)
NeverLess ==
  \A i \in 1..settled : i * limit <= Second * window[i] + Refilled

MeterInv == MeterTypeOK /\ NeverMore /\ NeverLess

LEMMA MeterNumbers ==
  ASSUME MeterTypeOK
  PROVE  /\ Second \in Nat /\ Second >= 1 /\ limit \in Nat /\ limit >= 1
         /\ Full \in Nat /\ Refilled \in Nat /\ Refilled <= Full
         /\ tokens \in Nat /\ since \in Nat /\ settled \in Nat
  <1>1. /\ Second \in Nat /\ Second >= 1 /\ limit \in Nat /\ limit >= 1
        /\ tokens \in Nat /\ since \in Nat /\ settled \in Nat
    BY MeterAssumption DEF MeterTypeOK
  <1>2. Full \in Nat /\ since * limit \in Nat
    BY <1>1 DEF Full
  <1>3. Refilled = Lesser(Full, tokens + since * limit)
    BY DEF Refilled, Full
  <1> DEFINE in == since * limit
  <1>4. in \in Nat /\ Refilled = Lesser(Full, tokens + in)
    BY <1>2, <1>3
  <1> HIDE DEF in
  <1> QED BY <1>1, <1>2, <1>4 DEF Lesser

LEMMA MeterNumbersNext ==
  MeterTypeOK' => (Refilled <= Full /\ Full \in Nat /\ Refilled \in Nat /\ limit \in Nat)'
  <1>1. MeterTypeOK => (Refilled <= Full /\ Full \in Nat /\ Refilled \in Nat /\ limit \in Nat)
    BY MeterNumbers
  <1> QED BY <1>1, PTL

(* What comes in over n + 1 ticks is what comes in over n, and one more    *)
(* tick's.                                                                 *)
LEMMA OneMoreTick ==
  ASSUME NEW n \in Nat, NEW m \in Nat
  PROVE  /\ (n + 1) * m = n * m + m
         /\ n * m \in Nat
  OBVIOUS

LEMMA MoreTicks ==
  ASSUME NEW n \in Nat, NEW k \in Nat, n <= k, NEW m \in Nat
  PROVE  n * m <= k * m
  <1>1. PICK d \in Nat : k = n + d
    <2>1. k - n \in Nat /\ k = n + (k - n)
      OBVIOUS
    <2> QED BY <2>1
  <1>2. (n + d) * m = n * m + d * m /\ n * m \in Nat /\ d * m \in Nat
    OBVIOUS
  <1> QED BY <1>1, <1>2

LEMMA MeterInitial == MeterInit => MeterInv
  <1> SUFFICES ASSUME MeterInit PROVE MeterInv
    OBVIOUS
  <1>1. MeterTypeOK
    BY MeterAssumption DEF MeterInit, MeterTypeOK, Modes
  <1>2. Second \in Nat /\ Second >= 1 /\ limit \in Nat /\ limit >= 1 /\ Full \in Nat
    BY <1>1, MeterNumbers
  <1>3. Refilled = Full
    <2>1. since * limit = 0 /\ tokens = Full
      BY <1>2 DEF MeterInit, Full
    <2> QED BY <1>2, <2>1 DEF Refilled, Lesser, Full
  <1>4. \A i \in 1..Second : Second * window[i] = 0
    BY <1>2 DEF MeterInit
  <1>5. NeverMore
    <2>1. \A i \in 1..Second : (i - 1) * limit \in Nat
      BY <1>2
    <2> QED BY <1>2, <1>3, <1>4, <2>1 DEF NeverMore
  <1>6. NeverLess
    <2>1. \A i \in 1..Second : i * limit <= Full
      BY <1>2, MoreTicks DEF Full
    <2>2. \A i \in 1..Second : i * limit \in Nat
      BY <1>2
    <2>3. settled = Second
      BY DEF MeterInit
    <2>4. \A i \in 1..Second : i * limit <= Second * window[i] + Refilled
      BY <1>2, <1>3, <1>4, <2>1, <2>2
    <2> QED BY <2>3, <2>4 DEF NeverLess
  <1> QED BY <1>1, <1>5, <1>6 DEF MeterInv

(* A frame that pays moves its price from the bucket to what passed; one   *)
(* that cannot leaves both.                                                *)
LEMMA MeterFrameKeeps ==
  ASSUME MeterInv, NEW length \in Lengths, MeterFrame(length)
  PROVE  MeterInv'
  <1> DEFINE price == Price(length)
  <1>1. /\ Second \in Nat /\ Second >= 1 /\ limit \in Nat /\ Full \in Nat
        /\ Refilled \in Nat /\ Refilled <= Full /\ settled \in Nat /\ settled <= Second
    BY MeterNumbers DEF MeterInv, MeterTypeOK
  <1>2. price \in Nat
    BY MeterAssumption DEF Price, MeterInv, MeterTypeOK
  <1>3. since' = 0 /\ mode' = mode /\ limit' = limit /\ settled' = settled /\ Full' = Full
    BY DEF MeterFrame, Full
  <1>4. window \in [1..Second -> Nat]
    BY DEF MeterInv, MeterTypeOK
  <1> HIDE DEF price
  <1>5. ASSUME NEW left \in Nat, NEW gone \in Nat, tokens' = left,
               left + Second * gone = Refilled,
               window' = [i \in 1..Second |-> window[i] + gone]
        PROVE  MeterInv'
    <2>1. Refilled' = left
      <3>1. (since * limit)' = 0
        BY <1>1, <1>3
      <3>2. left <= Full
        BY <1>1, <1>5
      <3> QED BY <1>1, <1>3, <1>5, <3>1, <3>2 DEF Refilled, Lesser, Full
    <2>2. MeterTypeOK'
      BY <1>1, <1>3, <1>4, <1>5 DEF MeterTypeOK, MeterInv
    <2>3. ASSUME NEW i \in 1..Second
          PROVE  Second * window'[i] + Refilled' = Second * window[i] + Refilled
      <3>1. window'[i] = window[i] + gone /\ window[i] \in Nat
        BY <1>4, <1>5
      <3>2. Second * (window[i] + gone) = Second * window[i] + Second * gone
        BY <1>1, <3>1
      <3>3. Second * window[i] \in Nat /\ Second * gone \in Nat
        BY <1>1, <3>1
      <3> DEFINE a == Second * window[i]  b == Second * gone
      <3>4. /\ a \in Nat /\ b \in Nat /\ Second * window'[i] = a + b
            /\ Refilled' = left /\ left + b = Refilled
        BY <1>5, <2>1, <3>1, <3>2, <3>3
      <3> HIDE DEF a, b
      <3>5. Second * window'[i] + Refilled' = a + Refilled
        BY <1>1, <1>5, <3>4
      <3> QED BY <3>5 DEF a
    <2>4. NeverMore'
      BY <1>3, <2>3 DEF NeverMore, MeterInv
    <2>5. NeverLess'
      BY <1>1, <1>3, <2>3 DEF NeverLess, MeterInv
    <2> QED BY <2>2, <2>4, <2>5 DEF MeterInv
  <1>6. CASE Affordable(price)
    <2>1. /\ tokens' = Refilled - price * Second
          /\ window' = [i \in 1..Second |-> window[i] + price]
      BY <1>6 DEF MeterFrame, price
    <2>2. price * Second \in Nat /\ price * Second = Second * price /\ price * Second <= Refilled
      BY <1>1, <1>2, <1>6 DEF Affordable
    <2>3. tokens' \in Nat /\ tokens' + Second * price = Refilled
      BY <1>1, <2>1, <2>2
    <2> QED BY <1>2, <1>5, <2>1, <2>3
  <1>7. CASE ~Affordable(price)
    <2>1. tokens' = Refilled /\ window' = window
      BY <1>7 DEF MeterFrame, price
    <2>2. window' = [i \in 1..Second |-> window[i] + 0]
      BY <1>4, <2>1
    <2>3. tokens' + Second * 0 = Refilled
      BY <1>1, <2>1
    <2> QED BY <1>1, <1>5, <2>1, <2>2, <2>3
  <1> QED BY <1>6, <1>7

(* A tick adds one refill, unless the bucket is full.                      *)
LEMMA MeterTickKeeps ==
  ASSUME MeterInv, MeterTick
  PROVE  MeterInv'
  <1>1. /\ Second \in Nat /\ Second >= 1 /\ limit \in Nat /\ limit >= 1 /\ Full \in Nat
        /\ Refilled \in Nat /\ Refilled <= Full /\ tokens \in Nat
        /\ since \in Nat /\ since <= Second /\ settled \in Nat /\ settled <= Second
    BY MeterNumbers DEF MeterInv, MeterTypeOK
  <1>2. window \in [1..Second -> Nat]
    BY DEF MeterInv, MeterTypeOK
  <1>3. /\ mode' = mode /\ limit' = limit /\ tokens' = tokens /\ Full' = Full
        /\ since' = Lesser(Second, since + 1) /\ settled' = Lesser(Second, settled + 1)
        /\ window' = [i \in 1..Second |-> IF i = 1 THEN 0 ELSE window[i - 1]]
    BY DEF MeterTick, Full
  <1>4. Refilled' = Lesser(Full, Refilled + limit)
    <2>1. CASE since < Second
      <3>1. since' = since + 1
        BY <1>1, <1>3, <2>1 DEF Lesser
      <3>2. (since + 1) * limit = since * limit + limit /\ since * limit \in Nat
        BY <1>1, OneMoreTick
      <3> DEFINE in == since * limit
      <3>3. /\ in \in Nat /\ Refilled = Lesser(Full, tokens + in)
            /\ Refilled' = Lesser(Full, tokens + (in + limit))
        BY <1>3, <3>1, <3>2 DEF Refilled, Full
      <3> HIDE DEF in
      <3> QED BY <1>1, <3>3 DEF Lesser
    <2>2. CASE since = Second
      <3>1. since' = Second
        BY <1>1, <1>3, <2>2 DEF Lesser
      <3>2. Second * limit = Full
        BY <1>1 DEF Full
      <3>3. Refilled = Lesser(Full, tokens + Full) /\ Refilled' = Lesser(Full, tokens + Full)
        BY <1>3, <2>2, <3>1, <3>2 DEF Refilled, Full
      <3> QED BY <1>1, <3>3 DEF Lesser
    <2> QED BY <1>1, <2>1, <2>2
  <1>5. MeterTypeOK'
    <2>1. since' \in 0..Second /\ settled' \in 0..Second
      BY <1>1, <1>3 DEF Lesser
    <2>2. window' \in [1..Second -> Nat]
      <3>1. \A i \in 1..Second : i # 1 => i - 1 \in 1..Second
        BY <1>1
      <3> QED BY <1>2, <1>3, <3>1
    <2> QED BY <1>3, <2>1, <2>2 DEF MeterTypeOK, MeterInv
  <1>6. NeverMore'
    <2>1. ASSUME NEW i \in 1..Second
          PROVE  Second * window'[i] + Refilled' <= Full + (i - 1) * limit
      <3>1. CASE i = 1
        <4>1. Second * window'[i] = 0 /\ (i - 1) * limit = 0
          BY <1>1, <1>3, <3>1
        <4> QED BY <1>1, <1>4, <4>1 DEF Lesser
      <3>2. CASE i # 1
        <4> DEFINE j == i - 1
        <4>1. j \in 1..Second /\ j - 1 \in Nat /\ window'[i] = window[j] /\ window[j] \in Nat
          BY <1>1, <1>2, <1>3, <3>2
        <4>2. Second * window[j] + Refilled <= Full + (j - 1) * limit
          BY <4>1 DEF MeterInv, NeverMore
        <4>3. j * limit = (j - 1) * limit + limit /\ (j - 1) * limit \in Nat
          <5>1. (j - 1) + 1 = j
            BY <4>1
          <5> HIDE DEF j
          <5> QED BY <1>1, <4>1, <5>1, OneMoreTick
        <4>4. Second * window[j] \in Nat
          BY <1>1, <4>1
        <4>5. Second * window[j] + Refilled' <= Full + j * limit
          <5> DEFINE a == Second * window[j]  b == (j - 1) * limit  c == j * limit
          <5>1. a \in Nat /\ b \in Nat /\ c = b + limit /\ a + Refilled <= Full + b
            BY <4>2, <4>3, <4>4
          <5> HIDE DEF a, b, c
          <5>2. a + Refilled' <= Full + c
            BY <1>1, <1>4, <5>1 DEF Lesser
          <5> QED BY <5>2 DEF a, c
        <4> QED BY <4>1, <4>5
      <3> QED BY <3>1, <3>2
    <2> QED BY <1>3, <2>1 DEF NeverMore
  <1>7. NeverLess'
    <2>1. ASSUME NEW i \in 1..settled'
          PROVE  i * limit <= Second * window'[i] + Refilled'
      <3>1. i \in 1..Second /\ i - 1 <= settled
        BY <1>1, <1>3 DEF Lesser
      <3>2. i * limit \in Nat /\ i * limit <= Full
        BY <1>1, <3>1, MoreTicks DEF Full
      <3>3. CASE i = 1
        <4>1. Second * window'[i] = 0 /\ i * limit = limit
          BY <1>1, <1>3, <3>1, <3>3
        <4> QED BY <1>1, <1>4, <3>2, <4>1 DEF Lesser
      <3>4. CASE i # 1
        <4> DEFINE j == i - 1
        <4>1. /\ j \in 1..settled /\ j \in 1..Second /\ j \in Nat
              /\ window'[i] = window[j] /\ window[j] \in Nat
          BY <1>1, <1>2, <1>3, <3>1, <3>4
        <4>2. j * limit <= Second * window[j] + Refilled
          BY <4>1 DEF MeterInv, NeverLess
        <4>3. i * limit = j * limit + limit /\ j * limit \in Nat
          <5>1. j + 1 = i
            BY <3>1
          <5> HIDE DEF j
          <5> QED BY <1>1, <4>1, <5>1, OneMoreTick
        <4>4. Second * window[j] \in Nat
          BY <1>1, <4>1
        <4>5. i * limit <= Second * window[j] + Refilled'
          <5> DEFINE a == Second * window[j]  b == j * limit  c == i * limit
          <5>1. /\ a \in Nat /\ b \in Nat /\ c = b + limit /\ b <= a + Refilled /\ c <= Full
            BY <3>2, <4>2, <4>3, <4>4
          <5> HIDE DEF a, b, c
          <5>2. c <= a + Refilled'
            BY <1>1, <1>4, <5>1 DEF Lesser
          <5> QED BY <5>2 DEF a, c
        <4> QED BY <4>1, <4>5
      <3> QED BY <3>3, <3>4
    <2> QED BY <1>3, <2>1 DEF NeverLess
  <1> QED BY <1>5, <1>6, <1>7 DEF MeterInv

LEMMA ConfigureMeterKeeps ==
  ASSUME MeterInv, NEW l \in MeterLimits, NEW m \in Modes, ConfigureMeter(l, m)
  PROVE  MeterInv'
  <1>1. Second \in Nat /\ Second >= 1 /\ l \in Nat /\ l * Second \in Nat
    BY MeterAssumption
  <1>2. /\ mode' = m /\ limit' = l /\ settled' = 0 /\ since' = since
        /\ window' = [i \in 1..Second |-> 0]
        /\ tokens' = IF m = mode THEN tokens ELSE l * Second
    BY DEF ConfigureMeter
  <1>3. MeterTypeOK'
    BY <1>1, <1>2 DEF MeterInv, MeterTypeOK
  <1>4. Refilled' <= Full' /\ Full' \in Nat /\ Refilled' \in Nat /\ limit' \in Nat
    BY <1>3, MeterNumbersNext
  <1>5. NeverMore'
    <2>1. \A i \in 1..Second : Second * window'[i] = 0 /\ (i - 1) * limit' \in Nat
      BY <1>1, <1>2, <1>4
    <2>2. Refilled' <= Full'
      BY <1>4
    <2>3. ASSUME NEW i \in 1..Second
          PROVE  Second * window'[i] + Refilled' <= Full' + (i - 1) * limit'
      <3> DEFINE c == (i - 1) * limit'
      <3>1. c \in Nat /\ Second * window'[i] = 0
        BY <2>1
      <3> HIDE DEF c
      <3>2. Second * window'[i] + Refilled' <= Full' + c
        BY <1>4, <3>1
      <3> QED BY <3>2 DEF c
    <2> QED BY <2>3 DEF NeverMore
  <1>6. NeverLess'
    BY <1>2 DEF NeverLess
  <1> QED BY <1>3, <1>5, <1>6 DEF MeterInv

LEMMA MeterInductive == MeterInv /\ [MeterNext]_meterVars => MeterInv'
  <1> SUFFICES ASSUME MeterInv, [MeterNext]_meterVars PROVE MeterInv'
    OBVIOUS
  <1>1. CASE MeterTick
    BY <1>1, MeterTickKeeps
  <1>2. ASSUME NEW length \in Lengths, MeterFrame(length) PROVE MeterInv'
    BY <1>2, MeterFrameKeeps
  <1>3. ASSUME NEW l \in MeterLimits, NEW m \in Modes, ConfigureMeter(l, m) PROVE MeterInv'
    BY <1>3, ConfigureMeterKeeps
  <1>4. CASE UNCHANGED meterVars
    BY <1>4 DEF meterVars, MeterInv, MeterTypeOK, NeverMore, NeverLess, Full, Refilled
  <1> QED BY <1>1, <1>2, <1>3, <1>4 DEF MeterNext

(* A meter shapes the surplus and nothing else, for every limit, every     *)
(* mix of frame lengths and however finely time is cut.                    *)
THEOREM OnlySurplusShapedAlways == MeterSpec => []OnlySurplusShaped
  <1>1. MeterInv => OnlySurplusShaped
    <2> SUFFICES ASSUME MeterInv PROVE OnlySurplusShaped
      OBVIOUS
    <2>1. /\ Second \in Nat /\ Second >= 1 /\ limit \in Nat /\ Full \in Nat
          /\ Refilled \in Nat /\ Passed \in Nat /\ Second \in 1..Second
      BY MeterNumbers DEF MeterInv, MeterTypeOK, Passed
    <2>2. NeverTooMuch
      <3>1. Second * Passed + Refilled <= Full + (Second - 1) * limit
        BY <2>1 DEF MeterInv, NeverMore, Passed
      <3>2. /\ Second * Passed = Passed * Second /\ Passed * Second \in Nat
            /\ (Second - 1) * limit = limit * (Second - 1) /\ limit * (Second - 1) \in Int
        BY <2>1
      <3>3. Passed * Second <= Full + limit * (Second - 1)
        BY <2>1, <3>1, <3>2
      <3> QED BY <3>3 DEF NeverTooMuch, Full
    <2>3. AllowedFlows
      <3> SUFFICES ASSUME settled = Second, NEW length \in Lengths,
                          Passed + Price(length) <= limit
                   PROVE  Affordable(Price(length))
        BY DEF AllowedFlows
      <3> DEFINE price == Price(length)
      <3>1. price \in Nat
        BY MeterAssumption DEF Price, MeterInv, MeterTypeOK
      <3>2. Second * limit <= Second * Passed + Refilled
        BY <2>1 DEF MeterInv, NeverLess, Passed
      <3> HIDE DEF price
      <3>3. (Passed + price) * Second <= limit * Second
        <4>1. Passed + price <= limit
          BY DEF price
        <4> QED BY <2>1, <3>1, <4>1, MoreTicks
      <3>4. /\ (Passed + price) * Second = Second * Passed + price * Second
            /\ limit * Second = Second * limit
            /\ Second * Passed \in Nat /\ price * Second \in Nat /\ Second * limit \in Nat
        BY <2>1, <3>1
      <3>5. price * Second <= Refilled
        BY <2>1, <3>2, <3>3, <3>4
      <3> QED BY <3>5 DEF Affordable, price
    <2> QED BY <2>2, <2>3 DEF OnlySurplusShaped, MeterInv
  <1> QED BY <1>1, MeterInitial, MeterInductive, PTL DEF MeterSpec

-----------------------------------------------------------------------------
(* The tables. *)

Entry == [dir : Directions, age : 0..(TableTTL + 1)] \cup {NoEntry}
Table == [Keys -> Entry]

(* What a table knows is what was learned last, with the same age.         *)
NothingElse(table, record) == \A k \in Keys : table[k] \in {NoEntry, record[k]}

TablesInv ==
  /\ entries \in [TableNames -> Table] /\ learned \in [TableNames -> Table]
  /\ \A t \in TableNames :
       NothingElse(entries[t], learned[t]) /\ Cardinality(Known(entries[t])) <= MaxTable

-----------------------------------------------------------------------------
(* A subset of what a table knows is no larger than the table.             *)
LEMMA KnownShrinks ==
  ASSUME NEW old \in Table, NEW new \in Table, Known(new) \subseteq Known(old),
         Cardinality(Known(old)) <= MaxTable
  PROVE  Cardinality(Known(new)) <= MaxTable
  <1>1. IsFiniteSet(Known(old))
    BY TablesAssumption, FS_Subset DEF Known
  <1>2. /\ IsFiniteSet(Known(new)) /\ Cardinality(Known(new)) <= Cardinality(Known(old))
        /\ Cardinality(Known(new)) \in Nat /\ Cardinality(Known(old)) \in Nat
    BY <1>1, FS_Subset, FS_CardinalityType
  <1> QED BY <1>2, TablesAssumption

(* An eviction makes room for one more key.                                *)
LEMMA EvictedFacts ==
  ASSUME NEW old \in Table, NEW key \in Keys, NEW table \in Evicted(old, key),
         Cardinality(Known(old)) <= MaxTable
  PROVE  /\ table \in Table
         /\ \A k \in Keys : table[k] \in {NoEntry, old[k]}
         /\ IsFiniteSet(Known(table) \cup {key})
         /\ Cardinality(Known(table) \cup {key}) <= MaxTable
  <1> DEFINE known == Known(old)
  <1>1. IsFiniteSet(known) /\ Cardinality(known) \in Nat /\ Cardinality(known) <= MaxTable
    BY TablesAssumption, FS_Subset, FS_CardinalityType DEF Known
  <1>2. MaxTable \in Nat
    BY TablesAssumption
  <1>3. CASE key \in known \/ Cardinality(known) < MaxTable
    <2>1. table = old
      BY <1>3 DEF Evicted
    <2>2. /\ IsFiniteSet(known \cup {key})
          /\ Cardinality(known \cup {key}) =
               IF key \in known THEN Cardinality(known) ELSE Cardinality(known) + 1
      BY <1>1, FS_AddElement
    <2>3. Cardinality(known \cup {key}) <= MaxTable
      <3> HIDE DEF known
      <3> QED BY <1>1, <1>2, <1>3, <2>2
    <2> QED BY <2>1, <2>2, <2>3
  <1>4. CASE ~(key \in known \/ Cardinality(known) < MaxTable)
    <2>1. PICK k \in known : table = [old EXCEPT ![k] = NoEntry]
      BY <1>4 DEF Evicted
    <2>2. table \in Table /\ \A l \in Keys : table[l] \in {NoEntry, old[l]}
      BY <2>1 DEF Table, Entry
    <2>3. Known(table) = known \ {k}
      BY <2>1 DEF Known, Table
    <2>4. IsFiniteSet(known \ {k}) /\ Cardinality(known \ {k}) = Cardinality(known) - 1
      BY <1>1, <2>1, FS_RemoveElement
    <2>5. /\ IsFiniteSet((known \ {k}) \cup {key})
          /\ Cardinality((known \ {k}) \cup {key}) =
               IF key \in known \ {k} THEN Cardinality(known \ {k}) ELSE Cardinality(known \ {k}) + 1
      BY <2>4, FS_AddElement
    <2>6. Cardinality((known \ {k}) \cup {key}) <= MaxTable
      <3> HIDE DEF known
      <3> QED BY <1>1, <1>2, <2>4, <2>5
    <2> QED BY <2>2, <2>3, <2>5, <2>6
  <1> QED BY <1>3, <1>4

LEMMA LearnKeeps ==
  ASSUME TablesInv, NEW t \in TableNames, NEW key \in Keys, NEW d \in Travels,
         TableLearn(t, key, d)
  PROVE  TablesInv'
  <1> DEFINE entry == [dir |-> (d + 2) % 4, age |-> 0]
  <1>1. PICK table \in Evicted(entries[t], key) :
          entries' = [entries EXCEPT ![t] = [table EXCEPT ![key] = entry]]
    BY DEF TableLearn
  <1>2. learned' = [learned EXCEPT ![t] = [learned[t] EXCEPT ![key] = entry]]
    BY DEF TableLearn
  <1>3. entry \in Entry
    <2>1. d \in 0..3
      BY TablesAssumption
    <2>2. (d + 2) % 4 \in Directions
      BY <2>1 DEF Directions
    <2> QED BY <2>2, TablesAssumption DEF Entry
  <1>4. /\ entries[t] \in Table /\ learned[t] \in Table
        /\ NothingElse(entries[t], learned[t])
        /\ Cardinality(Known(entries[t])) <= MaxTable
    BY DEF TablesInv
  <1>5. /\ table \in Table /\ \A k \in Keys : table[k] \in {NoEntry, entries[t][k]}
        /\ IsFiniteSet(Known(table) \cup {key})
        /\ Cardinality(Known(table) \cup {key}) <= MaxTable
    BY <1>4, EvictedFacts
  <1> DEFINE new == [table EXCEPT ![key] = entry]
             record == [learned[t] EXCEPT ![key] = entry]
  <1> HIDE DEF entry
  <1>6. new \in Table /\ record \in Table
    BY <1>3, <1>4, <1>5 DEF Table
  <1>7. NothingElse(new, record)
    BY <1>4, <1>5 DEF NothingElse, Table
  <1>8. Cardinality(Known(new)) <= MaxTable
    <2>1. Known(new) \subseteq Known(table) \cup {key}
      BY <1>5 DEF Known, Table
    <2>2. /\ Cardinality(Known(new)) <= Cardinality(Known(table) \cup {key})
          /\ Cardinality(Known(new)) \in Nat
          /\ Cardinality(Known(table) \cup {key}) \in Nat
      BY <1>5, <2>1, FS_Subset, FS_CardinalityType
    <2> QED BY <1>5, <2>2, TablesAssumption
  <1> HIDE DEF new, record
  <1>9. /\ entries' = [entries EXCEPT ![t] = new] /\ learned' = [learned EXCEPT ![t] = record]
        /\ entries \in [TableNames -> Table] /\ learned \in [TableNames -> Table]
        /\ \A u \in TableNames :
             NothingElse(entries[u], learned[u]) /\ Cardinality(Known(entries[u])) <= MaxTable
    BY <1>1, <1>2 DEF TablesInv, new, record, entry
  <1> QED BY <1>6, <1>7, <1>8, <1>9 DEF TablesInv

LEMMA LookupKeeps ==
  ASSUME TablesInv, NEW t \in TableNames, NEW key \in Keys, TableLookup(t, key)
  PROVE  TablesInv'
  <1>1. CASE Hit(t, key)
    BY <1>1 DEF TablesInv, TableLookup
  <1>2. CASE ~Hit(t, key)
    <2> DEFINE new == [entries[t] EXCEPT ![key] = NoEntry]
    <2>1. /\ entries' = [entries EXCEPT ![t] = new] /\ learned' = learned
          /\ entries \in [TableNames -> Table] /\ learned \in [TableNames -> Table]
          /\ \A u \in TableNames :
               NothingElse(entries[u], learned[u]) /\ Cardinality(Known(entries[u])) <= MaxTable
      BY <1>2 DEF TableLookup, TablesInv
    <2>2. new \in Table
      BY <2>1 DEF Table, Entry
    <2>3. NothingElse(new, learned[t])
      BY <2>1 DEF NothingElse, Table
    <2>4. Cardinality(Known(new)) <= MaxTable
      <3>1. Known(new) \subseteq Known(entries[t])
        BY <2>1 DEF Known, Table
      <3> QED BY <2>1, <2>2, <3>1, KnownShrinks
    <2> HIDE DEF new
    <2> QED BY <2>1, <2>2, <2>3, <2>4 DEF TablesInv
  <1> QED BY <1>1, <1>2

(* A table and the record of what was learned age alike.                   *)
LEMMA OlderFacts ==
  ASSUME NEW table \in Table, NEW record \in Table, NothingElse(table, record)
  PROVE  /\ Older(table) \in Table /\ Aged(record) \in Table
         /\ NothingElse(Older(table), Aged(record))
         /\ Known(Older(table)) = Known(table)
  <1>1. TableTTL \in Nat
    BY TablesAssumption
  <1>2. Older(table) \in Table /\ Aged(record) \in Table
    BY <1>1 DEF Older, Aged, Table, Entry, NoEntry, Directions
  <1>3. NothingElse(Older(table), Aged(record))
    BY <1>1 DEF NothingElse, Older, Aged, Table
  <1>4. Known(Older(table)) = Known(table)
    BY <1>1 DEF Known, Older, Table, Entry, NoEntry, Directions
  <1> QED BY <1>2, <1>3, <1>4

LEMMA TickKeeps ==
  ASSUME TablesInv, TablesTick
  PROVE  TablesInv'
  <1>1. ASSUME NEW t \in TableNames
        PROVE  /\ entries'[t] \in Table /\ learned'[t] \in Table
               /\ NothingElse(entries'[t], learned'[t])
               /\ Cardinality(Known(entries'[t])) <= MaxTable
    <2>1. /\ entries[t] \in Table /\ learned[t] \in Table
          /\ NothingElse(entries[t], learned[t]) /\ Cardinality(Known(entries[t])) <= MaxTable
      BY DEF TablesInv
    <2>2. entries'[t] = Older(entries[t]) /\ learned'[t] = Aged(learned[t])
      BY DEF TablesTick
    <2> QED BY <2>1, <2>2, OlderFacts
  <1>2. entries' \in [TableNames -> Table] /\ learned' \in [TableNames -> Table]
    BY <1>1 DEF TablesTick
  <1> QED BY <1>1, <1>2 DEF TablesInv

-----------------------------------------------------------------------------
LEMMA TablesInitial == TablesInit => TablesInv
  <1> SUFFICES ASSUME TablesInit PROVE TablesInv
    OBVIOUS
  <1>1. entries \in [TableNames -> Table] /\ learned = entries
    BY DEF TablesInit, Table, Entry
  <1>2. \A t \in TableNames : Known(entries[t]) = {} /\ NothingElse(entries[t], learned[t])
    BY <1>1 DEF TablesInit, Known, NothingElse
  <1> QED BY <1>1, <1>2, FS_EmptySet, TablesAssumption DEF TablesInv

LEMMA TablesInductive == TablesInv /\ [TablesNext]_tablesVars => TablesInv'
  <1> SUFFICES ASSUME TablesInv, [TablesNext]_tablesVars PROVE TablesInv'
    OBVIOUS
  <1>1. CASE TablesTick
    BY <1>1, TickKeeps
  <1>2. ASSUME NEW t \in TableNames, NEW k \in Keys, TableLookup(t, k) PROVE TablesInv'
    BY <1>2, LookupKeeps
  <1>3. ASSUME NEW t \in TableNames, NEW k \in Keys, NEW d \in Travels, TableLearn(t, k, d)
        PROVE  TablesInv'
    BY <1>3, LearnKeeps
  <1>4. CASE UNCHANGED tablesVars
    BY <1>4 DEF tablesVars, TablesInv
  <1> QED BY <1>1, <1>2, <1>3, <1>4 DEF TablesNext

(* A table never outgrows its limit, and a hit names the direction its key *)
(* came from last, whichever machines share the table.                     *)
THEOREM HitsAreTrueAlways == TablesSpec => []HitsAreTrue
  <1>1. TablesInv => HitsAreTrue
    <2> SUFFICES ASSUME TablesInv PROVE HitsAreTrue
      OBVIOUS
    <2>1. TablesTypeOK
      BY DEF TablesInv, TablesTypeOK, Table, Entry
    <2> QED BY <2>1 DEF TablesInv, HitsAreTrue, NothingElse, Hit
  <1> QED BY <1>1, TablesInitial, TablesInductive, PTL DEF TablesSpec

-----------------------------------------------------------------------------
(***************************************************************************)
(* The floor: what its two maps say of a switch is the same after every    *)
(* operation, and hosts stand on their slots.                              *)
(***************************************************************************)

(* What cells hold, with ports of any number. *)
Contents ==
  {Free} \cup Machines \cup {Body(id) : id \in AppIds} \cup {Pending(id) : id \in AppIds}
  \cup {In(id, k) : id \in AppIds, k \in Nat}
  \cup {Out(id, k, d) : id \in AppIds, k \in Nat, d \in 0..3}
  \cup {Roost(h, d) : h \in Hosts, d \in 0..3} \cup {Landing(h) : h \in Hosts}

Port == [in : Cells, out : Cells, dir : 0..3]
Box  == [id : AppIds, cells : SUBSET Cells, ports : Seq(Port), pending : Cells \cup {NoCell}]

(* What can be drawn again: two cells or more, and ports on the edge that  *)
(* face the way they would if they were made now. *)
Wired(b) ==
  /\ ~(Cardinality(b.cells) < 2)
  /\ b.pending # NoCell => OpenSides(b.cells, b.pending) # {}
  /\ \A k \in DOMAIN b.ports :
       /\ OpenSides(b.cells, b.ports[k].in) # {} /\ OpenSides(b.cells, b.ports[k].out) # {}
       /\ b.ports[k].dir = Facing(b.cells, b.ports[k].out)

(* The cells of a switch, and what each of them shows. *)
SoundBox(cells, b) ==
  /\ Wired(b)
  /\ b.cells = {c \in Cells : IsBox(cells[c]) /\ cells[c].app = b.id}
  /\ b.pending # NoCell => cells[b.pending] = Pending(b.id)
  /\ \A k \in DOMAIN b.ports :
       /\ cells[b.ports[k].in] = In(b.id, k)
       /\ cells[b.ports[k].out] = Out(b.id, k, b.ports[k].dir)
  /\ \A c \in b.cells :
       \/ cells[c] = Body(b.id) \/ c = b.pending
       \/ \E k \in DOMAIN b.ports : c \in {b.ports[k].in, b.ports[k].out}

(* No switch is there twice. *)
Distinct(boxes) ==
  /\ boxes \in Seq(Box) /\ IsInjective(boxes)
  /\ \A a, b \in ToSet(boxes) : a.id = b.id => a = b

Agree(cells, boxes) ==
  /\ \A c \in Cells : IsBox(cells[c]) => \E b \in boxes : b.id = cells[c].app
  /\ \A b \in boxes : SoundBox(cells, b)

FloorOK(f) ==
  /\ f = [cells |-> f.cells, boxes |-> f.boxes]
  /\ f.cells \in [Cells -> Contents]
  /\ Distinct(f.boxes) /\ Agree(f.cells, ToSet(f.boxes))

LEMMA CellShape == \A c \in Cells : c = <<c[1], c[2]>> /\ c # NoCell
  <1> SUFFICES ASSUME NEW c \in Cells PROVE c = <<c[1], c[2]>> /\ c # NoCell
    OBVIOUS
  <1> DEFINE A == 0..(Cols - 1)  B == 0..(Rows - 1)
  <1>1. c \in A \X B
    BY DEF Cells
  <1> HIDE DEF A, B
  <1>2. c = <<c[1], c[2]>>
    BY <1>1
  <1>3. <<c[1], c[2]>> # NoCell
    BY DEF NoCell
  <1> QED BY <1>2, <1>3

LEMMA Kinds ==
  /\ ~IsBox(Free) /\ ~IsHost(Free) /\ ~IsLoose(Free)
  /\ \A id : IsBox(Body(id)) /\ ~IsHost(Body(id)) /\ Body(id).app = id /\ Body(id).type = "body"
  /\ \A id : IsBox(Pending(id)) /\ ~IsHost(Pending(id)) /\ Pending(id).app = id
             /\ Pending(id).type = "pending"
  /\ \A id, k : IsBox(In(id, k)) /\ ~IsHost(In(id, k)) /\ In(id, k).app = id
                /\ In(id, k).type = "in" /\ In(id, k).port = k
  /\ \A id, k, d : IsBox(Out(id, k, d)) /\ ~IsHost(Out(id, k, d)) /\ Out(id, k, d).app = id
                   /\ Out(id, k, d).type = "out" /\ Out(id, k, d).port = k
                   /\ Out(id, k, d).dir = d
  /\ \A h, d : ~IsBox(Roost(h, d)) /\ IsHost(Roost(h, d)) /\ Roost(h, d).host = h
               /\ Roost(h, d).type = "roost" /\ Roost(h, d).dir = d
  /\ \A h : ~IsBox(Landing(h)) /\ IsHost(Landing(h)) /\ Landing(h).host = h
            /\ Landing(h).type = "landing"
  /\ \A m \in Machines : ~IsBox(m) /\ ~IsHost(m) /\ IsLoose(m) /\ m # Free
  BY MachineryAssumption DEF IsBox, IsHost, IsLoose, Free, Body, Pending, In, Out, Roost, Landing

LEMMA ContentsHas ==
  /\ Free \in Contents /\ Machines \subseteq Contents
  /\ \A id \in AppIds : Body(id) \in Contents /\ Pending(id) \in Contents
  /\ \A id \in AppIds, k \in Nat : In(id, k) \in Contents
  /\ \A id \in AppIds, k \in Nat, d \in 0..3 : Out(id, k, d) \in Contents
  /\ \A h \in Hosts, d \in 0..3 : Roost(h, d) \in Contents
  /\ \A h \in Hosts : Landing(h) \in Contents
  BY DEF Contents

(* What is neither of a switch nor of a host. *)
LEMMA PlainContents ==
  ASSUME NEW x \in Contents, ~IsBox(x)
  PROVE  \/ x = Free \/ x \in Machines
         \/ \E h \in Hosts, d \in 0..3 : x = Roost(h, d)
         \/ \E h \in Hosts : x = Landing(h)
  BY Kinds DEF Contents

LEMMA BoxContents ==
  ASSUME NEW x \in Contents, IsBox(x)
  PROVE  x.app \in AppIds
  BY Kinds DEF Contents

LEMMA OfBox ==
  ASSUME NEW cells, NEW b \in Box, SoundBox(cells, b), NEW c \in Cells
  PROVE  /\ c \in b.cells <=> IsBox(cells[c]) /\ cells[c].app = b.id
         /\ b.pending # NoCell => b.pending \in b.cells
         /\ \A k \in DOMAIN b.ports : b.ports[k].in \in b.cells /\ b.ports[k].out \in b.cells
  <1>1. c \in b.cells <=> IsBox(cells[c]) /\ cells[c].app = b.id
    BY DEF SoundBox
  <1>2. b.pending # NoCell => b.pending \in b.cells
    BY Kinds DEF SoundBox, Box
  <1>3. ASSUME NEW k \in DOMAIN b.ports PROVE b.ports[k].in \in b.cells /\ b.ports[k].out \in b.cells
    <2>1. b.ports[k] \in Port
      BY DEF Box
    <2>2. b.ports[k].in \in Cells /\ b.ports[k].out \in Cells
      BY <2>1 DEF Port
    <2> QED BY <2>2, Kinds DEF SoundBox
  <1> QED BY <1>1, <1>2, <1>3

(* A switch is left alone. *)
LEMMA SoundBoxSame ==
  ASSUME NEW cells, NEW new, NEW b \in Box, SoundBox(cells, b),
         \A c \in b.cells : new[c] = cells[c],
         \A c \in Cells : IsBox(new[c]) /\ new[c].app = b.id => c \in b.cells
  PROVE  SoundBox(new, b)
  <1>1. b.cells = {c \in Cells : IsBox(new[c]) /\ new[c].app = b.id}
    BY DEF SoundBox, Box
  <1>2. b.pending # NoCell => new[b.pending] = Pending(b.id)
    <2>1. b.pending # NoCell => b.pending \in Cells
      BY DEF Box
    <2> QED BY <2>1, OfBox DEF SoundBox
  <1>3. ASSUME NEW k \in DOMAIN b.ports
        PROVE  /\ new[b.ports[k].in] = In(b.id, k)
               /\ new[b.ports[k].out] = Out(b.id, k, b.ports[k].dir)
    <2>1. b.ports[k] \in Port
      BY DEF Box
    <2>2. b.ports[k].in \in Cells /\ b.ports[k].out \in Cells
      BY <2>1 DEF Port
    <2>3. b.ports[k].in \in b.cells /\ b.ports[k].out \in b.cells
      BY <2>2, OfBox
    <2> QED BY <2>3 DEF SoundBox
  <1>4. \A c \in b.cells :
       \/ new[c] = Body(b.id) \/ c = b.pending
       \/ \E k \in DOMAIN b.ports : c \in {b.ports[k].in, b.ports[k].out}
    BY DEF SoundBox
  <1>5. Wired(b)
    BY DEF SoundBox
  <1> QED BY <1>1, <1>2, <1>3, <1>4, <1>5 DEF SoundBox

(* Cells that are not of switches change. *)
LEMMA PlainChange ==
  ASSUME NEW f, FloorOK(f), NEW new \in [Cells -> Contents],
         \A c \in Cells : IsBox(f.cells[c]) \/ IsBox(new[c]) => new[c] = f.cells[c]
  PROVE  FloorOK([cells |-> new, boxes |-> f.boxes])
  <1> DEFINE g == [cells |-> new, boxes |-> f.boxes]
  <1>1. g = [cells |-> g.cells, boxes |-> g.boxes] /\ g.cells = new /\ g.boxes = f.boxes
    OBVIOUS
  <1>2. ASSUME NEW b \in ToSet(f.boxes) PROVE SoundBox(new, b)
    <2>1. SoundBox(f.cells, b) /\ b \in Box
      BY DEF FloorOK, Agree, Distinct, ToSet
    <2>2. \A c \in b.cells : c \in Cells /\ IsBox(f.cells[c])
      BY <2>1 DEF SoundBox
    <2>3. \A c \in Cells : IsBox(new[c]) /\ new[c].app = b.id => c \in b.cells
      BY <2>1 DEF SoundBox
    <2> QED BY <2>1, <2>2, <2>3, SoundBoxSame
  <1>3. Agree(new, ToSet(f.boxes))
    BY <1>2 DEF Agree, FloorOK
  <1> HIDE DEF g
  <1>4. FloorOK(g)
    BY <1>1, <1>3 DEF FloorOK
  <1> QED BY <1>4 DEF g

-----------------------------------------------------------------------------
(* The list of switches. *)

LEMMA DistinctOnly ==
  ASSUME NEW boxes, Distinct(boxes), NEW S
  PROVE  Distinct(Only(boxes, S)) /\ ToSet(Only(boxes, S)) = ToSet(boxes) \cap S
  <1>1. /\ Only(boxes, S) \in Seq(Box) /\ ToSet(Only(boxes, S)) = ToSet(boxes) \cap S
        /\ IsInjective(boxes) => IsInjective(Only(boxes, S))
    BY OnlyFacts DEF Distinct
  <1> QED BY <1>1 DEF Distinct

LEMMA DistinctAppend ==
  ASSUME NEW boxes, Distinct(boxes), NEW b \in Box, \A a \in ToSet(boxes) : a.id # b.id
  PROVE  Distinct(Append(boxes, b)) /\ ToSet(Append(boxes, b)) = ToSet(boxes) \cup {b}
  <1>1. boxes \in Seq(Box) /\ b \notin ToSet(boxes)
    BY DEF Distinct
  <1>2. /\ ToSet(Append(boxes, b)) = ToSet(boxes) \cup {b}
        /\ IsInjective(boxes) => IsInjective(Append(boxes, b))
        /\ Append(boxes, b) \in Seq(Box)
    BY <1>1, AppendSet
  <1> QED BY <1>2 DEF Distinct

LEMMA BoxOfIs ==
  ASSUME NEW f, Distinct(f.boxes), NEW id \in BoxIds(f)
  PROVE  /\ BoxOf(f, id) \in ToSet(f.boxes) /\ BoxOf(f, id) \in Box /\ BoxOf(f, id).id = id
         /\ \A b \in ToSet(f.boxes) : b.id = id => b = BoxOf(f, id)
  <1>1. \E b \in ToSet(f.boxes) : b.id = id
    BY DEF BoxIds, ToSet
  <1>2. ToSet(f.boxes) \subseteq Box
    BY DEF Distinct, ToSet
  <1> QED BY <1>1, <1>2 DEF BoxOf, Distinct

LEMMA WithBoxIs ==
  ASSUME NEW f, Distinct(f.boxes), NEW old \in ToSet(f.boxes), NEW b \in Box, b.id = old.id
  PROVE  /\ Distinct(WithBox(f, b))
         /\ ToSet(WithBox(f, b)) = (ToSet(f.boxes) \ {old}) \cup {b}
         /\ DOMAIN WithBox(f, b) = DOMAIN f.boxes
         /\ \A i \in DOMAIN f.boxes :
              WithBox(f, b)[i] = IF f.boxes[i] = old THEN b ELSE f.boxes[i]
  <1> DEFINE boxes == f.boxes  at == CHOOSE i \in DOMAIN boxes : boxes[i].id = b.id
             new == WithBox(f, b)
  <1>1. boxes \in Seq(Box) /\ IsInjective(boxes) /\ \A a, c \in ToSet(boxes) : a.id = c.id => a = c
    BY DEF Distinct
  <1>2. at \in DOMAIN boxes /\ boxes[at].id = b.id
    BY DEF ToSet
  <1>3. boxes[at] = old
    BY <1>1, <1>2 DEF ToSet
  <1>4. new = [boxes EXCEPT ![at] = b]
    BY DEF WithBox
  <1> HIDE DEF at, new
  <1>5. new \in Seq(Box) /\ DOMAIN new = DOMAIN boxes
    BY <1>1, <1>2, <1>4
  <1>6. new[at] = b /\ \A i \in DOMAIN boxes \ {at} : new[i] = boxes[i] /\ boxes[i] # old
    BY <1>1, <1>2, <1>3, <1>4 DEF IsInjective
  <1>7. ToSet(new) = (ToSet(boxes) \ {old}) \cup {b}
    BY <1>2, <1>3, <1>5, <1>6 DEF ToSet
  <1>8. \A i \in DOMAIN boxes \ {at} : new[i] \in ToSet(boxes) /\ new[i].id # b.id
    BY <1>1, <1>6 DEF ToSet
  <1>9. IsInjective(new)
    <2> SUFFICES ASSUME NEW i \in DOMAIN new, NEW j \in DOMAIN new, new[i] = new[j] PROVE i = j
      BY DEF IsInjective
    <2> QED BY <1>1, <1>5, <1>6, <1>8 DEF IsInjective
  <1>10. \A a, c \in ToSet(new) : a.id = c.id => a = c
    BY <1>1, <1>7
  <1>11. \A i \in DOMAIN boxes : new[i] = IF boxes[i] = old THEN b ELSE boxes[i]
    BY <1>3, <1>6
  <1> QED BY <1>5, <1>7, <1>9, <1>10, <1>11 DEF new, Distinct

LEMMA BoxesOf ==
  ASSUME NEW f, FloorOK(f), NEW b \in ToSet(f.boxes)
  PROVE  /\ b \in Box /\ b.id \in AppIds /\ b.cells \subseteq Cells /\ SoundBox(f.cells, b)
         /\ b.id \in BoxIds(f)
  <1>1. b \in Box /\ SoundBox(f.cells, b)
    BY DEF FloorOK, Agree, Distinct, ToSet
  <1>2. b.id \in BoxIds(f)
    BY DEF BoxIds, ToSet
  <1> QED BY <1>1, <1>2 DEF Box

(* A cell of a switch is of one switch. *)
LEMMA CellBox ==
  ASSUME NEW f, FloorOK(f), NEW c \in Cells, IsBox(f.cells[c])
  PROVE  \E b \in ToSet(f.boxes) : b.id = f.cells[c].app /\ c \in b.cells
  BY BoxesOf DEF FloorOK, Agree, SoundBox

LEMMA BoxesApart ==
  ASSUME NEW f, FloorOK(f), NEW a \in ToSet(f.boxes), NEW b \in ToSet(f.boxes),
         NEW c \in a.cells, c \in b.cells
  PROVE  a = b
  BY BoxesOf DEF FloorOK, Distinct, SoundBox

-----------------------------------------------------------------------------
(* What is taken off the floor: machines, and all of each switch that is   *)
(* hit. *)
ClearedCells(f, g, S) ==
  /\ \A c \in Cells : ~IsBox(f.cells[c]) =>
       g.cells[c] = IF c \in S /\ ~IsHost(f.cells[c]) THEN Free ELSE f.cells[c]
  /\ \A b \in ToSet(f.boxes) : \A c \in b.cells :
       g.cells[c] = IF b.cells \cap S = {} THEN f.cells[c] ELSE Free

ClearedBoxes(f, S) == {b \in ToSet(f.boxes) : b.cells \cap S = {}}

LEMMA ClearedFacts ==
  ASSUME NEW f, FloorOK(f), NEW S \in SUBSET Cells
  PROVE  /\ FloorOK(Cleared(f, S)) /\ ClearedCells(f, Cleared(f, S), S)
         /\ ToSet(Cleared(f, S).boxes) = ClearedBoxes(f, S)
  <1> DEFINE g == Cleared(f, S)  boxes == ToSet(f.boxes)
             hit == {f.cells[c].app : c \in {d \in S : IsBox(f.cells[d])}}
             gone == {b \in boxes : b.id \in hit}
  <1>1. ASSUME NEW b \in boxes PROVE b \in gone <=> b.cells \cap S # {}
    <2>1. SoundBox(f.cells, b)
      BY BoxesOf
    <2>2. \A c \in S : c \in b.cells <=> IsBox(f.cells[c]) /\ f.cells[c].app = b.id
      BY <2>1 DEF SoundBox
    <2> QED BY <2>2
  <1>2. /\ g = [cells |-> g.cells, boxes |-> g.boxes]
        /\ g.cells = [c \in Cells |->
                        IF (c \in S /\ ~IsHost(f.cells[c])) \/ \E b \in gone : c \in b.cells
                          THEN Free ELSE f.cells[c]]
        /\ g.boxes = Only(f.boxes, boxes \ gone)
    BY DEF Cleared
  <1> HIDE DEF g, gone
  <1>3. ToSet(g.boxes) = ClearedBoxes(f, S)
    <2>1. ToSet(g.boxes) = boxes \ gone
      BY <1>2, DistinctOnly DEF FloorOK
    <2>2. gone \subseteq boxes
      BY DEF gone
    <2> QED BY <1>1, <2>1, <2>2 DEF ClearedBoxes
  <1>4. Distinct(g.boxes)
    BY <1>2, DistinctOnly DEF FloorOK
  <1>5. g.cells \in [Cells -> Contents]
    BY <1>2, ContentsHas DEF FloorOK
  <1>6. ASSUME NEW c \in Cells, ~IsBox(f.cells[c])
        PROVE  g.cells[c] = IF c \in S /\ ~IsHost(f.cells[c]) THEN Free ELSE f.cells[c]
    <2>1. \A b \in gone : c \notin b.cells
      BY <1>6, BoxesOf DEF SoundBox, gone
    <2> QED BY <1>2, <2>1
  <1>7. ASSUME NEW b \in boxes, NEW c \in b.cells
        PROVE  g.cells[c] = IF b.cells \cap S = {} THEN f.cells[c] ELSE Free
    <2>1. c \in Cells /\ (\A a \in boxes : c \in a.cells => a = b)
      BY BoxesOf, BoxesApart
    <2>2. gone \subseteq boxes
      BY DEF gone
    <2>3. CASE b.cells \cap S = {}
      <3>1. c \notin S /\ ~ \E a \in gone : c \in a.cells
        BY <1>1, <2>1, <2>2, <2>3
      <3> QED BY <1>2, <2>1, <2>3, <3>1
    <2>4. CASE b.cells \cap S # {}
      BY <1>1, <1>2, <2>1, <2>4
    <2> QED BY <2>3, <2>4
  <1>8. ClearedCells(f, g, S)
    BY <1>6, <1>7 DEF ClearedCells
  <1>9. \A c \in Cells : IsBox(g.cells[c]) => g.cells[c] = f.cells[c]
    BY <1>2, Kinds
  <1>10. ASSUME NEW c \in Cells, IsBox(g.cells[c])
         PROVE  \E b \in ToSet(g.boxes) : b.id = g.cells[c].app
    <2>1. PICK b \in boxes : b.id = f.cells[c].app /\ c \in b.cells
      BY <1>9, <1>10, CellBox
    <2>2. b.cells \cap S = {}
      BY <1>7, <1>10, <2>1, Kinds
    <2> QED BY <1>3, <1>9, <1>10, <2>1, <2>2 DEF ClearedBoxes
  <1>11. ASSUME NEW b \in ToSet(g.boxes) PROVE SoundBox(g.cells, b)
    <2>1. b \in boxes /\ b.cells \cap S = {}
      BY <1>3 DEF ClearedBoxes
    <2>2. SoundBox(f.cells, b) /\ b \in Box
      BY <2>1, BoxesOf
    <2>3. \A c \in b.cells : g.cells[c] = f.cells[c]
      BY <1>7, <2>1
    <2>4. \A c \in Cells : IsBox(g.cells[c]) /\ g.cells[c].app = b.id => c \in b.cells
      BY <1>9, <2>2 DEF SoundBox
    <2> QED BY <2>2, <2>3, <2>4, SoundBoxSame
  <1>12. Agree(g.cells, ToSet(g.boxes))
    BY <1>10, <1>11 DEF Agree
  <1>13. FloorOK(g)
    BY <1>2, <1>4, <1>5, <1>12 DEF FloorOK
  <1> QED BY <1>3, <1>8, <1>13 DEF g

(* Neither a host nor a machine of one cell comes or goes ... to another.  *)
Kept(f, g) ==
  \A c \in Cells : IsHost(f.cells[c]) \/ IsHost(g.cells[c]) \/ IsLoose(g.cells[c]) =>
                     g.cells[c] = f.cells[c]

LEMMA ClearedKeeps ==
  ASSUME NEW f, FloorOK(f), NEW S \in SUBSET Cells
  PROVE  Kept(f, Cleared(f, S))
  <1> DEFINE g == Cleared(f, S)
  <1>1. ClearedCells(f, g, S)
    BY ClearedFacts
  <1> HIDE DEF g
  <1>2. ASSUME NEW c \in Cells, IsHost(f.cells[c]) \/ IsHost(g.cells[c]) \/ IsLoose(g.cells[c])
        PROVE  g.cells[c] = f.cells[c]
    <2>1. CASE IsBox(f.cells[c])
      <3>1. PICK b \in ToSet(f.boxes) : c \in b.cells
        BY <2>1, CellBox
      <3>2. g.cells[c] = f.cells[c] \/ g.cells[c] = Free
        BY <1>1, <3>1 DEF ClearedCells
      <3>3. ~IsHost(f.cells[c])
        BY <2>1 DEF IsBox, IsHost
      <3> QED BY <1>2, <3>2, <3>3, Kinds
    <2>2. CASE ~IsBox(f.cells[c])
      BY <1>1, <1>2, <2>2, Kinds DEF ClearedCells
    <2> QED BY <2>1, <2>2
  <1> QED BY <1>2 DEF Kept, g

(* A switch as it is laid. *)
Fresh(id, cells) == [id |-> id, cells |-> cells, ports |-> <<>>, pending |-> NoCell]

LEMMA LaidFacts ==
  ASSUME NEW f, FloorOK(f), NEW id \in AppIds, id \notin BoxIds(f), NEW a, NEW b
  PROVE  LET g == Laid(f, id, a, b)  under == Footprint(f, a, b) IN
         /\ FloorOK(g) /\ Kept(f, g) /\ under \subseteq Cells
         /\ Cardinality(under) < 2 => g = f
         /\ ~(Cardinality(under) < 2) =>
              /\ ToSet(g.boxes) = ClearedBoxes(f, under) \cup {Fresh(id, under)}
              /\ \A c \in Cells : g.cells[c] = IF c \in under THEN Body(id)
                                               ELSE Cleared(f, under).cells[c]
  <1> DEFINE g == Laid(f, id, a, b)  under == Footprint(f, a, b)  bare == Cleared(f, under)
             new == Fresh(id, under)
  <1>1. under \in SUBSET Cells /\ \A c \in under : ~IsHost(f.cells[c])
    BY DEF Footprint, Rectangle
  <1>2. CASE Cardinality(under) < 2
    <2>1. g = f
      BY <1>2 DEF Laid
    <2> QED BY <1>1, <1>2, <2>1 DEF Kept
  <1>3. CASE ~(Cardinality(under) < 2)
    <2>1. /\ g = [cells |-> g.cells, boxes |-> g.boxes]
          /\ g.cells = [c \in Cells |-> IF c \in under THEN Body(id) ELSE bare.cells[c]]
          /\ g.boxes = Append(bare.boxes, new)
      BY <1>3 DEF Laid, Fresh
    <2>2. /\ FloorOK(bare) /\ ClearedCells(f, bare, under) /\ Kept(f, bare)
          /\ ToSet(bare.boxes) = ClearedBoxes(f, under)
      BY <1>1, ClearedFacts, ClearedKeeps
    <2> HIDE DEF g, bare, under
    <2>3. new \in Box /\ new.id = id /\ new.cells = under /\ new.ports = <<>> /\ new.pending = NoCell
      BY <1>1 DEF Fresh, Box
    <2>4. \A x \in ToSet(bare.boxes) : x \in ToSet(f.boxes) /\ x.cells \cap under = {} /\ x.id # id
      BY <2>2, BoxesOf DEF ClearedBoxes
    <2>5. Distinct(g.boxes) /\ ToSet(g.boxes) = ToSet(bare.boxes) \cup {new}
      BY <2>1, <2>2, <2>3, <2>4, DistinctAppend DEF FloorOK
    <2>6. g.cells \in [Cells -> Contents]
      BY <2>1, <2>2, ContentsHas DEF FloorOK
    <2> HIDE DEF new
    <2>7. \A c \in Cells : /\ c \in under => g.cells[c] = Body(id)
                           /\ c \notin under => g.cells[c] = bare.cells[c]
      BY <2>1
    <2>8. \A c \in Cells : IsBox(bare.cells[c]) => bare.cells[c].app # id
      BY <2>2, <2>4 DEF FloorOK, Agree
    <2>9. SoundBox(g.cells, new)
      <3>1. under = {c \in Cells : IsBox(g.cells[c]) /\ g.cells[c].app = id}
        BY <1>1, <2>7, <2>8, Kinds
      <3>2. DOMAIN new.ports = {} /\ \A c \in under : g.cells[c] = Body(id)
        BY <1>1, <2>3, <2>7
      <3>3. Wired(new)
        BY <1>3, <2>3, <3>2 DEF Wired, under
      <3> QED BY <2>3, <3>1, <3>2, <3>3 DEF SoundBox
    <2>10. ASSUME NEW x \in ToSet(bare.boxes) PROVE SoundBox(g.cells, x)
      <3>1. x \in Box /\ SoundBox(bare.cells, x) /\ x.cells \subseteq Cells
        BY <2>2, BoxesOf
      <3>2. \A c \in x.cells : g.cells[c] = bare.cells[c]
        BY <2>4, <2>7, <3>1
      <3>3. \A c \in Cells : IsBox(g.cells[c]) /\ g.cells[c].app = x.id => c \in x.cells
        BY <2>4, <2>7, <3>1, Kinds DEF SoundBox
      <3> QED BY <3>1, <3>2, <3>3, SoundBoxSame
    <2>11. \A c \in Cells : IsBox(g.cells[c]) => \E x \in ToSet(g.boxes) : x.id = g.cells[c].app
      BY <2>2, <2>3, <2>5, <2>7, Kinds DEF FloorOK, Agree
    <2>12. FloorOK(g)
      BY <2>1, <2>5, <2>6, <2>9, <2>10, <2>11 DEF FloorOK, Agree
    <2>13. ASSUME NEW c \in Cells, IsHost(f.cells[c]) \/ IsHost(g.cells[c]) \/ IsLoose(g.cells[c])
           PROVE  g.cells[c] = f.cells[c]
      <3>1. c \notin under
        BY <1>1, <2>7, <2>13, Kinds DEF IsLoose
      <3> QED BY <2>2, <2>7, <2>13, <3>1 DEF Kept
    <2> QED BY <1>1, <1>3, <2>2, <2>5, <2>7, <2>12, <2>13 DEF Kept, new, g, under, bare
  <1> QED BY <1>2, <1>3

-----------------------------------------------------------------------------
(* One switch is changed, in its place on the list. *)
Rewires(f, g, box, new) ==
  /\ FloorOK(g) /\ Kept(f, g) /\ DOMAIN g.boxes = DOMAIN f.boxes
  /\ ToSet(g.boxes) = (ToSet(f.boxes) \ {box}) \cup {new}
  /\ \A i \in DOMAIN f.boxes : g.boxes[i].cells = f.boxes[i].cells
  /\ \A c \in Cells : c \notin box.cells => g.cells[c] = f.cells[c]
  /\ new \in Box /\ new.id = box.id /\ new.cells = box.cells

(* A switch is wired anew. *)
LEMMA BoxChange ==
  ASSUME NEW f, FloorOK(f), NEW box \in ToSet(f.boxes), NEW new \in Box,
         new.id = box.id, new.cells = box.cells, NEW cells \in [Cells -> Contents],
         \A c \in Cells : c \notin box.cells => cells[c] = f.cells[c], SoundBox(cells, new)
  PROVE  Rewires(f, [cells |-> cells, boxes |-> WithBox(f, new)], box, new)
  <1> DEFINE g == [cells |-> cells, boxes |-> WithBox(f, new)]  boxes == ToSet(g.boxes)
  <1>1. g = [cells |-> g.cells, boxes |-> g.boxes] /\ g.cells = cells /\ g.boxes = WithBox(f, new)
    OBVIOUS
  <1> HIDE DEF g
  <1>2. /\ Distinct(g.boxes) /\ boxes = (ToSet(f.boxes) \ {box}) \cup {new}
        /\ DOMAIN g.boxes = DOMAIN f.boxes
        /\ \A i \in DOMAIN f.boxes : g.boxes[i] = IF f.boxes[i] = box THEN new ELSE f.boxes[i]
    BY <1>1, WithBoxIs DEF FloorOK
  <1>3. /\ box \in Box /\ SoundBox(f.cells, box) /\ box.cells \subseteq Cells
    BY BoxesOf
  <1>4. \A c \in Cells : c \in box.cells <=> IsBox(cells[c]) /\ cells[c].app = box.id
    BY DEF SoundBox
  <1>5. ASSUME NEW b \in ToSet(f.boxes), b # box PROVE SoundBox(cells, b)
    <2>1. b \in Box /\ SoundBox(f.cells, b) /\ b.cells \subseteq Cells /\ b.id # box.id
      BY <1>5, BoxesOf DEF FloorOK, Distinct
    <2>2. \A c \in b.cells : cells[c] = f.cells[c]
      BY <1>5, <2>1, BoxesApart
    <2>3. \A c \in Cells : IsBox(cells[c]) /\ cells[c].app = b.id => c \in b.cells
      BY <1>4, <2>1 DEF SoundBox
    <2> QED BY <2>1, <2>2, <2>3, SoundBoxSame
  <1>6. ASSUME NEW c \in Cells, IsBox(cells[c]) PROVE \E b \in boxes : b.id = cells[c].app
    <2>1. CASE c \in box.cells
      BY <1>2, <1>4, <2>1
    <2>2. CASE c \notin box.cells
      <3>1. cells[c] = f.cells[c]
        BY <2>2
      <3>2. PICK b \in ToSet(f.boxes) : b.id = f.cells[c].app /\ c \in b.cells
        BY <1>6, <3>1, CellBox
      <3> QED BY <1>2, <2>2, <3>1, <3>2
    <2> QED BY <2>1, <2>2
  <1>7. Agree(cells, boxes)
    BY <1>2, <1>5, <1>6 DEF Agree
  <1>8. FloorOK(g)
    BY <1>1, <1>2, <1>7 DEF FloorOK
  <1>9. \A c \in box.cells : IsBox(f.cells[c]) /\ IsBox(cells[c])
    BY <1>3, <1>4 DEF SoundBox
  <1>10. Kept(f, g)
    BY <1>1, <1>9 DEF Kept, IsHost, IsBox, IsLoose
  <1>11. \A c \in Cells : c \notin box.cells => g.cells[c] = f.cells[c]
    BY <1>1
  <1>12. \A i \in DOMAIN f.boxes : g.boxes[i].cells = f.boxes[i].cells
    BY <1>2
  <1> QED BY <1>2, <1>8, <1>10, <1>11, <1>12 DEF g, Rewires

(* Each port is two cells of its own. *)
LEMMA PortsApart ==
  ASSUME NEW cells, NEW b \in Box, SoundBox(cells, b), NEW i \in DOMAIN b.ports,
         NEW j \in DOMAIN b.ports
  PROVE  /\ b.ports[i] \in Port
         /\ b.ports[i].in \in Cells /\ b.ports[i].out \in Cells /\ b.ports[i].dir \in 0..3
         /\ b.ports[i].in \in b.cells /\ b.ports[i].out \in b.cells
         /\ b.ports[i].in = b.ports[j].in => i = j
         /\ b.ports[i].out = b.ports[j].out => i = j
         /\ b.ports[i].in # b.ports[j].out
         /\ b.pending # b.ports[i].in /\ b.pending # b.ports[i].out
  <1>1. b.ports[i] \in Port /\ b.ports[j] \in Port
    BY DEF Box
  <1>2. b.ports[i].in \in Cells /\ b.ports[i].out \in Cells /\ b.ports[i].dir \in 0..3
    BY <1>1 DEF Port
  <1>3. b.ports[i].in \in b.cells /\ b.ports[i].out \in b.cells
    BY <1>2, OfBox
  <1>4. b.ports[i].in = b.ports[j].in => i = j
    BY Kinds DEF SoundBox
  <1>5. b.ports[i].out = b.ports[j].out => i = j
    BY Kinds DEF SoundBox
  <1>6. b.ports[i].in # b.ports[j].out
    BY Kinds DEF SoundBox
  <1>7. b.pending # b.ports[i].in
    BY <1>2, Kinds, CellShape DEF SoundBox
  <1>8. b.pending # b.ports[i].out
    BY <1>2, Kinds, CellShape DEF SoundBox
  <1> QED BY <1>1, <1>2, <1>3, <1>4, <1>5, <1>6, <1>7, <1>8

-----------------------------------------------------------------------------
(* The clicks on the edge of a switch. *)

(* r is s without its element k. *)
Without(r, s, k) ==
  /\ Len(r) = Len(s) - 1
  /\ \A j \in DOMAIN r : \E l \in DOMAIN s \ {k} :
       r[j] = s[l] /\ l = IF j < k THEN j ELSE j + 1
  /\ \A l \in DOMAIN s \ {k} : \E j \in DOMAIN r : r[j] = s[l]

LEMMA RemoveAtIs ==
  ASSUME NEW T, NEW s \in Seq(T), NEW k \in DOMAIN s
  PROVE  RemoveAt(s, k) \in Seq(T) /\ Without(RemoveAt(s, k), s, k)
  <1> DEFINE r == RemoveAt(s, k)  lo == SubSeq(s, 1, k - 1)  hi == SubSeq(s, k + 1, Len(s))
  <1>1. k \in 1..Len(s) /\ Len(s) \in Nat
    OBVIOUS
  <1>2. lo \in Seq(T) /\ Len(lo) = k - 1 /\ \A j \in 1..(k - 1) : lo[j] = s[j]
    BY <1>1
  <1>3. hi \in Seq(T) /\ Len(hi) = Len(s) - k /\ \A j \in 1..(Len(s) - k) : hi[j] = s[k + j]
    BY <1>1
  <1>4. r = lo \o hi
    BY DEF RemoveAt
  <1> HIDE DEF r, lo, hi
  <1>5. r \in Seq(T) /\ Len(r) = Len(s) - 1
    BY <1>1, <1>2, <1>3, <1>4
  <1>6. \A j \in 1..(Len(s) - 1) : r[j] = IF j < k THEN s[j] ELSE s[j + 1]
    <2> SUFFICES ASSUME NEW j \in 1..(Len(s) - 1) PROVE r[j] = IF j < k THEN s[j] ELSE s[j + 1]
      OBVIOUS
    <2>1. CASE j < k
      BY <1>1, <1>2, <1>3, <1>4, <2>1
    <2>2. CASE ~(j < k)
      <3>1. \A i \in 1..(Len(lo) + Len(hi)) :
              (lo \o hi)[i] = IF i <= Len(lo) THEN lo[i] ELSE hi[i - Len(lo)]
        BY <1>2, <1>3, ConcatProperties
      <3>2. Len(lo) + Len(hi) = Len(s) - 1
        BY <1>1, <1>2, <1>3
      <3>3. r[j] = hi[j - (k - 1)]
        <4>1. j \in 1..(Len(lo) + Len(hi))
          BY <3>2
        <4>2. ~(j <= Len(lo)) /\ j - Len(lo) = j - (k - 1)
          BY <1>1, <1>2, <2>2
        <4> QED BY <1>4, <3>1, <4>1, <4>2
      <3>4. j - (k - 1) \in 1..(Len(s) - k) /\ k + (j - (k - 1)) = j + 1
        BY <1>1, <2>2
      <3> QED BY <1>3, <2>2, <3>3, <3>4
    <2> QED BY <2>1, <2>2
  <1>7. ASSUME NEW j \in DOMAIN r
        PROVE  \E l \in DOMAIN s \ {k} : r[j] = s[l] /\ l = IF j < k THEN j ELSE j + 1
    <2>1. j \in 1..(Len(s) - 1)
      BY <1>5
    <2>2. CASE j < k
      BY <1>1, <1>6, <2>1, <2>2
    <2>3. CASE ~(j < k)
      <3>1. j + 1 \in DOMAIN s \ {k} /\ r[j] = s[j + 1]
        BY <1>1, <1>6, <2>1, <2>3
      <3> QED BY <2>3, <3>1
    <2> QED BY <2>2, <2>3
  <1>8. ASSUME NEW l \in DOMAIN s \ {k} PROVE \E j \in DOMAIN r : r[j] = s[l]
    <2> DEFINE j == IF l < k THEN l ELSE l - 1
    <2>1. l \in 1..Len(s) /\ l # k
      BY <1>1
    <2>2. j \in 1..(Len(s) - 1) /\ r[j] = s[l]
      BY <1>1, <1>6, <2>1
    <2>3. DOMAIN r = 1..(Len(s) - 1)
      BY <1>5
    <2> QED BY <2>2, <2>3
  <1> QED BY <1>5, <1>7, <1>8 DEF r, Without

LEMMA FacingIs ==
  ASSUME NEW cells, NEW c, OpenSides(cells, c) # {}
  PROVE  Facing(cells, c) \in OpenSides(cells, c) /\ Facing(cells, c) \in 0..3
  <1> DEFINE sides == OpenSides(cells, c)  T == {(d + 1) % 4 : d \in sides}
  <1>1. sides \subseteq 0..3
    BY DEF OpenSides
  <1>2. \E d \in sides : \A e \in sides : (d + 1) % 4 <= (e + 1) % 4
    <2>1. T \subseteq Nat
      BY <1>1
    <2>2. T # {}
      OBVIOUS
    <2>3. PICK n \in T : \A m \in T : n <= m
      <3> HIDE DEF T
      <3> QED BY <2>1, <2>2, LeastNumber
    <2>4. PICK d \in sides : n = (d + 1) % 4
      OBVIOUS
    <2>5. \A e \in sides : (e + 1) % 4 \in T
      OBVIOUS
    <2> QED BY <2>3, <2>4, <2>5
  <1>3. Facing(cells, c) \in sides
    BY <1>2 DEF Facing
  <1> QED BY <1>1, <1>3

LEMMA PortRemovedFacts ==
  ASSUME NEW f, FloorOK(f), NEW box \in ToSet(f.boxes), NEW k \in DOMAIN box.ports
  PROVE  Rewires(f, PortRemoved(f, box, k), box, [box EXCEPT !.ports = RemoveAt(box.ports, k)])
  <1> DEFINE id == box.id  rest == RemoveAt(box.ports, k)  port == box.ports[k]
             plain == [f.cells EXCEPT ![port.in] = Body(id), ![port.out] = Body(id)]
             cells == Lanes(plain, id, rest)
             new == [box EXCEPT !.ports = rest]
             g == PortRemoved(f, box, k)
  <1>1. /\ box \in Box /\ SoundBox(f.cells, box) /\ box.cells \subseteq Cells /\ id \in AppIds
        /\ box.ports \in Seq(Port)
    BY BoxesOf DEF Box
  <1>2. /\ rest \in Seq(Port)
        /\ \A j \in DOMAIN rest : \E l \in DOMAIN box.ports \ {k} :
             rest[j] = box.ports[l] /\ l = IF j < k THEN j ELSE j + 1
        /\ \A l \in DOMAIN box.ports \ {k} : \E j \in DOMAIN rest : rest[j] = box.ports[l]
    <2>1. rest \in Seq(Port) /\ Without(rest, box.ports, k)
      BY <1>1, RemoveAtIs
    <2> HIDE DEF rest
    <2> QED BY <2>1 DEF Without
  <1>3. g = [cells |-> cells, boxes |-> WithBox(f, new)]
    BY DEF PortRemoved
  <1>4. /\ new \in Box /\ new.id = id /\ new.cells = box.cells /\ new.ports = rest
        /\ new.pending = box.pending
    BY <1>1, <1>2 DEF Box
  <1>5. \A c \in Cells : plain[c] = IF c \in {port.in, port.out} THEN Body(id) ELSE f.cells[c]
    BY DEF FloorOK
  <1> HIDE DEF rest, plain, new, g
  <1>6. \A i, j \in DOMAIN box.ports :
          /\ box.ports[i].in \in Cells /\ box.ports[i].out \in Cells /\ box.ports[i].dir \in 0..3
          /\ box.ports[i].in \in box.cells /\ box.ports[i].out \in box.cells
          /\ box.ports[i].in = box.ports[j].in => i = j
          /\ box.ports[i].out = box.ports[j].out => i = j
          /\ box.ports[i].in # box.ports[j].out
          /\ box.pending # box.ports[i].in /\ box.pending # box.ports[i].out
    BY <1>1, PortsApart
  <1>7. DOMAIN rest \subseteq Nat /\ DOMAIN box.ports \subseteq Nat /\ k \in Nat
    BY <1>1, <1>2
  <1>8. \A i, j \in DOMAIN rest :
          /\ rest[i].in \in Cells /\ rest[i].out \in Cells /\ rest[i].dir \in 0..3
          /\ rest[i].in \in box.cells /\ rest[i].out \in box.cells
          /\ rest[i].in = rest[j].in => i = j
          /\ rest[i].out = rest[j].out => i = j
          /\ rest[i].in # rest[j].out
          /\ box.pending # rest[i].in /\ box.pending # rest[i].out
          /\ rest[i].in \notin {port.in, port.out} /\ rest[i].out \notin {port.in, port.out}
    <2> SUFFICES ASSUME NEW i \in DOMAIN rest, NEW j \in DOMAIN rest
                 PROVE
          /\ rest[i].in \in Cells /\ rest[i].out \in Cells /\ rest[i].dir \in 0..3
          /\ rest[i].in \in box.cells /\ rest[i].out \in box.cells
          /\ rest[i].in = rest[j].in => i = j
          /\ rest[i].out = rest[j].out => i = j
          /\ rest[i].in # rest[j].out
          /\ box.pending # rest[i].in /\ box.pending # rest[i].out
          /\ rest[i].in \notin {port.in, port.out} /\ rest[i].out \notin {port.in, port.out}
      OBVIOUS
    <2>1. PICK l \in DOMAIN box.ports \ {k} :
            rest[i] = box.ports[l] /\ l = IF i < k THEN i ELSE i + 1
      BY <1>2
    <2>2. PICK m \in DOMAIN box.ports \ {k} :
            rest[j] = box.ports[m] /\ m = IF j < k THEN j ELSE j + 1
      BY <1>2
    <2>3. i \in Nat /\ j \in Nat /\ (l = m => i = j)
      BY <1>7, <2>1, <2>2
    <2> QED BY <1>6, <2>1, <2>2, <2>3
  <1>9. ASSUME NEW c \in Cells
        PROVE  cells[c] = IF \E j \in DOMAIN rest : rest[j].in = c
                            THEN In(id, CHOOSE j \in DOMAIN rest : rest[j].in = c)
                          ELSE IF \E j \in DOMAIN rest : rest[j].out = c
                            THEN LET j == CHOOSE l \in DOMAIN rest : rest[l].out = c
                                 IN Out(id, j, rest[j].dir)
                          ELSE plain[c]
    BY DEF Lanes
  <1>10. ASSUME NEW j \in DOMAIN rest
         PROVE  /\ cells[rest[j].in] = In(id, j)
                /\ cells[rest[j].out] = Out(id, j, rest[j].dir)
    <2>1. (CHOOSE l \in DOMAIN rest : rest[l].in = rest[j].in) = j
      BY <1>8
    <2>2. (CHOOSE l \in DOMAIN rest : rest[l].out = rest[j].out) = j
      BY <1>8
    <2>3. ~ \E l \in DOMAIN rest : rest[l].in = rest[j].out
      BY <1>8
    <2>4. rest[j].in \in Cells /\ rest[j].out \in Cells
      BY <1>8
    <2>5. cells[rest[j].in] = In(id, j)
      BY <1>9, <2>1, <2>4
    <2>6. cells[rest[j].out] = Out(id, j, rest[j].dir)
      BY <1>9, <2>2, <2>3, <2>4
    <2> QED BY <2>5, <2>6
  <1>11. \A c \in Cells : (~ \E j \in DOMAIN rest : c \in {rest[j].in, rest[j].out})
           => cells[c] = IF c \in {port.in, port.out} THEN Body(id) ELSE f.cells[c]
    BY <1>5, <1>9
  <1>12. port.in \in box.cells /\ port.out \in box.cells
    BY <1>6
  <1> HIDE DEF cells
  <1>13. ASSUME NEW c \in Cells, c \notin box.cells PROVE cells[c] = f.cells[c]
    <2>1. ~ \E j \in DOMAIN rest : c \in {rest[j].in, rest[j].out}
      BY <1>8, <1>13
    <2> QED BY <1>11, <1>12, <1>13, <2>1
  <1>14. ASSUME NEW c \in box.cells PROVE IsBox(cells[c]) /\ cells[c].app = id
    <2>1. c \in Cells /\ IsBox(f.cells[c]) /\ f.cells[c].app = id
      BY <1>1 DEF SoundBox
    <2>2. CASE \E j \in DOMAIN rest : c \in {rest[j].in, rest[j].out}
      BY <1>10, <2>2, Kinds
    <2>3. CASE ~ \E j \in DOMAIN rest : c \in {rest[j].in, rest[j].out}
      BY <1>11, <2>1, <2>3, Kinds
    <2> QED BY <2>2, <2>3
  <1>15. ASSUME NEW c \in Cells PROVE cells[c] \in Contents
    <2>1. CASE \E j \in DOMAIN rest : c \in {rest[j].in, rest[j].out}
      BY <1>1, <1>7, <1>8, <1>10, <2>1, ContentsHas
    <2>2. CASE ~ \E j \in DOMAIN rest : c \in {rest[j].in, rest[j].out}
      BY <1>1, <1>11, <2>2, ContentsHas DEF FloorOK
    <2> QED BY <2>1, <2>2
  <1>16. cells \in [Cells -> Contents]
    <2>1. cells = [c \in Cells |-> cells[c]]
      BY DEF cells, Lanes
    <2> QED BY <1>15, <2>1
  <1>17. SoundBox(cells, new)
    <2>1. box.cells = {c \in Cells : IsBox(cells[c]) /\ cells[c].app = id}
      BY <1>1, <1>13, <1>14 DEF SoundBox
    <2>2. box.pending # NoCell => cells[box.pending] = Pending(id)
      <3> SUFFICES ASSUME box.pending # NoCell PROVE cells[box.pending] = Pending(id)
        OBVIOUS
      <3>1. box.pending \in Cells /\ f.cells[box.pending] = Pending(id)
        BY <1>1 DEF SoundBox, Box
      <3>2. ~ \E j \in DOMAIN rest : box.pending \in {rest[j].in, rest[j].out}
        BY <1>8
      <3>3. box.pending \notin {port.in, port.out}
        BY <1>6
      <3> QED BY <1>11, <3>1, <3>2, <3>3
    <2>3. ASSUME NEW c \in box.cells
          PROVE  \/ cells[c] = Body(id) \/ c = box.pending
                 \/ \E j \in DOMAIN rest : c \in {rest[j].in, rest[j].out}
      <3>1. c \in Cells
        BY <1>1
      <3>2. CASE c \in {port.in, port.out} \/ f.cells[c] = Body(id)
        BY <1>11, <3>1, <3>2
      <3>3. CASE \E l \in DOMAIN box.ports \ {k} : c \in {box.ports[l].in, box.ports[l].out}
        <4>1. PICK l \in DOMAIN box.ports \ {k} : c \in {box.ports[l].in, box.ports[l].out}
          BY <3>3
        <4>2. PICK j \in DOMAIN rest : rest[j] = box.ports[l]
          BY <1>2
        <4> QED BY <4>1, <4>2
      <3> QED BY <1>1, <3>2, <3>3 DEF SoundBox
    <2>4. Wired(new)
      <3>1. Wired(box)
        BY <1>1 DEF SoundBox
      <3>2. ASSUME NEW j \in DOMAIN rest
            PROVE  /\ OpenSides(box.cells, rest[j].in) # {}
                   /\ OpenSides(box.cells, rest[j].out) # {}
                   /\ rest[j].dir = Facing(box.cells, rest[j].out)
        <4>1. PICK l \in DOMAIN box.ports : rest[j] = box.ports[l]
          BY <1>2
        <4> QED BY <3>1, <4>1 DEF Wired
      <3>3. /\ ~(Cardinality(box.cells) < 2)
            /\ box.pending # NoCell => OpenSides(box.cells, box.pending) # {}
        BY <3>1 DEF Wired
      <3> QED BY <1>4, <3>2, <3>3 DEF Wired
    <2> QED BY <1>4, <1>10, <2>1, <2>2, <2>3, <2>4 DEF SoundBox
  <1>18. Rewires(f, [cells |-> cells, boxes |-> WithBox(f, new)], box, new)
    BY <1>4, <1>13, <1>16, <1>17, BoxChange
  <1> QED BY <1>3, <1>18 DEF g, new, rest

LEMMA HalfPlacedFacts ==
  ASSUME NEW f, FloorOK(f), NEW box \in ToSet(f.boxes), NEW c \in box.cells, box.pending = NoCell,
         OpenSides(box.cells, c) # {},
         ~ \E k \in DOMAIN box.ports : c \in {box.ports[k].in, box.ports[k].out}
  PROVE  Rewires(f, HalfPlaced(f, box, c), box, [box EXCEPT !.pending = c])
  <1> DEFINE id == box.id  cells == [f.cells EXCEPT ![c] = Pending(id)]
             new == [box EXCEPT !.pending = c]  g == HalfPlaced(f, box, c)
  <1>1. /\ box \in Box /\ SoundBox(f.cells, box) /\ box.cells \subseteq Cells /\ id \in AppIds
        /\ f.cells \in [Cells -> Contents]
    BY BoxesOf DEF FloorOK
  <1>2. g = [cells |-> cells, boxes |-> WithBox(f, new)]
    BY DEF HalfPlaced
  <1>3. /\ new \in Box /\ new.id = id /\ new.cells = box.cells /\ new.ports = box.ports
        /\ new.pending = c
    BY <1>1 DEF Box
  <1>4. /\ cells \in [Cells -> Contents] /\ cells[c] = Pending(id)
        /\ \A d \in Cells : d # c => cells[d] = f.cells[d]
    BY <1>1, ContentsHas
  <1> HIDE DEF new, g, cells
  <1>5. SoundBox(cells, new)
    <2>1. box.cells = {d \in Cells : IsBox(cells[d]) /\ cells[d].app = id}
      BY <1>1, <1>4, Kinds DEF SoundBox
    <2>2. ASSUME NEW k \in DOMAIN box.ports
          PROVE  /\ cells[box.ports[k].in] = In(id, k)
                 /\ cells[box.ports[k].out] = Out(id, k, box.ports[k].dir)
      <3>1. box.ports[k].in \in Cells /\ box.ports[k].out \in Cells
        BY <1>1, PortsApart
      <3>2. box.ports[k].in # c /\ box.ports[k].out # c
        OBVIOUS
      <3> QED BY <1>1, <1>4, <3>1, <3>2 DEF SoundBox
    <2>3. ASSUME NEW d \in box.cells
          PROVE  \/ cells[d] = Body(id) \/ d = c
                 \/ \E k \in DOMAIN box.ports : d \in {box.ports[k].in, box.ports[k].out}
      <3>1. d \in Cells /\ d # NoCell
        BY <1>1, CellShape
      <3> QED BY <1>1, <1>4, <3>1 DEF SoundBox
    <2>4. Wired(new)
      <3>1. Wired(box)
        BY <1>1 DEF SoundBox
      <3> QED BY <1>3, <3>1 DEF Wired
    <2> QED BY <1>3, <1>4, <2>1, <2>2, <2>3, <2>4 DEF SoundBox
  <1>6. Rewires(f, [cells |-> cells, boxes |-> WithBox(f, new)], box, new)
    BY <1>3, <1>4, <1>5, BoxChange
  <1> QED BY <1>2, <1>6 DEF g, new

LEMMA PortAddedFacts ==
  ASSUME NEW f, FloorOK(f), NEW box \in ToSet(f.boxes), NEW c \in box.cells,
         box.pending # NoCell, box.pending # c, OpenSides(box.cells, c) # {},
         ~ \E k \in DOMAIN box.ports : c \in {box.ports[k].in, box.ports[k].out}
  PROVE  \E new : /\ Rewires(f, PortAdded(f, box, c), box, new)
                 /\ new.pending = NoCell
                 /\ new.ports = Append(box.ports, [in |-> box.pending, out |-> c,
                                                  dir |-> Facing(box.cells, c)])
  <1> DEFINE id == box.id  n == Len(box.ports) + 1
             port == [in |-> box.pending, out |-> c, dir |-> Facing(box.cells, c)]
             cells == [f.cells EXCEPT ![port.in] = In(id, n), ![c] = Out(id, n, port.dir)]
             new == [box EXCEPT !.ports = Append(@, port), !.pending = NoCell]
             g == PortAdded(f, box, c)
  <1>1. /\ box \in Box /\ SoundBox(f.cells, box) /\ box.cells \subseteq Cells /\ id \in AppIds
        /\ f.cells \in [Cells -> Contents] /\ box.ports \in Seq(Port) /\ c \in Cells
        /\ box.pending \in Cells /\ box.pending \in box.cells
    BY BoxesOf, OfBox DEF FloorOK, Box
  <1>2. port \in Port /\ port.in = box.pending /\ port.out = c /\ port.dir \in 0..3
    BY <1>1, FacingIs DEF Port
  <1>3. g = [cells |-> cells, boxes |-> WithBox(f, new)]
    BY DEF PortAdded
  <1> HIDE DEF port, g
  <1>4. /\ new.id = id /\ new.cells = box.cells /\ new.ports = Append(box.ports, port)
        /\ new.pending = NoCell /\ new \in Box
    <2>1. Append(box.ports, port) \in Seq(Port)
      BY <1>1, <1>2
    <2> QED BY <1>1, <2>1 DEF Box
  <1>5. n \in Nat
    BY <1>1
  <1> HIDE DEF n
  <1>6. /\ cells \in [Cells -> Contents] /\ cells[port.in] = In(id, n)
        /\ cells[c] = Out(id, n, port.dir)
        /\ \A d \in Cells : d # c /\ d # port.in => cells[d] = f.cells[d]
    BY <1>1, <1>2, <1>5, ContentsHas
  <1> HIDE DEF new, cells
  <1>7. SoundBox(cells, new)
    <2>1. box.cells = {d \in Cells : IsBox(cells[d]) /\ cells[d].app = id}
      BY <1>1, <1>2, <1>6, Kinds DEF SoundBox
    <2>2. ASSUME NEW k \in DOMAIN box.ports
          PROVE  /\ cells[box.ports[k].in] = In(id, k)
                 /\ cells[box.ports[k].out] = Out(id, k, box.ports[k].dir)
      <3>1. /\ box.ports[k].in \in Cells /\ box.ports[k].out \in Cells
            /\ box.pending # box.ports[k].in /\ box.pending # box.ports[k].out
        BY <1>1, PortsApart
      <3>2. box.ports[k].in # c /\ box.ports[k].out # c
        OBVIOUS
      <3> QED BY <1>1, <1>2, <1>6, <3>1, <3>2 DEF SoundBox
    <2>3. /\ DOMAIN new.ports = DOMAIN box.ports \cup {n} /\ new.ports[n] = port
          /\ \A k \in DOMAIN box.ports : new.ports[k] = box.ports[k]
      BY <1>1, <1>2, <1>4 DEF n
    <2>4. ASSUME NEW k \in DOMAIN new.ports
          PROVE  /\ cells[new.ports[k].in] = In(id, k)
                 /\ cells[new.ports[k].out] = Out(id, k, new.ports[k].dir)
      BY <1>2, <1>6, <2>2, <2>3
    <2>5. ASSUME NEW d \in box.cells
          PROVE  \/ cells[d] = Body(id) \/ d = NoCell
                 \/ \E k \in DOMAIN new.ports : d \in {new.ports[k].in, new.ports[k].out}
      <3>1. d \in Cells
        BY <1>1
      <3>2. CASE d \in {c, port.in}
        BY <1>2, <2>3, <3>2
      <3>3. CASE \E k \in DOMAIN box.ports : d \in {box.ports[k].in, box.ports[k].out}
        BY <2>3, <3>3
      <3> QED BY <1>1, <1>2, <1>6, <3>1, <3>2, <3>3 DEF SoundBox
    <2>6. Wired(new)
      <3>1. Wired(box)
        BY <1>1 DEF SoundBox
      <3>2. port.dir = Facing(box.cells, c)
        BY DEF port
      <3> QED BY <1>2, <1>4, <2>3, <3>1, <3>2 DEF Wired
    <2> QED BY <1>4, <2>1, <2>4, <2>5, <2>6 DEF SoundBox
  <1>8. \A d \in Cells : d \notin box.cells => cells[d] = f.cells[d]
    BY <1>1, <1>2, <1>6
  <1>9. Rewires(f, [cells |-> cells, boxes |-> WithBox(f, new)], box, new)
    BY <1>4, <1>6, <1>7, <1>8, BoxChange
  <1>10. Rewires(f, g, box, new)
    BY <1>3, <1>9
  <1> QED BY <1>4, <1>10 DEF g, port

(* A click leaves the switches that there are, however it is answered. *)
Clicked(f, g) ==
  /\ FloorOK(g) /\ Kept(f, g) /\ DOMAIN g.boxes = DOMAIN f.boxes /\ BoxIds(g) = BoxIds(f)
  /\ \A i \in DOMAIN f.boxes : g.boxes[i].cells = f.boxes[i].cells
  /\ \A c \in Cells : IsLoose(f.cells[c]) => g.cells[c] = f.cells[c]

LEMMA BoxIdsOf == \A f : BoxIds(f) = {b.id : b \in ToSet(f.boxes)}
  BY DEF BoxIds, ToSet

LEMMA ToggledFacts ==
  ASSUME NEW f, FloorOK(f), NEW id, NEW c
  PROVE  Clicked(f, Toggled(f, id, c))
  <1> DEFINE g == Toggled(f, id, c)  box == BoxOf(f, id)
             there == {k \in DOMAIN box.ports : c \in {box.ports[k].in, box.ports[k].out}}
             k == CHOOSE l \in there : TRUE
  <1> SUFFICES Clicked(f, g)
    OBVIOUS
  <1>1. Clicked(f, f)
    BY DEF Clicked, Kept
  <1>2. CASE id \notin BoxIds(f) \/ g = f
    BY <1>1, <1>2 DEF Toggled
  <1>3. CASE id \in BoxIds(f) /\ g # f
    <2>1. box \in ToSet(f.boxes) /\ box \in Box
      BY <1>3, BoxOfIs DEF FloorOK
    <2>2. c \in box.cells /\ OpenSides(box.cells, c) # {}
      BY <1>3 DEF Toggled
    <2>3. \/ there # {} /\ g = PortRemoved(f, box, k)
          \/ there = {} /\ box.pending = NoCell /\ g = HalfPlaced(f, box, c)
          \/ there = {} /\ box.pending # NoCell /\ box.pending # c /\ g = PortAdded(f, box, c)
      BY <1>3, <2>2 DEF Toggled
    <2>4. ASSUME NEW new, Rewires(f, g, box, new) PROVE Clicked(f, g)
      <3> HIDE DEF g, box
      <3>1. BoxIds(g) = BoxIds(f)
        BY <2>1, <2>4, BoxIdsOf DEF Rewires
      <3>2. \A d \in box.cells : ~IsLoose(f.cells[d])
        <4>1. SoundBox(f.cells, box)
          BY <2>1, BoxesOf
        <4> QED BY <4>1 DEF SoundBox, IsLoose
      <3> QED BY <2>4, <3>1, <3>2 DEF Clicked, Rewires
    <2> HIDE DEF g, box
    <2>5. CASE there # {} /\ g = PortRemoved(f, box, k)
      <3>1. k \in DOMAIN box.ports
        BY <2>5
      <3> HIDE DEF k
      <3>2. Rewires(f, PortRemoved(f, box, k), box, [box EXCEPT !.ports = RemoveAt(box.ports, k)])
        BY <2>1, <3>1, PortRemovedFacts
      <3> QED BY <2>4, <2>5, <3>2
    <2>6. CASE there = {} /\ box.pending = NoCell /\ g = HalfPlaced(f, box, c)
      <3>1. ~ \E l \in DOMAIN box.ports : c \in {box.ports[l].in, box.ports[l].out}
        BY <2>6
      <3>2. Rewires(f, HalfPlaced(f, box, c), box, [box EXCEPT !.pending = c])
        BY <2>1, <2>2, <2>6, <3>1, HalfPlacedFacts
      <3> QED BY <2>4, <2>6, <3>2
    <2>7. CASE there = {} /\ box.pending # NoCell /\ box.pending # c /\ g = PortAdded(f, box, c)
      <3>1. ~ \E l \in DOMAIN box.ports : c \in {box.ports[l].in, box.ports[l].out}
        BY <2>7
      <3>2. \E new : Rewires(f, PortAdded(f, box, c), box, new)
        <4>1. \E new : /\ Rewires(f, PortAdded(f, box, c), box, new)
                       /\ new.pending = NoCell
                       /\ new.ports = Append(box.ports, [in |-> box.pending, out |-> c,
                                                        dir |-> Facing(box.cells, c)])
          BY <2>1, <2>2, <2>7, <3>1, PortAddedFacts
        <4> QED BY <4>1
      <3> QED BY <2>4, <2>7, <3>2
    <2> QED BY <2>3, <2>5, <2>6, <2>7
  <1> QED BY <1>2, <1>3

-----------------------------------------------------------------------------
(* What is there after a refresh. *)

(* One click after the other. *)
Wiring(h, f, id, lanes, n) ==
  h = [k \in 0..n |->
         IF k = 0 THEN f ELSE Toggled(Toggled(h[k - 1], id, lanes[k][1]), id, lanes[k][2])]

LEMMA WiringExists ==
  ASSUME NEW f, NEW id, NEW lanes, NEW n \in Nat
  PROVE  \E h : Wiring(h, f, id, lanes, n)
  <1> DEFINE G == {k \in 0..n : \E h : Wiring(h, f, id, lanes, k)}
  <1>1. 0 \in G
    <2> DEFINE h == [k \in 0..0 |-> f]
    <2>1. h = [k \in 0..0 |->
         IF k = 0 THEN f ELSE Toggled(Toggled(h[k - 1], id, lanes[k][1]), id, lanes[k][2])]
      OBVIOUS
    <2>2. Wiring(h, f, id, lanes, 0)
      BY <2>1 DEF Wiring
    <2> QED BY <2>2
  <1>2. ASSUME NEW k \in 1..n, k - 1 \in G PROVE k \in G
    <2>1. PICK g : Wiring(g, f, id, lanes, k - 1)
      BY <1>2
    <2> DEFINE after(i, x) == IF i = 0 THEN f ELSE Toggled(Toggled(x, id, lanes[i][1]), id, lanes[i][2])
               h == [i \in 0..k |-> IF i = k THEN after(k, g[k - 1]) ELSE g[i]]
    <2>2. \A i \in 0..(k - 1) : g[i] = after(i, g[i - 1])
      BY <2>1 DEF Wiring
    <2>3. \A i \in 0..(k - 1) : h[i] = g[i]
      OBVIOUS
    <2>4. h[k] = after(k, g[k - 1]) /\ k # 0
      OBVIOUS
    <2> HIDE DEF after
    <2>5. ASSUME NEW i \in 0..k PROVE h[i] = after(i, h[i - 1])
      <3>1. CASE i = k
        <4>1. h[k - 1] = g[k - 1]
          BY <2>3
        <4> QED BY <2>4, <3>1, <4>1
      <3>2. CASE i # k /\ i # 0
        <4>1. i \in 0..(k - 1) /\ i - 1 \in 0..(k - 1)
          BY <3>2
        <4>2. h[i] = g[i] /\ h[i - 1] = g[i - 1]
          BY <2>3, <4>1
        <4> QED BY <2>2, <4>1, <4>2
      <3>3. CASE i = 0
        <4>1. h[i] = g[i] /\ i \in 0..(k - 1)
          BY <2>3, <3>3
        <4> QED BY <2>2, <3>3, <4>1 DEF after
      <3> QED BY <3>1, <3>2, <3>3
    <2>6. h = [i \in 0..k |-> h[i]]
      OBVIOUS
    <2> HIDE DEF h
    <2>7. h = [i \in 0..k |-> after(i, h[i - 1])]
      BY <2>5, <2>6
    <2>8. Wiring(h, f, id, lanes, k)
      BY <2>7 DEF Wiring, after
    <2> QED BY <2>8
  <1>3. \A k \in 1..n : k - 1 \in G => k \in G
    BY <1>2
  <1> HIDE DEF G
  <1>4. \A k \in 0..n : k \in G
    BY <1>1, <1>3, UpTo
  <1> QED BY <1>4 DEF G

LEMMA RewiredIs ==
  ASSUME NEW f, NEW id, NEW lanes, Len(lanes) \in Nat
  PROVE  \E h : Wiring(h, f, id, lanes, Len(lanes)) /\ Rewired(f, id, lanes) = h[Len(lanes)]
  <1> DEFINE n == Len(lanes)  h == CHOOSE g : Wiring(g, f, id, lanes, n)
  <1>1. \E g : Wiring(g, f, id, lanes, n)
    BY WiringExists
  <1>2. Wiring(h, f, id, lanes, n)
    BY <1>1
  <1>3. Rewired(f, id, lanes) = h[n]
    BY DEF Rewired, Wiring
  <1> HIDE DEF h
  <1> QED BY <1>2, <1>3

LEMMA KeptTwice ==
  ASSUME NEW f, NEW g, NEW h, Kept(f, g), Kept(g, h)
  PROVE  Kept(f, h)
  BY DEF Kept

LEMMA RewiredFacts ==
  ASSUME NEW f, FloorOK(f), NEW id, NEW lanes, Len(lanes) \in Nat
  PROVE  Clicked(f, Rewired(f, id, lanes))
  <1> DEFINE n == Len(lanes)
  <1>1. PICK h : Wiring(h, f, id, lanes, n) /\ Rewired(f, id, lanes) = h[n]
    BY RewiredIs
  <1> DEFINE G == {k \in 0..n : Clicked(f, h[k])}
  <1>2. 0 \in G
    BY <1>1 DEF Wiring, Clicked, Kept
  <1>3. ASSUME NEW k \in 1..n, k - 1 \in G PROVE k \in G
    <2> DEFINE g == h[k - 1]  one == Toggled(g, id, lanes[k][1])
               two == Toggled(one, id, lanes[k][2])
    <2>1. h[k] = two
      BY <1>1 DEF Wiring
    <2>2. Clicked(f, g)
      BY <1>3
    <2> HIDE DEF g
    <2>3. Clicked(g, one)
      BY <2>2, ToggledFacts DEF Clicked
    <2> HIDE DEF one
    <2>4. Clicked(one, two)
      BY <2>3, ToggledFacts DEF Clicked
    <2> HIDE DEF two
    <2>5. Clicked(f, two)
      BY <2>2, <2>3, <2>4, KeptTwice DEF Clicked
    <2> QED BY <2>1, <2>5
  <1>4. \A k \in 1..n : k - 1 \in G => k \in G
    BY <1>3
  <1> HIDE DEF G
  <1>5. \A k \in 0..n : k \in G
    BY <1>2, <1>4, UpTo
  <1> QED BY <1>1, <1>5 DEF G

(* One switch after the other. *)
Redrawing(h, s, n) ==
  h = [i \in 0..n |->
         IF i = 0 THEN [cells |-> s.loose, boxes |-> <<>>]
         ELSE Redrawn(h[i - 1], i, s.boxes[i])]

LEMMA RedrawingExists ==
  ASSUME NEW s, NEW n \in Nat
  PROVE  \E h : Redrawing(h, s, n)
  <1> DEFINE G == {k \in 0..n : \E h : Redrawing(h, s, k)}
             after(i, x) == IF i = 0 THEN [cells |-> s.loose, boxes |-> <<>>]
                            ELSE Redrawn(x, i, s.boxes[i])
  <1>1. 0 \in G
    <2> DEFINE h == [k \in 0..0 |-> [cells |-> s.loose, boxes |-> <<>>]]
    <2>1. h = [k \in 0..0 |-> after(k, h[k - 1])]
      OBVIOUS
    <2> HIDE DEF h
    <2>2. Redrawing(h, s, 0)
      BY <2>1 DEF Redrawing
    <2> QED BY <2>2
  <1>2. ASSUME NEW k \in 1..n, k - 1 \in G PROVE k \in G
    <2>1. PICK g : Redrawing(g, s, k - 1)
      BY <1>2
    <2> DEFINE h == [i \in 0..k |-> IF i = k THEN after(k, g[k - 1]) ELSE g[i]]
    <2>2. \A i \in 0..(k - 1) : g[i] = after(i, g[i - 1])
      BY <2>1 DEF Redrawing
    <2>3. \A i \in 0..(k - 1) : h[i] = g[i]
      OBVIOUS
    <2>4. h[k] = after(k, g[k - 1]) /\ k # 0
      OBVIOUS
    <2> HIDE DEF after
    <2>5. ASSUME NEW i \in 0..k PROVE h[i] = after(i, h[i - 1])
      <3>1. CASE i = k
        <4>1. h[k - 1] = g[k - 1]
          BY <2>3
        <4> QED BY <2>4, <3>1, <4>1
      <3>2. CASE i # k /\ i # 0
        <4>1. i \in 0..(k - 1) /\ i - 1 \in 0..(k - 1)
          BY <3>2
        <4>2. h[i] = g[i] /\ h[i - 1] = g[i - 1]
          BY <2>3, <4>1
        <4> QED BY <2>2, <4>1, <4>2
      <3>3. CASE i = 0
        <4>1. h[i] = g[i] /\ i \in 0..(k - 1)
          BY <2>3, <3>3
        <4> QED BY <2>2, <3>3, <4>1 DEF after
      <3> QED BY <3>1, <3>2, <3>3
    <2>6. h = [i \in 0..k |-> h[i]]
      OBVIOUS
    <2> HIDE DEF h
    <2>7. h = [i \in 0..k |-> after(i, h[i - 1])]
      BY <2>5, <2>6
    <2>8. Redrawing(h, s, k)
      BY <2>7 DEF Redrawing, after
    <2> QED BY <2>8
  <1>3. \A k \in 1..n : k - 1 \in G => k \in G
    BY <1>2
  <1> HIDE DEF G
  <1>4. \A k \in 0..n : k \in G
    BY <1>1, <1>3, UpTo
  <1> QED BY <1>4 DEF G

LEMMA RestoredIs ==
  ASSUME NEW s, Len(s.boxes) \in Nat
  PROVE  \E h : Redrawing(h, s, Len(s.boxes)) /\ Restored(s) = h[Len(s.boxes)]
  <1> DEFINE n == Len(s.boxes)  h == CHOOSE g : Redrawing(g, s, n)
  <1>1. \E g : Redrawing(g, s, n)
    BY RedrawingExists
  <1>2. Redrawing(h, s, n)
    BY <1>1
  <1>3. Restored(s) = h[n]
    BY DEF Restored, Redrawing
  <1> HIDE DEF h
  <1> QED BY <1>2, <1>3

(* What is remembered of a floor. *)
Stored == [cells : SUBSET Cells, ports : Seq(Cells \X Cells)]

StoreOK(s) ==
  /\ s.loose \in [Cells -> {Free} \cup Machines]
  /\ s.boxes \in Seq(Stored) /\ Len(s.boxes) <= MaxBoxes

(* There are no more switches than ids. *)
LEMMA FewBoxes ==
  ASSUME NEW boxes, Distinct(boxes)
  PROVE  Len(boxes) \in Nat /\ Len(boxes) <= MaxBoxes
  <1> DEFINE n == Len(boxes)  id == [i \in 1..n |-> boxes[i].id]
  <1>1. /\ n \in Nat /\ DOMAIN boxes = 1..n /\ MaxBoxes \in Nat
        /\ \A i \in 1..n : boxes[i] \in Box /\ boxes[i].id \in AppIds
    <2>1. boxes \in Seq(Box) /\ MaxBoxes \in Nat
      BY MachineryAssumption DEF Distinct
    <2>2. n \in Nat /\ DOMAIN boxes = 1..n /\ \A i \in 1..n : boxes[i] \in Box
      BY <2>1
    <2> QED BY <2>1, <2>2 DEF Box
  <1>2. \A i, j \in 1..n : boxes[i].id = boxes[j].id => i = j
    BY <1>1 DEF Distinct, ToSet, IsInjective
  <1>3. id \in [1..n -> AppIds]
    BY <1>1
  <1>4. IsInjective(id)
    BY <1>2 DEF IsInjective
  <1>5. id \in Injection(1..n, AppIds)
    BY <1>3, <1>4 DEF Injection
  <1>6. IsFiniteSet(AppIds) /\ Cardinality(AppIds) = MaxBoxes
    <2>1. /\ 1 \in Int /\ MaxBoxes \in Int
          /\ MaxBoxes = IF 1 > MaxBoxes THEN 0 ELSE MaxBoxes - 1 + 1
      BY <1>1
    <2> QED BY <2>1, FS_Interval DEF AppIds
  <1>7. Cardinality(1..n) = n
    <2>1. 1 \in Int /\ n \in Int /\ n = IF 1 > n THEN 0 ELSE n - 1 + 1
      BY <1>1
    <2> HIDE DEF n
    <2> QED BY <2>1, FS_Interval
  <1> HIDE DEF id
  <1>8. Cardinality(1..n) <= Cardinality(AppIds)
    BY <1>5, <1>6, FS_Injection
  <1> QED BY <1>1, <1>6, <1>7, <1>8

LEMMA SerializedOK ==
  ASSUME NEW f, FloorOK(f)
  PROVE  StoreOK(Serialized(f))
  <1> DEFINE s == Serialized(f)  n == Len(f.boxes)
  <1>1. f.cells \in [Cells -> Contents] /\ f.boxes \in Seq(Box) /\ DOMAIN f.boxes = 1..n
    BY DEF FloorOK, Distinct
  <1>2. \A c \in Cells : IsLoose(f.cells[c]) => f.cells[c] \in Machines
    BY <1>1, PlainContents, Kinds DEF IsLoose
  <1>3. s.loose \in [Cells -> {Free} \cup Machines]
    BY <1>2 DEF Serialized
  <1>4. s.boxes = [i \in 1..n |-> [cells |-> f.boxes[i].cells,
                     ports |-> [k \in DOMAIN f.boxes[i].ports |->
                       <<f.boxes[i].ports[k].in, f.boxes[i].ports[k].out>>]]]
    BY <1>1 DEF Serialized
  <1> HIDE DEF s
  <1>5. ASSUME NEW i \in 1..n PROVE s.boxes[i] \in Stored
    <2> DEFINE ports == f.boxes[i].ports
               lanes == [k \in DOMAIN ports |-> <<ports[k].in, ports[k].out>>]
    <2>0. f.boxes[i] \in Box
      BY <1>1
    <2>1. f.boxes[i].cells \in SUBSET Cells /\ ports \in Seq(Port)
      BY <2>0 DEF Box
    <2>2. Len(ports) \in Nat /\ DOMAIN ports = 1..Len(ports) /\ \A k \in DOMAIN ports : ports[k] \in Port
      BY <2>1
    <2>3. lanes \in [1..Len(ports) -> Cells \X Cells]
      BY <2>2 DEF Port
    <2>4. lanes \in Seq(Cells \X Cells)
      BY <2>2, <2>3, SeqDef
    <2>5. s.boxes[i] = [cells |-> f.boxes[i].cells, ports |-> lanes]
      BY <1>4
    <2> HIDE DEF lanes
    <2> QED BY <2>1, <2>4, <2>5 DEF Stored
  <1>6. n \in Nat /\ n <= MaxBoxes
    BY FewBoxes DEF FloorOK
  <1>7. s.boxes \in Seq(Stored) /\ Len(s.boxes) = n
    <2>1. s.boxes \in [1..n -> Stored]
      BY <1>4, <1>5
    <2>2. s.boxes \in Seq(Stored)
      BY <1>6, <2>1, SeqDef
    <2> QED BY <1>6, <2>1, <2>2, LenProperties
  <1> QED BY <1>3, <1>6, <1>7 DEF s, StoreOK

(* The machines are where they were written, no host is there, and the     *)
(* switches are numbered anew.                                             *)
Bare(f, s) ==
  \A c \in Cells : ~IsHost(f.cells[c]) /\ (IsLoose(f.cells[c]) => f.cells[c] = s.loose[c])

-----------------------------------------------------------------------------
(* What the store says of a floor. *)

(* A switch as it is written. *)
Same(b, stored) ==
  /\ b.cells = stored.cells /\ DOMAIN b.ports = DOMAIN stored.ports
  /\ \A k \in DOMAIN b.ports : stored.ports[k] = <<b.ports[k].in, b.ports[k].out>>

(* All of the floor is in the store; all of the store is on the floor. *)
Drawn(f, s) ==
  /\ \A c \in Cells : IsLoose(f.cells[c]) => f.cells[c] = s.loose[c]
  /\ \A b \in ToSet(f.boxes) : \E i \in DOMAIN s.boxes : Same(b, s.boxes[i])

Whole(f, s) ==
  /\ \A c \in Cells : s.loose[c] # Free => f.cells[c] = s.loose[c]
  /\ \A i \in DOMAIN s.boxes : \E b \in ToSet(f.boxes) : Same(b, s.boxes[i])

(* Lanes that clicks can make, one after the other. *)
Drawable(cells, lanes) ==
  \A k, l \in DOMAIN lanes :
    /\ lanes[k][1] \in cells /\ lanes[k][2] \in cells
    /\ OpenSides(cells, lanes[k][1]) # {} /\ OpenSides(cells, lanes[k][2]) # {}
    /\ lanes[k][1] # lanes[l][2]
    /\ lanes[k][1] = lanes[l][1] => k = l
    /\ lanes[k][2] = lanes[l][2] => k = l

(* Nothing in the store is in the way of the rest. *)
StoreExact(s) ==
  /\ \A i, j \in DOMAIN s.boxes : i # j => s.boxes[i].cells \cap s.boxes[j].cells = {}
  /\ \A i \in DOMAIN s.boxes :
       /\ ~(Cardinality(s.boxes[i].cells) < 2)
       /\ \A c \in s.boxes[i].cells : s.loose[c] = Free
       /\ Drawable(s.boxes[i].cells, s.boxes[i].ports)

Rectangular(s) ==
  \A i \in DOMAIN s.boxes :
    s.boxes[i].cells = Rectangle(Least(s.boxes[i].cells), Greatest(s.boxes[i].cells))

Remembered(f, s, torn) ==
  /\ StoreExact(s)
  /\ Rectangular(s) => Drawn(f, s) /\ (~torn => Whole(f, s))

LEMMA WiredPort ==
  ASSUME NEW b, Wired(b), NEW k \in DOMAIN b.ports
  PROVE  /\ OpenSides(b.cells, b.ports[k].in) # {} /\ OpenSides(b.cells, b.ports[k].out) # {}
         /\ b.ports[k].dir = Facing(b.cells, b.ports[k].out)
  BY DEF Wired

LEMMA SerializedExact ==
  ASSUME NEW f, FloorOK(f)
  PROVE  \A torn : Remembered(f, Serialized(f), torn)
  <1> DEFINE s == Serialized(f)  n == Len(f.boxes)
  <1>1. /\ f.boxes \in Seq(Box) /\ DOMAIN f.boxes = 1..n /\ DOMAIN s.boxes = 1..n
        /\ f.cells \in [Cells -> Contents]
    <2>1. f.boxes \in Seq(Box)
      BY DEF FloorOK, Distinct
    <2> QED BY <2>1 DEF Serialized, FloorOK
  <1>2. \A c \in Cells : s.loose[c] = IF IsLoose(f.cells[c]) THEN f.cells[c] ELSE Free
    BY DEF Serialized
  <1>3. ASSUME NEW i \in 1..n
        PROVE  /\ s.boxes[i].cells = f.boxes[i].cells
               /\ DOMAIN s.boxes[i].ports = DOMAIN f.boxes[i].ports
               /\ \A k \in DOMAIN f.boxes[i].ports :
                    s.boxes[i].ports[k] = <<f.boxes[i].ports[k].in, f.boxes[i].ports[k].out>>
    <2> DEFINE b == f.boxes[i]
    <2>1. s.boxes[i] = [cells |-> b.cells,
                        ports |-> [k \in DOMAIN b.ports |-> <<b.ports[k].in, b.ports[k].out>>]]
      BY <1>1 DEF Serialized
    <2> HIDE DEF b, s
    <2>2. /\ s.boxes[i].cells = b.cells
          /\ s.boxes[i].ports = [k \in DOMAIN b.ports |-> <<b.ports[k].in, b.ports[k].out>>]
      BY <2>1
    <2>3. DOMAIN s.boxes[i].ports = DOMAIN b.ports
      BY <2>2
    <2>4. \A k \in DOMAIN b.ports : s.boxes[i].ports[k] = <<b.ports[k].in, b.ports[k].out>>
      BY <2>2
    <2> QED BY <2>2, <2>3, <2>4 DEF b
  <1> HIDE DEF s, n
  <1>4. ASSUME NEW i \in 1..n
        PROVE  /\ f.boxes[i] \in ToSet(f.boxes) /\ f.boxes[i] \in Box /\ Same(f.boxes[i], s.boxes[i])
               /\ SoundBox(f.cells, f.boxes[i]) /\ Wired(f.boxes[i])
    <2>1. f.boxes[i] \in ToSet(f.boxes)
      BY <1>1 DEF ToSet
    <2>2. f.boxes[i] \in Box /\ SoundBox(f.cells, f.boxes[i])
      BY <2>1, BoxesOf
    <2>3. Wired(f.boxes[i])
      BY <2>2 DEF SoundBox
    <2> QED BY <1>3, <2>1, <2>2, <2>3 DEF Same
  <1>5. ASSUME NEW i \in 1..n, NEW j \in 1..n, i # j
        PROVE  s.boxes[i].cells \cap s.boxes[j].cells = {}
    <2>1. f.boxes[i] # f.boxes[j]
      BY <1>1, <1>5 DEF FloorOK, Distinct, IsInjective
    <2> QED BY <1>3, <1>4, <2>1, BoxesApart
  <1>6. ASSUME NEW i \in 1..n PROVE ~(Cardinality(s.boxes[i].cells) < 2)
    BY <1>3, <1>4 DEF Wired
  <1>7. ASSUME NEW i \in 1..n, NEW c \in s.boxes[i].cells PROVE s.loose[c] = Free
    BY <1>2, <1>3, <1>4 DEF SoundBox, IsLoose
  <1>8. ASSUME NEW i \in 1..n PROVE Drawable(s.boxes[i].cells, s.boxes[i].ports)
    <2> DEFINE b == f.boxes[i]  lanes == s.boxes[i].ports
    <2>1. b \in Box /\ SoundBox(f.cells, b) /\ Wired(b)
      BY <1>4
    <2>2. /\ s.boxes[i].cells = b.cells /\ DOMAIN lanes = DOMAIN b.ports
          /\ \A k \in DOMAIN b.ports : lanes[k][1] = b.ports[k].in /\ lanes[k][2] = b.ports[k].out
      BY <1>3
    <2> HIDE DEF b, lanes
    <2>3. ASSUME NEW k \in DOMAIN b.ports, NEW l \in DOMAIN b.ports
          PROVE  /\ b.ports[k].in \in b.cells /\ b.ports[k].out \in b.cells
                 /\ OpenSides(b.cells, b.ports[k].in) # {} /\ OpenSides(b.cells, b.ports[k].out) # {}
                 /\ b.ports[k].in # b.ports[l].out
                 /\ b.ports[k].in = b.ports[l].in => k = l
                 /\ b.ports[k].out = b.ports[l].out => k = l
      BY <2>1, PortsApart, WiredPort
    <2>4. Drawable(b.cells, lanes)
      BY <2>2, <2>3 DEF Drawable
    <2> QED BY <2>2, <2>4 DEF lanes
  <1>9. StoreExact(s)
    BY <1>1, <1>5, <1>6, <1>7, <1>8 DEF StoreExact
  <1>10. Drawn(f, s)
    <2>1. ASSUME NEW b \in ToSet(f.boxes) PROVE \E i \in DOMAIN s.boxes : Same(b, s.boxes[i])
      <3>1. PICK i \in 1..n : b = f.boxes[i]
        BY <1>1 DEF ToSet
      <3> QED BY <1>1, <1>4, <3>1
    <2> QED BY <1>2, <2>1 DEF Drawn
  <1>11. Whole(f, s)
    BY <1>1, <1>2, <1>4 DEF Whole
  <1> QED BY <1>9, <1>10, <1>11 DEF Remembered, s

-----------------------------------------------------------------------------
(* A switch is wired again, lane by lane. *)

LEMMA RewiresSame ==
  ASSUME NEW f, FloorOK(f), NEW box \in ToSet(f.boxes)
  PROVE  Rewires(f, f, box, box)
  BY BoxesOf DEF Rewires, Kept

LEMMA RewiresTwice ==
  ASSUME NEW f, FloorOK(f), NEW a \in ToSet(f.boxes), NEW g, NEW b, Rewires(f, g, a, b),
         NEW h, NEW c, Rewires(g, h, b, c)
  PROVE  Rewires(f, h, a, c)
  <1>1. ToSet(h.boxes) = (ToSet(f.boxes) \ {a}) \cup {c}
    <2>1. b \notin ToSet(f.boxes) \ {a}
      BY DEF Rewires, FloorOK, Distinct
    <2> QED BY <2>1 DEF Rewires
  <1>2. Kept(f, h)
    BY KeptTwice DEF Rewires
  <1>3. /\ FloorOK(h) /\ DOMAIN h.boxes = DOMAIN f.boxes
        /\ \A i \in DOMAIN f.boxes : h.boxes[i].cells = f.boxes[i].cells
    BY DEF Rewires
  <1>4. \A x \in Cells : x \notin a.cells => h.cells[x] = f.cells[x]
    BY DEF Rewires
  <1>5. c \in Box /\ c.id = a.id /\ c.cells = a.cells
    BY DEF Rewires
  <1> QED BY <1>1, <1>2, <1>3, <1>4, <1>5 DEF Rewires

LEMMA BoxOfRewired ==
  ASSUME NEW f, NEW g, NEW a, NEW b, Rewires(f, g, a, b)
  PROVE  /\ FloorOK(g) /\ b \in ToSet(g.boxes) /\ b \in Box /\ b.id \in BoxIds(g)
         /\ BoxOf(g, b.id) = b /\ b.cells = a.cells /\ b.id = a.id
  <1>1. FloorOK(g) /\ b \in ToSet(g.boxes) /\ b.cells = a.cells /\ b.id = a.id
    BY DEF Rewires
  <1>2. b \in Box /\ b.id \in BoxIds(g)
    BY <1>1, BoxesOf
  <1>3. BoxOf(g, b.id) = b
    BY <1>1, <1>2, BoxOfIs DEF FloorOK
  <1> QED BY <1>1, <1>2, <1>3

(* A switch gets one more port, and nothing is half-placed. *)
GetsLane(box, new, p, q) ==
  /\ new.pending = NoCell
  /\ \E dir : new.ports = Append(box.ports, [in |-> p, out |-> q, dir |-> dir])

(* The two clicks for one lane, of which neither cell is a port yet. *)
LEMMA LaneAdded ==
  ASSUME NEW f, FloorOK(f), NEW box \in ToSet(f.boxes), box.pending = NoCell,
         NEW p \in box.cells, NEW q \in box.cells, p # q,
         OpenSides(box.cells, p) # {}, OpenSides(box.cells, q) # {},
         \A k \in DOMAIN box.ports :
           /\ p # box.ports[k].in /\ p # box.ports[k].out
           /\ q # box.ports[k].in /\ q # box.ports[k].out
  PROVE  \E new : /\ Rewires(f, Toggled(Toggled(f, box.id, p), box.id, q), box, new)
                  /\ GetsLane(box, new, p, q)
  <1> DEFINE id == box.id  half == [box EXCEPT !.pending = p]
             one == Toggled(f, id, p)  two == Toggled(one, id, q)
  <1>1. /\ box \in Box /\ id \in BoxIds(f) /\ BoxOf(f, id) = box /\ p # NoCell
    <2>1. box \in Box /\ id \in BoxIds(f) /\ box.cells \subseteq Cells
      BY BoxesOf
    <2>2. BoxOf(f, id) = box
      BY <2>1, BoxOfIs DEF FloorOK
    <2>3. p # NoCell
      BY <2>1, CellShape
    <2> QED BY <2>1, <2>2, <2>3
  <1>2. {k \in DOMAIN box.ports : p \in {box.ports[k].in, box.ports[k].out}} = {}
    OBVIOUS
  <1>3. one = HalfPlaced(f, box, p)
    BY <1>1, <1>2 DEF Toggled
  <1>4. Rewires(f, HalfPlaced(f, box, p), box, [box EXCEPT !.pending = p])
    <2>1. ~ \E k \in DOMAIN box.ports : p \in {box.ports[k].in, box.ports[k].out}
      BY <1>2
    <2> QED BY <2>1, HalfPlacedFacts
  <1>5. Rewires(f, one, box, half)
    BY <1>3, <1>4
  <1>6. half.pending = p /\ half.ports = box.ports
    BY <1>1 DEF Box
  <1> HIDE DEF half, one
  <1>7. /\ FloorOK(one) /\ half \in ToSet(one.boxes) /\ half \in Box /\ id \in BoxIds(one)
        /\ BoxOf(one, id) = half /\ half.cells = box.cells /\ half.id = id
    BY <1>5, BoxOfRewired
  <1>8. {k \in DOMAIN half.ports : q \in {half.ports[k].in, half.ports[k].out}} = {}
    BY <1>6
  <1>9. two = PortAdded(one, half, q)
    BY <1>1, <1>6, <1>7, <1>8 DEF Toggled
  <1>10. \E new : /\ Rewires(one, PortAdded(one, half, q), half, new)
                  /\ new.pending = NoCell
                  /\ new.ports = Append(half.ports, [in |-> half.pending, out |-> q,
                                                     dir |-> Facing(half.cells, q)])
    <2>1. ~ \E k \in DOMAIN half.ports : q \in {half.ports[k].in, half.ports[k].out}
      BY <1>8
    <2>2. q \in half.cells /\ half.pending # NoCell /\ half.pending # q /\ OpenSides(half.cells, q) # {}
      BY <1>1, <1>6, <1>7
    <2> QED BY <1>7, <2>1, <2>2, PortAddedFacts
  <1>11. PICK new : /\ Rewires(one, two, half, new)
                    /\ new.pending = NoCell
                    /\ new.ports = Append(half.ports, [in |-> half.pending, out |-> q,
                                                       dir |-> Facing(half.cells, q)])
    BY <1>9, <1>10
  <1> HIDE DEF two
  <1>12. Rewires(f, two, box, new)
    BY <1>5, <1>11, RewiresTwice
  <1>13. GetsLane(box, new, p, q)
    BY <1>6, <1>11 DEF GetsLane
  <1> QED BY <1>12, <1>13 DEF two, one

LEMMA RewiredExact ==
  ASSUME NEW f, FloorOK(f), NEW box \in ToSet(f.boxes), box.pending = NoCell, box.ports = <<>>,
         NEW lanes \in Seq(Cells \X Cells), Drawable(box.cells, lanes)
  PROVE  \E new : /\ Rewires(f, Rewired(f, box.id, lanes), box, new)
                  /\ DOMAIN new.ports = DOMAIN lanes
                  /\ \A k \in DOMAIN lanes : lanes[k] = <<new.ports[k].in, new.ports[k].out>>
  <1> DEFINE n == Len(lanes)  id == box.id
             Wires(g, b, k) ==
               /\ Rewires(f, g, box, b) /\ b.pending = NoCell
               /\ DOMAIN b.ports = 1..k
               /\ \A j \in 1..k : lanes[j] = <<b.ports[j].in, b.ports[j].out>>
  <1>1. n \in Nat /\ DOMAIN lanes = 1..n /\ \A k \in 1..n : lanes[k] = <<lanes[k][1], lanes[k][2]>>
    <2>1. n \in Nat /\ DOMAIN lanes = 1..n
      OBVIOUS
    <2>2. ASSUME NEW k \in 1..n PROVE lanes[k] = <<lanes[k][1], lanes[k][2]>>
      <3>1. lanes[k] \in Cells \X Cells
        BY <2>1
      <3> QED BY <3>1
    <2> QED BY <2>1, <2>2
  <1>2. PICK h : Wiring(h, f, id, lanes, n) /\ Rewired(f, id, lanes) = h[n]
    BY <1>1, RewiredIs
  <1> DEFINE G == {k \in 0..n : \E b : Wires(h[k], b, k)}
  <1> HIDE DEF n
  <1>3. 0 \in G
    <2>1. h[0] = f
      BY <1>1, <1>2 DEF Wiring
    <2>2. Rewires(f, f, box, box)
      BY RewiresSame
    <2>3. Wires(h[0], box, 0)
      BY <2>1, <2>2
    <2> HIDE DEF Wires
    <2> QED BY <1>1, <2>3
  <1>4. ASSUME NEW k \in 1..n, k - 1 \in G PROVE k \in G
    <2> DEFINE g == h[k - 1]  p == lanes[k][1]  q == lanes[k][2]
               two == Toggled(Toggled(g, id, p), id, q)
    <2>1. h[k] = two
      BY <1>1, <1>2 DEF Wiring
    <2>2. PICK b : Wires(g, b, k - 1)
      BY <1>4
    <2> HIDE DEF g
    <2>3. /\ Rewires(f, g, box, b) /\ b.pending = NoCell /\ DOMAIN b.ports = 1..(k - 1)
          /\ \A j \in 1..(k - 1) : lanes[j] = <<b.ports[j].in, b.ports[j].out>>
      BY <2>2
    <2>4. /\ FloorOK(g) /\ b \in ToSet(g.boxes) /\ b \in Box /\ b.cells = box.cells /\ b.id = id
      BY <2>3, BoxOfRewired
    <2>5. /\ p \in b.cells /\ q \in b.cells /\ p # q
          /\ OpenSides(b.cells, p) # {} /\ OpenSides(b.cells, q) # {}
      BY <1>1, <2>4 DEF Drawable
    <2>6. ASSUME NEW j \in DOMAIN b.ports
          PROVE  /\ p # b.ports[j].in /\ p # b.ports[j].out
                 /\ q # b.ports[j].in /\ q # b.ports[j].out
      <3>1. j \in DOMAIN lanes /\ k \in DOMAIN lanes /\ j # k
        BY <1>1, <2>3
      <3>2. lanes[j][1] = b.ports[j].in /\ lanes[j][2] = b.ports[j].out
        BY <2>3
      <3>3. p # lanes[j][1] /\ p # lanes[j][2] /\ q # lanes[j][1] /\ q # lanes[j][2]
        BY <3>1 DEF Drawable
      <3> QED BY <3>2, <3>3
    <2> HIDE DEF p, q
    <2>7. PICK new : /\ Rewires(g, Toggled(Toggled(g, b.id, p), b.id, q), b, new)
                     /\ GetsLane(b, new, p, q)
      <3>1. \A j \in DOMAIN b.ports :
              /\ p # b.ports[j].in /\ p # b.ports[j].out
              /\ q # b.ports[j].in /\ q # b.ports[j].out
        BY <2>6
      <3>2. b.pending = NoCell
        BY <2>3
      <3>3. \E x : /\ Rewires(g, Toggled(Toggled(g, b.id, p), b.id, q), b, x)
                   /\ GetsLane(b, x, p, q)
        BY <2>4, <2>5, <3>1, <3>2, LaneAdded
      <3> QED BY <3>3
    <2>8. Rewires(g, two, b, new)
      BY <2>4, <2>7
    <2> HIDE DEF two
    <2>9. Rewires(f, two, box, new)
      BY <2>3, <2>8, RewiresTwice
    <2>10. b.ports \in Seq(Port) /\ Len(b.ports) = k - 1
      <3>1. b.ports \in Seq(Port)
        BY <2>4 DEF Box
      <3>2. k - 1 \in Nat
        BY <1>1
      <3> QED BY <2>3, <3>1, <3>2
    <2>11. PICK dir : new.ports = Append(b.ports, [in |-> p, out |-> q, dir |-> dir])
      BY <2>7 DEF GetsLane
    <2>12. /\ DOMAIN new.ports = 1..k /\ new.ports[k].in = p /\ new.ports[k].out = q
           /\ \A j \in 1..(k - 1) : new.ports[j] = b.ports[j]
      <3>1. k \in Nat
        BY <1>1
      <3> QED BY <2>10, <2>11, <3>1
    <2>13. ASSUME NEW j \in 1..k PROVE lanes[j] = <<new.ports[j].in, new.ports[j].out>>
      <3>1. CASE j = k
        BY <1>1, <2>12, <3>1 DEF p, q
      <3>2. CASE j # k
        <4>1. j \in 1..(k - 1)
          BY <1>1, <3>2
        <4> QED BY <2>3, <2>12, <4>1
      <3> QED BY <3>1, <3>2
    <2>14. Wires(two, new, k)
      BY <2>7, <2>9, <2>12, <2>13 DEF GetsLane
    <2> HIDE DEF Wires
    <2>15. Wires(h[k], new, k)
      BY <2>1, <2>14
    <2> QED BY <1>1, <2>15
  <1>5. \A k \in 1..n : k - 1 \in G => k \in G
    BY <1>4
  <1> HIDE DEF G
  <1>6. \A k \in 0..n : k \in G
    BY <1>1, <1>3, <1>5, UpTo
  <1>7. n \in G
    BY <1>1, <1>6
  <1>8. PICK b : Wires(h[n], b, n)
    BY <1>7 DEF G
  <1> QED BY <1>1, <1>2, <1>8

-----------------------------------------------------------------------------
(* The switches of the store up to one are drawn. *)
Redone(f, s, n) ==
  /\ \A c \in Cells : (\A j \in 1..n : c \notin s.boxes[j].cells) => f.cells[c] = s.loose[c]
  /\ \A b \in ToSet(f.boxes) : \E j \in 1..n : Same(b, s.boxes[j])
  /\ \A j \in 1..n : \E b \in ToSet(f.boxes) : Same(b, s.boxes[j])

LEMMA RedrawnExact ==
  ASSUME NEW s, StoreOK(s), StoreExact(s), Rectangular(s), NEW i \in DOMAIN s.boxes,
         i \in AppIds, NEW f, FloorOK(f), Bare(f, s), i \notin BoxIds(f), Redone(f, s, i - 1)
  PROVE  Redone(Redrawn(f, i, s.boxes[i]), s, i)
  <1> DEFINE st == s.boxes[i]  a == Least(st.cells)  z == Greatest(st.cells)
             under == Footprint(f, a, z)  laid == Laid(f, i, a, z)  bare == Cleared(f, under)
             g == Rewired(laid, i, st.ports)
  <1>1. s.boxes \in Seq(Stored) /\ i \in Nat /\ i >= 1 /\ 1..i \subseteq DOMAIN s.boxes
        /\ 1..(i - 1) \subseteq DOMAIN s.boxes
    <2>1. s.boxes \in Seq(Stored)
      BY DEF StoreOK
    <2>2. Len(s.boxes) \in Nat /\ DOMAIN s.boxes = 1..Len(s.boxes)
      BY <2>1
    <2> QED BY <2>1, <2>2
  <1>2. st \in Stored /\ st.ports \in Seq(Cells \X Cells) /\ st.cells \subseteq Cells
    <2>1. st \in Stored
      BY <1>1
    <2> QED BY <2>1 DEF Stored
  <1>3. st.cells = Rectangle(a, z)
    BY DEF Rectangular
  <1>4. under = st.cells
    BY <1>2, <1>3 DEF Footprint, Bare
  <1>5. ~(Cardinality(under) < 2) /\ Drawable(under, st.ports) /\ \A c \in under : s.loose[c] = Free
    BY <1>4 DEF StoreExact
  <1>6. /\ FloorOK(laid)
        /\ ToSet(laid.boxes) = ClearedBoxes(f, under) \cup {Fresh(i, under)}
        /\ \A c \in Cells : laid.cells[c] = IF c \in under THEN Body(i) ELSE bare.cells[c]
    BY <1>5, LaidFacts
  <1>7. Redrawn(f, i, st) = g
    BY DEF Redrawn
  <1> HIDE DEF st, a, z, under, laid
  <1>8. ASSUME NEW j \in 1..(i - 1) PROVE s.boxes[j].cells \cap st.cells = {}
    <2>1. j \in DOMAIN s.boxes /\ j # i
      BY <1>1
    <2> QED BY <2>1 DEF StoreExact, st
  <1>9. \A b \in ToSet(f.boxes) : b.cells \cap under = {}
    BY <1>4, <1>8 DEF Redone, Same
  <1>10. ToSet(laid.boxes) = ToSet(f.boxes) \cup {Fresh(i, under)}
    BY <1>6, <1>9 DEF ClearedBoxes
  <1>11. ClearedCells(f, bare, under)
    BY <1>2, <1>4, ClearedFacts
  <1> HIDE DEF bare
  <1>12. ASSUME NEW c \in Cells, c \notin under PROVE laid.cells[c] = f.cells[c]
    <2>1. bare.cells[c] = f.cells[c]
      <3>1. CASE ~IsBox(f.cells[c])
        BY <1>11, <1>12, <3>1 DEF ClearedCells
      <3>2. CASE IsBox(f.cells[c])
        <4>1. PICK b \in ToSet(f.boxes) : c \in b.cells
          BY <3>2, CellBox
        <4> QED BY <1>9, <1>11, <4>1 DEF ClearedCells
      <3> QED BY <3>1, <3>2
    <2> QED BY <1>6, <1>12, <2>1
  <1> DEFINE fresh == Fresh(i, under)
  <1>13. fresh.id = i /\ fresh.cells = under /\ fresh.ports = <<>> /\ fresh.pending = NoCell
    BY DEF Fresh
  <1>14. fresh \in ToSet(laid.boxes) /\ fresh \notin ToSet(f.boxes)
    BY <1>10, <1>13, BoxesOf
  <1> HIDE DEF fresh
  <1>15. \E new : /\ Rewires(laid, Rewired(laid, fresh.id, st.ports), fresh, new)
                  /\ DOMAIN new.ports = DOMAIN st.ports
                  /\ \A k \in DOMAIN st.ports : st.ports[k] = <<new.ports[k].in, new.ports[k].out>>
    <2>1. Drawable(fresh.cells, st.ports) /\ fresh.pending = NoCell /\ fresh.ports = <<>>
      BY <1>5, <1>13
    <2> QED BY <1>2, <1>6, <1>14, <2>1, RewiredExact
  <1>16. PICK new : /\ Rewires(laid, g, fresh, new)
                    /\ DOMAIN new.ports = DOMAIN st.ports
                    /\ \A k \in DOMAIN st.ports : st.ports[k] = <<new.ports[k].in, new.ports[k].out>>
    BY <1>13, <1>15
  <1> HIDE DEF g
  <1>17. Same(new, st)
    BY <1>4, <1>13, <1>16 DEF Same, Rewires
  <1>18. ToSet(g.boxes) = ToSet(f.boxes) \cup {new}
    BY <1>10, <1>14, <1>16 DEF fresh, Rewires
  <1>19. ASSUME NEW c \in Cells, \A j \in 1..i : c \notin s.boxes[j].cells
         PROVE  g.cells[c] = s.loose[c]
    <2>1. c \notin under /\ \A j \in 1..(i - 1) : c \notin s.boxes[j].cells
      <3>1. i \in 1..i /\ 1..(i - 1) \subseteq 1..i
        BY <1>1
      <3> QED BY <1>4, <1>19, <3>1 DEF st
    <2>2. f.cells[c] = s.loose[c]
      BY <2>1 DEF Redone
    <2> QED BY <1>12, <1>13, <1>16, <2>1, <2>2 DEF Rewires
  <1>20. ASSUME NEW b \in ToSet(g.boxes) PROVE \E j \in 1..i : Same(b, s.boxes[j])
    <2>1. i \in 1..i /\ 1..(i - 1) \subseteq 1..i
      BY <1>1
    <2> QED BY <1>17, <1>18, <2>1 DEF st, Redone
  <1>21. ASSUME NEW j \in 1..i PROVE \E b \in ToSet(g.boxes) : Same(b, s.boxes[j])
    <2>1. j = i \/ j \in 1..(i - 1)
      BY <1>1
    <2> QED BY <1>17, <1>18, <2>1 DEF st, Redone
  <1>22. Redone(g, s, i)
    BY <1>19, <1>20, <1>21 DEF Redone
  <1> QED BY <1>7, <1>22 DEF st

LEMMA RedoneIsDrawn ==
  ASSUME NEW s, StoreOK(s), StoreExact(s), NEW f, FloorOK(f), Redone(f, s, Len(s.boxes))
  PROVE  Drawn(f, s) /\ Whole(f, s)
  <1>1. DOMAIN s.boxes = 1..Len(s.boxes)
    <2>1. s.boxes \in Seq(Stored)
      BY DEF StoreOK
    <2> QED BY <2>1
  <1>2. ASSUME NEW c \in Cells, IsLoose(f.cells[c]) PROVE f.cells[c] = s.loose[c]
    <2>1. ASSUME NEW j \in DOMAIN s.boxes PROVE c \notin s.boxes[j].cells
      <3>1. PICK b \in ToSet(f.boxes) : Same(b, s.boxes[j])
        BY <1>1 DEF Redone
      <3>2. SoundBox(f.cells, b)
        BY BoxesOf
      <3>3. c \notin b.cells
        BY <1>2, <3>2 DEF SoundBox, IsLoose
      <3> QED BY <3>1, <3>3 DEF Same
    <2> QED BY <1>1, <2>1 DEF Redone
  <1>3. ASSUME NEW c \in Cells, s.loose[c] # Free PROVE f.cells[c] = s.loose[c]
    <2>1. \A j \in DOMAIN s.boxes : c \notin s.boxes[j].cells
      BY <1>3 DEF StoreExact
    <2> QED BY <1>1, <2>1 DEF Redone
  <1> QED BY <1>1, <1>2, <1>3 DEF Redone, Drawn, Whole

LEMMA RestoredFacts ==
  ASSUME NEW s, StoreOK(s)
  PROVE  /\ FloorOK(Restored(s)) /\ Bare(Restored(s), s)
         /\ StoreExact(s) /\ Rectangular(s) => Drawn(Restored(s), s) /\ Whole(Restored(s), s)
  <1> DEFINE n == Len(s.boxes)  exact == StoreExact(s) /\ Rectangular(s)
  <1>1. n \in Nat /\ n <= MaxBoxes /\ MaxBoxes \in Nat
    BY MachineryAssumption DEF StoreOK
  <1>2. PICK h : Redrawing(h, s, n) /\ Restored(s) = h[n]
    BY <1>1, RestoredIs
  <1> DEFINE G == {i \in 0..n : /\ FloorOK(h[i]) /\ Bare(h[i], s) /\ BoxIds(h[i]) \subseteq 1..i
                                /\ exact => Redone(h[i], s, i)}
  <1>3. 0 \in G
    <2> DEFINE f == [cells |-> s.loose, boxes |-> <<>>]
    <2>1. h[0] = f
      BY <1>1, <1>2 DEF Redrawing
    <2>2. f.cells = s.loose /\ f.boxes = <<>> /\ f = [cells |-> f.cells, boxes |-> f.boxes]
      OBVIOUS
    <2> HIDE DEF f
    <2>3. f.cells \in [Cells -> Contents] /\ \A c \in Cells : ~IsBox(f.cells[c]) /\ ~IsHost(f.cells[c])
      BY <2>2, Kinds, ContentsHas DEF StoreOK
    <2>4. ToSet(f.boxes) = {} /\ BoxIds(f) = {} /\ Distinct(f.boxes)
      BY <2>2 DEF ToSet, BoxIds, Distinct, IsInjective
    <2>5. Agree(f.cells, ToSet(f.boxes))
      BY <2>3, <2>4 DEF Agree
    <2>6. FloorOK(f) /\ Bare(f, s) /\ BoxIds(f) \subseteq 1..0
      BY <2>2, <2>3, <2>4, <2>5 DEF FloorOK, Bare
    <2>7. Redone(f, s, 0)
      BY <2>2, <2>4 DEF Redone
    <2> HIDE DEF exact
    <2> QED BY <1>1, <2>1, <2>6, <2>7
  <1>4. ASSUME NEW i \in 1..n, i - 1 \in G PROVE i \in G
    <2> DEFINE f == h[i - 1]  box == s.boxes[i]  a == Least(box.cells)  b == Greatest(box.cells)
               laid == Laid(f, i, a, b)  g == Rewired(laid, i, box.ports)
    <2>1. h[i] = g /\ h[i] = Redrawn(f, i, box)
      BY <1>2 DEF Redrawing, Redrawn
    <2> HIDE DEF exact
    <2>2. /\ FloorOK(f) /\ Bare(f, s) /\ BoxIds(f) \subseteq 1..(i - 1)
          /\ exact => Redone(f, s, i - 1)
      BY <1>4
    <2>3. i \in AppIds /\ i \notin BoxIds(f)
      BY <1>1, <2>2 DEF AppIds
    <2>4. Len(box.ports) \in Nat
      <3>1. box \in Stored
        BY DEF StoreOK
      <3>2. box.ports \in Seq(Cells \X Cells)
        BY <3>1 DEF Stored
      <3> QED BY <3>2
    <2> HIDE DEF f, a, b
    <2>5. /\ FloorOK(laid) /\ Kept(f, laid)
          /\ Cardinality(Footprint(f, a, b)) < 2 => laid = f
          /\ ~(Cardinality(Footprint(f, a, b)) < 2) =>
               ToSet(laid.boxes) = ClearedBoxes(f, Footprint(f, a, b)) \cup {Fresh(i, Footprint(f, a, b))}
      BY <2>2, <2>3, LaidFacts
    <2> HIDE DEF laid
    <2>6. BoxIds(laid) \subseteq BoxIds(f) \cup {i}
      BY <2>5, BoxIdsOf DEF ClearedBoxes, Fresh
    <2>7. Clicked(laid, g)
      BY <2>4, <2>5, RewiredFacts
    <2> HIDE DEF g
    <2>8. Kept(f, g)
      BY <2>5, <2>7, KeptTwice DEF Clicked
    <2>9. FloorOK(g) /\ BoxIds(g) \subseteq 1..i
      BY <2>2, <2>6, <2>7 DEF Clicked
    <2>10. Bare(g, s)
      BY <2>2, <2>8 DEF Bare, Kept
    <2>11. ASSUME exact PROVE Redone(h[i], s, i)
      <3>1. i \in DOMAIN s.boxes
        <4>1. s.boxes \in Seq(Stored)
          BY DEF StoreOK
        <4> QED BY <4>1
      <3>2. StoreExact(s) /\ Rectangular(s)
        BY <2>11 DEF exact
      <3>3. Redone(f, s, i - 1)
        BY <2>2, <2>11
      <3>4. Redone(Redrawn(f, i, s.boxes[i]), s, i)
        BY <2>2, <2>3, <3>1, <3>2, <3>3, RedrawnExact
      <3> QED BY <2>1, <3>4
    <2> QED BY <2>1, <2>9, <2>10, <2>11
  <1>5. \A i \in 1..n : i - 1 \in G => i \in G
    BY <1>4
  <1> HIDE DEF G
  <1>6. \A i \in 0..n : i \in G
    BY <1>1, <1>3, <1>5, UpTo
  <1>7. n \in G
    BY <1>1, <1>6
  <1> DEFINE R == h[n]
  <1>8. FloorOK(R) /\ Bare(R, s) /\ (exact => Redone(R, s, n))
    BY <1>7 DEF G
  <1> HIDE DEF R, exact
  <1>9. exact => Drawn(R, s) /\ Whole(R, s)
    BY <1>8, RedoneIsDrawn DEF exact
  <1>10. Restored(s) = R
    BY <1>2 DEF R
  <1> QED BY <1>8, <1>9, <1>10 DEF exact

-----------------------------------------------------------------------------
(* The hosts. *)

(* Each has a slot of its own, and stands on it. *)
Settled(f, slots) ==
  /\ slots \in [Hosts -> DOMAIN SLOTS \cup {NoSlot}]
  /\ \A g, h \in Hosts : slots[g] = slots[h] /\ slots[g] # NoSlot => g = h
  /\ \A h \in Hosts : slots[h] # NoSlot =>
       LET slot == SLOTS[slots[h]] IN
       f.cells[slot.roost] = Roost(h, slot.facing) /\ f.cells[slot.landing] = Landing(h)
  /\ \A c \in Cells : IsHost(f.cells[c]) =>
       LET s == slots[f.cells[c].host] IN s # NoSlot /\ c \in Standing(s)

LEMMA SlotIs ==
  ASSUME NEW s \in DOMAIN SLOTS
  PROVE  /\ SLOTS[s].roost \in Cells /\ SLOTS[s].landing \in Cells /\ SLOTS[s].facing \in 0..3
         /\ SLOTS[s].roost # SLOTS[s].landing /\ s # NoSlot
         /\ Standing(s) = {SLOTS[s].roost, SLOTS[s].landing}
         /\ \A t \in DOMAIN SLOTS : t # s => Standing(s) \cap Standing(t) = {}
  <1>1. SLOTS \in Seq([roost : Cells, landing : Cells, facing : 0..3])
    BY MachineryAssumption
  <1>2. SLOTS[s] \in [roost : Cells, landing : Cells, facing : 0..3] /\ s \in Nat \ {0}
    <2> DEFINE T == [roost : Cells, landing : Cells, facing : 0..3]
    <2>1. SLOTS \in Seq(T)
      BY <1>1
    <2> HIDE DEF T
    <2>2. SLOTS[s] \in T
      BY <2>1
    <2>3. s \in Nat \ {0}
      BY <2>1
    <2> QED BY <2>2, <2>3 DEF T
  <1>3. SLOTS[s].roost # SLOTS[s].landing
    BY MachineryAssumption
  <1>4. \A t \in DOMAIN SLOTS : t # s => Standing(s) \cap Standing(t) = {}
    BY MachineryAssumption
  <1> QED BY <1>2, <1>3, <1>4 DEF NoSlot, Standing

LEMMA HostContents ==
  ASSUME NEW x \in Contents, IsHost(x)
  PROVE  x.host \in Hosts
  <1>1. ~IsBox(x)
    BY DEF IsHost, IsBox
  <1> QED BY <1>1, PlainContents, Kinds

(* A slot that no host has is free of hosts. *)
LEMMA FreeSlot ==
  ASSUME NEW f, FloorOK(f), NEW slots, Settled(f, slots), NEW s \in DOMAIN SLOTS,
         \A h \in Hosts : slots[h] # s
  PROVE  \A c \in Standing(s) : c \in Cells /\ ~IsHost(f.cells[c])
  <1> SUFFICES ASSUME NEW c \in Standing(s), IsHost(f.cells[c]) PROVE FALSE
    BY SlotIs
  <1> DEFINE h == f.cells[c].host
  <1>1. c \in Cells
    BY SlotIs
  <1>2. h \in Hosts
    BY <1>1, HostContents DEF FloorOK
  <1>3. slots[h] # NoSlot /\ c \in Standing(slots[h]) /\ slots[h] \in DOMAIN SLOTS \cup {NoSlot}
    BY <1>1, <1>2 DEF Settled
  <1> QED BY <1>2, <1>3, SlotIs

LEMMA SettledKept ==
  ASSUME NEW f, NEW g, NEW slots, Settled(f, slots),
         \A c \in Cells : IsHost(f.cells[c]) \/ IsHost(g.cells[c]) => g.cells[c] = f.cells[c]
  PROVE  Settled(g, slots)
  <1>1. ASSUME NEW h \in Hosts, slots[h] # NoSlot
        PROVE  LET slot == SLOTS[slots[h]] IN
               g.cells[slot.roost] = Roost(h, slot.facing) /\ g.cells[slot.landing] = Landing(h)
    <2>1. slots[h] \in DOMAIN SLOTS
      BY <1>1 DEF Settled
    <2> DEFINE slot == SLOTS[slots[h]]
    <2>2. f.cells[slot.roost] = Roost(h, slot.facing) /\ f.cells[slot.landing] = Landing(h)
      BY <1>1 DEF Settled
    <2>3. slot.roost \in Cells /\ slot.landing \in Cells
      BY <2>1, SlotIs
    <2> QED BY <2>2, <2>3, Kinds
  <1>2. ASSUME NEW c \in Cells, IsHost(g.cells[c])
        PROVE  LET s == slots[g.cells[c].host] IN s # NoSlot /\ c \in Standing(s)
    <2>1. g.cells[c] = f.cells[c]
      BY <1>2
    <2> QED BY <1>2, <2>1 DEF Settled
  <1> QED BY <1>1, <1>2 DEF Settled

(* What is cleared is of no switch. *)
LEMMA ClearedBare ==
  ASSUME NEW f, FloorOK(f), NEW S \in SUBSET Cells
  PROVE  \A c \in Cells : (c \in S \/ ~IsBox(f.cells[c])) => ~IsBox(Cleared(f, S).cells[c])
  <1> DEFINE g == Cleared(f, S)
  <1>1. ClearedCells(f, g, S)
    BY ClearedFacts
  <1> HIDE DEF g
  <1>2. ASSUME NEW c \in Cells, c \in S \/ ~IsBox(f.cells[c]) PROVE ~IsBox(g.cells[c])
    <2>1. CASE ~IsBox(f.cells[c])
      BY <1>1, <2>1, Kinds DEF ClearedCells
    <2>2. CASE IsBox(f.cells[c])
      <3>1. PICK b \in ToSet(f.boxes) : c \in b.cells
        BY <2>2, CellBox
      <3>2. b.cells \cap S # {}
        BY <1>2, <2>2, <3>1
      <3> QED BY <1>1, <3>1, <3>2, Kinds DEF ClearedCells
    <2> QED BY <2>1, <2>2
  <1> QED BY <1>2 DEF g

LEMMA RoostedFacts ==
  ASSUME NEW f, FloorOK(f), NEW slots, Settled(f, slots), NEW h \in Hosts, slots[h] = NoSlot,
         NEW s \in DOMAIN SLOTS, \A g \in Hosts : slots[g] # s
  PROVE  /\ FloorOK(Roosted(f, h, s)) /\ Settled(Roosted(f, h, s), [slots EXCEPT ![h] = s])
         /\ \A c \in Cells : IsLoose(Roosted(f, h, s).cells[c]) =>
              Roosted(f, h, s).cells[c] = f.cells[c]
  <1> DEFINE slot == SLOTS[s]  one == Cleared(f, {slot.roost})
             bare == Cleared(one, {slot.landing})
             cells == [bare.cells EXCEPT ![slot.roost] = Roost(h, slot.facing),
                                         ![slot.landing] = Landing(h)]
             g == Roosted(f, h, s)  new == [slots EXCEPT ![h] = s]
  <1>1. /\ slot.roost \in Cells /\ slot.landing \in Cells /\ slot.facing \in 0..3
        /\ slot.roost # slot.landing /\ s # NoSlot
        /\ Standing(s) = {slot.roost, slot.landing}
        /\ \A t \in DOMAIN SLOTS : t # s => Standing(s) \cap Standing(t) = {}
    BY SlotIs
  <1>2. FloorOK(one) /\ Kept(f, one) /\ ~IsBox(one.cells[slot.roost])
    BY <1>1, ClearedFacts, ClearedKeeps, ClearedBare
  <1> HIDE DEF one
  <1>3. /\ FloorOK(bare) /\ Kept(one, bare)
        /\ ~IsBox(bare.cells[slot.roost]) /\ ~IsBox(bare.cells[slot.landing])
    BY <1>1, <1>2, ClearedFacts, ClearedKeeps, ClearedBare
  <1>4. Kept(f, bare)
    BY <1>2, <1>3, KeptTwice
  <1>5. g = [bare EXCEPT !.cells = cells]
    BY DEF Roosted, one
  <1> HIDE DEF bare
  <1>6. g = [cells |-> cells, boxes |-> bare.boxes]
    BY <1>3, <1>5 DEF FloorOK
  <1>7. /\ cells \in [Cells -> Contents]
        /\ cells[slot.roost] = Roost(h, slot.facing) /\ cells[slot.landing] = Landing(h)
        /\ \A c \in Cells : c \notin Standing(s) => cells[c] = bare.cells[c]
    <2>1. bare.cells \in [Cells -> Contents]
      BY <1>3 DEF FloorOK
    <2>2. Roost(h, slot.facing) \in Contents /\ Landing(h) \in Contents
      BY <1>1, ContentsHas
    <2> HIDE DEF slot
    <2> QED BY <1>1, <2>1, <2>2
  <1> HIDE DEF cells
  <1>8. FloorOK(g)
    <2>1. \A c \in Cells : IsBox(bare.cells[c]) \/ IsBox(cells[c]) => cells[c] = bare.cells[c]
      <3> HIDE DEF slot
      <3> QED BY <1>1, <1>3, <1>7, Kinds
    <2> QED BY <1>3, <1>6, <1>7, <2>1, PlainChange
  <1>9. g.cells = cells
    BY <1>6
  <1> HIDE DEF g
  <1>10. /\ new \in [Hosts -> DOMAIN SLOTS \cup {NoSlot}] /\ new[h] = s
         /\ \A i \in Hosts : i # h => new[i] = slots[i] /\ slots[i] # s
         /\ \A i \in Hosts : slots[i] \in DOMAIN SLOTS \cup {NoSlot}
    BY DEF Settled
  <1> HIDE DEF new
  <1>11. \A i, j \in Hosts : new[i] = new[j] /\ new[i] # NoSlot => i = j
    BY <1>10 DEF Settled
  <1>12. ASSUME NEW i \in Hosts, new[i] # NoSlot
         PROVE  /\ g.cells[SLOTS[new[i]].roost] = Roost(i, SLOTS[new[i]].facing)
                /\ g.cells[SLOTS[new[i]].landing] = Landing(i)
    <2>1. CASE i = h
      BY <1>7, <1>9, <1>10, <2>1
    <2>2. CASE i # h
      <3> DEFINE t == slots[i]
      <3>1. new[i] = t /\ t \in DOMAIN SLOTS /\ t # s
        BY <1>10, <1>12, <2>2
      <3>2. /\ SLOTS[t].roost \in Cells /\ SLOTS[t].landing \in Cells
            /\ Standing(t) = {SLOTS[t].roost, SLOTS[t].landing}
        BY <3>1, SlotIs
      <3>3. SLOTS[t].roost \notin Standing(s) /\ SLOTS[t].landing \notin Standing(s)
        <4>1. Standing(s) \cap Standing(t) = {}
          BY <1>1, <3>1
        <4> QED BY <3>2, <4>1
      <3>4. /\ f.cells[SLOTS[t].roost] = Roost(i, SLOTS[t].facing)
            /\ f.cells[SLOTS[t].landing] = Landing(i)
        BY <1>12, <3>1 DEF Settled
      <3>5. /\ bare.cells[SLOTS[t].roost] = Roost(i, SLOTS[t].facing)
            /\ bare.cells[SLOTS[t].landing] = Landing(i)
        BY <1>4, <3>2, <3>4, Kinds DEF Kept
      <3> QED BY <1>7, <1>9, <3>1, <3>2, <3>3, <3>5
    <2> QED BY <2>1, <2>2
  <1>13. ASSUME NEW c \in Cells, IsHost(g.cells[c])
         PROVE  new[g.cells[c].host] # NoSlot /\ c \in Standing(new[g.cells[c].host])
    <2>1. CASE c \in Standing(s)
      <3>1. g.cells[c].host = h
        BY <1>1, <1>7, <1>9, <2>1, Kinds
      <3> QED BY <1>1, <1>10, <2>1, <3>1
    <2>2. CASE c \notin Standing(s)
      <3>1. g.cells[c] = f.cells[c] /\ IsHost(f.cells[c])
        BY <1>4, <1>7, <1>9, <1>13, <2>2 DEF Kept
      <3> DEFINE i == f.cells[c].host
      <3>2. i \in Hosts
        BY <3>1, HostContents DEF FloorOK
      <3>3. slots[i] # NoSlot /\ c \in Standing(slots[i])
        BY <3>1 DEF Settled
      <3>4. i # h
        BY <3>3
      <3> QED BY <1>10, <3>1, <3>2, <3>3, <3>4
    <2> QED BY <2>1, <2>2
  <1>14. ASSUME NEW c \in Cells, IsLoose(g.cells[c]) PROVE g.cells[c] = f.cells[c]
    <2>1. c \notin Standing(s)
      BY <1>1, <1>7, <1>9, <1>14, Kinds DEF IsLoose
    <2> QED BY <1>4, <1>7, <1>9, <1>14, <2>1 DEF Kept
  <1> QED BY <1>8, <1>10, <1>11, <1>12, <1>13, <1>14 DEF Settled, g, new

LEMMA UnroostedFacts ==
  ASSUME NEW f, FloorOK(f), NEW slots, Settled(f, slots), NEW h \in Hosts, slots[h] # NoSlot
  PROVE  /\ FloorOK(Unroosted(f, slots[h]))
         /\ Settled(Unroosted(f, slots[h]), [slots EXCEPT ![h] = NoSlot])
         /\ \A c \in Cells : IsLoose(Unroosted(f, slots[h]).cells[c]) =>
              Unroosted(f, slots[h]).cells[c] = f.cells[c]
  <1> DEFINE s == slots[h]  g == Unroosted(f, s)  new == [slots EXCEPT ![h] = NoSlot]
             cells == [c \in Cells |-> IF c \in Standing(s) /\ IsHost(f.cells[c]) THEN Free
                                       ELSE f.cells[c]]
  <1>1. g = [f EXCEPT !.cells = cells]
    BY DEF Unroosted
  <1>2. g = [cells |-> cells, boxes |-> f.boxes]
    BY <1>1 DEF FloorOK
  <1>3. cells \in [Cells -> Contents]
    BY ContentsHas DEF FloorOK
  <1>4. \A c \in Cells : IsBox(f.cells[c]) \/ IsBox(cells[c]) => cells[c] = f.cells[c]
    BY Kinds DEF IsBox, IsHost
  <1>5. \A c \in Cells : cells[c] = IF c \in Standing(s) /\ IsHost(f.cells[c]) THEN Free
                                    ELSE f.cells[c]
    OBVIOUS
  <1> HIDE DEF cells
  <1>6. FloorOK(g)
    BY <1>2, <1>3, <1>4, PlainChange
  <1>7. g.cells = cells
    BY <1>2
  <1> HIDE DEF g
  <1>8. /\ new \in [Hosts -> DOMAIN SLOTS \cup {NoSlot}] /\ new[h] = NoSlot
        /\ \A i \in Hosts : i # h => new[i] = slots[i] /\ (slots[i] = s => FALSE)
        /\ \A i \in Hosts : slots[i] \in DOMAIN SLOTS \cup {NoSlot}
    BY DEF Settled
  <1> HIDE DEF new
  <1>9. \A i, j \in Hosts : new[i] = new[j] /\ new[i] # NoSlot => i = j
    BY <1>8 DEF Settled
  <1>10. ASSUME NEW i \in Hosts, new[i] # NoSlot
         PROVE  /\ g.cells[SLOTS[new[i]].roost] = Roost(i, SLOTS[new[i]].facing)
                /\ g.cells[SLOTS[new[i]].landing] = Landing(i)
    <2> DEFINE t == slots[i]
    <2>1. i # h /\ new[i] = t /\ t \in DOMAIN SLOTS /\ t # s /\ s \in DOMAIN SLOTS
      BY <1>8, <1>10
    <2>2. /\ SLOTS[t].roost \in Cells /\ SLOTS[t].landing \in Cells
          /\ Standing(t) = {SLOTS[t].roost, SLOTS[t].landing}
          /\ Standing(t) \cap Standing(s) = {}
      BY <2>1, SlotIs
    <2>3. /\ f.cells[SLOTS[t].roost] = Roost(i, SLOTS[t].facing)
          /\ f.cells[SLOTS[t].landing] = Landing(i)
      BY <1>10, <2>1 DEF Settled
    <2> QED BY <1>5, <1>7, <2>1, <2>2, <2>3
  <1>11. ASSUME NEW c \in Cells, IsHost(g.cells[c])
         PROVE  new[g.cells[c].host] # NoSlot /\ c \in Standing(new[g.cells[c].host])
    <2>1. g.cells[c] = f.cells[c] /\ IsHost(f.cells[c]) /\ c \notin Standing(s)
      BY <1>5, <1>7, <1>11, Kinds
    <2> DEFINE i == f.cells[c].host
    <2>2. i \in Hosts
      BY <2>1, HostContents DEF FloorOK
    <2>3. slots[i] # NoSlot /\ c \in Standing(slots[i])
      BY <2>1 DEF Settled
    <2>4. i # h
      BY <2>1, <2>3
    <2> QED BY <1>8, <2>1, <2>2, <2>3, <2>4
  <1>12. \A c \in Cells : IsLoose(g.cells[c]) => g.cells[c] = f.cells[c]
    BY <1>5, <1>7, Kinds
  <1> QED BY <1>6, <1>8, <1>9, <1>10, <1>11, <1>12 DEF Settled, g, new

(* One machine is put on a cell. *)
Places(f, g, c, m) ==
  /\ FloorOK(g) /\ g.cells[c] = m
  /\ \A d \in Cells : IsHost(f.cells[d]) \/ IsHost(g.cells[d]) => g.cells[d] = f.cells[d]
  /\ \A d \in Cells \ {c} : IsLoose(g.cells[d]) => g.cells[d] = f.cells[d]

LEMMA PutFacts ==
  ASSUME NEW f, FloorOK(f), NEW c \in Cells, NEW m \in Machines,
         ~IsHost(f.cells[c]), ~IsBox(f.cells[c])
  PROVE  Places(f, [f EXCEPT !.cells[c] = m], c, m)
  <1> DEFINE cells == [f.cells EXCEPT ![c] = m]  g == [f EXCEPT !.cells[c] = m]
  <1>1. g = [cells |-> cells, boxes |-> f.boxes]
    BY DEF FloorOK
  <1>2. /\ cells \in [Cells -> Contents] /\ cells[c] = m
        /\ \A d \in Cells : d # c => cells[d] = f.cells[d]
    BY ContentsHas DEF FloorOK
  <1>3. ~IsBox(m) /\ ~IsHost(m)
    BY Kinds
  <1>4. g.cells = cells
    BY <1>1
  <1> HIDE DEF cells, g
  <1>5. \A d \in Cells : IsBox(f.cells[d]) \/ IsBox(cells[d]) => cells[d] = f.cells[d]
    BY <1>2, <1>3
  <1>6. FloorOK(g)
    BY <1>1, <1>2, <1>5, PlainChange
  <1>7. /\ \A d \in Cells : IsHost(f.cells[d]) \/ IsHost(g.cells[d]) => g.cells[d] = f.cells[d]
        /\ \A d \in Cells \ {c} : IsLoose(g.cells[d]) => g.cells[d] = f.cells[d]
    BY <1>2, <1>3, <1>4
  <1> QED BY <1>2, <1>4, <1>6, <1>7 DEF Places, g

LEMMA BuiltFacts ==
  ASSUME NEW f, FloorOK(f), NEW c \in Cells, NEW m \in Machines, ~IsHost(f.cells[c])
  PROVE  Places(f, Built(f, c, m), c, m)
  <1> DEFINE bare == Cleared(f, {c})  g == Built(f, c, m)
  <1>1. FloorOK(bare) /\ Kept(f, bare) /\ ~IsBox(bare.cells[c])
    BY ClearedFacts, ClearedKeeps, ClearedBare
  <1>2. g = [bare EXCEPT !.cells[c] = m]
    BY DEF Built
  <1> HIDE DEF bare
  <1>3. ~IsHost(bare.cells[c])
    BY <1>1 DEF Kept
  <1>4. Places(bare, [bare EXCEPT !.cells[c] = m], c, m)
    BY <1>1, <1>3, PutFacts
  <1>5. Places(bare, g, c, m)
    BY <1>2, <1>4
  <1> HIDE DEF g
  <1>6. Places(f, g, c, m)
    BY <1>1, <1>5 DEF Places, Kept
  <1> QED BY <1>6 DEF g

(* What a refresh makes of the floor, and what hosts on it push out.       *)
LEMMA RefreshIsAsDrawn ==
  ASSUME FloorOK(floor), StoreOK(store), Settled(floor, slotOf),
         Remembered(floor, store, scrapped),
         FloorOK(Restored(store)), Bare(Restored(store), store),
         Rectangular(store) => Drawn(Restored(store), store) /\ Whole(Restored(store), store)
  PROVE  RefreshedAsDrawn
  <1> DEFINE S == UNION {Standing(slotOf[h]) : h \in {g \in Hosts : slotOf[g] # NoSlot}}
             R == Restored(store)  A == Cleared(R, S)
  <1>1. A = AfterRefresh
    BY DEF AfterRefresh
  <1>2. S \in SUBSET Cells /\ \A c \in S : IsHost(floor.cells[c])
    <2> SUFFICES ASSUME NEW h \in Hosts, slotOf[h] # NoSlot, NEW c \in Standing(slotOf[h])
                 PROVE  c \in Cells /\ IsHost(floor.cells[c])
      OBVIOUS
    <2>1. slotOf[h] \in DOMAIN SLOTS
      BY DEF Settled
    <2>2. c \in Cells /\ c \in {SLOTS[slotOf[h]].roost, SLOTS[slotOf[h]].landing}
      BY <2>1, SlotIs
    <2>3. floor.cells[SLOTS[slotOf[h]].roost] = Roost(h, SLOTS[slotOf[h]].facing)
          /\ floor.cells[SLOTS[slotOf[h]].landing] = Landing(h)
      BY DEF Settled
    <2> QED BY <2>2, <2>3, Kinds
  <1> HIDE DEF S
  <1>3. /\ FloorOK(A) /\ ClearedCells(R, A, S) /\ ToSet(A.boxes) = ClearedBoxes(R, S) /\ Kept(R, A)
    BY <1>2, ClearedFacts, ClearedKeeps
  <1> HIDE DEF A, R
  <1>4. SUFFICES ASSUME Rectangular(store)
                 PROVE  /\ LooseOf(floor) \subseteq LooseOf(A) /\ RouterOf(floor) \subseteq RouterOf(A)
                        /\ ~scrapped => /\ LooseOf(A) \subseteq LooseOf(floor)
                                        /\ RouterOf(A) \subseteq RouterOf(floor)
    BY <1>1 DEF RefreshedAsDrawn, Rectangular, SurvivesRefresh
  <1>5. /\ Drawn(floor, store) /\ (~scrapped => Whole(floor, store))
        /\ Drawn(R, store) /\ Whole(R, store)
    BY <1>4 DEF Remembered, R
  <1>6. ASSUME NEW c \in Cells, IsLoose(floor.cells[c])
        PROVE  IsLoose(A.cells[c]) /\ A.cells[c] = floor.cells[c]
    <2>1. floor.cells[c] # Free /\ c \notin S
      BY <1>2, <1>6 DEF IsLoose
    <2>2. R.cells[c] = floor.cells[c]
      BY <1>5, <1>6, <2>1 DEF Drawn, Whole
    <2>3. ~IsBox(R.cells[c])
      BY <1>6, <2>2 DEF IsLoose
    <2> QED BY <1>3, <1>6, <2>1, <2>2, <2>3 DEF ClearedCells
  <1>7. LooseOf(floor) \subseteq LooseOf(A)
    BY <1>6 DEF LooseOf
  <1>8. ASSUME NEW b \in ToSet(floor.boxes), NEW r \in ToSet(R.boxes), NEW i \in DOMAIN store.boxes,
               Same(b, store.boxes[i]), Same(r, store.boxes[i])
        PROVE  b.cells = r.cells /\ b.ports = r.ports
    <2>1. b \in Box /\ r \in Box /\ Wired(b) /\ Wired(r)
      BY BoxesOf DEF SoundBox, R
    <2>2. b.cells = r.cells /\ DOMAIN b.ports = DOMAIN r.ports
      BY <1>8 DEF Same
    <2>3. b.ports \in Seq(Port) /\ r.ports \in Seq(Port)
      BY <2>1 DEF Box
    <2>4. ASSUME NEW k \in DOMAIN b.ports PROVE b.ports[k] = r.ports[k]
      <3> DEFINE x == b.ports[k]  y == r.ports[k]
      <3>1. x \in Port /\ y \in Port
        BY <2>2, <2>3
      <3>2. <<x.in, x.out>> = <<y.in, y.out>>
        BY <1>8, <2>2 DEF Same
      <3>3. x.dir = Facing(b.cells, x.out) /\ y.dir = Facing(r.cells, y.out)
        BY <2>1, <2>2, WiredPort
      <3> HIDE DEF x, y
      <3>4. x.in = y.in /\ x.out = y.out /\ x.dir = y.dir
        BY <2>2, <3>2, <3>3
      <3>5. x = y
        BY <3>1, <3>4 DEF Port
      <3> QED BY <3>5 DEF x, y
    <2> QED BY <2>2, <2>3, <2>4
  <1>9. ASSUME NEW b \in ToSet(floor.boxes)
        PROVE  \E r \in ToSet(A.boxes) : b.cells = r.cells /\ b.ports = r.ports
    <2>1. PICK i \in DOMAIN store.boxes : Same(b, store.boxes[i])
      BY <1>5 DEF Drawn
    <2>2. PICK r \in ToSet(R.boxes) : Same(r, store.boxes[i])
      BY <1>5 DEF Whole
    <2>3. b.cells = r.cells /\ b.ports = r.ports
      BY <1>8, <2>1, <2>2
    <2>4. b.cells \cap S = {}
      <3>1. SoundBox(floor.cells, b)
        BY BoxesOf
      <3> QED BY <1>2, <3>1 DEF SoundBox, IsBox, IsHost
    <2>5. r \in ToSet(A.boxes)
      BY <1>3, <2>3, <2>4 DEF ClearedBoxes
    <2> QED BY <2>3, <2>5
  <1>10. RouterOf(floor) \subseteq RouterOf(A)
    BY <1>9 DEF RouterOf
  <1>11. ASSUME ~scrapped
         PROVE  LooseOf(A) \subseteq LooseOf(floor) /\ RouterOf(A) \subseteq RouterOf(floor)
    <2>1. Whole(floor, store)
      BY <1>5, <1>11
    <2>2. ASSUME NEW c \in Cells, IsLoose(A.cells[c])
          PROVE  IsLoose(floor.cells[c]) /\ floor.cells[c] = A.cells[c]
      <3>1. A.cells[c] = R.cells[c] /\ R.cells[c] # Free
        BY <1>3, <2>2 DEF Kept, IsLoose
      <3>2. R.cells[c] = store.loose[c]
        BY <1>5, <2>2, <3>1 DEF Drawn
      <3> QED BY <2>1, <2>2, <3>1, <3>2 DEF Whole
    <2>3. ASSUME NEW r \in ToSet(A.boxes)
          PROVE  \E b \in ToSet(floor.boxes) : b.cells = r.cells /\ b.ports = r.ports
      <3>1. r \in ToSet(R.boxes)
        BY <1>3 DEF ClearedBoxes
      <3>2. PICK i \in DOMAIN store.boxes : Same(r, store.boxes[i])
        BY <1>5, <3>1 DEF Drawn
      <3>3. PICK b \in ToSet(floor.boxes) : Same(b, store.boxes[i])
        BY <2>1 DEF Whole
      <3> QED BY <1>8, <3>1, <3>2, <3>3
    <2>4. LooseOf(A) \subseteq LooseOf(floor)
      BY <2>2 DEF LooseOf
    <2>5. RouterOf(A) \subseteq RouterOf(floor)
      BY <2>3 DEF RouterOf
    <2> QED BY <2>4, <2>5
  <1> QED BY <1>7, <1>10, <1>11

(* What the steps that do not write the store do to it. *)
LEMMA StoredLoose ==
  ASSUME NEW s, StoreOK(s), NEW c \in Cells, s.loose[c] # Free
  PROVE  IsLoose(s.loose[c])
  <1>1. s.loose[c] \in Machines
    BY DEF StoreOK
  <1> QED BY <1>1, Kinds

LEMMA ToggleRemembered ==
  ASSUME NEW f, FloorOK(f), NEW g, Clicked(f, g), NEW s, StoreOK(s), NEW torn,
         Remembered(f, s, torn), \A i \in DOMAIN f.boxes : g.boxes[i].ports = f.boxes[i].ports
  PROVE  Remembered(g, s, torn)
  <1>1. \A c \in Cells : /\ IsLoose(f.cells[c]) => g.cells[c] = f.cells[c]
                         /\ IsLoose(g.cells[c]) => g.cells[c] = f.cells[c]
    BY DEF Clicked, Kept
  <1>2. ASSUME NEW i \in DOMAIN f.boxes, NEW st PROVE Same(f.boxes[i], st) <=> Same(g.boxes[i], st)
    BY DEF Clicked, Same
  <1>3. DOMAIN g.boxes = DOMAIN f.boxes
    BY DEF Clicked
  <1>4. ASSUME Drawn(f, s) PROVE Drawn(g, s)
    <2>1. ASSUME NEW b \in ToSet(g.boxes) PROVE \E i \in DOMAIN s.boxes : Same(b, s.boxes[i])
      <3>1. PICK j \in DOMAIN f.boxes : b = g.boxes[j]
        BY <1>3 DEF ToSet
      <3>2. f.boxes[j] \in ToSet(f.boxes)
        BY DEF ToSet
      <3>3. PICK i \in DOMAIN s.boxes : Same(f.boxes[j], s.boxes[i])
        BY <1>4, <3>2 DEF Drawn
      <3> QED BY <1>2, <3>1, <3>3
    <2>2. ASSUME NEW c \in Cells, IsLoose(g.cells[c]) PROVE g.cells[c] = s.loose[c]
      BY <1>1, <1>4, <2>2 DEF Drawn
    <2> QED BY <2>1, <2>2 DEF Drawn
  <1>5. ASSUME Whole(f, s) PROVE Whole(g, s)
    <2>1. ASSUME NEW i \in DOMAIN s.boxes PROVE \E b \in ToSet(g.boxes) : Same(b, s.boxes[i])
      <3>1. PICK a \in ToSet(f.boxes) : Same(a, s.boxes[i])
        BY <1>5 DEF Whole
      <3>2. PICK j \in DOMAIN f.boxes : a = f.boxes[j]
        BY DEF ToSet
      <3>3. g.boxes[j] \in ToSet(g.boxes)
        BY <1>3 DEF ToSet
      <3> QED BY <1>2, <3>1, <3>2, <3>3
    <2>2. ASSUME NEW c \in Cells, s.loose[c] # Free PROVE g.cells[c] = s.loose[c]
      <3>1. f.cells[c] = s.loose[c] /\ IsLoose(s.loose[c])
        BY <1>5, <2>2, StoredLoose DEF Whole
      <3> QED BY <1>1, <3>1
    <2> QED BY <2>1, <2>2 DEF Whole
  <1> QED BY <1>4, <1>5 DEF Remembered

(* Machines go; all of them stay if none is in the way. *)
Dropped(f, g, whole) ==
  /\ \A c \in Cells : IsLoose(g.cells[c]) => g.cells[c] = f.cells[c]
  /\ ToSet(g.boxes) \subseteq ToSet(f.boxes)
  /\ whole => /\ \A c \in Cells : IsLoose(f.cells[c]) => g.cells[c] = f.cells[c]
              /\ ToSet(f.boxes) \subseteq ToSet(g.boxes)

LEMMA DroppedTwice ==
  ASSUME NEW f, NEW g, NEW h, NEW p, NEW q, Dropped(f, g, p), Dropped(g, h, q)
  PROVE  Dropped(f, h, p /\ q)
  BY DEF Dropped

LEMMA DroppedRemembered ==
  ASSUME NEW f, NEW g, NEW s, StoreOK(s), NEW torn, NEW whole, Dropped(f, g, whole),
         Remembered(f, s, torn), NEW more, ~more => ~torn /\ whole
  PROVE  Remembered(g, s, more)
  <1>1. ASSUME Drawn(f, s) PROVE Drawn(g, s)
    BY <1>1 DEF Drawn, Dropped
  <1>2. ASSUME Whole(f, s), whole PROVE Whole(g, s)
    <2>1. ASSUME NEW c \in Cells, s.loose[c] # Free PROVE g.cells[c] = s.loose[c]
      BY <1>2, <2>1, StoredLoose DEF Whole, Dropped
    <2> QED BY <1>2, <2>1 DEF Whole, Dropped
  <1> QED BY <1>1, <1>2 DEF Remembered

LEMMA ClearedDrops ==
  ASSUME NEW f, FloorOK(f), NEW S \in SUBSET Cells
  PROVE  Dropped(f, Cleared(f, S), \A c \in S : f.cells[c] = Free)
  <1> DEFINE g == Cleared(f, S)
  <1>1. /\ ClearedCells(f, g, S) /\ ToSet(g.boxes) = ClearedBoxes(f, S) /\ Kept(f, g)
    BY ClearedFacts, ClearedKeeps
  <1> HIDE DEF g
  <1>2. ASSUME \A c \in S : f.cells[c] = Free
        PROVE  /\ \A c \in Cells : IsLoose(f.cells[c]) => g.cells[c] = f.cells[c]
               /\ ToSet(f.boxes) \subseteq ToSet(g.boxes)
    <2>1. \A c \in Cells : IsLoose(f.cells[c]) => c \notin S /\ ~IsBox(f.cells[c])
      BY <1>2 DEF IsLoose
    <2>2. ASSUME NEW b \in ToSet(f.boxes) PROVE b.cells \cap S = {}
      <3>1. SoundBox(f.cells, b)
        BY BoxesOf
      <3> QED BY <1>2, <3>1, Kinds DEF SoundBox
    <2> QED BY <1>1, <2>1, <2>2 DEF ClearedCells, ClearedBoxes
  <1> QED BY <1>1, <1>2 DEF Dropped, Kept, ClearedBoxes, g

LEMMA RoostedDrops ==
  ASSUME NEW f, FloorOK(f), NEW h \in Hosts, NEW s \in DOMAIN SLOTS
  PROVE  Dropped(f, Roosted(f, h, s), \A c \in Standing(s) : f.cells[c] = Free)
  <1> DEFINE slot == SLOTS[s]  one == Cleared(f, {slot.roost})
             bare == Cleared(one, {slot.landing})
             cells == [bare.cells EXCEPT ![slot.roost] = Roost(h, slot.facing),
                                         ![slot.landing] = Landing(h)]
             g == Roosted(f, h, s)  free == \A c \in Standing(s) : f.cells[c] = Free
  <1>1. /\ slot.roost \in Cells /\ slot.landing \in Cells /\ slot.roost # slot.landing
        /\ Standing(s) = {slot.roost, slot.landing}
    BY SlotIs
  <1>2. /\ FloorOK(one) /\ ClearedCells(f, one, {slot.roost})
        /\ Dropped(f, one, \A c \in {slot.roost} : f.cells[c] = Free)
    BY <1>1, ClearedFacts, ClearedDrops
  <1> HIDE DEF one
  <1>3. FloorOK(bare) /\ Dropped(one, bare, \A c \in {slot.landing} : one.cells[c] = Free)
    BY <1>1, <1>2, ClearedFacts, ClearedDrops
  <1>4. g = [bare EXCEPT !.cells = cells]
    BY DEF Roosted, one
  <1> HIDE DEF bare
  <1>5. g.cells = cells /\ g.boxes = bare.boxes
    BY <1>3, <1>4 DEF FloorOK
  <1>6. /\ cells[slot.roost] = Roost(h, slot.facing) /\ cells[slot.landing] = Landing(h)
        /\ \A c \in Cells : c \notin Standing(s) => cells[c] = bare.cells[c]
    <2>1. bare.cells \in [Cells -> Contents]
      BY <1>3 DEF FloorOK
    <2> HIDE DEF slot
    <2> QED BY <1>1, <2>1
  <1> HIDE DEF cells, g
  <1>7. ASSUME NEW c \in Cells, IsLoose(g.cells[c]) PROVE g.cells[c] = f.cells[c]
    <2>1. c \notin Standing(s)
      BY <1>1, <1>5, <1>6, <1>7, Kinds DEF IsLoose
    <2>2. g.cells[c] = bare.cells[c]
      BY <1>5, <1>6, <2>1
    <2> QED BY <1>2, <1>3, <1>7, <2>2 DEF Dropped
  <1>8. ToSet(g.boxes) \subseteq ToSet(f.boxes)
    BY <1>2, <1>3, <1>5 DEF Dropped
  <1>9. ASSUME free
        PROVE  /\ \A c \in Cells : IsLoose(f.cells[c]) => g.cells[c] = f.cells[c]
               /\ ToSet(f.boxes) \subseteq ToSet(g.boxes)
    <2>1. f.cells[slot.roost] = Free /\ f.cells[slot.landing] = Free
      BY <1>1, <1>9
    <2>2. one.cells[slot.landing] = Free
      BY <1>1, <1>2, <2>1, Kinds DEF ClearedCells
    <2>3. \A c \in Cells : IsLoose(f.cells[c]) => one.cells[c] = f.cells[c] /\ c \notin Standing(s)
      BY <1>1, <1>2, <2>1, Kinds DEF Dropped
    <2>4. \A c \in Cells : IsLoose(one.cells[c]) => bare.cells[c] = one.cells[c]
      BY <1>3, <2>2 DEF Dropped
    <2>5. ToSet(f.boxes) \subseteq ToSet(g.boxes)
      BY <1>2, <1>3, <1>5, <2>1, <2>2 DEF Dropped
    <2> QED BY <1>5, <1>6, <2>3, <2>4, <2>5
  <1> HIDE DEF free
  <1>10. Dropped(f, g, free)
    BY <1>7, <1>8, <1>9 DEF Dropped
  <1> QED BY <1>10 DEF g, free

LEMMA UnroostedDrops ==
  ASSUME NEW f, FloorOK(f), NEW s, NEW whole
  PROVE  Dropped(f, Unroosted(f, s), whole)
  <1> DEFINE g == Unroosted(f, s)
  <1>1. g.boxes = f.boxes
    BY DEF Unroosted, FloorOK
  <1>2. g.cells = [c \in Cells |-> IF c \in Standing(s) /\ IsHost(f.cells[c]) THEN Free
                                   ELSE f.cells[c]]
    BY DEF Unroosted, FloorOK
  <1> HIDE DEF g
  <1>3. \A c \in Cells : /\ IsLoose(f.cells[c]) => g.cells[c] = f.cells[c]
                         /\ IsLoose(g.cells[c]) => g.cells[c] = f.cells[c]
    BY <1>2, Kinds DEF IsLoose
  <1>4. Dropped(f, g, whole)
    BY <1>1, <1>3 DEF Dropped
  <1> QED BY <1>4 DEF g

-----------------------------------------------------------------------------
(* The machinery keeps to this. *)
MachineryInv ==
  /\ FloorOK(floor) /\ StoreOK(store) /\ Settled(floor, slotOf)
  /\ Remembered(floor, store, scrapped)
  /\ home \in [Hosts -> DOMAIN SLOTS \cup {NoSlot}] /\ scrapped \in BOOLEAN

LEMMA CellsFinite == IsFiniteSet(Cells)
  <1>1. Cols \in Nat /\ Rows \in Nat
    BY MachineryAssumption
  <1>2. IsFiniteSet(0..(Cols - 1)) /\ IsFiniteSet(0..(Rows - 1))
    BY <1>1, FS_Interval
  <1> QED BY <1>2, FS_Product DEF Cells

LEMMA FewPorts ==
  ASSUME NEW f, FloorOK(f), NEW b \in ToSet(f.boxes), NEW k \in DOMAIN b.ports
  PROVE  k \in 1..Cardinality(Cells)
  <1> DEFINE n == Len(b.ports)  in == [i \in 1..n |-> b.ports[i].in]
  <1>1. b \in Box /\ SoundBox(f.cells, b)
    BY BoxesOf
  <1>2. b.ports \in Seq(Port)
    BY <1>1 DEF Box
  <1>3. n \in Nat /\ DOMAIN b.ports = 1..n /\ k \in 1..n
    BY <1>2
  <1>4. \A i, j \in 1..n : b.ports[i].in \in Cells /\ (b.ports[i].in = b.ports[j].in => i = j)
    BY <1>1, <1>3, PortsApart
  <1>5. in \in [1..n -> Cells]
    BY <1>4
  <1>6. IsInjective(in)
    BY <1>4 DEF IsInjective
  <1>7. in \in Injection(1..n, Cells)
    BY <1>5, <1>6 DEF Injection
  <1> HIDE DEF in
  <1>8. Cardinality(1..n) <= Cardinality(Cells)
    BY <1>7, CellsFinite, FS_Injection
  <1>9. Cardinality(1..n) = n
    <2>1. 1 \in Int /\ n \in Int /\ n = IF 1 > n THEN 0 ELSE n - 1 + 1
      BY <1>3
    <2> HIDE DEF n
    <2> QED BY <2>1, FS_Interval
  <1>10. Cardinality(Cells) \in Nat
    BY CellsFinite, FS_CardinalityType
  <1> QED BY <1>3, <1>8, <1>9, <1>10

LEMMA FloorTyped == MachineryInv => MachineryTypeOK
  <1> SUFFICES ASSUME MachineryInv PROVE MachineryTypeOK
    OBVIOUS
  <1> DEFINE ports == 1..Cardinality(Cells)
             AnyCell ==
        {Free} \cup Machines \cup {Body(id) : id \in AppIds} \cup {Pending(id) : id \in AppIds}
        \cup {In(id, k) : id \in AppIds, k \in ports}
        \cup {Out(id, k, d) : id \in AppIds, k \in ports, d \in 0..3}
        \cup {Roost(h, d) : h \in Hosts, d \in 0..3} \cup {Landing(h) : h \in Hosts}
  <1>1. FloorOK(floor) /\ floor.cells \in [Cells -> Contents]
    BY DEF MachineryInv, FloorOK
  <1>2. ASSUME NEW c \in Cells PROVE floor.cells[c] \in AnyCell
    <2>1. CASE ~IsBox(floor.cells[c])
      BY <1>1, <2>1, PlainContents
    <2>2. CASE IsBox(floor.cells[c])
      <3>1. PICK b \in ToSet(floor.boxes) : c \in b.cells
        BY <1>1, <2>2, CellBox
      <3>2. b.id \in AppIds /\ SoundBox(floor.cells, b) /\ b \in Box
        BY <1>1, <3>1, BoxesOf
      <3>3. \/ floor.cells[c] = Body(b.id) \/ c = b.pending
            \/ \E k \in DOMAIN b.ports : c \in {b.ports[k].in, b.ports[k].out}
        BY <3>1, <3>2 DEF SoundBox
      <3>4. CASE floor.cells[c] = Body(b.id)
        BY <3>2, <3>4
      <3>5. CASE c = b.pending
        BY <3>2, <3>5, CellShape DEF SoundBox
      <3>6. CASE \E k \in DOMAIN b.ports : c \in {b.ports[k].in, b.ports[k].out}
        <4>1. PICK k \in DOMAIN b.ports : c \in {b.ports[k].in, b.ports[k].out}
          BY <3>6
        <4>2. k \in ports
          BY <1>1, <3>1, FewPorts
        <4>3. b.ports[k].dir \in 0..3
          BY <3>2, PortsApart
        <4>4. floor.cells[c] = In(b.id, k) \/ floor.cells[c] = Out(b.id, k, b.ports[k].dir)
          BY <3>2, <4>1 DEF SoundBox
        <4> HIDE DEF ports
        <4> QED BY <3>2, <4>2, <4>3, <4>4
      <3> QED BY <3>3, <3>4, <3>5, <3>6
    <2> QED BY <2>1, <2>2
  <1>3. ASSUME NEW i \in DOMAIN floor.boxes
        PROVE  /\ floor.boxes[i].id \in AppIds /\ floor.boxes[i].cells \subseteq Cells
               /\ floor.boxes[i].pending \in floor.boxes[i].cells \cup {NoCell}
    <2> DEFINE b == floor.boxes[i]
    <2>1. b \in ToSet(floor.boxes)
      BY DEF ToSet
    <2> HIDE DEF b
    <2>2. b \in Box /\ b.id \in AppIds /\ b.cells \subseteq Cells /\ SoundBox(floor.cells, b)
      BY <1>1, <2>1, BoxesOf
    <2>3. b.pending # NoCell => b.pending \in b.cells
      <3>1. b.pending \in Cells \cup {NoCell}
        BY <2>2 DEF Box
      <3> QED BY <2>2, <3>1, Kinds DEF SoundBox
    <2> QED BY <2>2, <2>3 DEF b
  <1>4. DOMAIN floor.cells = Cells
    BY <1>1
  <1>5. /\ slotOf \in [Hosts -> DOMAIN SLOTS \cup {NoSlot}]
        /\ home \in [Hosts -> DOMAIN SLOTS \cup {NoSlot}] /\ scrapped \in BOOLEAN
    BY DEF MachineryInv, Settled
  <1> QED BY <1>2, <1>3, <1>4, <1>5 DEF MachineryTypeOK

LEMMA FloorAgrees == MachineryInv => BoxesSound /\ HostsStand
  <1> SUFFICES ASSUME MachineryInv PROVE BoxesSound /\ HostsStand
    OBVIOUS
  <1>1. FloorOK(floor) /\ Settled(floor, slotOf)
    BY DEF MachineryInv
  <1>2. \A c \in Cells : IsBox(floor.cells[c]) => floor.cells[c].app \in BoxIds(floor)
    BY <1>1, CellBox, BoxesOf
  <1>3. ASSUME NEW box \in ToSet(floor.boxes)
        PROVE  /\ box.cells = {c \in Cells : IsBox(floor.cells[c]) /\ floor.cells[c].app = box.id}
               /\ \A c \in box.cells :
                    LET cell == floor.cells[c] IN
                    /\ cell.type = "pending" <=> box.pending = c
                    /\ cell.type = "in" <=> \E k \in DOMAIN box.ports : box.ports[k].in = c
                    /\ cell.type = "out" <=> \E k \in DOMAIN box.ports : box.ports[k].out = c
                    /\ cell.type = "in" => box.ports[cell.port].in = c
                    /\ cell.type = "out" => box.ports[cell.port].out = c
    <2>1. SoundBox(floor.cells, box) /\ box \in Box /\ box.cells \subseteq Cells
      BY <1>1, BoxesOf
    <2>2. ASSUME NEW c \in box.cells
          PROVE  LET cell == floor.cells[c] IN
                 /\ cell.type = "pending" <=> box.pending = c
                 /\ cell.type = "in" <=> \E k \in DOMAIN box.ports : box.ports[k].in = c
                 /\ cell.type = "out" <=> \E k \in DOMAIN box.ports : box.ports[k].out = c
                 /\ cell.type = "in" => box.ports[cell.port].in = c
                 /\ cell.type = "out" => box.ports[cell.port].out = c
      <3> DEFINE cell == floor.cells[c]
      <3>1. c # NoCell
        BY <2>1, CellShape
      <3>2. box.pending = c => cell = Pending(box.id)
        BY <2>1, <3>1 DEF SoundBox
      <3>3. \A k \in DOMAIN box.ports :
              /\ box.ports[k].in = c => cell = In(box.id, k)
              /\ box.ports[k].out = c => cell = Out(box.id, k, box.ports[k].dir)
        BY <2>1 DEF SoundBox
      <3>4. \/ cell = Body(box.id) \/ c = box.pending
            \/ \E k \in DOMAIN box.ports : box.ports[k].in = c \/ box.ports[k].out = c
        BY <2>1 DEF SoundBox
      <3> HIDE DEF cell
      <3>5. CASE cell = Body(box.id)
        BY <3>2, <3>3, <3>5, Kinds DEF cell
      <3>6. CASE c = box.pending
        BY <3>2, <3>3, <3>6, Kinds DEF cell
      <3>7. ASSUME NEW k \in DOMAIN box.ports, box.ports[k].in = c
            PROVE  LET it == floor.cells[c] IN
                 /\ it.type = "pending" <=> box.pending = c
                 /\ it.type = "in" <=> \E l \in DOMAIN box.ports : box.ports[l].in = c
                 /\ it.type = "out" <=> \E l \in DOMAIN box.ports : box.ports[l].out = c
                 /\ it.type = "in" => box.ports[it.port].in = c
                 /\ it.type = "out" => box.ports[it.port].out = c
        BY <3>2, <3>3, <3>7, Kinds DEF cell
      <3>8. ASSUME NEW k \in DOMAIN box.ports, box.ports[k].out = c
            PROVE  LET it == floor.cells[c] IN
                 /\ it.type = "pending" <=> box.pending = c
                 /\ it.type = "in" <=> \E l \in DOMAIN box.ports : box.ports[l].in = c
                 /\ it.type = "out" <=> \E l \in DOMAIN box.ports : box.ports[l].out = c
                 /\ it.type = "in" => box.ports[it.port].in = c
                 /\ it.type = "out" => box.ports[it.port].out = c
        BY <3>2, <3>3, <3>8, Kinds DEF cell
      <3> QED BY <3>4, <3>5, <3>6, <3>7, <3>8
    <2> QED BY <2>1, <2>2 DEF SoundBox
  <1>4. BoxesSound
    BY <1>2, <1>3 DEF BoxesSound
  <1>5. HostsStand
    BY <1>1 DEF Settled, HostsStand
  <1> QED BY <1>4, <1>5

(* Whatever is loose was there before. *)
Calm(f, g) == \A c \in Cells : IsLoose(g.cells[c]) => g.cells[c] = f.cells[c]

LEMMA KeptFacts ==
  ASSUME NEW f, NEW g, NEW slots, Settled(f, slots), Kept(f, g)
  PROVE  Settled(g, slots) /\ Calm(f, g)
  <1>1. \A c \in Cells : IsHost(f.cells[c]) \/ IsHost(g.cells[c]) => g.cells[c] = f.cells[c]
    BY DEF Kept
  <1>2. Settled(g, slots)
    BY <1>1, SettledKept
  <1> QED BY <1>2 DEF Kept, Calm

LEMMA EditKeeps ==
  ASSUME MachineryInv, NEW g, FloorOK(g), Settled(g, slotOf), Edit(g)
  PROVE  MachineryInv' /\ floor' = g
  <1>1. /\ floor' = g /\ store' = Serialized(g) /\ scrapped' = FALSE /\ slotOf' = slotOf
        /\ home' = home
    BY DEF Edit
  <1>2. StoreOK(Serialized(g)) /\ Remembered(g, Serialized(g), scrapped')
    <2>1. \A torn : Remembered(g, Serialized(g), torn)
      BY SerializedExact
    <2> QED BY <2>1, SerializedOK
  <1> QED BY <1>1, <1>2 DEF MachineryInv

LEMMA UntouchedKeeps ==
  ASSUME MachineryInv, UNCHANGED machineryVars
  PROVE  MachineryInv' /\ Calm(floor, floor')
  BY DEF MachineryInv, machineryVars, Calm

LEMMA PaintKeeps ==
  ASSUME MachineryInv, NEW c \in Cells, NEW m \in Machines, Paint(c, m)
  PROVE  /\ MachineryInv'
         /\ \A d \in Cells \ {c} : IsLoose(floor'.cells[d]) => floor'.cells[d] = floor.cells[d]
  <1>1. CASE UNCHANGED machineryVars
    BY <1>1, UntouchedKeeps DEF Calm
  <1>2. CASE ~IsHost(floor.cells[c]) /\ Edit(Built(floor, c, m))
    <2> DEFINE g == Built(floor, c, m)
    <2>1. Places(floor, g, c, m)
      BY <1>2, BuiltFacts DEF MachineryInv
    <2> HIDE DEF g
    <2>2. FloorOK(g) /\ Settled(g, slotOf)
      BY <2>1, SettledKept DEF Places, MachineryInv
    <2>3. Edit(g)
      BY <1>2 DEF g
    <2>4. MachineryInv' /\ floor' = g
      BY <2>2, <2>3, EditKeeps
    <2> QED BY <2>1, <2>4 DEF Places
  <1> QED BY <1>1, <1>2 DEF Paint

LEMMA ConfigureKeeps ==
  ASSUME MachineryInv, NEW c \in Cells, NEW m \in Machines, Configure(c, m)
  PROVE  MachineryInv' /\ \A d \in Cells : IsLoose(floor'.cells[d]) =>
                                 floor'.cells[d].type = floor.cells[d].type
  <1>1. CASE UNCHANGED machineryVars
    BY <1>1, UntouchedKeeps DEF Calm
  <1>2. CASE floor.cells[c].type = m.type /\ Edit([floor EXCEPT !.cells[c] = m])
    <2> DEFINE g == [floor EXCEPT !.cells[c] = m]
    <2>1. ~IsHost(floor.cells[c]) /\ ~IsBox(floor.cells[c])
      BY <1>2, Kinds DEF IsHost, IsBox
    <2>2. Places(floor, g, c, m)
      BY <2>1, PutFacts DEF MachineryInv
    <2> HIDE DEF g
    <2>3. FloorOK(g) /\ Settled(g, slotOf)
      BY <2>2, SettledKept DEF Places, MachineryInv
    <2>4. Edit(g)
      BY <1>2 DEF g
    <2>5. MachineryInv' /\ floor' = g
      BY <2>3, <2>4, EditKeeps
    <2> QED BY <1>2, <2>2, <2>5 DEF Places
  <1> QED BY <1>1, <1>2 DEF Configure

LEMMA ClearingKeeps ==
  ASSUME MachineryInv, NEW S \in SUBSET Cells, Edit(Cleared(floor, S))
  PROVE  MachineryInv' /\ Calm(floor, floor')
  <1> DEFINE g == Cleared(floor, S)
  <1>1. FloorOK(g) /\ Kept(floor, g)
    BY ClearedFacts, ClearedKeeps DEF MachineryInv
  <1>2. Edit(g)
    OBVIOUS
  <1> HIDE DEF g
  <1>3. Settled(g, slotOf) /\ Calm(floor, g)
    BY <1>1, KeptFacts DEF MachineryInv
  <1>4. MachineryInv' /\ floor' = g
    BY <1>1, <1>2, <1>3, EditKeeps
  <1> QED BY <1>3, <1>4

LEMMA EraseKeeps ==
  ASSUME MachineryInv, NEW c \in Cells, EraseMachine(c)
  PROVE  MachineryInv' /\ Calm(floor, floor')
  BY UntouchedKeeps, ClearingKeeps DEF EraseMachine

LEMMA ClearFloorKeeps ==
  ASSUME MachineryInv, ClearFloor
  PROVE  MachineryInv' /\ Calm(floor, floor')
  BY ClearingKeeps DEF ClearFloor

LEMMA CreateKeeps ==
  ASSUME MachineryInv, NEW id \in AppIds, id \notin BoxIds(floor), NEW a, NEW b,
         CreateSwitch(id, a, b)
  PROVE  MachineryInv' /\ Calm(floor, floor')
  <1> DEFINE g == Laid(floor, id, a, b)
  <1>1. FloorOK(g) /\ Kept(floor, g)
    BY LaidFacts DEF MachineryInv
  <1>2. UNCHANGED machineryVars \/ Edit(g)
    BY DEF CreateSwitch
  <1> HIDE DEF g
  <1>3. Settled(g, slotOf) /\ Calm(floor, g)
    BY <1>1, KeptFacts DEF MachineryInv
  <1>4. CASE Edit(g)
    <2>1. MachineryInv' /\ floor' = g
      BY <1>1, <1>3, <1>4, EditKeeps
    <2> QED BY <1>3, <2>1
  <1> QED BY <1>2, <1>4, UntouchedKeeps

LEMMA ToggleKeeps ==
  ASSUME MachineryInv, NEW id, NEW c, TogglePort(id, c)
  PROVE  MachineryInv' /\ Calm(floor, floor')
  <1> DEFINE g == Toggled(floor, id, c)
  <1>0. Clicked(floor, g)
    BY ToggledFacts DEF MachineryInv
  <1>1. FloorOK(g) /\ Kept(floor, g)
    BY <1>0 DEF Clicked
  <1>2. \/ Edit(g)
        \/ /\ floor' = g /\ UNCHANGED <<store, slotOf, home, scrapped>>
           /\ \A i \in DOMAIN g.boxes : g.boxes[i].ports = floor.boxes[i].ports
    BY DEF TogglePort
  <1> HIDE DEF g
  <1>3. Settled(g, slotOf) /\ Calm(floor, g)
    BY <1>1, KeptFacts DEF MachineryInv
  <1>4. CASE Edit(g)
    <2>1. MachineryInv' /\ floor' = g
      BY <1>1, <1>3, <1>4, EditKeeps
    <2> QED BY <1>3, <2>1
  <1>5. CASE /\ floor' = g /\ UNCHANGED <<store, slotOf, home, scrapped>>
             /\ \A i \in DOMAIN g.boxes : g.boxes[i].ports = floor.boxes[i].ports
    <2>1. \A i \in DOMAIN floor.boxes : g.boxes[i].ports = floor.boxes[i].ports
      BY <1>0, <1>5 DEF Clicked
    <2>2. Remembered(g, store, scrapped)
      BY <1>0, <2>1, ToggleRemembered DEF MachineryInv
    <2> QED BY <1>1, <1>3, <1>5, <2>2 DEF MachineryInv
  <1> QED BY <1>2, <1>4, <1>5

LEMMA ComesKeeps ==
  ASSUME MachineryInv, NEW h \in Hosts, HostComes(h)
  PROVE  MachineryInv' /\ Calm(floor, floor')
  <1>1. PICK s \in FreeSlots :
          /\ slotOf' = [slotOf EXCEPT ![h] = s] /\ home' = [home EXCEPT ![h] = s]
          /\ floor' = Roosted(floor, h, s)
          /\ scrapped' = (scrapped \/ \E c \in Standing(s) : floor.cells[c] # Free)
    BY DEF HostComes, Arrived
  <1>2. slotOf[h] = NoSlot /\ store' = store
    BY DEF HostComes
  <1>3. s \in DOMAIN SLOTS /\ \A g \in Hosts : slotOf[g] # s
    BY DEF FreeSlots, UsedSlots
  <1> DEFINE f == Roosted(floor, h, s)  clear == \A c \in Standing(s) : floor.cells[c] = Free
  <1>4. FloorOK(f) /\ Settled(f, [slotOf EXCEPT ![h] = s]) /\ Calm(floor, f)
    BY <1>2, <1>3, RoostedFacts DEF MachineryInv, Calm
  <1>7. Dropped(floor, f, clear)
    BY <1>3, RoostedDrops DEF MachineryInv
  <1> HIDE DEF f
  <1>8. ~scrapped' => ~scrapped /\ clear
    BY <1>1
  <1> HIDE DEF clear
  <1>9. Remembered(f, store, scrapped')
    BY <1>7, <1>8, DroppedRemembered DEF MachineryInv
  <1>5. /\ home' \in [Hosts -> DOMAIN SLOTS \cup {NoSlot}] /\ scrapped' \in BOOLEAN
        /\ StoreOK(store')
    BY <1>1, <1>2, <1>3 DEF MachineryInv
  <1>6. floor' = f
    BY <1>1 DEF f
  <1> QED BY <1>1, <1>2, <1>4, <1>5, <1>6, <1>9 DEF MachineryInv

LEMMA LeavesKeeps ==
  ASSUME MachineryInv, NEW h \in Hosts, HostLeaves(h)
  PROVE  MachineryInv' /\ Calm(floor, floor')
  <1> DEFINE g == Unroosted(floor, slotOf[h])
  <1>1. FloorOK(g) /\ Settled(g, [slotOf EXCEPT ![h] = NoSlot]) /\ Calm(floor, g)
    BY UnroostedFacts DEF MachineryInv, HostLeaves, Calm
  <1>2. floor' = g /\ slotOf' = [slotOf EXCEPT ![h] = NoSlot] /\ UNCHANGED <<store, home, scrapped>>
    BY DEF HostLeaves
  <1>3. Dropped(floor, g, TRUE)
    BY UnroostedDrops DEF MachineryInv
  <1> HIDE DEF g
  <1>4. Remembered(g, store, scrapped)
    BY <1>3, DroppedRemembered DEF MachineryInv
  <1> QED BY <1>1, <1>2, <1>4 DEF MachineryInv

LEMMA MoveKeeps ==
  ASSUME MachineryInv, NEW h \in Hosts, NEW s \in DOMAIN SLOTS, MoveHost(h, s)
  PROVE  MachineryInv' /\ Calm(floor, floor')
  <1>1. CASE UNCHANGED machineryVars
    BY <1>1, UntouchedKeeps
  <1>2. CASE /\ slotOf[h] # NoSlot /\ s \in FreeSlots
             /\ slotOf' = [slotOf EXCEPT ![h] = s] /\ home' = [home EXCEPT ![h] = s]
             /\ floor' = Roosted(Unroosted(floor, slotOf[h]), h, s)
             /\ store' = Serialized(floor') /\ scrapped' = FALSE
    <2> DEFINE gone == Unroosted(floor, slotOf[h])  slots == [slotOf EXCEPT ![h] = NoSlot]
               g == Roosted(gone, h, s)
    <2>1. FloorOK(gone) /\ Settled(gone, slots) /\ Calm(floor, gone)
      BY <1>2, UnroostedFacts DEF MachineryInv, Calm
    <2>2. /\ slots[h] = NoSlot /\ \A i \in Hosts : slots[i] # s
          /\ [slots EXCEPT ![h] = s] = [slotOf EXCEPT ![h] = s]
      <3>1. \A i \in Hosts : slotOf[i] # s
        BY <1>2 DEF FreeSlots, UsedSlots
      <3>2. slotOf \in [Hosts -> DOMAIN SLOTS \cup {NoSlot}] /\ s # NoSlot
        BY SlotIs DEF MachineryInv, Settled
      <3> QED BY <3>1, <3>2
    <2> HIDE DEF gone, slots
    <2>3. FloorOK(g) /\ Settled(g, [slotOf EXCEPT ![h] = s]) /\ Calm(gone, g)
      BY <2>1, <2>2, RoostedFacts DEF Calm
    <2>4. floor' = g
      BY <1>2 DEF gone
    <2> HIDE DEF g
    <2>5. Calm(floor, g)
      BY <2>1, <2>3 DEF Calm
    <2>6. StoreOK(store') /\ Remembered(floor', store', scrapped')
      <3>1. StoreOK(Serialized(g)) /\ \A torn : Remembered(g, Serialized(g), torn)
        BY <2>3, SerializedOK, SerializedExact
      <3> QED BY <1>2, <2>4, <3>1
    <2>7. home' \in [Hosts -> DOMAIN SLOTS \cup {NoSlot}]
      BY <1>2 DEF MachineryInv
    <2> QED BY <1>2, <2>3, <2>4, <2>5, <2>6, <2>7 DEF MachineryInv
  <1> QED BY <1>1, <1>2 DEF MoveHost, Arrived

LEMMA ReloadKeeps ==
  ASSUME MachineryInv, ReloadFloor
  PROVE  MachineryInv'
  <1> DEFINE g == Restored(store)  slots == [h \in Hosts |-> NoSlot]
  <1>1. FloorOK(g) /\ Bare(g, store)
    BY RestoredFacts DEF MachineryInv
  <1>2. floor' = g /\ slotOf' = slots /\ UNCHANGED <<store, home, scrapped>>
    BY DEF ReloadFloor
  <1> HIDE DEF g
  <1>3. Settled(g, slots)
    BY <1>1 DEF Settled, Bare
  <1>4. Remembered(g, store, scrapped)
    BY RestoredFacts DEF MachineryInv, Remembered, g
  <1> HIDE DEF slots
  <1> QED BY <1>1, <1>2, <1>3, <1>4 DEF MachineryInv

LEMMA MachineryInitial == MachineryInit => MachineryInv
  <1> SUFFICES ASSUME MachineryInit PROVE MachineryInv
    OBVIOUS
  <1>1. /\ floor = [cells |-> floor.cells, boxes |-> floor.boxes] /\ floor.boxes = <<>>
        /\ floor.cells = [c \in Cells |-> Free]
    BY DEF MachineryInit
  <1>2. /\ floor.cells \in [Cells -> Contents]
        /\ \A c \in Cells : ~IsBox(floor.cells[c]) /\ ~IsHost(floor.cells[c])
    BY <1>1, Kinds, ContentsHas
  <1>3. ToSet(floor.boxes) = {} /\ Distinct(floor.boxes)
    BY <1>1 DEF ToSet, Distinct, IsInjective
  <1>4. Agree(floor.cells, ToSet(floor.boxes))
    BY <1>2, <1>3 DEF Agree
  <1>5. FloorOK(floor)
    BY <1>1, <1>2, <1>3, <1>4 DEF FloorOK
  <1>6. StoreOK(store) /\ Remembered(floor, store, scrapped)
    BY <1>5, SerializedOK, SerializedExact DEF MachineryInit
  <1>7. Settled(floor, slotOf) /\ home \in [Hosts -> DOMAIN SLOTS \cup {NoSlot}]
    BY <1>2 DEF MachineryInit, Settled
  <1> QED BY <1>5, <1>6, <1>7 DEF MachineryInv, MachineryInit

-----------------------------------------------------------------------------
(* The player's hand.  A panel of a machine is open with the tools only    *)
(* that opened it, or with the select tool. *)
HandInv ==
  /\ tool \in Tools /\ held \in {"nothing", "paint", "erase"}
  /\ drag = NoDrag \/ drag \in Cells \X Cells
  /\ active \in AppIds \cup {NoApp} /\ moving \in Hosts \cup {NoOne}
  /\ \/ panel = NoPanel
     \/ panel.type = "switch" /\ panel.app \in AppIds
     \/ panel.type \in Shown /\ panel.at \in Cells
  /\ panel.type \in Shown => tool = "select" \/ tool \in Single

WorkbenchInv == MachineryInv /\ HandInv

LEMMA Panels ==
  /\ NoPanel.type \notin Shown /\ NoPanel.type # "switch"
  /\ \A id : SwitchPanel(id).type = "switch" /\ SwitchPanel(id).app = id
             /\ SwitchPanel(id).type \notin Shown
  /\ \A type, c : MachinePanel(type, c).type = type /\ MachinePanel(type, c).at = c
  BY DEF NoPanel, SwitchPanel, MachinePanel, Shown, Single

LEMMA InspectKeeps ==
  ASSUME MachineryInv', NEW c \in Cells, Inspect(c), active \in AppIds \cup {NoApp},
         \/ panel = NoPanel
         \/ panel.type = "switch" /\ panel.app \in AppIds
         \/ panel.type \in Shown /\ panel.at \in Cells
  PROVE  /\ active' \in AppIds \cup {NoApp}
         /\ \/ panel' = NoPanel
            \/ panel'.type = "switch" /\ panel'.app \in AppIds
            \/ panel'.type \in Shown /\ panel'.at \in Cells
  <1> DEFINE cell == floor'.cells[c]
  <1>1. cell \in Contents
    BY DEF MachineryInv, FloorOK
  <1>2. CASE cell.type \in Shown
    BY <1>2, Panels DEF Inspect
  <1>3. CASE cell.type \notin Shown /\ IsBox(cell)
    <2>1. cell.app \in AppIds
      BY <1>1, <1>3, BoxContents
    <2> QED BY <1>3, <2>1, Panels DEF Inspect
  <1>4. CASE cell.type \notin Shown /\ ~IsBox(cell)
    BY <1>4 DEF Inspect
  <1> QED BY <1>2, <1>3, <1>4

LEMMA ToolKinds ==
  /\ "select" \in Tools /\ "belt" \in Tools
  /\ "select" \notin Painting /\ "erase" \notin Painting /\ "select" \notin Single
  /\ Painting \cap Single = {} /\ "erase" \notin Single /\ "switch" \notin Single
  BY ToolsAssumption DEF Painting, Single

LEMMA PaintAtKeeps ==
  ASSUME MachineryInv, NEW c \in Cells, NEW m \in Machines, NEW hold, PaintAt(c, m, hold)
  PROVE  MachineryInv' /\ (tool \notin Painting => Calm(floor, floor'))
  <1>1. CASE tool \in Painting /\ Paint(c, m)
    BY <1>1, PaintKeeps
  <1>2. CASE EraseMachine(c)
    BY <1>2, EraseKeeps
  <1>3. CASE UNCHANGED machineryVars
    BY <1>3, UntouchedKeeps
  <1> QED BY <1>1, <1>2, <1>3 DEF PaintAt

(* What a step does, besides keeping the invariant: machines come nowhere  *)
(* but where one is placed, which no panel is open to see.                 *)
Quiet ==
  panel.type \in Shown /\ panel' = panel => \A c \in Cells :
    IsLoose(floor'.cells[c]) => \/ floor'.cells[c].type = floor.cells[c].type
                                \/ \E m \in Machines : PlaceSingle(c, m)

LEMMA CalmIsQuiet == Calm(floor, floor') => Quiet
  BY DEF Calm, Quiet

LEMMA HandAlone ==
  ASSUME WorkbenchInv, MachineryInv', UNCHANGED handVars
  PROVE  WorkbenchInv'
  BY DEF WorkbenchInv, HandInv, handVars

LEMMA ButtonsKeep ==
  ASSUME WorkbenchInv,
         \/ \E t \in Tools : SetTool(t)
         \/ ClosePanel \/ Escape \/ PanelTick
         \/ \E h \in Hosts : StartMove(h)
  PROVE  WorkbenchInv' /\ Quiet
  <1>1. UNCHANGED machineryVars
    BY DEF SetTool, ClosePanel, Escape, PanelTick, StartMove
  <1>2. MachineryInv' /\ Quiet
    BY <1>1, UntouchedKeeps, CalmIsQuiet DEF WorkbenchInv
  <1>3. ASSUME NEW t \in Tools, SetTool(t) PROVE HandInv'
    BY <1>3, Panels DEF WorkbenchInv, HandInv, SetTool, PanelWith
  <1>4. ASSUME ClosePanel \/ Escape \/ PanelTick PROVE HandInv'
    BY <1>4, Panels DEF WorkbenchInv, HandInv, ClosePanel, Escape, PanelTick
  <1>5. ASSUME NEW h \in Hosts, StartMove(h) PROVE HandInv'
    BY <1>5, ToolKinds DEF WorkbenchInv, HandInv, StartMove
  <1> QED BY <1>2, <1>3, <1>4, <1>5 DEF WorkbenchInv

LEMMA ApplyKeeps ==
  ASSUME WorkbenchInv, NEW m \in Machines, Apply(m)
  PROVE  WorkbenchInv' /\ Quiet
  <1>1. panel.at \in Cells
    BY Panels DEF WorkbenchInv, HandInv, Apply, Shown, Single
  <1>2. /\ MachineryInv'
        /\ \A d \in Cells : IsLoose(floor'.cells[d]) => floor'.cells[d].type = floor.cells[d].type
    BY <1>1, ConfigureKeeps DEF WorkbenchInv, Apply
  <1> QED BY <1>2, HandAlone DEF Apply, Quiet

LEMMA RefreshKeeps ==
  ASSUME WorkbenchInv, Refresh
  PROVE  WorkbenchInv' /\ Quiet
  <1>1. MachineryInv'
    BY ReloadKeeps DEF Refresh, WorkbenchInv
  <1>2. HandInv'
    BY Panels DEF Refresh, HandInv
  <1>3. Quiet
    BY Panels DEF Refresh, Quiet
  <1> QED BY <1>1, <1>2, <1>3 DEF WorkbenchInv

LEMMA HostStepKeeps ==
  ASSUME WorkbenchInv, HostStep \/ ClearButton
  PROVE  WorkbenchInv' /\ Quiet
  <1>1. MachineryInv' /\ Calm(floor, floor') /\ UNCHANGED handVars
    BY ComesKeeps, LeavesKeeps, ClearFloorKeeps DEF HostStep, ClearButton, WorkbenchInv
  <1> QED BY <1>1, HandAlone, CalmIsQuiet

LEMMA LandKeeps ==
  ASSUME WorkbenchInv, NEW c \in Cells, Land(c)
  PROVE  WorkbenchInv' /\ Quiet
  <1>1. MachineryInv' /\ Calm(floor, floor')
    <2>1. moving \in Hosts
      BY DEF WorkbenchInv, HandInv, Land
    <2>2. CASE UNCHANGED machineryVars
      BY <2>2, UntouchedKeeps DEF WorkbenchInv
    <2>3. CASE \E s \in SlotAt(c) : MoveHost(moving, s)
      BY <2>1, <2>3, MoveKeeps DEF WorkbenchInv, SlotAt
    <2> QED BY <2>2, <2>3 DEF Land
  <1>2. HandInv'
    BY DEF Land, WorkbenchInv, HandInv
  <1> QED BY <1>1, <1>2, CalmIsQuiet DEF WorkbenchInv

LEMMA SelectClickKeeps ==
  ASSUME WorkbenchInv, NEW c \in Cells, SelectClick(c)
  PROVE  WorkbenchInv' /\ Quiet
  <1>1. MachineryInv' /\ Calm(floor, floor')
    BY ToggleKeeps, UntouchedKeeps DEF SelectClick, WorkbenchInv
  <1>2. /\ active' \in AppIds \cup {NoApp}
        /\ \/ panel' = NoPanel
           \/ panel'.type = "switch" /\ panel'.app \in AppIds
           \/ panel'.type \in Shown /\ panel'.at \in Cells
    <2>1. CASE UNCHANGED <<active, panel>>
      BY <2>1 DEF WorkbenchInv, HandInv
    <2>2. CASE active' = NoApp /\ panel' = NoPanel
      BY <2>2
    <2>3. CASE Inspect(c)
      BY <1>1, <2>3, InspectKeeps DEF WorkbenchInv, HandInv
    <2> QED BY <2>1, <2>2, <2>3 DEF SelectClick
  <1>3. HandInv'
    BY <1>2 DEF SelectClick, WorkbenchInv, HandInv
  <1> QED BY <1>1, <1>3, CalmIsQuiet DEF WorkbenchInv

LEMMA PlaceSingleKeeps ==
  ASSUME WorkbenchInv, NEW c \in Cells, NEW m \in Machines, PlaceSingle(c, m)
  PROVE  WorkbenchInv' /\ Quiet
  <1>1. /\ MachineryInv'
        /\ \A d \in Cells \ {c} : IsLoose(floor'.cells[d]) => floor'.cells[d] = floor.cells[d]
    BY PaintKeeps DEF PlaceSingle, WorkbenchInv
  <1>2. /\ active' \in AppIds \cup {NoApp}
        /\ \/ panel' = NoPanel
           \/ panel'.type = "switch" /\ panel'.app \in AppIds
           \/ panel'.type \in Shown /\ panel'.at \in Cells
    BY <1>1, InspectKeeps DEF PlaceSingle, WorkbenchInv, HandInv
  <1>3. HandInv'
    BY <1>2 DEF PlaceSingle, WorkbenchInv, HandInv
  <1>4. Quiet
    <2> SUFFICES ASSUME NEW d \in Cells, IsLoose(floor'.cells[d])
                 PROVE  \/ floor'.cells[d].type = floor.cells[d].type
                        \/ \E n \in Machines : PlaceSingle(d, n)
      BY DEF Quiet
    <2> QED BY <1>1
  <1> QED BY <1>1, <1>3, <1>4 DEF WorkbenchInv

LEMMA DragKeeps ==
  ASSUME WorkbenchInv, NEW c \in Cells, DragFrom(c)
  PROVE  WorkbenchInv' /\ Quiet
  <1>1. MachineryInv' /\ Calm(floor, floor')
    BY UntouchedKeeps DEF DragFrom, WorkbenchInv
  <1>2. HandInv'
    BY DEF DragFrom, WorkbenchInv, HandInv
  <1> QED BY <1>1, <1>2, CalmIsQuiet DEF WorkbenchInv

LEMMA StrokeKeeps ==
  ASSUME WorkbenchInv, NEW c \in Cells, NEW m \in Machines, PressTool(c, m) \/ PointerMove(c, m)
  PROVE  WorkbenchInv' /\ Quiet
  <1>1. MachineryInv' /\ (tool \notin Painting => Calm(floor, floor'))
    BY PaintAtKeeps DEF PressTool, PointerMove, WorkbenchInv
  <1>2. HandInv'
    <2>1. /\ UNCHANGED <<tool, active, panel, moving>> /\ held' \in {"nothing", "paint", "erase"}
          /\ drag' = drag \/ (drag # NoDrag /\ drag' = <<drag[1], c>>)
      BY DEF PressTool, PointerMove, WorkbenchInv, HandInv
    <2>2. drag' = NoDrag \/ drag' \in Cells \X Cells
      BY <2>1 DEF WorkbenchInv, HandInv
    <2> QED BY <2>1, <2>2 DEF WorkbenchInv, HandInv
  <1>3. Quiet
    <2> SUFFICES ASSUME panel.type \in Shown PROVE Quiet
      BY DEF Quiet
    <2>1. tool \notin Painting
      BY ToolKinds DEF WorkbenchInv, HandInv
    <2> QED BY <1>1, <2>1, CalmIsQuiet
  <1> QED BY <1>1, <1>2, <1>3 DEF WorkbenchInv

LEMMA PointerUpKeeps ==
  ASSUME WorkbenchInv, PointerUp
  PROVE  WorkbenchInv' /\ Quiet
  <1>1. CASE UNCHANGED <<machineryVars, tool, active, panel>>
    <2>1. MachineryInv' /\ Calm(floor, floor')
      BY <1>1, UntouchedKeeps DEF WorkbenchInv
    <2>2. HandInv'
      BY <1>1 DEF PointerUp, WorkbenchInv, HandInv
    <2> QED BY <2>1, <2>2, CalmIsQuiet DEF WorkbenchInv
  <1>2. CASE \E id \in NewId(BoxIds(floor) \cup {active} \cup RememberedBy(panel)) :
          /\ CreateSwitch(id, drag[1], drag[2])
          /\ IF floor' = floor THEN UNCHANGED <<tool, active, panel>>
             ELSE LET first == floor'.cells[drag[1]] IN
                  /\ tool' = "select"
                  /\ active' = id
                  /\ panel' = IF IsBox(first) THEN SwitchPanel(id) ELSE panel
    <2>1. PICK id \in NewId(BoxIds(floor) \cup {active} \cup RememberedBy(panel)) :
          /\ CreateSwitch(id, drag[1], drag[2])
          /\ IF floor' = floor THEN UNCHANGED <<tool, active, panel>>
             ELSE LET first == floor'.cells[drag[1]] IN
                  /\ tool' = "select"
                  /\ active' = id
                  /\ panel' = IF IsBox(first) THEN SwitchPanel(id) ELSE panel
      BY <1>2
    <2>2. id \in AppIds /\ id \notin BoxIds(floor)
      BY DEF NewId
    <2>3. MachineryInv' /\ Calm(floor, floor')
      BY <2>1, <2>2, CreateKeeps DEF WorkbenchInv
    <2>4. /\ tool' \in {tool, "select"} /\ active' \in {active, id} /\ panel' \in {panel, SwitchPanel(id)}
          /\ held' = "nothing" /\ drag' = NoDrag /\ moving' = moving
      BY <2>1 DEF PointerUp
    <2>5. HandInv'
      BY <2>2, <2>4, Panels, ToolKinds DEF WorkbenchInv, HandInv
    <2> QED BY <2>3, <2>5, CalmIsQuiet DEF WorkbenchInv
  <1> QED BY <1>1, <1>2 DEF PointerUp

LEMMA WorkbenchInductive ==
  WorkbenchInv /\ [WorkbenchNext]_workbenchVars => WorkbenchInv' /\ Quiet
  <1> SUFFICES ASSUME WorkbenchInv, [WorkbenchNext]_workbenchVars PROVE WorkbenchInv' /\ Quiet
    OBVIOUS
  <1>1. CASE PointerStep
    <2>1. CASE PointerUp
      BY <2>1, PointerUpKeeps
    <2>2. ASSUME NEW c \in Cells, Land(c) \/ SelectClick(c) \/ DragFrom(c) \/
                 \E m \in Machines : PlaceSingle(c, m) \/ PressTool(c, m) \/ PointerMove(c, m)
          PROVE  WorkbenchInv' /\ Quiet
      <3>1. CASE Land(c) \/ SelectClick(c)
        BY <3>1, LandKeeps, SelectClickKeeps
      <3>2. CASE DragFrom(c)
        BY <3>2, DragKeeps
      <3>3. ASSUME NEW m \in Machines, PlaceSingle(c, m) PROVE WorkbenchInv' /\ Quiet
        BY <3>3, PlaceSingleKeeps
      <3>4. ASSUME NEW m \in Machines, PressTool(c, m) \/ PointerMove(c, m)
            PROVE  WorkbenchInv' /\ Quiet
        BY <3>4, StrokeKeeps
      <3> QED BY <2>2, <3>1, <3>2, <3>3, <3>4
    <2> QED BY <1>1, <2>1, <2>2 DEF PointerStep
  <1>2. CASE UNCHANGED workbenchVars
    <2>1. UNCHANGED machineryVars /\ UNCHANGED handVars
      BY <1>2 DEF workbenchVars
    <2> QED BY <2>1, UntouchedKeeps, HandAlone, CalmIsQuiet DEF WorkbenchInv
  <1> QED BY <1>1, <1>2, ButtonsKeep, ApplyKeeps, RefreshKeeps, HostStepKeeps DEF WorkbenchNext

LEMMA WorkbenchInitial == WorkbenchInit => WorkbenchInv
  <1> SUFFICES ASSUME WorkbenchInit PROVE WorkbenchInv
    OBVIOUS
  <1>1. MachineryInv
    BY MachineryInitial DEF WorkbenchInit
  <1>2. HandInv
    BY ToolKinds, Panels DEF WorkbenchInit, HandAtRest, HandInv
  <1> QED BY <1>1, <1>2 DEF WorkbenchInv

LEMMA FloorIsSound == WorkbenchInv => FloorSound
  BY FloorTyped, FloorAgrees DEF WorkbenchInv, HandInv, WorkbenchTypeOK, FloorSound

(* Whatever is laid, wired, erased, moved in on or refreshed, the cells and *)
(* the list of switches say the same, and every host has both its cells    *)
(* (createSwitch, togglePort, removeAppliance, placeAtSlot, restore).      *)
THEOREM FloorSoundAlways == WorkbenchSpec => []FloorSound
  BY WorkbenchInitial, WorkbenchInductive, FloorIsSound, PTL DEF WorkbenchSpec

(* The store has all of the floor, and the floor what the store has but for *)
(* what hosts pushed out, and what is drawn from the store is the store.   *)
LEMMA FloorReturns == WorkbenchInv => RefreshedAsDrawn
  <1> SUFFICES ASSUME MachineryInv PROVE RefreshedAsDrawn
    BY DEF WorkbenchInv
  <1>1. /\ FloorOK(Restored(store)) /\ Bare(Restored(store), store)
        /\ StoreExact(store) /\ Rectangular(store)
             => Drawn(Restored(store), store) /\ Whole(Restored(store), store)
    BY RestoredFacts DEF MachineryInv
  <1> QED BY <1>1, RefreshIsAsDrawn DEF MachineryInv, Remembered

(* At any moment a refresh gives the floor back, machines and switches, as *)
(* long as no switch in the store is drawn around a host (serialize,       *)
(* restore).                                                               *)
THEOREM RefreshedAsDrawnAlways == WorkbenchSpec => []RefreshedAsDrawn
  BY WorkbenchInitial, WorkbenchInductive, FloorReturns, PTL DEF WorkbenchSpec

LEMMA QuietKeepsPanel ==
  ASSUME WorkbenchInv, WorkbenchInv', Quiet, panel.type \in Shown, panel' = panel,
         floor.cells[panel.at].type # panel.type, floor'.cells[panel.at].type = panel.type
  PROVE  \E m \in Machines : PlaceSingle(panel.at, m)
  <1>1. panel.at \in Cells
    BY Panels DEF WorkbenchInv, HandInv, Shown, Single
  <1>2. IsLoose(floor'.cells[panel.at])
    BY DEF IsLoose, IsHost, IsBox, Free, Shown, Single
  <1> QED BY <1>1, <1>2 DEF Quiet

(* Whatever is done to the floor while a panel is open, the panel does not *)
(* take hold of a machine that came later (onToolChange, configureFilter). *)
THEOREM PanelKeepsMachineAlways == WorkbenchSpec => PanelKeepsMachine
  <1>1. WorkbenchInv /\ [WorkbenchNext]_workbenchVars =>
          [/\ panel.type \in Shown /\ panel' = panel
           /\ floor.cells[panel.at].type # panel.type /\ floor'.cells[panel.at].type = panel.type
           => \E m \in Machines : PlaceSingle(panel.at, m)]_workbenchVars
    BY WorkbenchInductive, QuietKeepsPanel
  <1> QED BY <1>1, WorkbenchInitial, WorkbenchInductive, PTL DEF WorkbenchSpec, PanelKeepsMachine

-----------------------------------------------------------------------------
(* Pigeons. *)

Bird == [state : {"waiting", "riding"}, at : Cells, to : Cells \cup {NoCell}, dir : 0..3,
         through : AppIds \cup {NoApp}, stale : BOOLEAN, asked : 0..2]
Way  == [at : Cells, dir : 0..3, through : AppIds \cup {NoApp}]

(* Where a pigeon may be that the switch through sent on in direction d.   *)
NoWall(c, d, through, waits) ==
  LET cell == floor.cells[c] IN
  /\ cell.type \notin {"body", "pending"}
  /\ cell.type = "out" => cell.app = through
  /\ cell.type = "roost" => waits \/ d = cell.dir

Shut == {"roost", "body", "pending", "out"}

(* One on its way has a cell ahead that lets it in, and until the floor is *)
(* changed, still does. *)
BirdOK(b) ==
  /\ b \in Bird
  /\ b.state = "riding" => b.to \in Cells
  /\ ~b.stale => /\ NoWall(b.at, b.dir, b.through, b.state = "waiting")
                 /\ b.state = "riding" => floor.cells[b.to].type \notin Shut

TrafficInv ==
  /\ MachineryInv
  /\ DOMAIN birds = Numbers /\ \A n \in Numbers : birds[n] = NoBird \/ BirdOK(birds[n])

(* An exit that a machine has. *)
WayOut(e) == e \in Way /\ NoWall(e.at, e.dir, e.through, FALSE)

LEMMA EmissionIs ==
  \A c, d, id : /\ Emission(c, d, id).at = c /\ Emission(c, d, id).dir = d
                /\ Emission(c, d, id).through = id
                /\ c \in Cells /\ d \in 0..3 /\ id \in AppIds \cup {NoApp} => Emission(c, d, id) \in Way
  BY DEF Emission, Way

LEMMA OneWay ==
  ASSUME NEW e, WayOut(e)
  PROVE  <<e>> \in Seq(Way) /\ \A i \in DOMAIN <<e>> : WayOut(<<e>>[i])
  <1>1. e \in Way
    BY DEF WayOut
  <1> QED BY <1>1

LEMMA MachineExit ==
  ASSUME NEW c \in Cells, NEW d \in 0..3, floor.cells[c].type \notin Shut
  PROVE  WayOut(Emission(c, d, NoApp))
  BY EmissionIs DEF WayOut, NoWall, Shut

LEMMA HubExitsOK ==
  ASSUME NEW c \in Cells, NEW d \in 0..3, floor.cells[c].type = "hub"
  PROVE  LET es == [i \in DOMAIN HubExits(d) |-> Emission(c, HubExits(d)[i], NoApp)] IN
         es \in Seq(Way) /\ \A i \in DOMAIN es : WayOut(es[i])
  <1> DEFINE ds == HubExits(d)  es == [i \in DOMAIN ds |-> Emission(c, ds[i], NoApp)]
  <1>1. ds \in Seq(0..3)
    <2>1. <<0, 1, 2, 3>> \in Seq(0..3)
      OBVIOUS
    <2> QED BY <2>1, OnlyFacts DEF HubExits
  <1> HIDE DEF ds
  <1>2. Len(ds) \in Nat /\ DOMAIN ds = 1..Len(ds) /\ \A i \in DOMAIN ds : ds[i] \in 0..3
    BY <1>1
  <1>3. \A i \in DOMAIN es : WayOut(es[i])
    BY <1>2, MachineExit DEF Shut
  <1>4. es \in [1..Len(ds) -> Way]
    BY <1>2, <1>3 DEF WayOut
  <1>5. es \in Seq(Way)
    BY <1>2, <1>4, SeqDef
  <1> QED BY <1>3, <1>5 DEF ds

(* All of a switch's exits are its own. *)
LEMMA SwitchExitsOK ==
  ASSUME MachineryInv, NEW box \in ToSet(floor.boxes), NEW k,
         NEW es \in SwitchExits(box, k)
  PROVE  es \in Seq(Way) /\ \A i \in DOMAIN es : WayOut(es[i])
  <1> DEFINE Lane(j) == Emission(box.ports[j].out, box.ports[j].dir, box.id)
             all == [j \in DOMAIN box.ports |-> j]
             others == Only(all, DOMAIN box.ports \ {k})
             flood == [i \in DOMAIN others |-> Lane(others[i])]
  <1>1. box \in Box /\ SoundBox(floor.cells, box) /\ box.id \in AppIds /\ FloorOK(floor)
    BY BoxesOf DEF MachineryInv
  <1>2. ASSUME NEW j \in DOMAIN box.ports PROVE Lane(j) \in Way /\ WayOut(Lane(j))
    <2>1. /\ box.ports[j].out \in Cells /\ box.ports[j].dir \in 0..3
          /\ floor.cells[box.ports[j].out] = Out(box.id, j, box.ports[j].dir)
      BY <1>1, PortsApart DEF SoundBox
    <2> QED BY <1>1, <2>1, EmissionIs, Kinds DEF WayOut, NoWall
  <1>3. Len(box.ports) \in Nat /\ DOMAIN box.ports = 1..Len(box.ports)
    <2>1. box.ports \in Seq(Port)
      BY <1>1 DEF Box
    <2> QED BY <2>1
  <1>4. all \in Seq(DOMAIN box.ports)
    <2>1. all \in [1..Len(box.ports) -> DOMAIN box.ports]
      BY <1>3
    <2> QED BY <1>3, <2>1, SeqDef
  <1> HIDE DEF all
  <1>5. others \in Seq(DOMAIN box.ports)
    BY <1>4, OnlyFacts
  <1> HIDE DEF others
  <1>6. /\ Len(others) \in Nat /\ DOMAIN others = 1..Len(others)
        /\ \A i \in DOMAIN others : others[i] \in DOMAIN box.ports
    BY <1>5
  <1>7. es = flood \/ \E j \in ToSet(others) : es = <<Lane(j)>>
    BY DEF SwitchExits, others, all
  <1>8. CASE es = flood
    <2>1. \A i \in DOMAIN es : es[i] \in Way /\ WayOut(es[i])
      BY <1>2, <1>6, <1>8
    <2>2. es \in [1..Len(others) -> Way]
      BY <1>6, <1>8, <2>1
    <2>3. es \in Seq(Way)
      BY <1>6, <2>2, SeqDef
    <2> QED BY <2>1, <2>3
  <1>9. CASE \E j \in ToSet(others) : es = <<Lane(j)>>
    <2>1. PICK j \in DOMAIN box.ports : es = <<Lane(j)>>
      BY <1>6, <1>9 DEF ToSet
    <2> QED BY <1>2, <2>1, OneWay
  <1> QED BY <1>7, <1>8, <1>9

LEMMA ExitsOK ==
  ASSUME MachineryInv, NEW c \in Cells, NEW d \in 0..3, NEW es \in Exits(c, d)
  PROVE  es = <<>> \/ (es \in Seq(Way) /\ \A i \in DOMAIN es : WayOut(es[i]))
  <1> DEFINE cell == floor.cells[c]
             Alone(e) == <<Emission(c, e, NoApp)>>
             OK(s) == s = <<>> \/ (s \in Seq(Way) /\ \A i \in DOMAIN s : WayOut(s[i]))
  <1> SUFFICES OK(es)
    OBVIOUS
  <1>1. cell \in Contents /\ FloorOK(floor)
    BY DEF MachineryInv, FloorOK
  <1>2. ASSUME NEW e \in 0..3, cell.type \notin Shut PROVE OK(Alone(e))
    <2>1. WayOut(Emission(c, e, NoApp))
      BY <1>2, MachineExit
    <2> QED BY <2>1, OneWay
  <1>3. ASSUME cell.type \in {"belt", "midi", "learn", "filter", "meter"}
        PROVE  /\ cell \in Machines /\ cell.exits[1] \in 0..3
               /\ cell.type \in {"filter", "meter"} => cell.exits[2] \in 0..3
    <2>1. ~IsBox(cell) /\ cell # Free
      BY <1>3 DEF IsBox, Free
    <2>2. cell \in Machines
      BY <1>1, <1>3, <2>1, PlainContents, Kinds
    <2> QED BY <1>3, <2>2, TrafficAssumption
  <1>4. CASE cell.type \in {"belt", "midi", "learn"}
    <2>1. Exits(c, d) = {Alone(cell.exits[1])}
      BY <1>4 DEF Exits
    <2> QED BY <1>2, <1>3, <1>4, <2>1 DEF Shut
  <1>5. CASE cell.type \in {"filter", "meter"}
    <2>1. Exits(c, d) = {Alone(cell.exits[1]), Alone(cell.exits[2])}
      BY <1>5 DEF Exits
    <2> QED BY <1>2, <1>3, <1>5, <2>1 DEF Shut
  <1>6. CASE cell.type = "lookup"
    <2>1. Exits(c, d) = {Alone(e) : e \in 0..3}
      BY <1>6 DEF Exits
    <2> QED BY <1>2, <1>6, <2>1 DEF Shut
  <1>7. CASE cell.type = "crossing"
    <2>1. Exits(c, d) = {Alone(d)}
      BY <1>7 DEF Exits
    <2> QED BY <1>2, <1>7, <2>1 DEF Shut
  <1>8. CASE cell.type = "roost"
    <2>1. Exits(c, d) = {Alone(cell.dir)}
      BY <1>8 DEF Exits
    <2>2. ~IsBox(cell) /\ cell # Free /\ cell \notin Machines
      BY <1>8, Kinds DEF IsBox, Free, IsHost
    <2>3. cell.dir \in 0..3
      BY <1>1, <1>8, <2>2, PlainContents, Kinds
    <2>4. WayOut(Emission(c, cell.dir, NoApp))
      BY <1>8, <2>3, EmissionIs DEF WayOut, NoWall
    <2> QED BY <2>1, <2>4, OneWay
  <1>9. CASE cell.type = "hub"
    <2>1. Exits(c, d) = {[i \in DOMAIN HubExits(d) |-> Emission(c, HubExits(d)[i], NoApp)]}
      BY <1>9 DEF Exits
    <2> QED BY <1>9, <2>1, HubExitsOK
  <1>10. CASE cell.type = "in"
    <2>1. Exits(c, d) = SwitchExits(BoxOf(floor, cell.app), cell.port)
      BY <1>10 DEF Exits
    <2>2. PICK b \in ToSet(floor.boxes) : b.id = cell.app
      BY <1>1, <1>10, CellBox DEF IsBox
    <2>3. BoxOf(floor, cell.app) \in ToSet(floor.boxes)
      BY <1>1, <2>2, BoxesOf, BoxOfIs DEF FloorOK
    <2> QED BY <2>1, <2>3, SwitchExitsOK
  <1>11. CASE cell.type = "out" /\ cell.dir = d
    <2>1. Exits(c, d) = {<<Emission(c, d, cell.app)>>}
      BY <1>11 DEF Exits
    <2>2. cell.app \in AppIds
      BY <1>1, <1>11, BoxContents DEF IsBox
    <2>3. WayOut(Emission(c, d, cell.app))
      BY <1>11, <2>2, EmissionIs DEF WayOut, NoWall
    <2> QED BY <2>1, <2>3, OneWay
  <1>12. CASE /\ cell.type \notin {"belt", "midi", "learn", "filter", "meter", "lookup", "crossing",
                                   "roost", "hub", "in"}
              /\ ~(cell.type = "out" /\ cell.dir = d)
    <2>1. Exits(c, d) = {<<>>}
      BY <1>12 DEF Exits
    <2> QED BY <2>1
  <1> HIDE DEF OK
  <1> QED BY <1>4, <1>5, <1>6, <1>7, <1>8, <1>9, <1>10, <1>11, <1>12

LEMMA RidingOK ==
  ASSUME NEW e, WayOut(e), Enterable(e.at, e.dir)
  PROVE  BirdOK(Riding(e)) /\ Riding(e) # NoBird
  <1>1. /\ e.at \in Cells /\ e.dir \in 0..3 /\ e.through \in AppIds \cup {NoApp}
        /\ NoWall(e.at, e.dir, e.through, FALSE)
    BY DEF WayOut, Way
  <1>2. Beside(e.at, e.dir) \in Cells /\ floor.cells[Beside(e.at, e.dir)].type \notin Shut
    BY DEF Enterable, Shut
  <1> DEFINE b == Riding(e)
  <1>3. /\ b.state = "riding" /\ b.at = e.at /\ b.to = Beside(e.at, e.dir) /\ b.dir = e.dir
        /\ b.through = e.through /\ b.stale = FALSE
    BY DEF Riding
  <1>4. b \in Bird
    BY <1>1, <1>2 DEF Riding, Bird
  <1> HIDE DEF b
  <1>5. NoWall(b.at, b.dir, b.through, b.state = "waiting")
    BY <1>1, <1>3 DEF NoWall
  <1>6. b # NoBird
    BY <1>3 DEF NoBird
  <1> QED BY <1>2, <1>3, <1>4, <1>5, <1>6 DEF BirdOK, b

(* All that fly are right. *)
FlockOK(bs) == DOMAIN bs = Numbers /\ \A n \in Numbers : bs[n] = NoBird \/ BirdOK(bs[n])

LEMMA WithClonesOK ==
  ASSUME NEW bs, FlockOK(bs), NEW es \in Seq(Way), \A i \in DOMAIN es : WayOut(es[i])
  PROVE  FlockOK(WithClones(bs, es))
  <1> DEFINE ways == {e \in ToSet(es) : Enterable(e.at, e.dir)}
             out == Only(es, ways)
             room == SetToSortSeq({n \in Numbers : bs[n] = NoBird}, <)
             made == DOMAIN out \cap DOMAIN room
             new == WithClones(bs, es)
  <1>1. \A i \in DOMAIN out : out[i] \in ToSet(es) /\ Enterable(out[i].at, out[i].dir)
    <2>1. ToSet(out) = ToSet(es) \cap ways
      BY OnlyFacts
    <2>2. \A i \in DOMAIN out : out[i] \in ToSet(out)
      BY DEF ToSet
    <2> HIDE DEF out
    <2> QED BY <2>1, <2>2
  <1>2. \A i \in DOMAIN out : BirdOK(Riding(out[i]))
    <2>1. \A e \in ToSet(es) : WayOut(e)
      BY DEF ToSet
    <2> HIDE DEF out
    <2> QED BY <1>1, <2>1, RidingOK
  <1>3. new = [n \in Numbers |->
                 IF \E i \in made : room[i] = n THEN Riding(out[CHOOSE i \in made : room[i] = n])
                 ELSE bs[n]]
    BY DEF WithClones
  <1> HIDE DEF out, room, new
  <1>4. ASSUME NEW n \in Numbers PROVE new[n] = NoBird \/ BirdOK(new[n])
    <2>1. CASE \E i \in made : room[i] = n
      <3>1. (CHOOSE i \in made : room[i] = n) \in DOMAIN out
        BY <2>1
      <3>2. new[n] = Riding(out[CHOOSE i \in made : room[i] = n])
        BY <1>3, <2>1
      <3> QED BY <1>2, <3>1, <3>2
    <2>2. CASE ~ \E i \in made : room[i] = n
      <3>1. new[n] = bs[n]
        BY <1>3, <2>2
      <3> QED BY <3>1 DEF FlockOK
    <2> QED BY <2>1, <2>2
  <1>5. DOMAIN new = Numbers
    BY <1>3
  <1> QED BY <1>4, <1>5 DEF FlockOK, new

LEMMA TakenOK ==
  ASSUME TrafficInv, NEW n \in Numbers, NEW bird, BirdOK(bird), NEW es \in Seq(Way), es # <<>>,
         \A i \in DOMAIN es : WayOut(es[i])
  PROVE  FlockOK(Taken(n, bird, es))
  <1> DEFINE first == es[1]  rest == Tail(es)
             waits == [bird EXCEPT !.state = "waiting", !.at = first.at, !.through = first.through,
                                   !.asked = IF Len(es) > 1 /\ @ < 2 THEN @ + 1 ELSE @]
             moved == IF Enterable(first.at, first.dir) THEN Riding(first) ELSE waits
             bs == [birds EXCEPT ![n] = moved]
  <1>1. 1 \in DOMAIN es /\ WayOut(first)
    OBVIOUS
  <1>2. /\ first.at \in Cells /\ first.dir \in 0..3 /\ first.through \in AppIds \cup {NoApp}
        /\ NoWall(first.at, first.dir, first.through, FALSE)
    BY <1>1 DEF WayOut, Way
  <1>3. BirdOK(waits)
    <2>1. /\ waits.state = "waiting" /\ waits.at = first.at /\ waits.through = first.through
          /\ waits.dir = bird.dir /\ waits.to = bird.to /\ waits.stale = bird.stale
      BY DEF BirdOK, Bird
    <2>2. waits \in Bird
      <3>1. bird \in Bird /\ bird.asked \in 0..2
        BY DEF BirdOK, Bird
      <3> DEFINE asked == IF Len(es) > 1 /\ bird.asked < 2 THEN bird.asked + 1 ELSE bird.asked
      <3>2. asked \in 0..2
        BY <3>1
      <3>3. waits = [bird EXCEPT !.state = "waiting", !.at = first.at, !.through = first.through,
                                 !.asked = asked]
        BY <3>1 DEF Bird
      <3> HIDE DEF asked, first, waits
      <3> QED BY <1>2, <3>1, <3>2, <3>3 DEF Bird
    <2> HIDE DEF waits, first
    <2>3. NoWall(waits.at, waits.dir, waits.through, waits.state = "waiting")
      BY <1>2, <2>1 DEF NoWall
    <2> QED BY <2>1, <2>2, <2>3 DEF BirdOK
  <1> HIDE DEF waits
  <1>4. BirdOK(moved)
    BY <1>1, <1>3, RidingOK
  <1> HIDE DEF moved
  <1>5. FlockOK(bs)
    BY <1>4 DEF FlockOK, TrafficInv
  <1>6. rest \in Seq(Way) /\ \A i \in DOMAIN rest : WayOut(rest[i])
    <2>1. rest \in Seq(Way) /\ Len(rest) = Len(es) - 1 /\ \A i \in 1..Len(rest) : rest[i] = es[i + 1]
      OBVIOUS
    <2>2. \A i \in DOMAIN rest : i + 1 \in DOMAIN es /\ rest[i] = es[i + 1]
      BY <2>1
    <2> QED BY <2>1, <2>2
  <1> HIDE DEF bs, rest
  <1>7. FlockOK(WithClones(bs, rest))
    BY <1>5, <1>6, WithClonesOK
  <1> QED BY <1>7 DEF Taken, bs, rest, moved, waits

LEMMA RoutedOK ==
  ASSUME TrafficInv, NEW n \in Numbers, NEW bird, BirdOK([bird EXCEPT !.state = "waiting"]),
         BirdOK([bird EXCEPT !.state = "waiting"]) => BirdOK(bird), bird.at \in Cells,
         bird.dir \in 0..3, Routed(n, bird)
  PROVE  FlockOK(birds')
  <1> DEFINE stays == [bird EXCEPT !.state = "waiting"]
  <1>1. CASE birds' = [birds EXCEPT ![n] = NoBird]
    BY <1>1 DEF FlockOK, TrafficInv
  <1>2. CASE \E es \in Exits(bird.at, bird.dir) :
               birds' = IF es = <<>> THEN [birds EXCEPT ![n] = stays] ELSE Taken(n, bird, es)
    <2>1. PICK es \in Exits(bird.at, bird.dir) :
            birds' = IF es = <<>> THEN [birds EXCEPT ![n] = stays] ELSE Taken(n, bird, es)
      BY <1>2
    <2> HIDE DEF stays
    <2>2. CASE es = <<>>
      <3>1. BirdOK(stays)
        BY DEF stays
      <3> QED BY <2>1, <2>2, <3>1 DEF FlockOK, TrafficInv
    <2>3. CASE es # <<>>
      <3>1. es \in Seq(Way) /\ \A i \in DOMAIN es : WayOut(es[i])
        BY <2>3, ExitsOK DEF TrafficInv
      <3> QED BY <2>1, <2>3, <3>1, TakenOK
    <2> QED BY <2>2, <2>3
  <1> QED BY <1>1, <1>2 DEF Routed

LEMMA StillKeeps ==
  ASSUME TrafficInv, UNCHANGED machineryVars, FlockOK(birds')
  PROVE  TrafficInv'
  <1>1. MachineryInv'
    BY UntouchedKeeps DEF TrafficInv
  <1>2. floor' = floor
    BY DEF machineryVars
  <1>3. ASSUME NEW n \in Numbers PROVE birds'[n] = NoBird \/ BirdOK(birds[n])'
    BY <1>2 DEF FlockOK, BirdOK, NoWall
  <1> QED BY <1>1, <1>3 DEF TrafficInv, FlockOK

LEMMA TryAgainKeeps ==
  ASSUME TrafficInv, NEW n \in Numbers, TryAgain(n)
  PROVE  TrafficInv'
  <1> DEFINE bird == birds[n]
  <1>1. BirdOK(bird) /\ bird.state = "waiting"
    BY DEF TryAgain, Flying, TrafficInv
  <1>2. bird \in Bird /\ bird.at \in Cells /\ bird.dir \in 0..3
    BY <1>1 DEF BirdOK, Bird
  <1>3. [bird EXCEPT !.state = "waiting"] = bird
    BY <1>1, <1>2 DEF Bird
  <1>4. Routed(n, bird) /\ UNCHANGED machineryVars
    BY DEF TryAgain
  <1> HIDE DEF bird
  <1>5. FlockOK(birds')
    BY <1>1, <1>2, <1>3, <1>4, RoutedOK
  <1> QED BY <1>4, <1>5, StillKeeps

LEMMA ArriveKeeps ==
  ASSUME TrafficInv, NEW n \in Numbers, Arrive(n)
  PROVE  TrafficInv'
  <1> DEFINE bird == birds[n]  here == [bird EXCEPT !.at = bird.to, !.asked = 0]
             stays == [here EXCEPT !.state = "waiting"]
  <1>1. BirdOK(bird) /\ bird.state = "riding" /\ UNCHANGED machineryVars
    BY DEF Arrive, Flying, TrafficInv
  <1>2. bird \in Bird /\ bird.to \in Cells /\ bird.dir \in 0..3
    BY <1>1 DEF BirdOK, Bird
  <1>3. birds' = [birds EXCEPT ![n] = NoBird] \/ Routed(n, here)
    BY DEF Arrive
  <1> HIDE DEF bird
  <1>4. /\ here \in Bird /\ here.at = bird.to /\ here.to = bird.to /\ here.state = "riding"
        /\ here.stale = bird.stale /\ here.dir = bird.dir /\ here.through = bird.through
    <2>1. bird.to \in Cells /\ 0 \in 0..2
      BY <1>2
    <2>2. /\ here.at = bird.to /\ here.to = bird.to /\ here.state = bird.state
          /\ here.stale = bird.stale /\ here.dir = bird.dir /\ here.through = bird.through
      BY <1>2 DEF Bird
    <2>3. here \in Bird
      BY <1>2, <2>1 DEF Bird
    <2> QED BY <1>1, <2>2, <2>3
  <1>5. ~bird.stale => floor.cells[bird.to].type \notin Shut
    BY <1>1 DEF BirdOK
  <1> HIDE DEF here
  <1>6. BirdOK(here)
    BY <1>2, <1>4, <1>5 DEF BirdOK, NoWall, Shut
  <1>7. /\ stays \in Bird /\ stays.at = bird.to /\ stays.state = "waiting"
        /\ stays.stale = bird.stale
    BY <1>4 DEF Bird
  <1> HIDE DEF stays
  <1>8. BirdOK(stays)
    BY <1>5, <1>7 DEF BirdOK, NoWall, Shut
  <1>9. CASE birds' = [birds EXCEPT ![n] = NoBird]
    <2>1. FlockOK(birds')
      BY <1>9 DEF FlockOK, TrafficInv
    <2> QED BY <1>1, <2>1, StillKeeps
  <1>10. CASE Routed(n, here)
    <2>1. here.at \in Cells /\ here.dir \in 0..3
      BY <1>2, <1>4
    <2>2. FlockOK(birds')
      BY <1>6, <1>8, <1>10, <2>1, RoutedOK DEF stays
    <2> QED BY <1>1, <2>2, StillKeeps
  <1> QED BY <1>3, <1>9, <1>10

LEMMA SpawnKeeps ==
  ASSUME TrafficInv, NEW n \in Numbers, NEW h \in Hosts, Spawn(n, h)
  PROVE  TrafficInv'
  <1> DEFINE s == slotOf[h]
             b == [state |-> "waiting", at |-> SLOTS[s].roost, to |-> NoCell, dir |-> 0,
                   through |-> NoApp, stale |-> FALSE, asked |-> 0]
  <1>1. Settled(floor, slotOf) /\ s # NoSlot /\ UNCHANGED machineryVars
    BY DEF TrafficInv, MachineryInv, Spawn
  <1>2. s \in DOMAIN SLOTS /\ floor.cells[SLOTS[s].roost] = Roost(h, SLOTS[s].facing)
    BY <1>1 DEF Settled
  <1>3. SLOTS[s].roost \in Cells /\ floor.cells[SLOTS[s].roost].type = "roost"
    BY <1>2, SlotIs, Kinds
  <1>4. birds' = [birds EXCEPT ![n] = b]
    BY DEF Spawn
  <1> HIDE DEF s
  <1>5. b \in Bird
    BY <1>3 DEF Bird
  <1>6. BirdOK(b)
    BY <1>3, <1>5 DEF BirdOK, NoWall
  <1> HIDE DEF b
  <1>7. FlockOK(birds')
    BY <1>4, <1>6 DEF FlockOK, TrafficInv
  <1> QED BY <1>1, <1>7, StillKeeps

LEMMA FloorStepKeeps ==
  ASSUME MachineryInv, FloorStep
  PROVE  MachineryInv'
  <1>1. ASSUME NEW c \in Cells,
               \/ EraseMachine(c)
               \/ \E m \in Machines : Paint(c, m) \/ Configure(c, m)
               \/ \E id \in AppIds : TogglePort(id, c)
        PROVE  MachineryInv'
    BY <1>1, EraseKeeps, PaintKeeps, ConfigureKeeps, ToggleKeeps
  <1>2. ASSUME NEW a \in Cells, NEW b \in Cells, NEW id \in NewId(BoxIds(floor)),
               CreateSwitch(id, a, b)
        PROVE  MachineryInv'
    <2>1. id \in AppIds /\ id \notin BoxIds(floor)
      BY DEF NewId
    <2> QED BY <1>2, <2>1, CreateKeeps
  <1>3. ASSUME NEW h \in Hosts,
               HostComes(h) \/ HostLeaves(h) \/ \E s \in DOMAIN SLOTS : MoveHost(h, s)
        PROVE  MachineryInv'
    BY <1>3, ComesKeeps, LeavesKeeps, MoveKeeps
  <1> QED BY <1>1, <1>2, <1>3, ClearFloorKeeps DEF FloorStep

LEMMA RebuildKeeps ==
  ASSUME TrafficInv, Rebuild
  PROVE  TrafficInv'
  <1>1. MachineryInv'
    BY FloorStepKeeps DEF TrafficInv, Rebuild
  <1>2. birds' = [n \in Numbers |->
                    IF birds[n] = NoBird THEN NoBird ELSE [birds[n] EXCEPT !.stale = TRUE]]
    BY DEF Rebuild
  <1>3. ASSUME NEW n \in Numbers PROVE birds'[n] = NoBird \/ BirdOK(birds[n])'
    <2>1. CASE birds[n] = NoBird
      BY <1>2, <2>1
    <2>2. CASE birds[n] # NoBird
      <3>1. birds[n] \in Bird /\ (birds[n].state = "riding" => birds[n].to \in Cells)
        BY <2>2 DEF TrafficInv, BirdOK
      <3> DEFINE b == [birds[n] EXCEPT !.stale = TRUE]
      <3>2. b \in Bird /\ b.stale = TRUE /\ b.state = birds[n].state /\ b.to = birds[n].to
        BY <3>1 DEF Bird
      <3>3. birds'[n] = b
        BY <1>2, <2>2
      <3> HIDE DEF b
      <3> QED BY <3>1, <3>2, <3>3 DEF BirdOK
    <2> QED BY <2>1, <2>2
  <1>4. DOMAIN birds' = Numbers
    BY <1>2
  <1> QED BY <1>1, <1>3, <1>4 DEF TrafficInv

LEMMA TrafficInductive == TrafficInv /\ [TrafficNext]_trafficVars => TrafficInv'
  <1> SUFFICES ASSUME TrafficInv, [TrafficNext]_trafficVars PROVE TrafficInv'
    OBVIOUS
  <1>1. CASE ReloadPage
    <2>1. MachineryInv'
      BY <1>1, ReloadKeeps DEF TrafficInv, ReloadPage
    <2> QED BY <1>1, <2>1 DEF TrafficInv, ReloadPage
  <1>2. CASE UNCHANGED trafficVars
    <2>1. UNCHANGED machineryVars /\ FlockOK(birds')
      BY <1>2 DEF trafficVars, FlockOK, TrafficInv
    <2> QED BY <2>1, StillKeeps
  <1> QED BY <1>1, <1>2, TryAgainKeeps, ArriveKeeps, SpawnKeeps, RebuildKeeps DEF TrafficNext

LEMMA TrafficInitial == TrafficInit => TrafficInv
  BY MachineryInitial DEF TrafficInit, TrafficInv

LEMMA WallsStand == TrafficInv => WallsHold
  <1> SUFFICES ASSUME TrafficInv PROVE WallsHold
    OBVIOUS
  <1>1. ASSUME NEW n \in Flying PROVE n \in Numbers /\ BirdOK(birds[n]) /\ birds[n] \in Bird
    BY DEF Flying, TrafficInv, BirdOK
  <1>2. TrafficTypeOK
    BY <1>1 DEF TrafficTypeOK, Bird
  <1>3. NoWayThroughWalls
    BY <1>1 DEF NoWayThroughWalls, BirdOK, NoWall
  <1> QED BY <1>2, <1>3 DEF WallsHold

(* However the floor is rebuilt under them, pigeons stay out of walls,     *)
(* except those that had set off before (tryEnter, emit).                  *)
THEOREM WallsHoldAlways == TrafficSpec => []WallsHold
  BY TrafficInitial, TrafficInductive, WallsStand, PTL DEF TrafficSpec
=============================================================================
