-------------------------------- MODULE Meter --------------------------------
(***************************************************************************)
(* A meter on the floor: a token bucket that fills with `limit` tokens a   *)
(* second, up to one second's worth.  A frame that can pay its price, one  *)
(* token or one for each of its bytes, takes the normal exit, others the   *)
(* overflow.  Time goes in ticks, and tokens are counted in parts that     *)
(* make the refill of one tick `limit` of them.                            *)
(***************************************************************************)
EXTENDS Naturals

CONSTANTS
  Second,      \* ticks of a second, and parts of a token
  MeterLimits, \* what the panel sets as limit
  Lengths      \* fullLen of frames

ASSUME MeterAssumption ==
  /\ Second \in Nat \ {0}
  /\ MeterLimits \subseteq Nat \ {0} /\ Lengths \subseteq Nat \ {0}

Modes == {"pps", "bps"}

VARIABLES
  mode, limit, tokens,  \* of MeterState
  since,                \* ticks since lastRefill, all from a second on the
                        \* same
  window,   \* history: window[i] is what passed in the last i ticks, the current
            \* one included, in units of the limit; anew once configured
  settled   \* history: ticks since the meter was set up, up to a second

meterVars == <<mode, limit, tokens, since, window, settled>>

Lesser(m, n) == IF m < n THEN m ELSE n

(* setMeter: one second's worth is there at once.                          *)
MeterInit ==
  /\ mode = "pps" /\ limit \in MeterLimits
  /\ tokens = limit * Second /\ since = 0
  /\ window = [i \in 1..Second |-> 0] /\ settled = Second

(* What passed in the last second.                                         *)
Passed == window[Second]

(* Mutant of Refilled: no cap.                                             *)
RefilledUncapped == tokens + since * limit

Refilled == Lesser(limit * Second, tokens + since * limit)

Price(length) == IF mode = "pps" THEN 1 ELSE length

Affordable(price) == Refilled >= price * Second

MeterFrame(length) ==
  LET price == Price(length) IN
  /\ since' = 0
  /\ IF Affordable(price)
       THEN /\ tokens' = Refilled - price * Second
            /\ window' = [i \in 1..Second |-> window[i] + price]
       ELSE tokens' = Refilled /\ UNCHANGED window
  /\ UNCHANGED <<mode, limit, settled>>

MeterTick ==
  /\ since' = Lesser(Second, since + 1) /\ settled' = Lesser(Second, settled + 1)
  /\ window' = [i \in 1..Second |-> IF i = 1 THEN 0 ELSE window[i - 1]]
  /\ UNCHANGED <<mode, limit, tokens>>

(* A change of the unit fills the bucket, one of the limit leaves it.      *)
ConfigureMeter(newLimit, newMode) ==
  /\ mode' = newMode /\ limit' = newLimit
  /\ tokens' = IF newMode = mode THEN tokens ELSE newLimit * Second
  /\ window' = [i \in 1..Second |-> 0] /\ settled' = 0
  /\ UNCHANGED since

MeterNext ==
  \/ MeterTick
  \/ \E length \in Lengths : MeterFrame(length)
  \/ \E l \in MeterLimits, m \in Modes : ConfigureMeter(l, m)

MeterSpec == MeterInit /\ [][MeterNext]_meterVars

-----------------------------------------------------------------------------
MeterTypeOK ==
  /\ mode \in Modes /\ limit \in MeterLimits /\ tokens \in Nat
  /\ since \in 0..Second /\ settled \in 0..Second /\ window \in [1..Second -> Nat]

NeverTooMuch ==
  settled = Second => Passed * Second <= limit * Second + limit * (Second - 1)

AllowedFlows ==
  settled = Second =>
    \A length \in Lengths : Passed + Price(length) <= limit => Affordable(Price(length))

(* "So the allowed rate always flows; only the surplus is shaped", however *)
(* frames' sizes and gaps are, once the meter was left alone for a second: *)
(* no more passes than was saved up and came in ("burst cap = 1s worth"),  *)
(* and a frame that together with all of the last second is within the     *)
(* limit can pay (meterStep).                                              *)
OnlySurplusShaped == MeterTypeOK /\ NeverTooMuch /\ AllowedFlows
=============================================================================
