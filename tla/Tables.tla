-------------------------------- MODULE Tables --------------------------------
(***************************************************************************)
(* The named tables that Learn and Lookup machines share: from the key of  *)
(* a frame to the direction a frame with that key came from last.  Keys    *)
(* are the fields a machine is set up for, so that one table can be        *)
(* written by the source of frames and read by their destination.          *)
(***************************************************************************)
EXTENDS Naturals, FiniteSets

CONSTANTS
  Keys,
  TableNames,
  Travels,    \* the travelDirs with which frames come to a Learn
  MaxTable,   \* maxEntries of a table
  TableTTL    \* ttlMs, in ticks

ASSUME TablesAssumption ==
  /\ Travels \subseteq 0..3 /\ MaxTable \in Nat \ {0} /\ TableTTL \in Nat
  /\ IsFiniteSet(Keys)

Directions == 0..3
NoEntry    == [dir |-> 4, age |-> 0]

VARIABLES
  entries,  \* entries[t][k]: direction and age, where all ages of more than
            \* TableTTL are the same
  learned   \* history: the same for the last frame of k that any machine
            \* learned into t

tablesVars == <<entries, learned>>

TablesInit ==
  /\ entries = [t \in TableNames |-> [k \in Keys |-> NoEntry]]
  /\ learned = entries

Known(table) == {k \in Keys : table[k] # NoEntry}

(* A new key in a full table takes the place of the oldest one.            *)
Evicted(table, key) ==
  IF key \in Known(table) \/ Cardinality(Known(table)) < MaxTable THEN {table}
  ELSE {[table EXCEPT ![k] = NoEntry] :
          k \in {o \in Known(table) : \A p \in Known(table) : table[p].age <= table[o].age}}

(* The direction a frame came from is the opposite of its travelDir.       *)
TableLearn(t, key, travelDir) ==
  LET entry == [dir |-> (travelDir + 2) % 4, age |-> 0] IN
  /\ \E table \in Evicted(entries[t], key) :
       entries' = [entries EXCEPT ![t] = [table EXCEPT ![key] = entry]]
  /\ learned' = [learned EXCEPT ![t][key] = entry]

Hit(t, key) == entries[t][key] # NoEntry /\ entries[t][key].age <= TableTTL

(* A stale entry is forgotten when it is read.                             *)
TableLookup(t, key) ==
  /\ entries' = IF Hit(t, key) THEN entries ELSE [entries EXCEPT ![t][key] = NoEntry]
  /\ UNCHANGED learned

(* Mutant of Older: nothing ages.                                          *)
OlderNever(table) == table

Older(table) ==
  [k \in Keys |-> IF table[k] = NoEntry \/ table[k].age > TableTTL THEN table[k]
                  ELSE [table[k] EXCEPT !.age = @ + 1]]

Aged(table) ==
  [k \in Keys |-> IF table[k] = NoEntry \/ table[k].age > TableTTL THEN table[k]
                  ELSE [table[k] EXCEPT !.age = @ + 1]]

TablesTick ==
  /\ entries' = [t \in TableNames |-> Older(entries[t])]
  /\ learned' = [t \in TableNames |-> Aged(learned[t])]

TablesNext ==
  \/ TablesTick
  \/ \E t \in TableNames, k \in Keys :
       TableLookup(t, k) \/ \E d \in Travels : TableLearn(t, k, d)

TablesSpec == TablesInit /\ [][TablesNext]_tablesVars

-----------------------------------------------------------------------------
TablesTypeOK ==
  entries \in [TableNames -> [Keys -> [dir : Directions, age : 0..(TableTTL + 1)] \cup {NoEntry}]]

(* However keys come, age and are evicted, a table is never larger than    *)
(* its limit, and a hit sends a frame to where its key came from last,     *)
(* less than the table's time to live ago (tableLearn, tableLookup).       *)
HitsAreTrue ==
  /\ TablesTypeOK
  /\ \A t \in TableNames :
       /\ Cardinality(Known(entries[t])) <= MaxTable
       /\ \A k \in Keys : Hit(t, k) => entries[t][k] = learned[t][k]
=============================================================================
