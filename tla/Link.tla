---------------------------------- MODULE Link ----------------------------------
(***************************************************************************)
(* Where a page gets its frames from: WsBridge, which opens a socket to    *)
(* the loft and opens the next one when it closes, later each time; and    *)
(* the page's fallback to the sim if no loft has ever answered.  Pages     *)
(* contend for one loft, which keeps the newest router and closes the      *)
(* socket of the one before.                                               *)
(***************************************************************************)
EXTENDS Naturals

CONSTANTS
  Pages,
  Timed,      \* pages with a timer of three seconds: the ballpit's
  NoPage,
  MaxWait     \* steps from 2 s to the longest wait, 15 s

ASSUME LinkAssumption == Timed \subseteq Pages /\ NoPage \notin Pages /\ MaxWait \in Nat \ {0}

NoTimer == MaxWait + 1

VARIABLES
  loftUp, router,  \* the loft, and the page that is its router
  socket,     \* ws, by its readyState; a lost one is about to fire onclose
  shut,       \* WsBridge.closed
  retry,      \* retryMs
  timer,      \* the wait of the timer that connects again
  hurry,      \* the timer of three seconds
  everLive, triedSim,
  bridge,     \* the bridge that gets the page's verdicts
  bumps       \* history: how often in a row others have taken over, up to 2

linkVars == <<loftUp, router, socket, shut, retry, timer, hurry, everLive, triedSim, bridge, bumps>>

LinkInit ==
  /\ loftUp \in BOOLEAN /\ router = NoPage
  /\ socket = [p \in Pages |-> "connecting"] /\ shut = [p \in Pages |-> FALSE]
  /\ retry = [p \in Pages |-> 0] /\ timer = [p \in Pages |-> NoTimer]
  /\ hurry = [p \in Pages |-> p \in Timed]
  /\ everLive = shut /\ triedSim = shut /\ bridge = [p \in Pages |-> "ws"]
  /\ bumps = retry

-----------------------------------------------------------------------------
(* The loft answers: it has a new router, and closes the one before.       *)
Opens(p) ==
  /\ socket[p] = "connecting" /\ loftUp
  /\ socket' = [q \in Pages |-> IF q = p THEN "open" ELSE IF q = router THEN "lost" ELSE socket[q]]
  /\ bumps' = [q \in Pages |-> IF q = router /\ bumps[q] < 2 THEN bumps[q] + 1 ELSE bumps[q]]
  /\ router' = p
  /\ retry' = [retry EXCEPT ![p] = 0] /\ everLive' = [everLive EXCEPT ![p] = TRUE]
  /\ UNCHANGED <<loftUp, shut, timer, hurry, triedSim, bridge>>

(* Mutant of FallBack: the page gives up the loft and starts nothing.      *)
FallBackSilently(p) ==
  IF everLive[p] \/ triedSim[p] THEN UNCHANGED <<triedSim, shut, bridge>>
  ELSE /\ triedSim' = [triedSim EXCEPT ![p] = TRUE]
       /\ shut' = [shut EXCEPT ![p] = TRUE]
       /\ UNCHANGED bridge

(* startSim, at most once, and the WsBridge is closed.                     *)
FallBack(p) ==
  IF everLive[p] \/ triedSim[p] THEN UNCHANGED <<triedSim, shut, bridge>>
  ELSE /\ triedSim' = [triedSim EXCEPT ![p] = TRUE]
       /\ shut' = [shut EXCEPT ![p] = TRUE]
       /\ bridge' = [bridge EXCEPT ![p] = "sim"]

Later(wait) == IF wait < MaxWait THEN wait + 1 ELSE MaxWait

(* onclose: the page may fall back; the timer is set even if it does.      *)
OnClose(p) ==
  /\ socket' = [socket EXCEPT ![p] = "none"]
  /\ IF shut[p] THEN UNCHANGED <<retry, timer, triedSim, shut, bridge>>
     ELSE /\ FallBack(p)
          /\ timer' = [timer EXCEPT ![p] = retry[p]]
          /\ retry' = [retry EXCEPT ![p] = Later(@)]
  /\ UNCHANGED <<loftUp, router, hurry, everLive, bumps>>

Fails(p)  == socket[p] = "connecting" /\ ~loftUp /\ OnClose(p)
Closes(p) == socket[p] = "lost" /\ OnClose(p)

(* Mutant of MayConnect: the timer does not look whether it was shut.      *)
MayConnectShut(p) == TRUE

MayConnect(p) == ~shut[p]

TimerFires(p) ==
  /\ timer[p] # NoTimer /\ timer' = [timer EXCEPT ![p] = NoTimer]
  /\ socket' = IF MayConnect(p) THEN [socket EXCEPT ![p] = "connecting"] ELSE socket
  /\ UNCHANGED <<loftUp, router, shut, retry, hurry, everLive, triedSim, bridge, bumps>>

(* Three seconds have gone by: a socket that still connects is closed.     *)
HurryFires(p) ==
  /\ hurry[p] /\ hurry' = [hurry EXCEPT ![p] = FALSE]
  /\ FallBack(p)
  /\ socket' = IF triedSim'[p] /\ ~triedSim[p] /\ socket[p] = "connecting"
                 THEN [socket EXCEPT ![p] = "lost"] ELSE socket
  /\ UNCHANGED <<loftUp, router, retry, timer, everLive, bumps>>

-----------------------------------------------------------------------------
LoftGoes ==
  /\ loftUp /\ loftUp' = FALSE /\ router' = NoPage
  /\ socket' = [p \in Pages |-> IF p = router THEN "lost" ELSE socket[p]]
  /\ bumps' = [p \in Pages |-> 0]
  /\ UNCHANGED <<shut, retry, timer, hurry, everLive, triedSim, bridge>>

LoftComes ==
  /\ ~loftUp /\ loftUp' = TRUE
  /\ UNCHANGED <<router, socket, shut, retry, timer, hurry, everLive, triedSim, bridge, bumps>>

(* A router that gets frames in peace for a while: it was not bumped again. *)
Peace ==
  /\ router # NoPage /\ bumps[router] # 0 /\ bumps' = [bumps EXCEPT ![router] = 0]
  /\ UNCHANGED <<loftUp, router, socket, shut, retry, timer, hurry, everLive, triedSim, bridge>>

LinkNext ==
  \/ \E p \in Pages : Opens(p) \/ Fails(p) \/ Closes(p) \/ TimerFires(p) \/ HurryFires(p)
  \/ LoftGoes \/ LoftComes \/ Peace

(* Sockets and timers go on; but for a page that does not count on it, an   *)
(* attempt to connect to nothing may hang for ever.                        *)
LinkFairness ==
  /\ \A p \in Pages :
       /\ WF_linkVars(Opens(p)) /\ WF_linkVars(Closes(p))
       /\ WF_linkVars(TimerFires(p)) /\ WF_linkVars(HurryFires(p))
  /\ \A p \in Pages \ Timed : WF_linkVars(Fails(p))

-----------------------------------------------------------------------------
LinkTypeOK ==
  /\ loftUp \in BOOLEAN /\ router \in Pages \cup {NoPage}
  /\ socket \in [Pages -> {"connecting", "open", "lost", "none"}]
  /\ retry \in [Pages -> 0..MaxWait] /\ timer \in [Pages -> 0..NoTimer]
  /\ bridge \in [Pages -> {"ws", "sim"}] /\ bumps \in [Pages -> 0..2]
  /\ \A f \in {shut, everLive, triedSim, hurry} : f \in [Pages -> BOOLEAN]

(* However sockets fail and timers fire: a page never has two of socket    *)
(* and timer, one that runs the sim never gets frames of a loft as well,   *)
(* and the loft's router is a page that knows it is (connect, onclose,     *)
(* onState).                                                               *)
OneSource ==
  \A p \in Pages :
    /\ timer[p] # NoTimer => socket[p] = "none"
    /\ bridge[p] = "sim" => shut[p] /\ socket[p] \notin {"connecting", "open"}
    /\ router = p <=> socket[p] = "open"

(* "Fall back to SimBridge so there's always a factory to look at"         *)
(* (protocol/README.md:159): as long as the loft stays up in the end, a    *)
(* page runs the sim or gets the loft's frames again and again, even with  *)
(* another page that takes over from it each time; and with no loft at all *)
(* it runs the sim, unless it was live before.                             *)
AlwaysAFactory ==
  \A p \in Pages :
    /\ (<>[]loftUp) => []<>(socket[p] = "open" \/ bridge[p] = "sim")
    /\ (<>[]~loftUp) => <>(everLive[p] \/ bridge[p] = "sim")

(* "If another router keeps bumping us, don't turn the loft into a         *)
(* two-consumer thrash fest" (wsbridge.ts:49): who was bumped twice waits  *)
(* longer.                                                                 *)
BackoffCalms ==
  \A p \in Pages : bumps[p] = 2 /\ timer[p] # NoTimer => timer[p] > 0
=============================================================================
