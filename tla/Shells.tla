--------------------------------- MODULE Shells ---------------------------------
(***************************************************************************)
(* Pod shells: the tower keeps a session for each, with the output so far  *)
(* and at most one viewer, and a page has a terminal window for a pod,     *)
(* with a connection of its own.  Sessions outlive connections: a page     *)
(* remembers them over a reload and joins them again, and the tower reaps  *)
(* those that nobody has viewed for long.                                  *)
(***************************************************************************)
EXTENDS Naturals, FiniteSets

CONSTANTS
  Pods,
  MaxSessions,  \* bound: sessions of a tower's life
  MaxOutput     \* bound: pieces of output of a session

ASSUME ShellsAssumption == {MaxSessions, MaxOutput} \subseteq Nat

Ids    == 1..MaxSessions
NoId   == 0
Conns  == Pods \X {0, 1}  \* a pod's window has one after the other
NoConn == <<>>
NoPod  == "no pod"

VARIABLES
  \* the page
  window,    \* the window's connection
  spare,     \* the connection a pod's next window has
  saved,     \* localStorage: a pod's session
  restoring, \* restoreSessions: "no", "asked" or "listed"
  wanted,    \* what was saved when it began
  list,      \* the pods of the live sessions, as the tower has listed them
  rash,      \* history: pods of windows opened by hand while it went on
  \* connections
  stage,     \* how far a connection is at the tower
  on,        \* its session: wanted, and then found
  told,      \* the page knows the session
  ended,      \* connections that one end has closed
  replay,    \* output to be sent first
  seen,      \* history: output the window was sent
  \* the tower
  locked,    \* the session that the reaper looks at, with the registry locked
  doomed,    \* it has decided to kill it
  registry, seq,
  session,   \* a session's pod, alive, client, detached and length of output
  unsent     \* what the shell has put out and not yet sent

pageVars  == <<window, spare, saved, restoring, wanted, list, rash>>
connVars  == <<stage, on, told, ended, replay, seen>>
reapVars  == <<locked, doomed>>
towerVars == <<registry, seq, session, unsent>>
shellVars == <<pageVars, connVars, reapVars, towerVars>>

NoSession == [pod |-> NoPod, alive |-> FALSE, client |-> NoConn, detached |-> "no", output |-> 0]

ShellsInit ==
  /\ window = [p \in Pods |-> NoConn] /\ spare = [p \in Pods |-> <<p, 0>>]
  /\ saved = [p \in Pods |-> NoId] /\ restoring = "no" /\ wanted = saved
  /\ list = [i \in Ids |-> NoPod] /\ rash = {}
  /\ stage = [c \in Conns |-> "none"] /\ on = [c \in Conns |-> NoId]
  /\ told = {} /\ ended = {} /\ replay = [c \in Conns |-> 0] /\ seen = [c \in Conns |-> {}]
  /\ locked = NoId /\ doomed = FALSE
  /\ registry = {} /\ seq = 0 /\ session = [i \in Ids |-> NoSession]
  /\ unsent = [i \in Ids |-> 0]

-----------------------------------------------------------------------------
(* The page: WindowManager and its windows.                                *)

(* TermWindow, for each of some pods: each asks for a new session, or for  *)
(* the one it is given.                                                    *)
Opened(wishes) ==
  LET new == {p \in DOMAIN wishes : window[p] = NoConn}
      cs  == {spare[p] : p \in new} IN
  /\ \A c \in cs : stage[c] = "none"
  /\ window' = [p \in Pods |-> IF p \in new THEN spare[p] ELSE window[p]]
  /\ spare' = [p \in Pods |-> IF p \in new THEN <<p, 1 - spare[p][2]>> ELSE spare[p]]
  /\ stage' = [c \in Conns |-> IF c \in cs THEN "asked" ELSE stage[c]]
  /\ on' = [c \in Conns |-> IF c \in cs THEN wishes[c[1]] ELSE on[c]]
  /\ ended' = ended \ cs /\ told' = told \ cs
  /\ seen' = [c \in Conns |-> IF c \in cs THEN {} ELSE seen[c]]
  /\ UNCHANGED replay

(* One window for a pod: an open one is only focused.                      *)
OpenTerminal(p) ==
  /\ window[p] = NoConn /\ Opened([q \in {p} |-> NoId])
  /\ rash' = IF restoring = "no" THEN rash ELSE rash \cup {p}
  /\ UNCHANGED <<saved, restoring, wanted, list, reapVars, towerVars>>

(* An explicit close forgets the session, which the tower keeps.           *)
CloseWindow(p) ==
  /\ window[p] # NoConn /\ window' = [window EXCEPT ![p] = NoConn]
  /\ ended' = ended \cup {window[p]} /\ saved' = [saved EXCEPT ![p] = NoId]
  /\ UNCHANGED <<spare, restoring, wanted, list, rash, stage, on, told, replay, seen, reapVars, towerVars>>

(* Windows are gone, and what was saved is asked for at the tower.         *)
Reload ==
  /\ window' = [p \in Pods |-> NoConn] /\ ended' = ended \cup {window[p] : p \in Pods}
  /\ wanted' = saved /\ rash' = {} /\ list' = [i \in Ids |-> NoPod]
  /\ restoring' = IF \A p \in Pods : saved[p] = NoId THEN "no" ELSE "asked"
  /\ UNCHANGED <<spare, saved, stage, on, told, replay, seen, reapVars, towerVars>>

Listed ==
  /\ restoring = "asked" /\ locked = NoId /\ restoring' = "listed"
  /\ list' = [i \in Ids |-> IF i \in registry THEN session[i].pod ELSE NoPod]
  /\ UNCHANGED <<window, spare, saved, wanted, rash, connVars, reapVars, towerVars>>

(* No list comes: nothing is opened and nothing forgotten.                 *)
Unlisted ==
  /\ restoring = "asked" /\ restoring' = "no"
  /\ UNCHANGED <<window, spare, saved, wanted, list, rash, connVars, reapVars, towerVars>>

(* Mutant of Forgotten: everything that was saved is forgotten.            *)
ForgottenAll == {p \in Pods : wanted[p] # NoId}

Forgotten == {p \in Pods : wanted[p] # NoId /\ list[wanted[p]] = NoPod}

(* What lives is joined again, what does not is forgotten.                 *)
Restore ==
  LET live == {wanted[p] : p \in Pods} \ {NoId} IN
  /\ restoring = "listed" /\ restoring' = "no"
  /\ Opened([p \in {list[i] : i \in live} \ {NoPod} |-> CHOOSE i \in live : list[i] = p])
  /\ saved' = [p \in Pods |-> IF p \in Forgotten THEN NoId ELSE saved[p]]
  /\ UNCHANGED <<wanted, list, rash, reapVars, towerVars>>

(* The announcement of a new session.                                      *)
Announced(c) ==
  /\ stage[c] \in {"found", "attached", "live"} /\ c \notin told \cup ended
  /\ told' = told \cup {c} /\ saved' = [saved EXCEPT ![c[1]] = on[c]]
  /\ UNCHANGED <<window, spare, restoring, wanted, list, rash, stage, on, ended, replay, seen,
                 reapVars, towerVars>>

-----------------------------------------------------------------------------
(* The tower: a connection.                                                *)

(* A session is looked up, or made; then the registry is unlocked.         *)
Find(c) ==
  /\ stage[c] = "asked" /\ on[c] # NoId /\ locked = NoId
  /\ IF on[c] \in registry
       THEN stage' = [stage EXCEPT ![c] = "found"] /\ told' = told \cup {c} /\ UNCHANGED <<ended, on>>
       ELSE /\ stage' = [stage EXCEPT ![c] = "none"] /\ on' = [on EXCEPT ![c] = NoId]
            /\ ended' = ended \cup {c} /\ UNCHANGED told
  /\ UNCHANGED <<pageVars, replay, seen, reapVars, towerVars>>

NewShellSession(c) ==
  /\ stage[c] = "asked" /\ on[c] = NoId /\ locked = NoId /\ seq < MaxSessions
  /\ seq' = seq + 1 /\ registry' = registry \cup {seq'}
  /\ session' = [session EXCEPT ![seq'] =
       [pod |-> c[1], alive |-> TRUE, client |-> NoConn, detached |-> "now", output |-> 0]]
  /\ stage' = [stage EXCEPT ![c] = "found"] /\ on' = [on EXCEPT ![c] = seq']
  /\ UNCHANGED <<pageVars, told, ended, replay, seen, reapVars, unsent>>

(* Mutant of Joined: the viewer gets the replay and nothing after it.      *)
JoinedLate(s, c) == [s EXCEPT !.detached = "no"]

Joined(s, c) == [s EXCEPT !.client = c, !.detached = "no"]

(* attach: the newest viewer wins; the output so far is copied for it.     *)
Attach(c) ==
  /\ stage[c] = "found" /\ stage' = [stage EXCEPT ![c] = "attached"]
  /\ ended' = ended \cup ({session[on[c]].client} \ {NoConn})
  /\ session' = [session EXCEPT ![on[c]] = Joined(@, c)]
  /\ replay' = [replay EXCEPT ![c] = session[on[c]].output]
  /\ UNCHANGED <<pageVars, on, told, seen, reapVars, registry, seq, unsent>>

Replay(c) ==
  /\ stage[c] = "attached" /\ stage' = [stage EXCEPT ![c] = "live"]
  /\ seen' = [seen EXCEPT ![c] = @ \cup 1..replay[c]] /\ replay' = [replay EXCEPT ![c] = 0]
  /\ UNCHANGED <<pageVars, on, told, ended, reapVars, towerVars>>

(* Mutant of Detached: whoever leaves takes the viewer away.               *)
DetachedAny(s, c) == [s EXCEPT !.client = NoConn, !.detached = "now"]

Detached(s, c) == IF s.client = c THEN [s EXCEPT !.client = NoConn, !.detached = "now"] ELSE s

(* The read loop ends: the connection was closed, or the shell is dead and *)
(* the viewer types.                                                       *)
Leave(c) ==
  /\ stage[c] = "live" /\ (c \in ended \/ ~session[on[c]].alive)
  /\ stage' = [stage EXCEPT ![c] = "none"] /\ ended' = ended \cup {c}
  /\ session' = [session EXCEPT ![on[c]] = Detached(@, c)]
  /\ on' = [on EXCEPT ![c] = NoId] /\ told' = told \ {c} /\ seen' = [seen EXCEPT ![c] = {}]
  /\ UNCHANGED <<pageVars, replay, reapVars, registry, seq, unsent>>

-----------------------------------------------------------------------------
(* The tower: the shell and its output, and the reaper.                    *)

Output(i) ==
  /\ session[i].alive /\ unsent[i] = 0 /\ session[i].output < MaxOutput
  /\ session' = [session EXCEPT ![i].output = @ + 1] /\ unsent' = [unsent EXCEPT ![i] = session'[i].output]
  /\ UNCHANGED <<pageVars, connVars, reapVars, registry, seq>>

Broadcasts(i) ==
  /\ unsent[i] # 0 /\ unsent' = [unsent EXCEPT ![i] = 0]
  /\ seen' = IF session[i].client = NoConn THEN seen
             ELSE [seen EXCEPT ![session[i].client] = @ \cup {unsent[i]}]
  /\ UNCHANGED <<pageVars, stage, on, told, ended, replay, reapVars, registry, seq, session>>

ShellExits(i) ==
  /\ session[i].alive /\ session' = [session EXCEPT ![i].alive = FALSE]
  /\ UNCHANGED <<pageVars, connVars, reapVars, registry, seq, unsent>>

HalfAnHour(i) ==
  /\ session[i].detached = "now" /\ session' = [session EXCEPT ![i].detached = "long ago"]
  /\ UNCHANGED <<pageVars, connVars, reapVars, registry, seq, unsent>>

(* reaper: it looks at a session, unlocks that, and acts on what it saw.   *)
Judge(i) ==
  /\ locked = NoId /\ i \in registry /\ locked' = i
  /\ doomed' = (session[i].detached = "long ago" \/ ~session[i].alive)
  /\ UNCHANGED <<pageVars, connVars, towerVars>>

Killed(i) ==
  /\ ended' = ended \cup ({session[i].client} \ {NoConn})
  /\ session' = [session EXCEPT ![i].alive = FALSE]
  /\ registry' = registry \ {i}

Act ==
  /\ locked # NoId /\ locked' = NoId /\ doomed' = FALSE
  /\ IF doomed THEN Killed(locked) ELSE UNCHANGED <<ended, session, registry>>
  /\ UNCHANGED <<pageVars, stage, on, told, replay, seen, seq, unsent>>

ShellsNext ==
  \/ \E p \in Pods : OpenTerminal(p) \/ CloseWindow(p)
  \/ Reload \/ Listed \/ Unlisted \/ Restore
  \/ \E c \in Conns :
       Announced(c) \/ Find(c) \/ NewShellSession(c) \/ Attach(c) \/ Replay(c) \/ Leave(c)
  \/ \E i \in Ids : Output(i) \/ Broadcasts(i) \/ ShellExits(i) \/ HalfAnHour(i) \/ Judge(i)
  \/ Act

(* Goroutines go on, the reaper comes round, and half an hour passes.      *)
ShellsFairness ==
  /\ \A c \in Conns : WF_shellVars(Attach(c)) /\ WF_shellVars(Replay(c)) /\ WF_shellVars(Leave(c))
  /\ \A i \in Ids : WF_shellVars(HalfAnHour(i)) /\ SF_shellVars(Judge(i))
  /\ WF_shellVars(Act)

-----------------------------------------------------------------------------
ShellsTypeOK ==
  /\ window \in [Pods -> Conns \cup {NoConn}] /\ saved \in [Pods -> Ids \cup {NoId}]
  /\ stage \in [Conns -> {"none", "asked", "found", "attached", "live"}]
  /\ on \in [Conns -> Ids \cup {NoId}] /\ registry \subseteq 1..seq /\ seq <= MaxSessions
  /\ \A i \in Ids : session[i].client \in Conns \cup {NoConn} /\ unsent[i] <= session[i].output

(* A window that joins a shell misses nothing of it, whenever output is    *)
(* produced and whoever leaves at that moment: what was not replayed is    *)
(* sent or about to be; and no other window views the same shell (attach,  *)
(* Write, broadcast).                                                      *)
NothingMissed ==
  \A c \in Conns :
    stage[c] = "live" /\ c \notin ended =>
      LET s == session[on[c]] IN
      /\ s.client = c /\ s.pod = c[1]
      /\ (1..s.output) \ {unsent[on[c]]} \subseteq seen[c]

(* "Sessions the player had open, remembered across reloads"               *)
(* (terminal.ts:39): the page remembers the shell of every window that     *)
(* shows one, except of one opened by hand while the page still restored.  *)
OpenIsRemembered ==
  \A p \in Pods \ rash :
    window[p] # NoConn /\ stage[window[p]] = "live" /\ window[p] \in told \ ended
    => saved[p] = on[window[p]]

(* "Detached sessions reaped after this" (shell.go:47), and not others: a  *)
(* shell that is left alone does not stay for ever.                        *)
LeftAreReaped ==
  \A i \in Ids : <>[](session[i].client = NoConn) => <>[](i \notin registry)
=============================================================================
