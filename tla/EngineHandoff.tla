---------------------------- MODULE EngineHandoff ----------------------------
(***************************************************************************)
(* How the windows of a standalone machine share the detached engine: the  *)
(* activation of extension.ts with adoptOrSpawn and the stray sweep of     *)
(* server_lifecycle.ts, the handshake record of server_handshake.ts, start *)
(* and stop of server_manager.ts, the keepalive of server_keepalive.ts,    *)
(* the switches of extension.ts that replace the server manager, and the   *)
(* engine's self-shutdown.ts with the counters server.ts keeps for it.     *)
(*                                                                         *)
(* An engine is named by its process; a record of it stands for its pid,   *)
(* port and password.  Intervals, thresholds and grace windows are         *)
(* choices: an engine that answers no more may have failed often enough,   *)
(* one that nobody pings may have waited long enough.                      *)
(***************************************************************************)
EXTENDS Naturals, FiniteSets

CONSTANTS
    Windows,     \* extension hosts, which come, reload and go
    Engines,     \* engine processes that can be spawned
    MaxMishaps,  \* engines that crash or do not answer for a while
    None

ASSUME HandoffAssumption ==
    /\ MaxMishaps \in Nat
    /\ None \notin Engines

VARIABLES
    pinned,    \* amicode.opencodePort names a port, which all engines then use
    hs,        \* the handshake record: the engine it names, or None
    life,      \* [e] "unborn", "booting", "up" or "gone"
    mute,      \* engines that are up and do not answer
    turn,      \* engines with a turn in flight
    post,      \* windows with an open request that the engine counts as a turn
    pinged,    \* engines alive that received a keepalive
    pc,        \* [w] where the window stands
    mine,      \* [w] the engine of its server manager
    keep,      \* [w] the pid read when the keepalive and the sweep were set up
    beat,      \* [w] the engine its keepalive pings, or None
    late,      \* [w] pids of replaced keepalives with a ping still in flight
    bare,      \* windows whose manager a switch has replaced
    plan,      \* [w] what follows the stop: "spawn", "bare", "off" or "fail"
    mishaps,   \* mishaps so far
    deaf,      \* history: engines taken for dead because they did not answer
    hidden,    \* history: engines with a rival, or whose record somebody else
               \* took, or that serve without one
    cut        \* history: engines killed in a turn by the doing of a window

engineVars == <<life, mute, turn, post, pinged>>
loopVars   == <<beat, late, bare>>
windowVars == <<pc, mine, keep, plan, loopVars>>
history == <<mishaps, deaf, hidden, cut>>
vars == <<pinned, hs, engineVars, windowVars, history>>

TypeOK ==
    /\ pinned \in BOOLEAN
    /\ hs \in Engines \cup {None}
    /\ life \in [Engines -> {"unborn", "booting", "up", "gone"}]
    /\ mute \subseteq Engines /\ turn \subseteq Engines /\ pinged \subseteq Engines
    /\ post \subseteq Windows
    /\ pc \in [Windows -> {"closed", "read", "check", "recheck", "probe", "reclaim",
                           "spawn", "boot", "early", "wire", "sweep", "ready", "lost",
                           "kill", "free", "erase", "off"}]
    /\ mine \in [Windows -> Engines \cup {None}]
    /\ keep \in [Windows -> Engines \cup {None}]
    /\ beat \in [Windows -> Engines \cup {None}]
    /\ late \in [Windows -> SUBSET (Engines \cup {None})]
    /\ bare \subseteq Windows
    /\ plan \in [Windows -> {"spawn", "bare", "off", "fail"}]
    /\ mishaps \in 0 .. MaxMishaps
    /\ deaf \subseteq Engines /\ hidden \subseteq Engines /\ cut \subseteq Engines

Init ==
    /\ pinned \in BOOLEAN
    /\ hs = None
    /\ life = [e \in Engines |-> "unborn"]
    /\ mute = {} /\ turn = {} /\ post = {} /\ pinged = {}
    /\ pc = [w \in Windows |-> "closed"]
    /\ mine = [w \in Windows |-> None]
    /\ keep = [w \in Windows |-> None]
    /\ beat = [w \in Windows |-> None]
    /\ late = [w \in Windows |-> {}]
    /\ bare = {}
    /\ plan = [w \in Windows |-> "fail"]
    /\ mishaps = 0 /\ deaf = {} /\ hidden = {} /\ cut = {}

Goto(w, step) == pc' = [pc EXCEPT ![w] = step]

-----------------------------------------------------------------------------
(* Processes                                                               *)

\* The next process is any that never was.
Unborn == {e \in Engines : life[e] = "unborn"}

\* isPidAlive.
Alive(e) == e # None /\ life[e] \in {"booting", "up"}

\* probeHealth and challengePassword, with the password of the engine.
Answers(e) == e # None /\ life[e] = "up" /\ e \notin mute

\* pidHoldingPort: who listens on the port the engines of a pinned port use.
Holders == IF pinned THEN {e \in Engines : life[e] = "up"} ELSE {}

(* The windows that use engine e, and those of them whose event stream is  *)
(* surely on it.                                                           *)
Clients(e) == {w \in Windows : mine[w] = e /\ pc[w] \in {"sweep", "ready", "lost"}}
Streams(e) == {w \in Clients(e) : w \notin bare \/ pinned}

(* SIGTERM, then SIGKILL, of the engines in K.  Their connections close.    *)
(* `excused`: the user's doing, the engine's own or the system's.           *)
Kill(K, excused) ==
    /\ life' = [e \in Engines |-> IF e \in K THEN "gone" ELSE life[e]]
    /\ mute' = mute \ K /\ turn' = turn \ K /\ pinged' = pinged \ K
    /\ post' = {w \in post : mine[w] \notin K}
    /\ cut' = IF excused THEN cut ELSE cut \cup (K \cap turn)

\* The record now names e, or nobody: a live engine it named before is hidden.
Rewrite(e, by) ==
    /\ hs' = e
    /\ hidden' = IF Alive(hs) /\ hs \notin {e, by} THEN hidden \cup {hs} ELSE hidden

\* Window x has read the record for its sweep and not swept yet.
Sweeping(x) == pc[x] \in {"early", "wire", "sweep"}

-----------------------------------------------------------------------------
(* Activation                                                              *)

(* Two windows that share a pinned port are not followed: the failed boot  *)
(* of one frees the port of the other's engine (see the README).           *)
Activate(w) ==
    /\ pc[w] = "closed"
    /\ pinned => \A x \in Windows : pc[x] = "closed"
    /\ Goto(w, "read")
    /\ UNCHANGED <<pinned, hs, engineVars, mine, keep, loopVars, plan, history>>

\* adoptOrSpawn reads the record.
Read(w) ==
    /\ pc[w] = "read"
    /\ mine' = [mine EXCEPT ![w] = hs]
    /\ Goto(w, IF hs # None THEN "check" ELSE IF pinned THEN "probe" ELSE "spawn")
    /\ UNCHANGED <<pinned, hs, engineVars, keep, loopVars, plan, history>>

\* Mutant: the pid for the early sweep is not passed on.
CheckKeepsNobody(w) ==
    LET e == mine[w]
    IN /\ pc[w] \in {"check", "recheck"}
       /\ Goto(w, CASE Answers(e)                            -> "early"
                    [] ~Answers(e) /\ Alive(e) /\ pc[w] = "check" -> "recheck"
                    [] OTHER                                 -> "spawn")
       /\ deaf' = IF pc[w] = "recheck" /\ ~Answers(e) /\ Alive(e)
                    THEN deaf \cup {e} ELSE deaf
       /\ UNCHANGED <<pinned, hs, engineVars, mine, keep, loopVars, plan, mishaps, hidden, cut>>

(* The gate: an engine that answers is adopted; one that is alive and does *)
(* not is asked once more and then taken for dead.                         *)
Check(w) ==
    LET e == mine[w]
    IN /\ pc[w] \in {"check", "recheck"}
       /\ Goto(w, CASE Answers(e)                            -> "early"
                    [] ~Answers(e) /\ Alive(e) /\ pc[w] = "check" -> "recheck"
                    [] OTHER                                 -> "spawn")
       /\ deaf' = IF pc[w] = "recheck" /\ ~Answers(e) /\ Alive(e)
                    THEN deaf \cup {e} ELSE deaf
       /\ keep' = [keep EXCEPT ![w] = hs]
       /\ UNCHANGED <<pinned, hs, engineVars, mine, loopVars, plan, mishaps, hidden, cut>>

\* No record: an engine of ours that holds the port is an orphan.
Probe(w) ==
    /\ pc[w] = "probe"
    /\ Goto(w, IF Holders = {} THEN "spawn" ELSE "reclaim")
    /\ UNCHANGED <<pinned, hs, engineVars, mine, keep, loopVars, plan, history>>

\* reclaimOrphanPort.
Reclaim(w) ==
    /\ pc[w] = "reclaim"
    /\ Kill(Holders, FALSE)
    /\ Goto(w, "spawn")
    /\ UNCHANGED <<pinned, hs, mine, keep, loopVars, plan, mishaps, deaf, hidden>>

\* ServerManager.start: a daemonized engine.
Spawn(w) ==
    /\ pc[w] = "spawn" /\ Unborn # {}
    /\ LET e      == CHOOSE x \in Unborn : TRUE
           rivals == {x \in Engines : Alive(x)}
       IN /\ life' = [life EXCEPT ![e] = "booting"]
          /\ mine' = [mine EXCEPT ![w] = e]
          /\ hidden' = IF rivals = {} THEN hidden ELSE hidden \cup rivals \cup {e}
    /\ plan' = [plan EXCEPT ![w] = "fail"]
    /\ Goto(w, "boot")
    /\ UNCHANGED <<pinned, hs, mute, turn, post, pinged, keep, loopVars, mishaps, deaf, cut>>

\* The engine listens, unless the port is taken.
Listen(e) ==
    /\ life[e] = "booting"
    /\ life' = [life EXCEPT ![e] = IF Holders = {} THEN "up" ELSE "gone"]
    /\ UNCHANGED <<pinned, hs, mute, turn, post, pinged, windowVars, history>>

(* waitForHealth, the handshake, and wireReadyState up to its sweep.  The  *)
(* new keepalive may replace one that has a ping in flight.                *)
Healthy(w) ==
    /\ pc[w] = "boot" /\ Answers(mine[w]) /\ w \notin bare
    /\ hs' = mine[w]
    /\ hidden' = hidden \cup {e \in {hs} : Alive(e) /\ e # mine[w]}
                         \cup {e \in {mine[w]} : \E x \in Windows \ {w} : Sweeping(x)}
    /\ keep' = [keep EXCEPT ![w] = mine[w]]
    /\ beat' = [beat EXCEPT ![w] = mine[w]]
    /\ \/ UNCHANGED late
       \/ beat[w] # None /\ late' = [late EXCEPT ![w] = @ \cup {keep[w]}]
    /\ Goto(w, "sweep")
    /\ UNCHANGED <<pinned, engineVars, mine, bare, plan, mishaps, deaf, cut>>

(* The same for a manager that a switch has made: its onReady connects the *)
(* event stream at most, no handshake is written, keepalive and sweep      *)
(* remain those of the engine before.                                      *)
HealthyBare(w) ==
    /\ pc[w] = "boot" /\ Answers(mine[w]) /\ w \in bare
    /\ hidden' = hidden \cup {mine[w]}
    /\ Goto(w, "ready")
    /\ UNCHANGED <<pinned, hs, engineVars, mine, keep, loopVars, plan, mishaps, deaf, cut>>

\* Thirty seconds without health: the manager stops what it started.
Unhealthy(w) ==
    /\ pc[w] = "boot" /\ ~Answers(mine[w])
    /\ plan' = [plan EXCEPT ![w] = "fail"]
    /\ Goto(w, "kill")
    /\ UNCHANGED <<pinned, hs, engineVars, mine, keep, loopVars, history>>

(* The sweep, with the pid the record had when it was called: every engine *)
(* that is not that one and has no client goes.  On adoption it runs once  *)
(* before the window's own stream is connected and once after.  After a    *)
(* switch a window is a client while a stream of its chat panel, or the    *)
(* vault's, is connected.                                                  *)
Sweep(w) ==
    /\ pc[w] \in {"early", "sweep"}
    /\ \E spared \in SUBSET {e \in Engines : Clients(e) # {}} :
          Kill({e \in Engines \ spared : /\ life[e] = "up" /\ e # keep[w]
                                          /\ Streams(e) = {}}, FALSE)
    /\ Goto(w, IF pc[w] = "early" THEN "wire" ELSE "ready")
    /\ UNCHANGED <<pinned, hs, mine, keep, loopVars, plan, mishaps, deaf, hidden>>

\* wireReadyState of an adopted engine: stream, keepalive, second sweep.
Wire(w) ==
    /\ pc[w] = "wire"
    /\ keep' = [keep EXCEPT ![w] = hs]
    /\ beat' = [beat EXCEPT ![w] = mine[w]]
    /\ Goto(w, "sweep")
    /\ UNCHANGED <<pinned, hs, engineVars, mine, late, bare, plan, history>>

-----------------------------------------------------------------------------
(* While a window is open                                                  *)

\* Who answers the keepalive: on a pinned port whatever engine is there now.
Target(w) == IF beat[w] = None THEN None ELSE IF pinned THEN mine[w] ELSE beat[w]

Ping(w) ==
    /\ Answers(Target(w))
    /\ Target(w) \notin pinged
    /\ pinged' = pinged \cup {Target(w)}
    /\ UNCHANGED <<pinned, hs, life, mute, turn, post, windowVars, history>>

\* Mutant: failed pings are taken as proof that the engine is gone.
GoneUnconfirmed(w) ==
    /\ beat[w] # None /\ ~Answers(Target(w))
    /\ hs' = None
    /\ beat' = [beat EXCEPT ![w] = None]
    /\ Goto(w, IF pc[w] = "ready" THEN "lost" ELSE pc[w])
    /\ UNCHANGED <<pinned, engineVars, mine, keep, late, bare, plan, history>>

(* considerGone: the pings fail and the pid that was recorded when the     *)
(* keepalive started is dead or was not known.  The record goes, whatever  *)
(* it says by now.                                                         *)
Gone(w) ==
    /\ beat[w] # None /\ ~Answers(Target(w)) /\ ~Alive(keep[w])
    /\ Rewrite(None, Target(w))
    /\ beat' = [beat EXCEPT ![w] = None]
    /\ Goto(w, IF pc[w] = "ready" THEN "lost" ELSE pc[w])
    /\ UNCHANGED <<pinned, engineVars, mine, keep, late, bare, plan, mishaps, deaf, cut>>

(* The same from a ping of a replaced keepalive: `stopped` is shared by    *)
(* all of them and was reset by the new one, so the old loop goes on with  *)
(* its own pid, deletes the record and stops the new loop.                 *)
GoneLate(w) ==
    /\ beat[w] # None
    /\ \E pid \in late[w] : ~Alive(pid) /\ late' = [late EXCEPT ![w] = @ \ {pid}]
    /\ Rewrite(None, None)
    /\ beat' = [beat EXCEPT ![w] = None]
    /\ Goto(w, IF pc[w] = "ready" THEN "lost" ELSE pc[w])
    /\ UNCHANGED <<pinned, engineVars, mine, keep, bare, plan, mishaps, deaf, cut>>

\* The commands restartServer and stopServer.
Command(w, then) ==
    /\ pc[w] \in {"ready", "lost", "off"}
    /\ plan' = [plan EXCEPT ![w] = then]
    /\ Goto(w, "kill")
    /\ UNCHANGED <<pinned, hs, engineVars, mine, keep, loopVars, history>>

(* The solver-mode switch and the respawn for a new vault: for good, a     *)
(* new manager in the place of the stopped one.                            *)
Switch(w) ==
    /\ pc[w] \in {"ready", "lost", "off"}
    /\ bare' = bare \cup {w}
    /\ plan' = [plan EXCEPT ![w] = "bare"]
    /\ Goto(w, "kill")
    /\ UNCHANGED <<pinned, hs, engineVars, mine, keep, beat, late, history>>

\* What a finished stop leads to.
AfterStop(w) == CASE plan[w] = "fail" -> "off"
                  [] plan[w] = "bare" -> "spawn"
                  [] OTHER            -> "erase"

\* stop: the engine by its pid, if there is one ...
KillMine(w) ==
    /\ pc[w] = "kill"
    /\ Kill({mine[w]} \ {None}, plan[w] # "fail")
    /\ mine' = [mine EXCEPT ![w] = None]
    /\ Goto(w, IF mine[w] = None THEN AfterStop(w) ELSE "free")
    /\ UNCHANGED <<pinned, hs, keep, loopVars, plan, mishaps, deaf, hidden>>

\* ... then freePortIfOurs: whichever engine holds the port.
FreePort(w) ==
    /\ pc[w] = "free"
    /\ Kill(Holders, FALSE)
    /\ Goto(w, AfterStop(w))
    /\ UNCHANGED <<pinned, hs, mine, keep, loopVars, plan, mishaps, deaf, hidden>>

\* The record is deleted after the kill.
Erase(w) ==
    /\ pc[w] = "erase"
    /\ Rewrite(None, None)
    /\ Goto(w, plan[w])
    /\ UNCHANGED <<pinned, engineVars, mine, keep, loopVars, plan, mishaps, deaf, cut>>

\* deactivate, a reload or a crash: the window detaches, the engine stays.
Close(w) ==
    /\ pc[w] # "closed"
    /\ Goto(w, "closed")
    /\ mine' = [mine EXCEPT ![w] = None] /\ keep' = [keep EXCEPT ![w] = None]
    /\ beat' = [beat EXCEPT ![w] = None] /\ plan' = [plan EXCEPT ![w] = "fail"]
    /\ late' = [late EXCEPT ![w] = {}] /\ bare' = bare \ {w}
    /\ post' = post \ {w}
    /\ UNCHANGED <<pinned, hs, life, mute, turn, pinged, history>>

-----------------------------------------------------------------------------
(* The engine                                                              *)

(* A client's prompt: prompt_async returns at once with the turn forked, a *)
(* message, command or shell request is open as long as its turn.          *)
StartTurn(w, counted) ==
    LET e == mine[w]
    IN /\ w \in Clients(e) /\ Answers(e)
       /\ turn' = turn \cup {e}
       /\ post' = IF counted THEN post \cup {w} ELSE post
       /\ <<turn', post'>> # <<turn, post>>
       /\ UNCHANGED <<pinned, hs, life, mute, pinged, windowVars, history>>

EndTurn(e) ==
    /\ e \in turn
    /\ turn' = turn \ {e}
    /\ post' = {w \in post : mine[w] # e}
    /\ UNCHANGED <<pinned, hs, life, mute, pinged, windowVars, history>>

\* The connection of the request closes; the turn goes on.
HangUp(w) ==
    /\ w \in post
    /\ post' = post \ {w}
    /\ UNCHANGED <<pinned, hs, life, mute, turn, pinged, windowVars, history>>

\* busySessions and sseSubscribers: what the idle watcher sees of engine e.
Busy(e) == Streams(e) # {} \/ \E w \in post : mine[w] = e

\* Mutant: only the engine that the record names exits.
SelfExitRecorded(e) ==
    /\ life[e] = "up" /\ e \notin mute /\ e \in pinged /\ hs = e
    /\ ~Busy(e) /\ \A w \in Windows : Target(w) # e
    /\ Rewrite(None, e)
    /\ Kill({e}, TRUE)
    /\ UNCHANGED <<pinned, windowVars, mishaps, deaf>>

(* shouldSelfExit: pinged once and not for a grace window, no request      *)
(* counted as a turn, no event stream.  The record goes with the engine,   *)
(* whomever it names, and so does a turn that nothing counts.              *)
SelfExit(e) ==
    /\ life[e] = "up" /\ e \notin mute /\ e \in pinged
    /\ ~Busy(e) /\ \A w \in Windows : Target(w) # e
    /\ Rewrite(None, e)
    /\ Kill({e}, TRUE)
    /\ UNCHANGED <<pinned, windowVars, mishaps, deaf>>

\* The engine crashes, or does not answer for a while.
Crash(e) ==
    /\ Alive(e) /\ mishaps < MaxMishaps
    /\ mishaps' = mishaps + 1
    /\ Kill({e}, TRUE)
    /\ UNCHANGED <<pinned, hs, windowVars, deaf, hidden>>

Stall(e) ==
    /\ life[e] = "up" /\ e \notin mute /\ mishaps < MaxMishaps
    /\ mishaps' = mishaps + 1
    /\ mute' = mute \cup {e}
    /\ UNCHANGED <<pinned, hs, life, turn, post, pinged, windowVars, deaf, hidden, cut>>

Unstall(e) ==
    /\ e \in mute
    /\ mute' = mute \ {e}
    /\ UNCHANGED <<pinned, hs, life, turn, post, pinged, windowVars, history>>

Next ==
    \/ \E w \in Windows :
          \/ Activate(w) \/ Read(w) \/ Check(w) \/ Probe(w) \/ Reclaim(w)
          \/ Spawn(w) \/ Healthy(w) \/ Unhealthy(w) \/ Wire(w) \/ Sweep(w)
          \/ HealthyBare(w) \/ Ping(w) \/ Gone(w) \/ GoneLate(w) \/ Close(w)
          \/ \E then \in {"spawn", "off"} : Command(w, then)
          \/ Switch(w) \/ KillMine(w) \/ FreePort(w) \/ Erase(w)
          \/ HangUp(w) \/ \E counted \in BOOLEAN : StartTurn(w, counted)
    \/ \E e \in Engines :
          \/ Listen(e) \/ EndTurn(e) \/ SelfExit(e)
          \/ Crash(e) \/ Stall(e) \/ Unstall(e)

\* An engine answers again, and its idle watcher runs.
Fairness == \A e \in Engines : WF_vars(Unstall(e) \/ SelfExit(e))

Spec == Init /\ [][Next]_vars /\ Fairness

-----------------------------------------------------------------------------
(* Properties                                                              *)

(* ADR 0020, "adopt-then-notice keeps in-flight turns": reloads, closed    *)
(* windows, failed starts, sweeps and reclaimed ports never end a turn,    *)
(* whether or not its client is still there, but of an engine that did not *)
(* answer the gate twice, one whose record another one's end, start or     *)
(* late keepalive has taken away, or one that a switch started without a   *)
(* record.  What the idle watcher ends is in IdleSparesTurns.              *)
TurnsSurvive == cut \subseteq deaf \cup hidden

(* "deleting its handshake strands it" (server_keepalive.ts): the engine   *)
(* that activation or restart gave a ready window can be adopted by the    *)
(* next activation, as long as no other engine was alive when it started   *)
(* and nobody else touched its record.                                     *)
ServedIsRecorded ==
    \A w \in Windows :
        pc[w] = "ready" /\ w \notin bare /\ life[mine[w]] = "up"
            => mine[w] \in hidden \/ hs = mine[w]

(* self-shutdown.ts: once the last window is closed for good, an engine    *)
(* that was ever pinged exits in the end, whatever its turn does.          *)
AbandonedExits ==
    <>[](\A w \in Windows : pc[w] = "closed")
        => <>[](pinged = {})

-----------------------------------------------------------------------------
(* What the code says and does not do; the runs do not name these.         *)

(* self-shutdown.ts: "Tracks in-flight agent turns ... so a busy session   *)
(* prevents premature exit".  A prompt of the application is not counted,  *)
(* nor is a request whose client has gone.                                 *)
IdleSparesTurns == [][\A e \in Engines : SelfExit(e) => e \notin turn]_vars

(* extension.ts: the handshake is "the durable record a later reload       *)
(* adopts".  After a switch the only engine of the only window has none.   *)
LoneIsRecorded ==
    \A w \in Windows :
        /\ pc[w] = "ready" /\ \A e \in Engines : Alive(e) <=> e = mine[w]
        /\ \A x \in Windows \ {w} : pc[x] = "closed"
        => hs = mine[w]

(* server_keepalive.ts: "Replaces any existing keepalive".  A ping of the  *)
(* replaced one may take the record and the loop of the new engine.        *)
ReplacedIsSilent == [][\A w \in Windows : ~GoneLate(w)]_vars
=============================================================================
