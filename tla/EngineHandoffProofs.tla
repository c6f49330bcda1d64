------------------------- MODULE EngineHandoffProofs -------------------------
(* Turns survive the comings and goings of windows, and a served engine    *)
(* stays adoptable: for any number of windows, engines and mishaps.        *)
EXTENDS EngineHandoff, TLAPS

-----------------------------------------------------------------------------
(* The inductive invariant                                                 *)

Known == hidden \cup deaf

(* A turn is of an engine that is up, and the record names that engine, or *)
(* the engine is hidden or was taken for dead.                             *)
TurnInv ==
    \A e \in turn : life[e] = "up" /\ (hs = e \/ e \in Known)

\* An engine that is still to be spawned is known to nobody.
UnbornInv ==
    \A e \in Engines : life[e] = "unborn" =>
        hs # e /\ \A w \in Windows : mine[w] # e /\ beat[w] # e

\* On a pinned port there is one engine that is up and one window.
PinnedInv ==
    pinned => /\ \A e, x \in Engines : life[e] = "up" /\ life[x] = "up" => e = x
              /\ \A v, w \in Windows : pc[v] # "closed" /\ pc[w] # "closed" => v = w

Attached == {"check", "recheck", "early", "wire", "sweep", "ready", "lost"}
Serving  == {"early", "wire", "boot", "sweep", "ready", "lost", "kill"}

\* The engine of the window's manager has not answered yet, or never did.
Starting(w) == pc[w] = "boot" \/ (pc[w] = "kill" /\ plan[w] = "fail")

\* What a window's engine and keepalive are at each of its steps.
StepOf(w) ==
    /\ pc[w] \in {"closed", "read", "check", "recheck", "probe", "reclaim", "early", "wire"}
          => beat[w] = None
    /\ pc[w] \in Attached \/ Starting(w) => mine[w] # None
    /\ pc[w] = "erase" => plan[w] \in {"spawn", "off"}
    /\ pc[w] \in {"free", "erase", "off"} => mine[w] = None
    /\ pc[w] \in {"probe", "reclaim"} => pinned /\ hs = None

\* Who takes a record away knows whose it is, or hides its engine.
RecordOf(w) ==
    /\ pc[w] \in Attached /\ Alive(mine[w]) => hs = mine[w] \/ mine[w] \in hidden
    /\ beat[w] # None /\ Target(w) = hs /\ Alive(hs) => keep[w] = hs \/ hs \in hidden
    /\ Sweeping(w) => hs = keep[w] \/ hs = None \/ hs \in hidden

\* A window that starts an engine, or gives up starting it, is its only one.
BootOf(w) ==
    Starting(w) =>
       /\ mine[w] \notin turn /\ hs # mine[w]
       /\ \A x \in Windows : beat[x] # mine[w] /\ (x # w => mine[x] # mine[w])

\* On a pinned port no engine but the window's own has a turn.
OnlyMineOf(w) ==
    pinned => /\ pc[w] \in Serving /\ mine[w] # None => turn \subseteq {mine[w]} \cup Known
              /\ pc[w] = "free" => turn \subseteq Known

WindowInv == \A w \in Windows : StepOf(w) /\ RecordOf(w) /\ BootOf(w) /\ OnlyMineOf(w)

IInv == TypeOK /\ TurnInv /\ UnbornInv /\ PinnedInv /\ WindowInv /\ TurnsSurvive

-----------------------------------------------------------------------------
(* Types                                                                   *)

LEMMA InitIInv == Init => IInv
<1> SUFFICES ASSUME Init PROVE IInv
  OBVIOUS
<1> USE HandoffAssumption DEF Init
<1>1. TypeOK
  BY DEF TypeOK
<1>2. TurnInv /\ UnbornInv /\ PinnedInv /\ TurnsSurvive
  BY DEF TurnInv, UnbornInv, PinnedInv, TurnsSurvive
<1>3. WindowInv
  BY DEF WindowInv, StepOf, RecordOf, BootOf, OnlyMineOf, Attached, Serving, Target,
         Sweeping, Starting, Alive
<1> QED BY <1>1, <1>2, <1>3 DEF IInv

LEMMA TypeStep == TypeOK /\ WindowInv /\ [Next]_vars => TypeOK'
<1> SUFFICES ASSUME TypeOK, WindowInv, [Next]_vars PROVE TypeOK'
  OBVIOUS
<1> USE HandoffAssumption DEF TypeOK, engineVars, windowVars, loopVars, history, Goto
<1>1. ASSUME NEW w \in Windows, Activate(w) \/ Read(w) \/ Probe(w)
      PROVE  TypeOK'
  BY <1>1 DEF Activate, Read, Probe
<1>9. ASSUME NEW w \in Windows, Check(w)
      PROVE  TypeOK'
  <2>1. mine[w] # None
    BY <1>9 DEF Check, WindowInv, StepOf, Attached
  <2>2. /\ deaf' \subseteq deaf \cup {mine[w]}
        /\ \E step \in {"early", "recheck", "spawn"} : Goto(w, step)
        /\ keep' = [keep EXCEPT ![w] = hs]
        /\ UNCHANGED <<pinned, hs, engineVars, mine, loopVars, plan, mishaps, hidden, cut>>
    BY <1>9 DEF Check
  <2> QED BY <2>1, <2>2
<1>0. ASSUME NEW w \in Windows, Spawn(w)
      PROVE  TypeOK'
  <2>1. PICK x \in Engines : /\ life' = [life EXCEPT ![x] = "booting"]
                             /\ mine' = [mine EXCEPT ![w] = x]
                             /\ hidden' \subseteq hidden \cup Engines
    BY <1>0 DEF Spawn, Unborn
  <2>2. /\ plan' = [plan EXCEPT ![w] = "fail"] /\ Goto(w, "boot")
        /\ UNCHANGED <<pinned, hs, mute, turn, post, pinged, keep, loopVars, mishaps,
                       deaf, cut>>
    BY <1>0 DEF Spawn
  <2> QED BY <2>1, <2>2
<1>2. ASSUME NEW w \in Windows, Unhealthy(w) \/ Wire(w) \/ Ping(w) \/ Gone(w)
      PROVE  TypeOK'
  BY <1>2 DEF Unhealthy, Wire, Ping, Gone, Rewrite, Answers, Target, Alive
<1>10. ASSUME NEW w \in Windows, Healthy(w) \/ HealthyBare(w) \/ GoneLate(w)
       PROVE  TypeOK'
  BY <1>10 DEF Healthy, HealthyBare, GoneLate, Rewrite, Answers, Alive
<1>3. ASSUME NEW w \in Windows,
             Reclaim(w) \/ Sweep(w) \/ KillMine(w) \/ FreePort(w)
      PROVE  TypeOK'
  BY <1>3 DEF Reclaim, Sweep, KillMine, FreePort, Kill, AfterStop
<1>4. ASSUME NEW w \in Windows,
             \/ Close(w) \/ HangUp(w) \/ Switch(w)
             \/ \E then \in {"spawn", "off"} : Command(w, then)
             \/ \E counted \in BOOLEAN : StartTurn(w, counted)
      PROVE  TypeOK'
  BY <1>4 DEF Close, HangUp, Switch, Command, StartTurn, Answers
<1>8. ASSUME NEW w \in Windows, Erase(w)
      PROVE  TypeOK'
  <2>1. plan[w] \in {"spawn", "off"}
    BY <1>8 DEF Erase, WindowInv, StepOf
  <2> QED BY <2>1, <1>8 DEF Erase, Rewrite, Alive
<1>5. ASSUME NEW e \in Engines,
             Listen(e) \/ EndTurn(e) \/ SelfExit(e)
      PROVE  TypeOK'
  BY <1>5 DEF Listen, EndTurn, SelfExit, Kill, Rewrite, Alive
<1>6. ASSUME NEW e \in Engines, Crash(e) \/ Stall(e) \/ Unstall(e)
      PROVE  TypeOK'
  BY <1>6 DEF Crash, Stall, Unstall, Kill
<1>7. CASE UNCHANGED vars
  BY <1>7 DEF vars
<1> QED BY <1>0, <1>1, <1>2, <1>3, <1>4, <1>5, <1>6, <1>7, <1>8, <1>9,
          <1>10
        DEF Next

-----------------------------------------------------------------------------
(* Turns and records                                                       *)

LEMMA TurnStep == IInv /\ [Next]_vars => TurnInv'
<1> SUFFICES ASSUME IInv, [Next]_vars PROVE TurnInv'
  OBVIOUS
<1> USE HandoffAssumption DEF IInv, TurnInv, Known, engineVars, windowVars, loopVars, history
<1>1. ASSUME UNCHANGED <<hs, life, turn>>, hidden \subseteq hidden', deaf \subseteq deaf'
      PROVE  TurnInv'
  BY <1>1
<1>2. ASSUME NEW w \in Windows,
             \/ Activate(w) \/ Read(w) \/ Check(w) \/ Probe(w) \/ Unhealthy(w)
             \/ Wire(w) \/ Ping(w) \/ Close(w) \/ HangUp(w) \/ Switch(w) \/ HealthyBare(w)
             \/ \E then \in {"spawn", "off"} : Command(w, then)
      PROVE  TurnInv'
  BY <1>1, <1>2 DEF Activate, Read, Check, Probe, Unhealthy, Wire, Ping, Close, HangUp,
                      Switch, HealthyBare, Command
<1>3. ASSUME NEW e \in Engines, Stall(e) \/ Unstall(e)
      PROVE  TurnInv'
  BY <1>1, <1>3 DEF Stall, Unstall
<1>4. ASSUME UNCHANGED <<hs, hidden, deaf>>, NEW K, NEW a, Kill(K, a)
      PROVE  TurnInv'
  BY <1>4 DEF Kill, TypeOK
<1>5. ASSUME NEW w \in Windows, Reclaim(w) \/ Sweep(w) \/ KillMine(w) \/ FreePort(w)
      PROVE  TurnInv'
  BY <1>4, <1>5 DEF Reclaim, Sweep, KillMine, FreePort
<1>6. ASSUME NEW e \in Engines, Crash(e)
      PROVE  TurnInv'
  BY <1>4, <1>6 DEF Crash
<1>7. ASSUME NEW e \in Engines, SelfExit(e)
      PROVE  TurnInv'
  BY <1>7 DEF SelfExit, Kill, Rewrite, Alive, TypeOK
<1>8. ASSUME NEW w \in Windows, Erase(w) \/ GoneLate(w)
      PROVE  TurnInv'
  BY <1>8 DEF Erase, GoneLate, Rewrite, Alive, TypeOK
<1>9. ASSUME NEW w \in Windows, Gone(w)
      PROVE  TurnInv'
  <2>1. Target(w) = hs /\ Alive(hs) => hs \in hidden
    BY <1>9 DEF Gone, WindowInv, RecordOf
  <2> QED BY <2>1, <1>9 DEF Gone, Rewrite, Alive, TypeOK
<1>10. ASSUME NEW w \in Windows, Healthy(w)
       PROVE  TurnInv'
  BY <1>10 DEF Healthy, Alive, TypeOK
<1>11. ASSUME NEW w \in Windows, Spawn(w)
       PROVE  TurnInv'
  BY <1>11 DEF Spawn, Unborn, TypeOK
<1>12. ASSUME NEW e \in Engines, Listen(e)
       PROVE  TurnInv'
  BY <1>12 DEF Listen, TypeOK
<1>13. ASSUME NEW e \in Engines, EndTurn(e)
       PROVE  TurnInv'
  BY <1>13 DEF EndTurn
<1>15. ASSUME NEW w \in Windows, NEW counted \in BOOLEAN, StartTurn(w, counted)
       PROVE  TurnInv'
  BY <1>15 DEF StartTurn, Answers, Alive, Clients, WindowInv, RecordOf, Attached
<1>14. CASE UNCHANGED vars
  BY <1>14 DEF vars
<1> QED BY <1>2, <1>3, <1>5, <1>6, <1>7, <1>8, <1>9, <1>10, <1>11, <1>12, <1>13, <1>14,
          <1>15
        DEF Next

LEMMA UnbornStep == IInv /\ [Next]_vars => UnbornInv'
<1> SUFFICES ASSUME IInv, [Next]_vars, NEW e \in Engines, life'[e] = "unborn"
             PROVE  hs' # e /\ \A v \in Windows : mine'[v] # e /\ beat'[v] # e
  BY DEF UnbornInv
<1> USE HandoffAssumption DEF IInv, UnbornInv, TypeOK, engineVars, windowVars, loopVars, history
<1>1. ASSUME NEW w \in Windows, Activate(w) \/ Read(w) \/ Check(w) \/ Probe(w)
      PROVE  hs' # e /\ \A v \in Windows : mine'[v] # e /\ beat'[v] # e
  BY <1>1 DEF Activate, Read, Check, Probe
<1>2. ASSUME NEW w \in Windows,
             Unhealthy(w) \/ Wire(w) \/ Ping(w) \/ Close(w) \/ HangUp(w) \/ HealthyBare(w)
      PROVE  hs' # e /\ \A v \in Windows : mine'[v] # e /\ beat'[v] # e
  BY <1>2 DEF Unhealthy, Wire, Ping, Close, HangUp, HealthyBare
<1>3. ASSUME NEW w \in Windows, Reclaim(w) \/ Sweep(w) \/ KillMine(w) \/ FreePort(w)
      PROVE  hs' # e /\ \A v \in Windows : mine'[v] # e /\ beat'[v] # e
  BY <1>3 DEF Reclaim, Sweep, KillMine, FreePort, Kill
<1>4. ASSUME NEW w \in Windows,
             Erase(w) \/ Gone(w) \/ GoneLate(w) \/ Switch(w) \/ \E then \in {"spawn", "off"} : Command(w, then)
      PROVE  hs' # e /\ \A v \in Windows : mine'[v] # e /\ beat'[v] # e
  BY <1>4 DEF Erase, Gone, GoneLate, Switch, Command, Rewrite
<1>5. ASSUME NEW w \in Windows, Healthy(w)
      PROVE  hs' # e /\ \A v \in Windows : mine'[v] # e /\ beat'[v] # e
  BY <1>5 DEF Healthy, Answers
<1>6. ASSUME NEW w \in Windows, Spawn(w)
      PROVE  hs' # e /\ \A v \in Windows : mine'[v] # e /\ beat'[v] # e
  BY <1>6 DEF Spawn, Unborn
<1>7. ASSUME NEW x \in Engines, Listen(x) \/ EndTurn(x) \/ SelfExit(x)
      PROVE  hs' # e /\ \A v \in Windows : mine'[v] # e /\ beat'[v] # e
  BY <1>7 DEF Listen, EndTurn, SelfExit, Kill, Rewrite
<1>8. ASSUME NEW x \in Engines, Crash(x) \/ Stall(x) \/ Unstall(x)
      PROVE  hs' # e /\ \A v \in Windows : mine'[v] # e /\ beat'[v] # e
  BY <1>8 DEF Crash, Stall, Unstall, Kill
<1>10. ASSUME NEW w \in Windows, NEW counted \in BOOLEAN, StartTurn(w, counted)
       PROVE  hs' # e /\ \A v \in Windows : mine'[v] # e /\ beat'[v] # e
  BY <1>10 DEF StartTurn
<1>9. CASE UNCHANGED vars
  BY <1>9 DEF vars
<1> QED BY <1>1, <1>2, <1>3, <1>4, <1>5, <1>6, <1>7, <1>8, <1>9, <1>10 DEF Next

LEMMA PinnedStep == IInv /\ [Next]_vars => PinnedInv'
<1> SUFFICES ASSUME IInv, [Next]_vars, pinned' PROVE PinnedInv'
  BY DEF PinnedInv
<1> USE HandoffAssumption DEF IInv, PinnedInv, TypeOK, engineVars, windowVars, loopVars, history, Goto
<1>1. pinned
  BY DEF Next, vars, Activate, Read, Check, Probe, Spawn, Unhealthy, Wire, Ping, Close,
         Reclaim, Sweep, KillMine, FreePort, Erase, Gone, Command, Healthy, Listen,
         HealthyBare, GoneLate, Switch, HangUp, StartTurn, EndTurn, SelfExit, Crash, Stall, Unstall
<1>2. \A e, x \in Engines : life'[e] = "up" /\ life'[x] = "up" => e = x
  <2>1. ASSUME NEW e \in Engines, Listen(e)
        PROVE  \A y, x \in Engines : life'[y] = "up" /\ life'[x] = "up" => y = x
    BY <1>1, <2>1 DEF Listen, Holders
  <2>2. CASE ~\E e \in Engines : Listen(e)
    <3>1. \/ UNCHANGED life
          \/ \E K, a : Kill(K, a)
          \/ \E w \in Windows : Spawn(w)
      BY <2>2 DEF Next, vars, Activate, Read, Check, Probe, Unhealthy, Wire, Ping,
           Close, Reclaim, Sweep, KillMine, FreePort, Erase, Gone, Command, Healthy,
           HealthyBare, GoneLate, Switch, HangUp,
           StartTurn, EndTurn, SelfExit, Crash, Stall, Unstall
    <3>2. ASSUME NEW K, NEW a, Kill(K, a)
          PROVE  \A e \in Engines : life'[e] = "up" => life[e] = "up"
      BY <3>2 DEF Kill
    <3>3. ASSUME NEW w \in Windows, Spawn(w)
          PROVE  \A e \in Engines : life'[e] = "up" => life[e] = "up"
      BY <3>3 DEF Spawn
    <3> QED BY <3>1, <3>2, <3>3, <1>1
  <2> QED BY <2>1, <2>2
<1>3. \A v, w \in Windows : pc'[v] # "closed" /\ pc'[w] # "closed" => v = w
  <2>1. ASSUME NEW w \in Windows, Activate(w)
        PROVE  \A v, x \in Windows : pc'[v] # "closed" /\ pc'[x] # "closed" => v = x
    BY <1>1, <2>1 DEF Activate
  <2>2. CASE ~\E w \in Windows : Activate(w)
    <3>1. UNCHANGED pc \/ \E w \in Windows : \E step : Goto(w, step) /\ pc[w] # "closed"
      <4>1. ASSUME NEW w \in Windows, Read(w) \/ Check(w) \/ Probe(w) \/ Spawn(w)
            PROVE  \E step : Goto(w, step) /\ pc[w] # "closed"
        BY <4>1 DEF Read, Check, Probe, Spawn
      <4>2. ASSUME NEW w \in Windows, Unhealthy(w) \/ Wire(w) \/ Close(w) \/ Healthy(w) \/ HealthyBare(w)
            PROVE  \E step : Goto(w, step) /\ pc[w] # "closed"
        BY <4>2 DEF Unhealthy, Wire, Close, Healthy, HealthyBare
      <4>3. ASSUME NEW w \in Windows,
                   Reclaim(w) \/ Sweep(w) \/ KillMine(w) \/ FreePort(w)
            PROVE  \E step : Goto(w, step) /\ pc[w] # "closed"
        BY <4>3 DEF Reclaim, Sweep, KillMine, FreePort
      <4>4. ASSUME NEW w \in Windows,
                   Erase(w) \/ Switch(w) \/ \E then \in {"spawn", "off"} : Command(w, then)
            PROVE  \E step : Goto(w, step) /\ pc[w] # "closed"
        BY <4>4 DEF Erase, Switch, Command
      <4>5. ASSUME NEW w \in Windows, Gone(w) \/ GoneLate(w)
            PROVE  \E step : Goto(w, step) /\ pc[w] # "closed"
        BY <4>5 DEF Gone, GoneLate, WindowInv, StepOf
      <4>6. CASE UNCHANGED pc
        BY <4>6
      <4> QED
        BY <2>2, <4>1, <4>2, <4>3, <4>4, <4>5, <4>6
           DEF Next, vars, Ping, HangUp, Listen, StartTurn, EndTurn, SelfExit, Crash, Stall, Unstall
    <3>2. \A w \in Windows : pc'[w] # "closed" => pc[w] # "closed"
      BY <3>1
    <3> QED BY <3>2, <1>1
  <2> QED BY <2>1, <2>2
<1> QED BY <1>2, <1>3

-----------------------------------------------------------------------------
(* What every window knows                                                 *)

LEMMA StepOfStep == IInv /\ [Next]_vars => \A v \in Windows : StepOf(v)'
<1> SUFFICES ASSUME IInv, [Next]_vars, NEW v \in Windows PROVE StepOf(v)'
  OBVIOUS
<1> USE DEF IInv, WindowInv, StepOf, Attached, Starting, TypeOK, engineVars, windowVars, loopVars,
            history, Goto
<1>1. ASSUME NEW w \in Windows, Activate(w) \/ Read(w) \/ Probe(w)
      PROVE  StepOf(v)'
  BY <1>1 DEF Activate, Read, Probe, Holders
<1>2. ASSUME NEW w \in Windows, Check(w)
      PROVE  StepOf(v)'
  BY <1>2 DEF Check
<1>3. ASSUME NEW w \in Windows,
             Unhealthy(w) \/ Wire(w) \/ Ping(w) \/ Close(w) \/ HangUp(w) \/ HealthyBare(w)
      PROVE  StepOf(v)'
  BY <1>3 DEF Unhealthy, Wire, Ping, Close, HangUp, HealthyBare
<1>4. ASSUME NEW w \in Windows, Reclaim(w) \/ Sweep(w)
      PROVE  StepOf(v)'
  BY <1>4 DEF Reclaim, Sweep
<1>5. ASSUME NEW w \in Windows, KillMine(w)
      PROVE  StepOf(v)'
  BY <1>5 DEF KillMine, AfterStop
<1>14. ASSUME NEW w \in Windows, FreePort(w)
       PROVE  StepOf(v)'
  BY <1>14 DEF FreePort, AfterStop
<1>6. ASSUME NEW w \in Windows, NEW then \in {"spawn", "off"}, Command(w, then)
      PROVE  StepOf(v)'
  BY <1>6 DEF Command
<1>7. ASSUME NEW w \in Windows, Erase(w)
      PROVE  StepOf(v)'
  BY <1>7 DEF Erase, Rewrite
<1>8. ASSUME NEW w \in Windows, Gone(w) \/ GoneLate(w)
      PROVE  StepOf(v)'
  BY <1>8 DEF Gone, GoneLate, Rewrite
<1>9. ASSUME NEW w \in Windows, Healthy(w)
      PROVE  StepOf(v)'
  BY <1>9 DEF Healthy, Answers, PinnedInv
<1>10. ASSUME NEW w \in Windows, Spawn(w)
       PROVE  StepOf(v)'
  BY <1>10, HandoffAssumption DEF Spawn, Unborn
<1>11. ASSUME NEW x \in Engines, Listen(x) \/ EndTurn(x) \/ SelfExit(x)
       PROVE  StepOf(v)'
  BY <1>11 DEF Listen, EndTurn, SelfExit, Rewrite
<1>12. ASSUME NEW x \in Engines, Crash(x) \/ Stall(x) \/ Unstall(x)
       PROVE  StepOf(v)'
  BY <1>12 DEF Crash, Stall, Unstall
<1>15. ASSUME NEW w \in Windows,
              Switch(w) \/ \E counted \in BOOLEAN : StartTurn(w, counted)
       PROVE  StepOf(v)'
  BY <1>15 DEF Switch, StartTurn
<1>13. CASE UNCHANGED vars
  BY <1>13 DEF vars
<1> QED BY <1>1, <1>2, <1>3, <1>4, <1>5, <1>6, <1>7, <1>8, <1>9, <1>10, <1>11, <1>12, <1>13,
          <1>14, <1>15
        DEF Next

\* The record and the keepalives after a step that leaves them alone.
LEMMA RecordKeeps ==
  ASSUME IInv, NEW v \in Windows,
         UNCHANGED <<pinned, hs>>, hidden \subseteq hidden',
         \A e \in Engines : Alive(e)' => Alive(e),
         pc'[v] \in Attached => pc[v] \in Attached /\ mine'[v] = mine[v],
         beat'[v] # None => mine'[v] \in {mine[v], None} /\ beat'[v] = beat[v]
                            /\ keep'[v] = keep[v],
         Sweeping(v)' => Sweeping(v) /\ keep'[v] = keep[v]
  PROVE  RecordOf(v)'
<1> USE HandoffAssumption DEF IInv, WindowInv, RecordOf, Attached, Sweeping, Target, TypeOK
<1>0. Alive(None)' = FALSE /\ Alive(None) = FALSE
  BY DEF Alive
<1>1. (pc[v] \in Attached /\ Alive(mine[v]) => hs = mine[v] \/ mine[v] \in hidden)'
  BY <1>0
<1>2. (Sweeping(v) => hs = keep[v] \/ hs = None \/ hs \in hidden)'
  OBVIOUS
<1>3. (beat[v] # None /\ Target(v) = hs /\ Alive(hs) => keep[v] = hs \/ hs \in hidden)'
  BY <1>0
<1> QED BY <1>1, <1>2, <1>3

LEMMA RecordStep == IInv /\ [Next]_vars => \A v \in Windows : RecordOf(v)'
<1> SUFFICES ASSUME IInv, [Next]_vars, NEW v \in Windows PROVE RecordOf(v)'
  OBVIOUS
<1>0. TypeOK /\ StepOf(v) /\ RecordOf(v) /\ BootOf(v)
  BY DEF IInv, WindowInv
<1> USE <1>0, HandoffAssumption
    DEF TypeOK, engineVars, windowVars, loopVars, history, Goto, Attached, Sweeping, StepOf
<1>1. ASSUME NEW w \in Windows, Activate(w) \/ Probe(w) \/ Unhealthy(w) \/ Ping(w)
      PROVE  RecordOf(v)'
  BY <1>1, RecordKeeps DEF Activate, Probe, Unhealthy, Ping, Alive
<1>2. ASSUME NEW w \in Windows, 
             Close(w) \/ HangUp(w) \/ Switch(w) \/ \E then \in {"spawn", "off"} : Command(w, then)
      PROVE  RecordOf(v)'
  BY <1>2, RecordKeeps DEF Close, HangUp, Switch, Command, Alive
<1>3. ASSUME NEW w \in Windows, Reclaim(w) \/ Sweep(w)
      PROVE  RecordOf(v)'
  BY <1>3, RecordKeeps DEF Reclaim, Sweep, Kill, Alive
<1>4. ASSUME NEW w \in Windows, KillMine(w) \/ FreePort(w)
      PROVE  RecordOf(v)'
  BY <1>4, RecordKeeps DEF KillMine, FreePort, AfterStop, Kill, Alive
<1>5. ASSUME NEW x \in Engines, Listen(x) \/ EndTurn(x)
      PROVE  RecordOf(v)'
  BY <1>5, RecordKeeps DEF Listen, EndTurn, Alive
<1>6. ASSUME NEW x \in Engines, Crash(x) \/ Stall(x) \/ Unstall(x)
      PROVE  RecordOf(v)'
  BY <1>6, RecordKeeps DEF Crash, Stall, Unstall, Kill, Alive
<1>7. ASSUME NEW w \in Windows, Read(w)
      PROVE  RecordOf(v)'
  BY <1>7 DEF Read, RecordOf, Target, Alive
<1>8. ASSUME NEW w \in Windows, Check(w)
      PROVE  RecordOf(v)'
  BY <1>8 DEF Check, RecordOf, Target, Alive
<1>9. ASSUME NEW w \in Windows, Wire(w)
      PROVE  RecordOf(v)'
  BY <1>9 DEF Wire, RecordOf, Target, Alive
<1>10. ASSUME NEW w \in Windows, Erase(w) \/ GoneLate(w)
       PROVE  RecordOf(v)'
  BY <1>10 DEF Erase, GoneLate, Rewrite, RecordOf, Target, Alive
<1>11. ASSUME NEW x \in Engines, SelfExit(x)
       PROVE  RecordOf(v)'
  BY <1>11 DEF SelfExit, Rewrite, Kill, RecordOf, Target, Alive
<1>12. ASSUME NEW w \in Windows, Gone(w)
       PROVE  RecordOf(v)'
  <2>1. Target(w) = hs /\ Alive(hs) => hs \in hidden
    BY <1>12 DEF Gone, IInv, WindowInv, RecordOf
  <2> QED BY <2>1, <1>12 DEF Gone, Rewrite, RecordOf, Target, Alive
<1>13. ASSUME NEW w \in Windows, Healthy(w)
       PROVE  RecordOf(v)'
  <2>1. /\ mine[w] # None
        /\ \A x \in Windows : beat[x] # mine[w] /\ (x # w => mine[x] # mine[w])
    BY <1>13 DEF Healthy, IInv, WindowInv, BootOf, Starting
  <2> QED BY <2>1, <1>13 DEF Healthy, RecordOf, Target, Alive
<1>14. ASSUME NEW w \in Windows, Spawn(w)
       PROVE  RecordOf(v)'
  <2>1. \A e \in Engines : life[e] = "unborn" =>
           hs # e /\ \A x \in Windows : mine[x] # e /\ beat[x] # e
    BY DEF IInv, UnbornInv
  <2> QED BY <2>1, <1>14 DEF Spawn, Unborn, RecordOf, Target, Alive
<1>16. ASSUME NEW w \in Windows, NEW counted \in BOOLEAN, StartTurn(w, counted)
       PROVE  RecordOf(v)'
  BY <1>16, RecordKeeps DEF StartTurn, Alive
<1>17. ASSUME NEW w \in Windows, HealthyBare(w)
       PROVE  RecordOf(v)'
  BY <1>17 DEF HealthyBare, RecordOf, Target, Alive
<1>15. CASE UNCHANGED vars
  BY <1>15 DEF vars, RecordOf, Target, Alive
<1> QED BY <1>1, <1>2, <1>3, <1>4, <1>5, <1>6, <1>7, <1>8, <1>9, <1>10, <1>11, <1>12, <1>13,
          <1>14, <1>15, <1>16, <1>17
        DEF Next

LEMMA BootStep == IInv /\ [Next]_vars => \A v \in Windows : BootOf(v)'
<1> SUFFICES ASSUME IInv, [Next]_vars, NEW v \in Windows, Starting(v)'
             PROVE  /\ mine'[v] \notin turn' /\ hs' # mine'[v]
                    /\ \A x \in Windows : beat'[x] # mine'[v]
                                          /\ (x # v => mine'[x] # mine'[v])
  BY DEF BootOf
<1> DEFINE Alone == /\ mine'[v] \notin turn' /\ hs' # mine'[v]
                    /\ \A x \in Windows : beat'[x] # mine'[v]
                                          /\ (x # v => mine'[x] # mine'[v])
<1>0. /\ TypeOK
      /\ \A x \in Windows : StepOf(x) /\ BootOf(x)
      /\ Starting(v) => BootOf(v) /\ mine[v] # None
  BY DEF IInv, WindowInv, StepOf
<1>a. ASSUME Starting(v), UNCHANGED <<hs, mine>>, turn' \subseteq turn,
             \A x \in Windows : beat'[x] \in {beat[x], None}
      PROVE  Alone
  BY <1>a, <1>0 DEF BootOf
<1> USE <1>0 DEF TypeOK, engineVars, windowVars, loopVars, history, Goto, Starting
<1>1. ASSUME NEW w \in Windows,
             Activate(w) \/ Probe(w) \/ Unhealthy(w) \/ Ping(w) \/ HangUp(w) \/ HealthyBare(w)
      PROVE  Alone
  BY <1>1, <1>a DEF Activate, Probe, Unhealthy, Ping, HangUp, HealthyBare
<1>2. ASSUME NEW w \in Windows,
             Check(w) \/ Switch(w) \/ \E then \in {"spawn", "off"} : Command(w, then)
      PROVE  Alone
  BY <1>2, <1>a DEF Check, Switch, Command
<1>3. ASSUME NEW w \in Windows, Reclaim(w) \/ Sweep(w)
      PROVE  Alone
  BY <1>3, <1>a DEF Reclaim, Sweep, Kill
<1>4. ASSUME NEW x \in Engines, Listen(x) \/ EndTurn(x) \/ Crash(x) \/ Stall(x) \/ Unstall(x)
      PROVE  Alone
  BY <1>4, <1>a DEF Listen, EndTurn, Crash, Stall, Unstall, Kill
<1>5. ASSUME NEW x \in Engines, SelfExit(x)
      PROVE  Alone
  BY <1>5 DEF SelfExit, Kill, Rewrite, BootOf
<1>6. ASSUME NEW w \in Windows, NEW counted \in BOOLEAN, StartTurn(w, counted)
      PROVE  Alone
  BY <1>6 DEF StartTurn, Clients, BootOf
<1>7. ASSUME NEW w \in Windows, Erase(w) \/ Gone(w) \/ GoneLate(w)
      PROVE  Alone
  BY <1>7 DEF Erase, Gone, GoneLate, Rewrite, BootOf
<1>8. ASSUME NEW w \in Windows, Close(w) \/ FreePort(w)
      PROVE  Alone
  BY <1>8 DEF Close, FreePort, AfterStop, Kill, BootOf
<1>9. ASSUME NEW w \in Windows, KillMine(w)
      PROVE  Alone
  BY <1>9 DEF KillMine, AfterStop, Kill, BootOf
<1>10. ASSUME NEW w \in Windows, Read(w)
       PROVE  Alone
  BY <1>10 DEF Read, BootOf
<1>11. ASSUME NEW w \in Windows, Wire(w)
       PROVE  Alone
  BY <1>11 DEF Wire, BootOf
<1>12. ASSUME NEW w \in Windows, Healthy(w)
       PROVE  Alone
  BY <1>12 DEF Healthy, BootOf
<1>13. ASSUME NEW w \in Windows, Spawn(w)
       PROVE  Alone
  <2>1. PICK e \in Engines : /\ life[e] = "unborn"
                             /\ mine' = [mine EXCEPT ![w] = e]
    BY <1>13 DEF Spawn, Unborn
  <2>2. /\ hs # e /\ e \notin turn /\ e # None
        /\ \A x \in Windows : mine[x] # e /\ beat[x] # e
    BY <2>1, HandoffAssumption DEF IInv, UnbornInv, TurnInv
  <2>3. /\ UNCHANGED <<hs, turn, beat>> /\ Goto(w, "boot")
        /\ plan' = [plan EXCEPT ![w] = "fail"]
    BY <1>13 DEF Spawn
  <2> QED BY <2>1, <2>2, <2>3 DEF BootOf
<1>14. CASE UNCHANGED vars
  BY <1>14, <1>a DEF vars
<1> QED BY <1>1, <1>2, <1>3, <1>4, <1>5, <1>6, <1>7, <1>8, <1>9, <1>10, <1>11, <1>12, <1>13,
          <1>14
        DEF Next

LEMMA OnlyMineStep == IInv /\ [Next]_vars => \A v \in Windows : OnlyMineOf(v)'
<1> SUFFICES ASSUME IInv, [Next]_vars, NEW v \in Windows, pinned'
             PROVE  /\ pc'[v] \in Serving /\ mine'[v] # None
                          => turn' \subseteq {mine'[v]} \cup Known'
                    /\ pc'[v] = "free" => turn' \subseteq Known'
  BY DEF OnlyMineOf
<1> DEFINE Only == /\ pc'[v] \in Serving /\ mine'[v] # None
                          => turn' \subseteq {mine'[v]} \cup Known'
                   /\ pc'[v] = "free" => turn' \subseteq Known'
<1>0. /\ TypeOK /\ pinned
      /\ StepOf(v) /\ OnlyMineOf(v)
      /\ \A w \in Windows : pc[v] # "closed" /\ pc[w] # "closed" => v = w
  BY DEF IInv, WindowInv, PinnedInv, Next, vars, Activate, Read, Check, Probe, Spawn,
         Unhealthy, Wire, Ping, Close, Reclaim, Sweep, KillMine, FreePort, Erase, Gone,
         GoneLate, HealthyBare, Switch, HangUp, Command, Healthy, Listen, StartTurn, EndTurn, SelfExit, Crash, Stall, Unstall
<1>a. ASSUME turn' \subseteq turn, Known \subseteq Known',
             pc'[v] \in Serving /\ mine'[v] # None =>
                 pc[v] \in Serving /\ mine'[v] = mine[v],
             pc'[v] = "free" => pc[v] = "free"
      PROVE  Only
  BY <1>a, <1>0 DEF OnlyMineOf
<1> USE <1>0 DEF TypeOK, engineVars, windowVars, loopVars, history, Goto, Serving, Known
<1>1. ASSUME NEW w \in Windows,
             \/ Activate(w) \/ Probe(w) \/ Unhealthy(w) \/ Ping(w) \/ Wire(w)
             \/ HangUp(w) \/ HealthyBare(w)
      PROVE  Only
  BY <1>1, <1>a DEF Activate, Probe, Unhealthy, Ping, Wire, HangUp, HealthyBare
<1>2. ASSUME NEW w \in Windows, Reclaim(w) \/ Sweep(w)
      PROVE  Only
  BY <1>2, <1>a DEF Reclaim, Sweep, Kill
<1>3. ASSUME NEW w \in Windows, Close(w) \/ Read(w)
      PROVE  Only
  BY <1>3, <1>a DEF Close, Read
<1>4. ASSUME NEW w \in Windows, Erase(w) \/ Gone(w) \/ GoneLate(w)
      PROVE  Only
  BY <1>4, <1>a DEF Erase, Gone, GoneLate, Rewrite, StepOf
<1>5. ASSUME NEW w \in Windows,
             Switch(w) \/ \E then \in {"spawn", "off"} : Command(w, then)
      PROVE  Only
  BY <1>5, <1>a DEF Switch, Command, StepOf
<1>6. ASSUME NEW x \in Engines, Listen(x) \/ EndTurn(x) \/ Crash(x) \/ Stall(x) \/ Unstall(x)
      PROVE  Only
  BY <1>6, <1>a DEF Listen, EndTurn, Crash, Stall, Unstall, Kill
<1>7. ASSUME NEW x \in Engines, SelfExit(x)
      PROVE  Only
  BY <1>7, <1>a DEF SelfExit, Kill, Rewrite
<1>8. ASSUME NEW w \in Windows, FreePort(w)
      PROVE  Only
  BY <1>8, <1>a DEF FreePort, AfterStop, Kill, StepOf
<1>9. ASSUME NEW w \in Windows, KillMine(w)
      PROVE  Only
  BY <1>9 DEF KillMine, AfterStop, Kill, OnlyMineOf
<1>10. ASSUME NEW w \in Windows, Check(w)
       PROVE  Only
  <2>1. CASE v = w /\ Answers(mine[w])
    <3>1. turn \subseteq {mine[w]}
      BY <2>1, <1>10 DEF Check, Answers, IInv, TurnInv, PinnedInv
    <3>2. UNCHANGED <<turn, mine>> /\ pc'[v] = "early"
      BY <2>1, <1>10 DEF Check
    <3> QED BY <3>1, <3>2, <2>1
  <2>2. CASE ~(v = w /\ Answers(mine[w]))
    BY <2>2, <1>10, <1>a DEF Check
  <2> QED BY <2>1, <2>2
<1>11. ASSUME NEW w \in Windows, Healthy(w)
       PROVE  Only
  BY <1>11, <1>a DEF Healthy
<1>12. ASSUME NEW w \in Windows, Spawn(w)
       PROVE  Only
  <2>1. turn \subseteq {x \in Engines : Alive(x)}
    BY HandoffAssumption DEF IInv, TurnInv, Alive
  <2>2. turn' \subseteq Known'
    BY <2>1, <1>12 DEF Spawn
  <2> QED BY <2>2
<1>13. ASSUME NEW w \in Windows, NEW counted \in BOOLEAN, StartTurn(w, counted)
       PROVE  Only
  BY <1>13 DEF StartTurn, Clients, OnlyMineOf
<1>14. CASE UNCHANGED vars
  BY <1>14, <1>a DEF vars
<1> QED BY <1>1, <1>2, <1>3, <1>4, <1>5, <1>6, <1>7, <1>8, <1>9, <1>10, <1>11, <1>12, <1>13,
          <1>14
        DEF Next

-----------------------------------------------------------------------------
(* What is killed                                                          *)

LEMMA CutStep == IInv /\ [Next]_vars => TurnsSurvive'
<1> SUFFICES ASSUME IInv, [Next]_vars PROVE TurnsSurvive'
  OBVIOUS
<1>0. /\ TypeOK /\ TurnInv /\ cut \subseteq Known
      /\ \A w \in Windows : StepOf(w) /\ RecordOf(w) /\ BootOf(w) /\ OnlyMineOf(w)
  BY DEF IInv, WindowInv, TurnsSurvive, Known
<1>a. ASSUME cut' \subseteq cut \cup Known, Known \subseteq Known'
      PROVE  TurnsSurvive'
  BY <1>a, <1>0 DEF TurnsSurvive, Known
<1> USE <1>0 DEF engineVars, windowVars, loopVars, history
<1>1. ASSUME UNCHANGED cut, hidden \subseteq hidden', deaf \subseteq deaf'
      PROVE  TurnsSurvive'
  BY <1>1, <1>a DEF Known
<1>2. ASSUME NEW K, NEW excused, Kill(K, excused), ~excused => K \cap turn \subseteq Known,
             hidden \subseteq hidden', deaf \subseteq deaf'
      PROVE  TurnsSurvive'
  BY <1>2, <1>a DEF Kill, Known
<1>3. ASSUME NEW w \in Windows, Reclaim(w)
      PROVE  TurnsSurvive'
  <2>1. Holders \cap turn \subseteq Known
    BY <1>3, HandoffAssumption DEF Reclaim, StepOf, TurnInv, Holders
  <2> QED BY <2>1, <1>3, <1>2 DEF Reclaim
<1>4. ASSUME NEW w \in Windows, Sweep(w)
      PROVE  TurnsSurvive'
  <2>1. PICK strays \in SUBSET {e \in Engines : life[e] = "up" /\ e # keep[w]} :
           Kill(strays, FALSE)
    BY <1>4 DEF Sweep
  <2>2. strays \cap turn \subseteq Known
    BY <2>1, <1>4, HandoffAssumption DEF Sweep, Sweeping, RecordOf, TurnInv, Known
  <2>3. UNCHANGED <<hidden, deaf>>
    BY <1>4 DEF Sweep
  <2> QED BY <2>1, <2>2, <2>3, <1>2
<1>5. ASSUME NEW w \in Windows, KillMine(w)
      PROVE  TurnsSurvive'
  <2>1. plan[w] = "fail" => ({mine[w]} \ {None}) \cap turn \subseteq Known
    BY <1>5 DEF KillMine, BootOf, Starting
  <2> QED BY <2>1, <1>5, <1>2 DEF KillMine
<1>6. ASSUME NEW w \in Windows, FreePort(w)
      PROVE  TurnsSurvive'
  <2>1. Holders \cap turn \subseteq Known
    BY <1>6 DEF FreePort, OnlyMineOf, Holders
  <2> QED BY <2>1, <1>6, <1>2 DEF FreePort
<1>7. ASSUME NEW e \in Engines, SelfExit(e) \/ Crash(e)
      PROVE  TurnsSurvive'
  BY <1>7, <1>2 DEF SelfExit, Crash, Rewrite
<1>8. ASSUME NEW w \in Windows,
             \/ Activate(w) \/ Read(w) \/ Check(w) \/ Probe(w) \/ Unhealthy(w)
             \/ Wire(w) \/ Ping(w) \/ Close(w) \/ HangUp(w) \/ Switch(w)
             \/ \E counted \in BOOLEAN : StartTurn(w, counted)
             \/ \E then \in {"spawn", "off"} : Command(w, then)
      PROVE  TurnsSurvive'
  BY <1>1, <1>8 DEF Activate, Read, Check, Probe, Unhealthy, Wire, Ping, Close, HangUp,
                      Switch, StartTurn, Command
<1>9. ASSUME NEW w \in Windows, 
             Erase(w) \/ Gone(w) \/ GoneLate(w) \/ Healthy(w) \/ HealthyBare(w) \/ Spawn(w)
      PROVE  TurnsSurvive'
  BY <1>1, <1>9 DEF Erase, Gone, GoneLate, Healthy, HealthyBare, Spawn, Rewrite
<1>10. ASSUME NEW e \in Engines,
              Listen(e) \/ EndTurn(e) \/ Stall(e) \/ Unstall(e)
       PROVE  TurnsSurvive'
  BY <1>1, <1>10 DEF Listen, EndTurn, Stall, Unstall
<1>11. CASE UNCHANGED vars
  BY <1>1, <1>11 DEF vars
<1> QED BY <1>3, <1>4, <1>5, <1>6, <1>7, <1>8, <1>9, <1>10, <1>11 DEF Next

LEMMA Invariance == Spec => []IInv
<1>1. IInv /\ [Next]_vars => IInv'
  <2> SUFFICES ASSUME IInv, [Next]_vars PROVE IInv'
    OBVIOUS
  <2>1. TypeOK' /\ TurnInv' /\ UnbornInv' /\ PinnedInv' /\ TurnsSurvive'
    BY TypeStep, TurnStep, UnbornStep, PinnedStep, CutStep DEF IInv
  <2>2. WindowInv'
    BY StepOfStep, RecordStep, BootStep, OnlyMineStep DEF WindowInv
  <2> QED BY <2>1, <2>2 DEF IInv
<1> QED BY InitIInv, <1>1, PTL DEF Spec

-----------------------------------------------------------------------------
(* The theorems                                                            *)

(* The sweep, reclaimOrphanPort, freePortIfOurs and a failed start:        *)
(* whatever windows come, reload, restart, switch and go, none of them     *)
(* kills an engine in a turn that the record names and that answers.  What *)
(* the engine's own idle watcher ends is not among this.                   *)
THEOREM NoTurnIsCut == Spec => []TurnsSurvive
<1>1. IInv => TurnsSurvive
  BY DEF IInv
<1> QED BY Invariance, <1>1, PTL

(* considerGone, deleteHandshake: the engine that activation or restart    *)
(* gave a window stays in the record while the window is ready, unless     *)
(* another one's end or start, or a late keepalive, hid it.                *)
THEOREM ServedStaysRecorded == Spec => []ServedIsRecorded
<1>1. IInv => ServedIsRecorded
  <2> SUFFICES ASSUME IInv, NEW w \in Windows, pc[w] = "ready", life[mine[w]] = "up"
               PROVE  mine[w] \in hidden \/ hs = mine[w]
    BY DEF ServedIsRecorded
  <2>1. StepOf(w) /\ RecordOf(w)
    BY DEF IInv, WindowInv
  <2> QED BY <2>1 DEF StepOf, RecordOf, Attached, Alive
<1> QED BY Invariance, <1>1, PTL
=============================================================================
