------------------------ MODULE SessionRunnerProofs ------------------------
(***************************************************************************)
(* For any number of prompts, shells, aborts and runner objects: the type  *)
(* invariant of SessionRunner, NoPromptStranded, SettledIsReleased,        *)
(* AbortSettlesTurn and SingleRunnerEndsIdle.                              *)
(***************************************************************************)
EXTENDS SessionRunner, TLAPS

-----------------------------------------------------------------------------
(* The inductive invariant                                                 *)

RunPhases   == {"forked", "busy", "working", "exited"}
ShellPhases == {"starting", "ready", "exited"}
AbortPhases == {"stop", "flush", "interrupt", "join"}

\* A fiber past its lookup holds a runner.
HoldsRunner ==
    /\ \A f \in Prompts \cup Shells :
           pc[f] \notin {"call", "create"} => of[f] \in Runners
    /\ \A c \in Cancels :
           pc[c] \notin {"call", "create", "idle", "over"} => of[c] \in Runners

\* A queue holds each prompt once, and only prompts that wait on its runner.
QueueOf(r) ==
    /\ \A i \in 1 .. Len(queue[r]) :
           pc[queue[r][i]] = "queued" /\ of[queue[r][i]] = r
    /\ \A i, j \in 1 .. Len(queue[r]) :
           queue[r][i] = queue[r][j] => i = j

QueueInv == \A r \in Runners : QueueOf(r)

\* The fiber a runner's state names is alive and belongs to that runner.
StateOf(r) ==
    /\ state[r].tag = "Idle" => state[r].id = None
    /\ state[r].tag = "Running" =>
          /\ state[r].id \in Prompts
          /\ of[state[r].id] = r
          /\ pc[state[r].id] \in RunPhases
    /\ state[r].tag \in {"Shell", "ShellThenRun"} =>
          /\ state[r].id \in Shells
          /\ of[state[r].id] = r
          /\ pc[state[r].id] \in ShellPhases

StateInv == \A r \in Runners : StateOf(r)

\* The ref is held by the one shell inside onBusy, and the runner is Idle.
LockInv ==
    /\ \A r \in Runners : locked[r] # None => state[r].tag = "Idle"
    /\ \A s \in Shells : pc[s] = "busy" => locked[of[s]] = s

\* Fiber f has left its runner and can never be promoted again.
Released(f) ==
    /\ \A r \in Runners : state[r].id # f
    /\ pc[f] \notin {"call", "create", "held", "queued"}
    /\ f \in Shells => pc[f] # "busy"

\* What an abort captured, and what is interrupted, has left its runner.
AbortInv ==
    /\ \A f \in interrupts : Released(f)
    /\ \A c \in Cancels : pc[c] \in AbortPhases =>
          /\ target[c] \in Prompts \cup Shells
          /\ Released(target[c])
          /\ pc[c] = "stop" => target[c] \in Shells

\* A settled Deferred belongs to a fiber that is over.
DoneInv == \A p \in Prompts : done[p] # "open" => pc[p] = "over"

\* A waiting prompt has a runner that is not Idle, or an abort to flush it.
DrivenInv ==
    \A r \in Runners : queue[r] # <<>> =>
        \/ state[r].tag \in {"Running", "ShellThenRun"}
        \/ \E c \in Cancels : of[c] = r /\ FlushDue(c)

IInv ==
    /\ TypeOK
    /\ HoldsRunner
    /\ QueueInv
    /\ StateInv
    /\ LockInv
    /\ AbortInv
    /\ DoneInv
    /\ DrivenInv

-----------------------------------------------------------------------------
(* Steps that move one fiber and leave the runners alone                   *)

USE FibersAssumption, RunnersAssumption
    DEF Fibers, Runners, vars, runnerVars, statusVars, Tags, Phases

\* What the runners and the aborts hold, the program counter apart.
HeldVars == <<of, state, queue, locked, target>>

\* Fiber f may go to phase l without disturbing any conjunct of IInv.
MayMove(f, l) ==
    /\ pc[f] \notin {"queued", "over"}
    /\ f \in Cancels =>
          /\ l \in AbortPhases => pc[f] \in AbortPhases /\ l # "stop"
          /\ FlushDue(f) => l = "flush" \/ (l = "join" /\ target[f] \in Shells)
    /\ f \in Shells => l # "busy"
    /\ l \in {"call", "create", "held", "queued"} => pc[f] = "call" /\ l = "create"
    /\ l \in {"create", "idle", "over"} \/ of[f] \in Runners
    /\ f \in Prompts \cup Shells /\ l # "create" => of[f] \in Runners
    /\ \A r \in Runners : state[r].id = f =>
          /\ state[r].tag = "Running" => l \in RunPhases
          /\ state[r].tag \in {"Shell", "ShellThenRun"} => l \in ShellPhases

\* An abort that is still to flush is not disturbed by another fiber's step.
LEMMA FlushDueKept ==
    ASSUME NEW c \in Cancels, FlushDue(c), pc'[c] = pc[c], target'[c] = target[c]
    PROVE  FlushDue(c)'
  BY DEF FlushDue

\* No runner's state names an abort.
LEMMA AbortHoldsNoRunner ==
    ASSUME TypeOK, NEW c \in Cancels, NEW r \in Runners
    PROVE  state[r].id # c
<1>1. state[r].id \in Prompts \cup Shells \cup {None}
  BY DEF TypeOK
<1>2. QED
  BY <1>1

\* The types of the status writes.
LEMMA StampType ==
    ASSUME TypeOK, NEW f \in Fibers, NEW gen \in 0 .. MaxRunners, StampStatus(f, gen)
    PROVE  /\ ledger' \in [seq : Nat, generation : 0 .. MaxRunners]
           /\ stamp' \in [Fibers -> Nat]
  BY DEF TypeOK, StampStatus

\* The types of a published status.
LEMMA PublishType ==
    ASSUME TypeOK, NEW f \in Fibers, NEW type \in {"busy", "idle"},
           PublishStatus(f, type)
    PROVE  /\ ledger' \in [seq : Nat, generation : 0 .. MaxRunners]
           /\ stamp' \in [Fibers -> Nat]
           /\ status' \in {"busy", "idle"}
           /\ view' \in [seq : Nat, type : {"busy", "idle"}]
  BY DEF TypeOK, PublishStatus

\* A single move keeps the whole invariant.
LEMMA MoveStep ==
    ASSUME IInv, TypeOK', NEW f \in Fibers, NEW l \in Phases,
           MayMove(f, l), Goto(f, l), UNCHANGED HeldVars,
           \A p \in Prompts : done'[p] = done[p] \/ pc'[p] = "over",
           \A g \in interrupts' : Released(g)
    PROVE  IInv'
<1> USE DEF HeldVars
<1>0. \A g \in Fibers : pc'[g] = IF g = f THEN l ELSE pc[g]
  BY DEF IInv, TypeOK, Goto
<1>1. HoldsRunner'
  <2>1. \A g \in Prompts \cup Shells :
            pc'[g] \notin {"call", "create"} => of[g] \in Runners
    BY <1>0 DEF IInv, HoldsRunner, MayMove
  <2>2. \A c \in Cancels :
            pc'[c] \notin {"call", "create", "idle", "over"} => of[c] \in Runners
    BY <1>0 DEF IInv, HoldsRunner, MayMove
  <2>3. QED
    BY <2>1, <2>2 DEF HoldsRunner
<1>2. QueueInv'
  <2>1. \A r \in Runners : \A i \in 1 .. Len(queue[r]) : queue[r][i] \in Prompts
    BY DEF IInv, TypeOK
  <2>2. QED
    BY <1>0, <2>1 DEF IInv, QueueInv, QueueOf, MayMove
<1>3. StateInv'
  BY <1>0 DEF IInv, StateInv, StateOf, MayMove
<1>4. LockInv'
  BY <1>0 DEF IInv, LockInv, MayMove
<1>5. AbortInv'
  <2>1. interrupts' \in SUBSET (Prompts \cup Shells)
    BY DEF TypeOK
  <2>2. \A g \in Prompts \cup Shells : Released(g) => Released(g)'
    BY <1>0 DEF Released, MayMove
  <2>3. \A c \in Cancels : pc'[c] \in AbortPhases =>
            pc[c] \in AbortPhases /\ (pc'[c] = "stop" => pc[c] = "stop")
    BY <1>0 DEF MayMove
  <2>4. QED
    BY <2>1, <2>2, <2>3 DEF IInv, AbortInv
<1>6. DoneInv'
  BY <1>0 DEF IInv, DoneInv, MayMove
<1>7. DrivenInv'
  <2> SUFFICES ASSUME NEW r \in Runners, queue[r] # <<>>,
                      state[r].tag \notin {"Running", "ShellThenRun"}
               PROVE  \E c \in Cancels : of[c] = r /\ FlushDue(c)'
    BY DEF DrivenInv
  <2>1. PICK c \in Cancels : of[c] = r /\ FlushDue(c)
    BY DEF IInv, DrivenInv
  <2>2. CASE c = f
    BY <1>0, <2>1, <2>2 DEF MayMove, FlushDue
  <2>3. CASE c # f
    BY <1>0, <2>1, <2>3, FlushDueKept
  <2>4. QED
    BY <2>1, <2>2, <2>3
<1>8. QED
  BY <1>1, <1>2, <1>3, <1>4, <1>5, <1>6, <1>7 DEF IInv

\* onIdle's deletion of the map entry.
LEMMA OnIdleStep ==
    ASSUME IInv, NEW f \in Fibers, OnIdle(f)
    PROVE  IInv'
<1>1. TypeOK'
  BY DEF IInv, TypeOK, OnIdle, Goto
<1>2. MayMove(f, "unregister")
  BY DEF IInv, MayMove, OnIdle, HoldsRunner, StateInv, StateOf, AbortPhases, FlushDue,
       RunPhases, ShellPhases
<1>3. QED
  BY <1>1, <1>2, MoveStep DEF IInv, AbortInv, OnIdle, HeldVars

\* onIdle's idle, published or dropped.
LEMMA SetIdleStep ==
    ASSUME IInv, NEW f \in Fibers, SetIdle(f)
    PROVE  IInv'
<1>1. of[f] \in Runners
  BY DEF IInv, HoldsRunner, SetIdle
<1>2. MayMove(f, "idle") /\ MayMove(f, AfterIdle(f))
  BY <1>1 DEF IInv, MayMove, SetIdle, HoldsRunner, StateInv, StateOf, AbortPhases,
       FlushDue, RunPhases, ShellPhases, AfterIdle
<1>3. CASE of[f] < ledger.generation
  <2>1. Goto(f, AfterIdle(f)) /\ UNCHANGED statusVars
    BY <1>1, <1>3 DEF IInv, TypeOK, SetIdle
  <2>2. TypeOK'
    BY <2>1 DEF IInv, TypeOK, SetIdle, Goto, AfterIdle
  <2>3. QED
    BY <1>2, <2>1, <2>2, MoveStep DEF IInv, AbortInv, SetIdle, HeldVars,
         AfterIdle
<1>4. CASE of[f] >= ledger.generation
  <2>1. Goto(f, "idle") /\ StampStatus(f, of[f]) /\ UNCHANGED <<status, view>>
    BY <1>1, <1>4 DEF IInv, TypeOK, SetIdle
  <2>2. TypeOK'
    BY <1>1, <2>1 DEF IInv, TypeOK, SetIdle, Goto, StampStatus
  <2>3. QED
    BY <1>2, <2>1, <2>2, MoveStep DEF IInv, AbortInv, SetIdle, HeldVars
<1>5. QED
  BY <1>1, <1>3, <1>4 DEF SetIdle

\* The publication of an idle.
LEMMA IdlePublishedStep ==
    ASSUME IInv, NEW f \in Fibers, IdlePublished(f)
    PROVE  IInv'
<1>1. TypeOK'
  BY DEF IInv, TypeOK, IdlePublished, Goto, PublishStatus, AfterIdle
<1>2. MayMove(f, AfterIdle(f))
  BY DEF IInv, MayMove, IdlePublished, HoldsRunner, StateInv, StateOf, AbortPhases,
       FlushDue, RunPhases, ShellPhases, AfterIdle
<1>3. QED
  BY <1>1, <1>2, MoveStep DEF IInv, AbortInv, IdlePublished, HeldVars, AfterIdle

\* The run loop's busy.
LEMMA RunLoopBusyStep ==
    ASSUME IInv, NEW p \in Prompts, RunLoopBusy(p)
    PROVE  IInv'
<1>0. /\ ledger' \in [seq : Nat, generation : 0 .. MaxRunners]
      /\ stamp' \in [Fibers -> Nat]
  BY StampType, 0 \in 0 .. MaxRunners DEF IInv, RunLoopBusy
<1>1. TypeOK'
  BY <1>0 DEF IInv, TypeOK, RunLoopBusy, Goto
<1>2. MayMove(p, "busy")
  BY DEF IInv, TypeOK, MayMove, RunLoopBusy, HoldsRunner, StateInv, StateOf,
       AbortPhases, FlushDue, RunPhases, ShellPhases
<1>3. QED
  BY <1>1, <1>2, MoveStep DEF IInv, AbortInv, RunLoopBusy, HeldVars

\* The publication of the run loop's busy.
LEMMA RunLoopBusyPublishedStep ==
    ASSUME IInv, NEW p \in Prompts, RunLoopBusyPublished(p)
    PROVE  IInv'
<1>1. TypeOK'
  BY PublishType DEF IInv, TypeOK, RunLoopBusyPublished, Goto
<1>2. MayMove(p, "working")
  BY DEF IInv, TypeOK, MayMove, RunLoopBusyPublished, HoldsRunner, StateInv, StateOf,
       AbortPhases, FlushDue, RunPhases, ShellPhases
<1>3. QED
  BY <1>1, <1>2, MoveStep DEF IInv, AbortInv, RunLoopBusyPublished, HeldVars

\* A turn that ends by itself.
LEMMA WorkEndsStep ==
    ASSUME IInv, NEW p \in Prompts, WorkEnds(p)
    PROVE  IInv'
<1>1. TypeOK'
  BY DEF IInv, TypeOK, WorkEnds, Goto
<1>2. MayMove(p, "exited")
  BY DEF IInv, TypeOK, MayMove, WorkEnds, HoldsRunner, StateInv, StateOf, AbortPhases,
       FlushDue, RunPhases, ShellPhases
<1>3. QED
  BY <1>1, <1>2, MoveStep DEF IInv, AbortInv, WorkEnds, HeldVars

\* A turn that an abort ends.
LEMMA WorkInterruptedStep ==
    ASSUME IInv, NEW p \in Prompts, WorkInterrupted(p)
    PROVE  IInv'
<1>1. TypeOK'
  BY DEF IInv, TypeOK, WorkInterrupted, Goto
<1>2. MayMove(p, "exited")
  BY DEF IInv, TypeOK, MayMove, WorkInterrupted, HoldsRunner, StateInv, StateOf,
       AbortPhases, FlushDue, RunPhases, ShellPhases
<1>3. QED
  BY <1>1, <1>2, MoveStep DEF IInv, AbortInv, WorkInterrupted, HeldVars

\* A run interrupted before its first step: its runner has let go of it.
LEMMA NeverStartedStep ==
    ASSUME IInv, NEW p \in Prompts, NeverStarted(p)
    PROVE  IInv'
<1>1. TypeOK'
  BY DEF IInv, TypeOK, NeverStarted, Goto
<1>2. MayMove(p, "over")
  BY DEF IInv, TypeOK, MayMove, NeverStarted, HoldsRunner, StateInv, StateOf,
       AbortPhases, FlushDue, RunPhases, ShellPhases, AbortInv, Released
<1>3. QED
  BY <1>1, <1>2, MoveStep DEF IInv, AbortInv, NeverStarted, HeldVars

\* A shell opens its latch.
LEMMA ShellReadyStep ==
    ASSUME IInv, NEW s \in Shells, ShellReady(s)
    PROVE  IInv'
<1>1. TypeOK'
  BY DEF IInv, TypeOK, ShellReady, Goto
<1>2. MayMove(s, "ready")
  BY DEF IInv, TypeOK, MayMove, ShellReady, HoldsRunner, StateInv, StateOf,
       AbortPhases, FlushDue, RunPhases, ShellPhases
<1>3. QED
  BY <1>1, <1>2, MoveStep DEF IInv, AbortInv, ShellReady, HeldVars

\* A shell's command ends.
LEMMA ShellEndsStep ==
    ASSUME IInv, NEW s \in Shells, ShellEnds(s)
    PROVE  IInv'
<1>1. TypeOK'
  BY DEF IInv, TypeOK, ShellEnds, Goto
<1>2. MayMove(s, "exited")
  BY DEF IInv, TypeOK, MayMove, ShellEnds, HoldsRunner, StateInv, StateOf, AbortPhases,
       FlushDue, RunPhases, ShellPhases
<1>3. QED
  BY <1>1, <1>2, MoveStep DEF IInv, AbortInv, ShellEnds, HeldVars

\* idleIfCurrent after an abort.
LEMMA IdleIfCurrentStep ==
    ASSUME IInv, NEW c \in Cancels, IdleIfCurrent(c)
    PROVE  IInv'
<1>1. PICK l \in {"onIdle", "over"} : Goto(c, l)
  BY DEF IdleIfCurrent
<1>2. TypeOK'
  BY <1>1 DEF IInv, TypeOK, IdleIfCurrent, Goto
<1>3. of[c] \in Runners
  BY DEF IInv, IdleIfCurrent, HoldsRunner
<1>4. MayMove(c, l)
  BY <1>3, AbortHoldsNoRunner DEF IInv, MayMove, IdleIfCurrent, AbortPhases,
       FlushDue
<1>5. QED
  BY <1>1, <1>2, <1>4, MoveStep DEF IInv, AbortInv, IdleIfCurrent, HeldVars
\* A run settles its caller's Deferred.
LEMMA CompleteStep ==
    ASSUME IInv, NEW p \in Prompts, Complete(p)
    PROVE  IInv'
<1>1. TypeOK'
  BY DEF IInv, TypeOK, Complete, Settle, Goto
<1>2. MayMove(p, "over")
  BY DEF IInv, MayMove, Complete, HoldsRunner, StateInv, StateOf, RunPhases, ShellPhases
<1>3. \A q \in Prompts : done'[q] = done[q] \/ pc'[q] = "over"
  BY DEF IInv, TypeOK, Complete, Settle, Goto
<1>4. QED
  BY <1>1, <1>2, <1>3, MoveStep DEF IInv, AbortInv, Complete, HeldVars

-----------------------------------------------------------------------------
(* Aborts that have taken effect                                           *)

\* An abort in phase l of AbortPhases holds a runner and a released target.
LEMMA AbortHolds ==
    ASSUME IInv, NEW c \in Cancels, pc[c] \in AbortPhases
    PROVE  /\ of[c] \in Runners
           /\ target[c] \in Prompts \cup Shells
           /\ Released(target[c])
           /\ \A r \in Runners : state[r].id # c
  BY AbortHoldsNoRunner DEF IInv, HoldsRunner, AbortInv, AbortPhases

\* An abort signals the fiber it captured.
LEMMA InterruptStep ==
    ASSUME IInv, NEW c \in Cancels, StopShell(c) \/ InterruptRun(c)
    PROVE  IInv'
<1>0. pc[c] \in {"stop", "interrupt"}
  BY DEF StopShell, InterruptRun
<1>1. /\ Goto(c, "join")
      /\ interrupts' = interrupts \cup {target[c]}
      /\ UNCHANGED HeldVars
      /\ UNCHANGED <<runners, turns, done, exit, cut, statusVars>>
  BY DEF StopShell, InterruptRun, HeldVars
<1>2. /\ of[c] \in Runners
      /\ target[c] \in Prompts \cup Shells
      /\ Released(target[c])
      /\ \A r \in Runners : state[r].id # c
  BY <1>0, AbortHolds DEF AbortPhases
<1>3. TypeOK'
  BY <1>1, <1>2 DEF IInv, TypeOK, Goto, HeldVars
<1>4. MayMove(c, "join")
  BY <1>0, <1>2 DEF IInv, AbortInv, MayMove, FlushDue, AbortPhases
<1>5. \A g \in interrupts' : Released(g)
  BY <1>1, <1>2 DEF IInv, AbortInv
<1>6. QED
  BY <1>1, <1>3, <1>4, <1>5, MoveStep

\* An abort joins the fiber it captured.
LEMMA JoinedStep ==
    ASSUME IInv, NEW c \in Cancels, Joined(c)
    PROVE  IInv'
<1>1. /\ of[c] \in Runners
      /\ target[c] \in Prompts \cup Shells
      /\ Released(target[c])
      /\ \A r \in Runners : state[r].id # c
  BY AbortHolds DEF AbortPhases, Joined
<1>2. CASE target[c] \in Prompts
  <2>1. Settle(target[c], "Cancelled") /\ Goto(c, "recheck")
    BY <1>2 DEF Joined
  <2>2. TypeOK'
    BY <2>1 DEF IInv, TypeOK, Joined, Settle, Goto
  <2>3. MayMove(c, "recheck")
    BY <1>1, <1>2 DEF MayMove, FlushDue, AbortPhases, Joined
  <2>4. \A q \in Prompts : done'[q] = done[q] \/ pc'[q] = "over"
    BY <1>2, <2>1 DEF IInv, TypeOK, Joined, Settle, Goto
  <2>5. QED
    BY <2>1, <2>2, <2>3, <2>4, MoveStep DEF IInv, AbortInv, Joined, HeldVars
<1>3. CASE target[c] \in Shells
  <2>1. Goto(c, "flush") /\ UNCHANGED done
    BY <1>3 DEF Joined
  <2>2. TypeOK'
    BY <2>1 DEF IInv, TypeOK, Joined, Goto
  <2>3. MayMove(c, "flush")
    BY <1>1, <1>3 DEF MayMove, FlushDue, AbortPhases, Joined
  <2>4. QED
    BY <2>1, <2>2, <2>3, MoveStep DEF IInv, AbortInv, Joined, HeldVars
<1>4. QED
  BY <1>1, <1>2, <1>3

-----------------------------------------------------------------------------
(* Obtaining a runner                                                      *)

\* A fiber that has no runner yet obtains runner r.
LEMMA ObtainStep ==
    ASSUME IInv, TypeOK', NEW f \in Fibers, NEW r \in Runners,
           pc[f] \in {"call", "create"},
           of' = [of EXCEPT ![f] = r], Goto(f, "held"),
           UNCHANGED <<state, queue, locked, done, interrupts, target>>
    PROVE  IInv'
<1>0. /\ \A g \in Fibers : g # f => pc'[g] = pc[g] /\ of'[g] = of[g]
      /\ pc'[f] = "held" /\ of'[f] = r
  BY DEF IInv, TypeOK, Goto
<1>1. HoldsRunner'
  BY <1>0 DEF IInv, HoldsRunner
<1>2. QueueInv'
  <2>1. \A x \in Runners : \A i \in 1 .. Len(queue[x]) : queue[x][i] \in Prompts
    BY DEF IInv, TypeOK
  <2>2. QED
    BY <1>0, <2>1 DEF IInv, QueueInv, QueueOf
<1>3. StateInv'
  BY <1>0 DEF IInv, StateInv, StateOf, RunPhases, ShellPhases
<1>4. LockInv'
  BY <1>0 DEF IInv, LockInv
<1>5. AbortInv'
  <2>1. interrupts \in SUBSET (Prompts \cup Shells)
    BY DEF IInv, TypeOK
  <2>2. \A g \in Prompts \cup Shells : Released(g) => Released(g)'
    BY <1>0 DEF Released
  <2>3. \A c \in Cancels : pc'[c] \in AbortPhases => pc'[c] = pc[c]
    BY <1>0 DEF AbortPhases
  <2>4. QED
    BY <2>1, <2>2, <2>3 DEF IInv, AbortInv
<1>6. DoneInv'
  BY <1>0 DEF IInv, DoneInv
<1>7. DrivenInv'
  <2> SUFFICES ASSUME NEW x \in Runners, queue[x] # <<>>,
                      state[x].tag \notin {"Running", "ShellThenRun"}
               PROVE  \E c \in Cancels : of'[c] = x /\ FlushDue(c)'
    BY DEF DrivenInv
  <2>1. PICK c \in Cancels : of[c] = x /\ FlushDue(c)
    BY DEF IInv, DrivenInv
  <2>2. c # f
    BY <2>1 DEF FlushDue
  <2>3. QED
    BY <1>0, <2>1, <2>2, FlushDueKept
<1>8. QED
  BY <1>1, <1>2, <1>3, <1>4, <1>5, <1>6, <1>7 DEF IInv

\* runner() reads the map.
LEMMA LookupRunnerStep ==
    ASSUME IInv, NEW f \in Prompts \cup Shells, LookupRunner(f)
    PROVE  IInv'
<1>1. CASE runners # None
  <2>1. of' = [of EXCEPT ![f] = runners] /\ Goto(f, "held") /\ runners \in Runners
    BY <1>1 DEF LookupRunner, IInv, TypeOK
  <2>2. TypeOK'
    BY <2>1 DEF IInv, TypeOK, LookupRunner, Goto
  <2>3. QED
    BY <2>1, <2>2, ObtainStep DEF LookupRunner
<1>2. CASE runners = None
  <2>1. Goto(f, "create") /\ UNCHANGED of
    BY <1>2 DEF LookupRunner
  <2>2. TypeOK'
    BY <2>1 DEF IInv, TypeOK, LookupRunner, Goto
  <2>3. MayMove(f, "create")
    BY DEF IInv, MayMove, LookupRunner, StateInv, StateOf, RunPhases, ShellPhases
  <2>4. QED
    BY <2>1, <2>2, <2>3, MoveStep DEF IInv, AbortInv, LookupRunner, HeldVars
<1>3. QED
  BY <1>1, <1>2

\* runner() makes a runner.
LEMMA CreateRunnerStep ==
    ASSUME IInv, NEW f \in Prompts \cup Shells, CreateRunner(f)
    PROVE  IInv'
<1>1. turns + 1 \in Runners
  BY DEF IInv, TypeOK, CreateRunner
<1>2. TypeOK'
  <2>1. /\ turns' \in 0 .. MaxRunners
        /\ runners' \in Runners \cup {None}
        /\ of' \in [Fibers -> Runners \cup {None}]
        /\ pc' \in [Fibers -> Phases]
    BY <1>1 DEF IInv, TypeOK, CreateRunner, Goto
  <2>2. QED
    BY <2>1 DEF IInv, TypeOK, CreateRunner
<1>3. QED
  BY <1>1, <1>2, ObtainStep DEF CreateRunner

\* cancel() reads the map.
LEMMA LookupCancelStep ==
    ASSUME IInv, NEW c \in Cancels, LookupCancel(c)
    PROVE  IInv'
<1>1. CASE runners # None
  <2>1. /\ of' = [of EXCEPT ![c] = runners] /\ Goto(c, "held")
        /\ runners \in Runners /\ UNCHANGED statusVars
    BY <1>1 DEF LookupCancel, IInv, TypeOK
  <2>2. TypeOK'
    BY <2>1 DEF IInv, TypeOK, LookupCancel, Goto
  <2>3. QED
    BY <2>1, <2>2, ObtainStep DEF LookupCancel
<1>2. CASE runners = None /\ status = "busy"
  <2>1. Goto(c, "over") /\ UNCHANGED <<of, statusVars>>
    BY <1>2 DEF LookupCancel
  <2>2. TypeOK'
    BY <2>1 DEF IInv, TypeOK, LookupCancel, Goto
  <2>3. MayMove(c, "over")
    BY AbortHoldsNoRunner DEF IInv, MayMove, LookupCancel, FlushDue, AbortPhases
  <2>4. QED
    BY <2>1, <2>2, <2>3, MoveStep DEF IInv, AbortInv, LookupCancel, HeldVars
<1>3. CASE runners = None /\ status # "busy"
  <2>1. Goto(c, "idle") /\ StampStatus(c, 0) /\ UNCHANGED <<of, status, view>>
    BY <1>3 DEF LookupCancel
  <2>2. /\ ledger' \in [seq : Nat, generation : 0 .. MaxRunners]
        /\ stamp' \in [Fibers -> Nat]
    BY <2>1, StampType, 0 \in 0 .. MaxRunners DEF IInv
  <2>3. TypeOK'
    BY <2>1, <2>2 DEF IInv, TypeOK, LookupCancel, Goto
  <2>4. MayMove(c, "idle")
    BY AbortHoldsNoRunner DEF IInv, MayMove, LookupCancel, FlushDue, AbortPhases
  <2>5. QED
    BY <2>1, <2>3, <2>4, MoveStep DEF IInv, AbortInv, LookupCancel, HeldVars
<1>4. QED
  BY <1>1, <1>2, <1>3
-----------------------------------------------------------------------------
(* Transitions of a runner's ref                                           *)

\* The elements of a queue are prompts.
LEMMA QueuedPrompts ==
    ASSUME TypeOK, NEW r \in Runners
    PROVE  /\ queue[r] \in Seq(Prompts)
           /\ \A i \in 1 .. Len(queue[r]) : queue[r][i] \in Prompts
  BY DEF TypeOK

\* The elements of a queue after an append.
LEMMA AppendElements ==
    ASSUME NEW q \in Seq(Prompts), NEW p \in Prompts
    PROVE  /\ \A i \in 1 .. Len(Append(q, p)) : i \in 1 .. Len(q) \/ i = Len(q) + 1
           /\ \A i \in 1 .. Len(q) : Append(q, p)[i] = q[i]
           /\ Append(q, p)[Len(q) + 1] = p
<1>1. Len(q) \in Nat /\ Len(Append(q, p)) = Len(q) + 1
  OBVIOUS
<1>2. \A i \in 1 .. Len(Append(q, p)) : i \in 1 .. Len(q) \/ i = Len(q) + 1
  BY <1>1
<1>3. \A i \in 1 .. Len(q) : Append(q, p)[i] = q[i]
  BY <1>1
<1>4. Append(q, p)[Len(q) + 1] = p
  BY <1>1
<1>5. QED
  BY <1>2, <1>3, <1>4

\* A queue that is not changed keeps its prompts waiting on its runner.
LEMMA QueueKept ==
    ASSUME IInv, NEW r \in Runners, queue'[r] = queue[r], UNCHANGED of,
           \A p \in Prompts : pc[p] = "queued" /\ of[p] = r => pc'[p] = "queued"
    PROVE  QueueOf(r)'
<1>1. \A i \in 1 .. Len(queue[r]) : queue[r][i] \in Prompts
  BY QueuedPrompts DEF IInv
<1>2. QED
  BY <1>1 DEF IInv, QueueInv, QueueOf

\* The queue of a runner that is not changed stays driven.
LEMMA DrivenKept ==
    ASSUME IInv, NEW r \in Runners,
           queue'[r] # <<>>, queue'[r] = queue[r], state'[r] = state[r],
           UNCHANGED of,
           \A c \in Cancels : of[c] = r /\ FlushDue(c) =>
                                 pc'[c] = pc[c] /\ target'[c] = target[c]
    PROVE  \/ state'[r].tag \in {"Running", "ShellThenRun"}
           \/ \E c \in Cancels : of'[c] = r /\ FlushDue(c)'
<1>1. CASE state[r].tag \in {"Running", "ShellThenRun"}
  BY <1>1
<1>2. CASE state[r].tag \notin {"Running", "ShellThenRun"}
  <2>1. PICK c \in Cancels : of[c] = r /\ FlushDue(c)
    BY <1>2 DEF IInv, DrivenInv
  <2>2. QED
    BY <2>1, FlushDueKept
<1>3. QED
  BY <1>1, <1>2

\* A step of runner r alone: the fibers that other runners name do not move.
LEMMA StateExcept ==
    ASSUME IInv, NEW r \in Runners, UNCHANGED of, StateOf(r)',
           \A x \in Runners : x # r => state'[x] = state[x],
           \A g \in Prompts \cup Shells :
               of[g] # r /\ pc[g] \in RunPhases \cup ShellPhases => pc'[g] = pc[g]
    PROVE  StateInv'
<1>1. ASSUME NEW x \in Runners, x # r
      PROVE  StateOf(x)'
  <2>1. StateOf(x) /\ state'[x] = state[x]
    BY <1>1 DEF IInv, StateInv
  <2>2. CASE state[x].tag = "Running"
    <3>1. pc'[state[x].id] = pc[state[x].id]
      BY <1>1, <2>1, <2>2 DEF StateOf
    <3>2. QED
      BY <2>1, <2>2, <3>1 DEF StateOf
  <2>3. CASE state[x].tag \in {"Shell", "ShellThenRun"}
    <3>1. pc'[state[x].id] = pc[state[x].id]
      BY <1>1, <2>1, <2>3 DEF StateOf
    <3>2. QED
      BY <2>1, <2>3, <3>1 DEF StateOf
  <2>4. CASE state[x].tag \notin {"Running", "Shell", "ShellThenRun"}
    BY <2>1, <2>4 DEF StateOf
  <2>5. QED
    BY <2>2, <2>3, <2>4
<1>2. QED
  BY <1>1 DEF StateInv

\* A step of runner r alone: its queue, if any, must be driven afterwards.
LEMMA DrivenExcept ==
    ASSUME IInv, NEW r \in Runners, UNCHANGED of,
           \A x \in Runners : x # r => queue'[x] = queue[x] /\ state'[x] = state[x],
           \A c \in Cancels : of[c] # r /\ FlushDue(c) =>
                                 pc'[c] = pc[c] /\ target'[c] = target[c],
           queue'[r] # <<>> =>
              \/ state'[r].tag \in {"Running", "ShellThenRun"}
              \/ \E c \in Cancels : of'[c] = r /\ FlushDue(c)'
    PROVE  DrivenInv'
<1>1. ASSUME NEW x \in Runners, x # r, queue'[x] # <<>>
      PROVE  \/ state'[x].tag \in {"Running", "ShellThenRun"}
             \/ \E c \in Cancels : of'[c] = x /\ FlushDue(c)'
  <2>1. \A c \in Cancels : of[c] = x /\ FlushDue(c) =>
                              pc'[c] = pc[c] /\ target'[c] = target[c]
    BY <1>1
  <2>2. queue'[x] = queue[x] /\ state'[x] = state[x]
    BY <1>1
  <2>3. QED
    BY <1>1, <2>1, <2>2, DrivenKept
<1>2. QED
  BY <1>1 DEF DrivenInv

\* Released fibers stay released, so what the aborts hold stays valid.
LEMMA AbortKept ==
    ASSUME IInv, UNCHANGED <<interrupts, target>>,
           \A c \in Cancels : pc'[c] \in AbortPhases => pc'[c] = pc[c],
           \A g \in Prompts \cup Shells : Released(g) => Released(g)'
    PROVE  AbortInv'
<1>1. interrupts \in SUBSET (Prompts \cup Shells)
  BY DEF IInv, TypeOK
<1>2. QED
  BY <1>1 DEF IInv, AbortInv

\* ensureRunning: start the run on an idle runner, else join its queue.
LEMMA EnsureRunningStep ==
    ASSUME IInv, NEW p \in Prompts, EnsureRunning(p)
    PROVE  IInv'
<1>a. PICK r \in Runners :
      /\ r = of[p] /\ pc[p] = "held" /\ locked[r] = None
      /\ UNCHANGED <<runners, turns, of, locked, done, exit, interrupts, target,
                     cut, statusVars>>
  BY DEF IInv, HoldsRunner, EnsureRunning, RefFree
<1>b. ASSUME NEW l \in Phases, Goto(p, l)
      PROVE  /\ \A g \in Fibers : g # p => pc'[g] = pc[g]
             /\ pc'[p] = l
             /\ pc' \in [Fibers -> Phases]
  BY <1>b DEF IInv, TypeOK, Goto
<1>c. \A c \in Cancels : c # p
  OBVIOUS
<1>1. CASE state[r].tag = "Idle"
  <2>1. StartRun(r, p) /\ Goto(p, "forked") /\ UNCHANGED queue
    BY <1>a, <1>1 DEF EnsureRunning
  <2>2. /\ state'[r] = [tag |-> "Running", id |-> p]
        /\ \A x \in Runners : x # r => state'[x] = state[x]
        /\ state' \in [Runners -> [tag : Tags, id : Prompts \cup Shells \cup {None}]]
    BY <1>a, <2>1 DEF IInv, TypeOK, StartRun
  <2>3. /\ \A g \in Fibers : g # p => pc'[g] = pc[g]
        /\ pc'[p] = "forked"
        /\ pc' \in [Fibers -> Phases]
    BY <1>b, <2>1
  <2>4. TypeOK'
    BY <1>a, <2>1, <2>2, <2>3 DEF IInv, TypeOK
  <2>5. HoldsRunner'
    BY <1>a, <2>3 DEF IInv, HoldsRunner
  <2>6. QueueInv'
    <3>1. \A q \in Prompts : pc[q] = "queued" => pc'[q] = "queued"
      BY <1>a, <2>3
    <3>2. QED
      BY <1>a, <2>1, <3>1, QueueKept DEF QueueInv
  <2>7. StateInv'
    <3>1. StateOf(r)'
      BY <1>a, <2>2, <2>3 DEF StateOf, RunPhases
    <3>2. \A g \in Prompts \cup Shells : of[g] # r => pc'[g] = pc[g]
      BY <1>a, <2>3
    <3>3. QED
      BY <1>a, <2>2, <3>1, <3>2, StateExcept
  <2>8. LockInv'
    BY <1>a, <2>2, <2>3 DEF IInv, LockInv
  <2>9. AbortInv'
    <3>1. \A g \in Prompts \cup Shells : Released(g) => Released(g)'
      BY <1>a, <2>2, <2>3 DEF Released
    <3>2. \A c \in Cancels : pc'[c] = pc[c]
      BY <1>c, <2>3
    <3>3. QED
      BY <1>a, <3>1, <3>2, AbortKept
  <2>10. DoneInv'
    BY <1>a, <2>3 DEF IInv, DoneInv
  <2>11. DrivenInv'
    BY <1>a, <1>c, <2>1, <2>2, <2>3, DrivenExcept
  <2>12. QED
    BY <2>4, <2>5, <2>6, <2>7, <2>8, <2>9, <2>10, <2>11 DEF IInv
<1>2. CASE state[r].tag # "Idle"
  <2>1. /\ queue' = [queue EXCEPT ![r] = Append(@, p)]
        /\ state' = [state EXCEPT ![r].tag =
                        IF @ = "Shell" THEN "ShellThenRun" ELSE @]
        /\ Goto(p, "queued")
    BY <1>a, <1>2 DEF EnsureRunning
  <2>2. /\ state'[r].id = state[r].id
        /\ state'[r].tag = IF state[r].tag = "Shell" THEN "ShellThenRun"
                                                     ELSE state[r].tag
        /\ \A x \in Runners : x # r => state'[x] = state[x]
        /\ state' \in [Runners -> [tag : Tags, id : Prompts \cup Shells \cup {None}]]
    <3>1. /\ state \in [Runners -> [tag : Tags, id : Prompts \cup Shells \cup {None}]]
          /\ state[r] \in [tag : Tags, id : Prompts \cup Shells \cup {None}]
      BY <1>a DEF IInv, TypeOK
    <3>2. state' = [state EXCEPT ![r] = [state[r] EXCEPT !.tag =
                        IF @ = "Shell" THEN "ShellThenRun" ELSE @]]
      BY <1>a, <2>1, <3>1
    <3>3. [state[r] EXCEPT !.tag = IF @ = "Shell" THEN "ShellThenRun" ELSE @]
             \in [tag : Tags, id : Prompts \cup Shells \cup {None}]
      BY <3>1
    <3>4. QED
      BY <1>a, <3>1, <3>2, <3>3
  <2>3. /\ \A g \in Fibers : g # p => pc'[g] = pc[g]
        /\ pc'[p] = "queued"
        /\ pc' \in [Fibers -> Phases]
    BY <1>b, <2>1
  <2>4. /\ queue'[r] = Append(queue[r], p)
        /\ \A x \in Runners : x # r => queue'[x] = queue[x]
        /\ queue' \in [Runners -> Seq(Prompts)]
    BY <1>a, <2>1 DEF IInv, TypeOK
  <2>5. TypeOK'
    BY <1>a, <2>2, <2>3, <2>4 DEF IInv, TypeOK
  <2>6. HoldsRunner'
    BY <1>a, <2>3 DEF IInv, HoldsRunner
  <2>7. QueueInv'
    <3> DEFINE n == Len(queue[r])
    <3>1. /\ \A i \in 1 .. Len(queue'[r]) : i \in 1 .. n \/ i = n + 1
          /\ \A i \in 1 .. n : queue'[r][i] = queue[r][i]
          /\ queue'[r][n + 1] = p
      <4>1. queue[r] \in Seq(Prompts)
        BY <1>a, QueuedPrompts DEF IInv
      <4>2. QED
        BY <2>4, <4>1, AppendElements
    <3>2. \A i \in 1 .. n :
             /\ queue[r][i] \in Fibers
             /\ pc[queue[r][i]] = "queued"
             /\ of[queue[r][i]] = r
             /\ queue[r][i] # p
      BY <1>a, QueuedPrompts DEF IInv, QueueInv, QueueOf
    <3>3. \A i, j \in 1 .. n : queue[r][i] = queue[r][j] => i = j
      BY <1>a DEF IInv, QueueInv, QueueOf
    <3> HIDE DEF n
    <3>4. \A i \in 1 .. Len(queue'[r]) :
             pc'[queue'[r][i]] = "queued" /\ of[queue'[r][i]] = r
      BY <1>a, <2>3, <3>1, <3>2
    <3>5. \A i, j \in 1 .. Len(queue'[r]) : queue'[r][i] = queue'[r][j] => i = j
      BY <3>1, <3>2, <3>3
    <3>6. QueueOf(r)'
      BY <1>a, <3>4, <3>5 DEF QueueOf
    <3>7. \A q \in Prompts : pc[q] = "queued" => pc'[q] = "queued"
      BY <1>a, <2>3
    <3>8. QED
      BY <1>a, <2>4, <3>6, <3>7, QueueKept DEF QueueInv
  <2>8. StateInv'
    <3>1. StateOf(r)'
      <4>1. StateOf(r) /\ state[r].tag \in Tags
        BY DEF IInv, StateInv, TypeOK
      <4>2. state[r].id \in Fibers /\ pc'[state[r].id] = pc[state[r].id]
        BY <1>a, <1>2, <2>3, <4>1 DEF StateOf, RunPhases, ShellPhases
      <4>3. QED
        BY <1>a, <1>2, <2>2, <4>1, <4>2 DEF StateOf
    <3>2. \A g \in Prompts \cup Shells : of[g] # r => pc'[g] = pc[g]
      BY <1>a, <2>3
    <3>3. QED
      BY <1>a, <2>2, <3>1, <3>2, StateExcept
  <2>9. LockInv'
    BY <1>a, <2>2, <2>3 DEF IInv, LockInv
  <2>10. AbortInv'
    <3>1. \A g \in Prompts \cup Shells : Released(g) => Released(g)'
      BY <1>a, <2>2, <2>3 DEF Released
    <3>2. \A c \in Cancels : pc'[c] = pc[c]
      BY <1>c, <2>3
    <3>3. QED
      BY <1>a, <3>1, <3>2, AbortKept
  <2>11. DoneInv'
    BY <1>a, <2>3 DEF IInv, DoneInv
  <2>12. DrivenInv'
    <3>1. state[r].tag \in Tags
      BY <1>a DEF IInv, TypeOK
    <3>2. state'[r].tag \in {"Running", "ShellThenRun"}
      BY <1>2, <2>2, <3>1
    <3>3. QED
      BY <1>a, <1>c, <2>2, <2>3, <2>4, <3>2, DrivenExcept
  <2>13. QED
    BY <2>5, <2>6, <2>7, <2>8, <2>9, <2>10, <2>11, <2>12 DEF IInv
<1>3. QED
  BY <1>1, <1>2
\* A run or shell leaves a runner whose queue is empty.
LEMMA SettleIdleStep ==
    ASSUME IInv, NEW f \in Prompts \cup Shells, NEW r \in Runners,
           of[f] = r, state[r].id = f, pc[f] = "exited",
           queue[r] = <<>>, state' = [state EXCEPT ![r] = IdleState],
           Goto(f, "onIdle"),
           UNCHANGED <<runners, turns, of, queue, locked, done, exit, interrupts,
                       target, cut, statusVars>>
    PROVE  IInv'
<1>1. /\ \A g \in Fibers : g # f => pc'[g] = pc[g]
      /\ pc'[f] = "onIdle"
      /\ pc' \in [Fibers -> Phases]
  BY DEF IInv, TypeOK, Goto
<1>2. /\ state'[r] = IdleState
      /\ \A x \in Runners : x # r => state'[x] = state[x]
      /\ state' \in [Runners -> [tag : Tags, id : Prompts \cup Shells \cup {None}]]
  BY DEF IInv, TypeOK, IdleState
<1>3. \A c \in Cancels : c # f
  OBVIOUS
<1>4. TypeOK'
  BY <1>1, <1>2 DEF IInv, TypeOK
<1>5. HoldsRunner'
  BY <1>1 DEF IInv, HoldsRunner
<1>6. QueueInv'
  <2>1. \A q \in Prompts : pc[q] = "queued" => pc'[q] = "queued"
    BY <1>1
  <2>2. QED
    BY <2>1, QueueKept DEF QueueInv
<1>7. StateInv'
  <2>1. StateOf(r)'
    BY <1>2 DEF StateOf, IdleState
  <2>2. \A g \in Prompts \cup Shells : of[g] # r => pc'[g] = pc[g]
    BY <1>1
  <2>3. QED
    BY <1>2, <2>1, <2>2, StateExcept
<1>8. LockInv'
  BY <1>1, <1>2 DEF IInv, LockInv, IdleState
<1>9. AbortInv'
  <2>1. \A g \in Prompts \cup Shells : Released(g) => Released(g)'
    BY <1>1, <1>2 DEF Released, IdleState
  <2>2. QED
    BY <1>1, <1>3, <2>1, AbortKept
<1>10. DoneInv'
  BY <1>1 DEF IInv, DoneInv
<1>11. DrivenInv'
  BY <1>1, <1>2, <1>3, DrivenExcept
<1>12. QED
  BY <1>4, <1>5, <1>6, <1>7, <1>8, <1>9, <1>10, <1>11 DEF IInv

\* The head of a queue, and what remains of the queue without it.
LEMMA HeadAndTail ==
    ASSUME NEW q \in Seq(Prompts), q # <<>>
    PROVE  /\ Head(q) \in Prompts /\ Head(q) = q[1] /\ 1 \in 1 .. Len(q)
           /\ Tail(q) \in Seq(Prompts)
           /\ \A i \in 1 .. Len(Tail(q)) : i + 1 \in 1 .. Len(q) /\ Tail(q)[i] = q[i + 1]
<1>1. Len(q) \in Nat /\ Len(q) > 0
  OBVIOUS
<1>2. Head(q) \in Prompts /\ Head(q) = q[1] /\ 1 \in 1 .. Len(q)
  BY <1>1
<1>3. Tail(q) \in Seq(Prompts) /\ Len(Tail(q)) = Len(q) - 1
  BY <1>1
<1>4. \A i \in 1 .. Len(Tail(q)) : i + 1 \in 1 .. Len(q) /\ Tail(q)[i] = q[i + 1]
  BY <1>1, <1>3
<1>5. QED
  BY <1>2, <1>3, <1>4

\* A run or shell leaves a runner and the head of its queue is promoted.
LEMMA PromoteStep ==
    ASSUME IInv, NEW f \in Prompts \cup Shells, NEW r \in Runners,
           NEW l \in {"complete", "over"},
           of[f] = r, state[r].id = f, pc[f] = "exited", locked[r] = None,
           queue[r] # <<>>, StartRun(r, Head(queue[r])),
           queue' = [queue EXCEPT ![r] = Tail(@)],
           pc' = [pc EXCEPT ![f] = l, ![Head(queue[r])] = "forked"],
           UNCHANGED <<runners, turns, of, locked, done, exit, interrupts,
                       target, cut, statusVars>>
    PROVE  IInv'
<1> DEFINE h == Head(queue[r])
<1>0. queue[r] \in Seq(Prompts)
  BY QueuedPrompts DEF IInv
<1>1. h \in Prompts /\ pc[h] = "queued" /\ of[h] = r /\ h # f
  BY <1>0, HeadAndTail DEF IInv, QueueInv, QueueOf
<1>2. /\ queue'[r] = Tail(queue[r])
      /\ \A x \in Runners : x # r => queue'[x] = queue[x]
      /\ queue' \in [Runners -> Seq(Prompts)]
  BY <1>0, HeadAndTail DEF IInv, TypeOK
<1>3. /\ \A g \in Fibers : g # f /\ g # h => pc'[g] = pc[g]
      /\ pc'[f] = l /\ pc'[h] = "forked"
      /\ pc' \in [Fibers -> Phases]
  BY <1>1 DEF IInv, TypeOK
<1>4. /\ state'[r] = [tag |-> "Running", id |-> h]
      /\ \A x \in Runners : x # r => state'[x] = state[x]
      /\ state' \in [Runners -> [tag : Tags, id : Prompts \cup Shells \cup {None}]]
  BY <1>1 DEF IInv, TypeOK, StartRun
<1>5. \A c \in Cancels : c # f /\ c # h
  BY <1>1
<1>6. QueueInv'
  <2>1. \A i \in 1 .. Len(queue'[r]) :
           /\ i + 1 \in 1 .. Len(queue[r]) /\ i + 1 # 1
           /\ queue'[r][i] = queue[r][i + 1]
    BY <1>0, <1>2, HeadAndTail
  <2>2. \A i \in 1 .. Len(queue[r]) :
           /\ queue[r][i] \in Fibers
           /\ pc[queue[r][i]] = "queued"
           /\ of[queue[r][i]] = r
    BY QueuedPrompts DEF IInv, QueueInv, QueueOf
  <2>3. \A i, j \in 1 .. Len(queue[r]) : queue[r][i] = queue[r][j] => i = j
    BY DEF IInv, QueueInv, QueueOf
  <2>0. h = queue[r][1] /\ 1 \in 1 .. Len(queue[r])
    BY <1>0, HeadAndTail
  <2> HIDE DEF h
  <2>4. ASSUME NEW i \in 1 .. Len(queue'[r])
        PROVE  pc'[queue'[r][i]] = "queued" /\ of[queue'[r][i]] = r
    <3> DEFINE g == queue[r][i + 1]
    <3>1. g \in Fibers /\ pc[g] = "queued" /\ of[g] = r /\ queue'[r][i] = g
      BY <2>1, <2>2
    <3>2. g # h
      BY <2>0, <2>1, <2>3
    <3> HIDE DEF g
    <3>3. g # f
      BY <3>1
    <3>4. QED
      BY <1>3, <3>1, <3>2, <3>3
  <2>5. \A i, j \in 1 .. Len(queue'[r]) : queue'[r][i] = queue'[r][j] => i = j
    BY <2>1, <2>3
  <2>6. QueueOf(r)'
    BY <2>4, <2>5 DEF QueueOf
  <2>7. ASSUME NEW x \in Runners, x # r
        PROVE  QueueOf(x)'
    <3>1. \A q \in Prompts : pc[q] = "queued" /\ of[q] = x => pc'[q] = "queued"
      BY <1>1, <1>3, <2>7
    <3>2. QED
      BY <1>2, <2>7, <3>1, QueueKept
  <2>8. QED
    BY <2>6, <2>7 DEF QueueInv
<1> HIDE DEF h
<1>7. TypeOK'
  BY <1>2, <1>3, <1>4 DEF IInv, TypeOK
<1>8. HoldsRunner'
  BY <1>1, <1>3 DEF IInv, HoldsRunner
<1>9. StateInv'
  <2>1. StateOf(r)'
    BY <1>1, <1>3, <1>4 DEF StateOf, RunPhases
  <2>2. \A g \in Prompts \cup Shells : of[g] # r => pc'[g] = pc[g]
    BY <1>1, <1>3
  <2>3. QED
    BY <1>4, <2>1, <2>2, StateExcept
<1>10. LockInv'
  BY <1>1, <1>3, <1>4 DEF IInv, LockInv
<1>11. AbortInv'
  <2>1. \A g \in Prompts \cup Shells : Released(g) => Released(g)'
    BY <1>1, <1>3, <1>4 DEF Released
  <2>2. QED
    BY <1>3, <1>5, <2>1, AbortKept
<1>12. DoneInv'
  BY <1>1, <1>3 DEF IInv, DoneInv
<1>13. DrivenInv'
  <2>1. state'[r].tag \in {"Running", "ShellThenRun"}
    BY <1>4
  <2>2. \A c \in Cancels : pc'[c] = pc[c] /\ target'[c] = target[c]
    BY <1>3, <1>5
  <2>3. \A x \in Runners : x # r =>
           queue'[x] = queue[x] /\ state'[x] = state[x]
    BY <1>2, <1>4
  <2>4. QED
    BY <2>1, <2>2, <2>3, DrivenExcept
<1>14. QED
  BY <1>6, <1>7, <1>8, <1>9, <1>10, <1>11, <1>12, <1>13 DEF IInv
\* finishRun.
LEMMA FinishRunStep ==
    ASSUME IInv, NEW p \in Prompts, FinishRun(p)
    PROVE  IInv'
<1>1. /\ of[p] \in Runners /\ pc[p] = "exited" /\ locked[of[p]] = None
      /\ UNCHANGED <<runners, turns, of, locked, done, exit, interrupts, target,
                     cut, statusVars>>
  BY DEF IInv, HoldsRunner, FinishRun, RefFree
<1>2. CASE ~ (state[of[p]].tag = "Running" /\ state[of[p]].id = p)
  <2>1. Goto(p, "complete") /\ UNCHANGED <<state, queue>>
    BY <1>2 DEF FinishRun
  <2>2. TypeOK'
    BY <1>1, <2>1 DEF IInv, TypeOK, Goto
  <2>3. MayMove(p, "complete")
    BY <1>1, <1>2 DEF IInv, TypeOK, MayMove, StateInv, StateOf, RunPhases, ShellPhases
  <2>4. QED
    BY <1>1, <2>1, <2>2, <2>3, MoveStep DEF IInv, AbortInv, HeldVars
<1>3. CASE state[of[p]].tag = "Running" /\ state[of[p]].id = p
  <2>1. DrainQueue(of[p], p, "complete", "onIdle")
    BY <1>3 DEF FinishRun
  <2>2. CASE queue[of[p]] = <<>>
    BY <1>1, <1>3, <2>1, <2>2, SettleIdleStep DEF DrainQueue
  <2>3. CASE queue[of[p]] # <<>>
    BY <1>1, <1>3, <2>1, <2>3, PromoteStep DEF DrainQueue
  <2>4. QED
    BY <2>2, <2>3
<1>4. QED
  BY <1>2, <1>3

\* finishShell.
LEMMA FinishShellStep ==
    ASSUME IInv, NEW s \in Shells, FinishShell(s)
    PROVE  IInv'
<1>1. /\ of[s] \in Runners /\ pc[s] = "exited" /\ locked[of[s]] = None
      /\ UNCHANGED <<runners, turns, of, locked, done, exit, interrupts, target,
                     cut, statusVars>>
  BY DEF IInv, HoldsRunner, FinishShell, RefFree
<1>2. CASE ~ (state[of[s]].tag \in {"Shell", "ShellThenRun"} /\ state[of[s]].id = s)
  <2>1. Goto(s, "over") /\ UNCHANGED <<state, queue>>
    BY <1>2 DEF FinishShell
  <2>2. TypeOK'
    BY <1>1, <2>1 DEF IInv, TypeOK, Goto
  <2>3. MayMove(s, "over")
    BY <1>1, <1>2 DEF IInv, TypeOK, MayMove, StateInv, StateOf, RunPhases, ShellPhases
  <2>4. QED
    BY <1>1, <2>1, <2>2, <2>3, MoveStep DEF IInv, AbortInv, HeldVars
<1>3. CASE state[of[s]].tag \in {"Shell", "ShellThenRun"} /\ state[of[s]].id = s
  <2>1. DrainQueue(of[s], s, "over", "onIdle")
    BY <1>3 DEF FinishShell
  <2>2. CASE queue[of[s]] = <<>>
    BY <1>1, <1>3, <2>1, <2>2, SettleIdleStep DEF DrainQueue
  <2>3. CASE queue[of[s]] # <<>>
    BY <1>1, <1>3, <2>1, <2>3, PromoteStep DEF DrainQueue
  <2>4. QED
    BY <2>2, <2>3
<1>4. QED
  BY <1>2, <1>3

\* startShell up to onBusy.
LEMMA StartShellStep ==
    ASSUME IInv, NEW s \in Shells, StartShell(s)
    PROVE  IInv'
<1>1. PICK r \in Runners :
      /\ r = of[s] /\ pc[s] = "held" /\ locked[r] = None
      /\ UNCHANGED <<runners, turns, of, state, queue, done, exit, interrupts,
                     target, cut, status, view>>
  BY DEF IInv, HoldsRunner, StartShell, RefFree
<1>2. CASE state[r].tag # "Idle"
  <2>1. Goto(s, "over") /\ UNCHANGED <<locked, ledger, stamp>>
    BY <1>1, <1>2 DEF StartShell
  <2>2. TypeOK'
    BY <1>1, <2>1 DEF IInv, TypeOK, Goto
  <2>3. MayMove(s, "over")
    BY <1>1 DEF IInv, TypeOK, MayMove, StateInv, StateOf, RunPhases, ShellPhases
  <2>4. QED
    BY <1>1, <2>1, <2>2, <2>3, MoveStep DEF IInv, AbortInv, HeldVars
<1>3. CASE state[r].tag = "Idle"
  <2>1. /\ locked' = [locked EXCEPT ![r] = s]
        /\ StampStatus(s, r) /\ Goto(s, "busy")
    BY <1>1, <1>3 DEF StartShell
  <2>2. /\ \A g \in Fibers : g # s => pc'[g] = pc[g]
        /\ pc'[s] = "busy"
        /\ pc' \in [Fibers -> Phases]
    BY <2>1 DEF IInv, TypeOK, Goto
  <2>3. /\ locked'[r] = s
        /\ \A x \in Runners : x # r => locked'[x] = locked[x]
        /\ locked' \in [Runners -> Shells \cup {None}]
    BY <1>1, <2>1 DEF IInv, TypeOK
  <2>4. r \in 0 .. MaxRunners
    BY <1>1
  <2>5. /\ ledger' \in [seq : Nat, generation : 0 .. MaxRunners]
        /\ stamp' \in [Fibers -> Nat]
    BY <2>1, <2>4, StampType DEF IInv
  <2>6. \A c \in Cancels : c # s
    OBVIOUS
  <2>7. TypeOK'
    BY <1>1, <2>2, <2>3, <2>5 DEF IInv, TypeOK
  <2>8. HoldsRunner'
    BY <1>1, <2>2 DEF IInv, HoldsRunner
  <2>9. QueueInv'
    <3>1. \A q \in Prompts : pc[q] = "queued" => pc'[q] = "queued"
      BY <1>1, <2>2
    <3>2. QED
      BY <1>1, <3>1, QueueKept DEF QueueInv
  <2>10. StateInv'
    <3>1. StateOf(r)'
      BY <1>1, <1>3 DEF IInv, StateInv, StateOf
    <3>2. \A g \in Prompts \cup Shells : of[g] # r => pc'[g] = pc[g]
      BY <1>1, <2>2
    <3>3. QED
      BY <1>1, <3>1, <3>2, StateExcept
  <2>11. LockInv'
    <3>1. \A x \in Runners : locked'[x] # None => state'[x].tag = "Idle"
      BY <1>1, <1>3, <2>3 DEF IInv, LockInv
    <3>2. ASSUME NEW z \in Shells, pc'[z] = "busy", z # s
          PROVE  locked'[of[z]] = z
      <4>1. of[z] \in Runners /\ locked[of[z]] = z /\ z # None
        BY <2>2, <3>2 DEF IInv, LockInv, HoldsRunner
      <4>2. QED
        BY <1>1, <2>3, <4>1
    <3>3. QED
      BY <1>1, <2>3, <3>1, <3>2 DEF LockInv
  <2>12. AbortInv'
    <3>1. \A g \in Prompts \cup Shells : Released(g) => Released(g)'
      BY <1>1, <2>2 DEF Released
    <3>2. QED
      BY <1>1, <2>2, <2>6, <3>1, AbortKept
  <2>13. DoneInv'
    BY <1>1, <2>2 DEF IInv, DoneInv
  <2>14. DrivenInv'
    <3>1. \A c \in Cancels : pc'[c] = pc[c] /\ target'[c] = target[c]
      BY <1>1, <2>2, <2>6
    <3>2. \A x \in Runners : queue'[x] # <<>> =>
             \/ state'[x].tag \in {"Running", "ShellThenRun"}
             \/ \E c \in Cancels : of'[c] = x /\ FlushDue(c)'
      BY <1>1, <3>1, DrivenKept
    <3>3. QED
      BY <3>2 DEF DrivenInv
  <2>15. QED
    BY <2>7, <2>8, <2>9, <2>10, <2>11, <2>12, <2>13, <2>14 DEF IInv
<1>4. QED
  BY <1>2, <1>3

\* startShell after onBusy.
LEMMA ShellForkedStep ==
    ASSUME IInv, NEW s \in Shells, ShellForked(s)
    PROVE  IInv'
<1>1. PICK r \in Runners :
      /\ r = of[s] /\ pc[s] = "busy" /\ locked[r] = s /\ s # None
      /\ Goto(s, "starting") /\ PublishStatus(s, "busy")
      /\ UNCHANGED <<runners, turns, of, queue, done, exit, interrupts, target, cut>>
  BY DEF IInv, HoldsRunner, LockInv, ShellForked
<1>2. /\ \A g \in Fibers : g # s => pc'[g] = pc[g]
      /\ pc'[s] = "starting"
      /\ pc' \in [Fibers -> Phases]
  BY <1>1 DEF IInv, TypeOK, Goto
<1>3. /\ state'[r] = [tag |-> "Shell", id |-> s]
      /\ \A x \in Runners : x # r => state'[x] = state[x]
      /\ state' \in [Runners -> [tag : Tags, id : Prompts \cup Shells \cup {None}]]
  BY <1>1 DEF IInv, TypeOK, ShellForked
<1>4. /\ locked'[r] = None
      /\ \A x \in Runners : x # r => locked'[x] = locked[x]
      /\ locked' \in [Runners -> Shells \cup {None}]
  BY <1>1 DEF IInv, TypeOK, ShellForked
<1>5. \A c \in Cancels : c # s
  OBVIOUS
<1>6. TypeOK'
  BY <1>1, <1>2, <1>3, <1>4, PublishType DEF IInv, TypeOK
<1>7. HoldsRunner'
  BY <1>1, <1>2 DEF IInv, HoldsRunner
<1>8. QueueInv'
  <2>1. \A q \in Prompts : pc[q] = "queued" => pc'[q] = "queued"
    BY <1>1, <1>2
  <2>2. QED
    BY <1>1, <2>1, QueueKept DEF QueueInv
<1>9. StateInv'
  <2>1. StateOf(r)'
    BY <1>1, <1>2, <1>3 DEF StateOf, ShellPhases
  <2>2. \A g \in Prompts \cup Shells : of[g] # r => pc'[g] = pc[g]
    BY <1>1, <1>2
  <2>3. QED
    BY <1>1, <1>3, <2>1, <2>2, StateExcept
<1>10. LockInv'
  <2>1. \A x \in Runners : locked'[x] # None => state'[x].tag = "Idle"
    BY <1>3, <1>4 DEF IInv, LockInv
  <2>2. ASSUME NEW z \in Shells, pc'[z] = "busy"
        PROVE  locked'[of[z]] = z
    <3>1. z # s /\ pc[z] = "busy"
      BY <1>2, <2>2
    <3>2. of[z] \in Runners /\ locked[of[z]] = z
      BY <3>1 DEF IInv, LockInv, HoldsRunner
    <3>3. QED
      BY <1>1, <1>4, <3>1, <3>2
  <2>3. QED
    BY <1>1, <2>1, <2>2 DEF LockInv
<1>11. AbortInv'
  <2>1. \A g \in Prompts \cup Shells : Released(g) => Released(g)'
    BY <1>1, <1>2, <1>3 DEF Released
  <2>2. QED
    BY <1>1, <1>2, <1>5, <2>1, AbortKept
<1>12. DoneInv'
  BY <1>1, <1>2 DEF IInv, DoneInv
<1>13. DrivenInv'
  <2>1. \A c \in Cancels : pc'[c] = pc[c] /\ target'[c] = target[c]
    BY <1>1, <1>2, <1>5
  <2>2. state[r].tag = "Idle"
    BY <1>1 DEF IInv, LockInv
  <2>3. ASSUME queue'[r] # <<>>
        PROVE  \E c \in Cancels : of'[c] = r /\ FlushDue(c)'
    <3>1. PICK c \in Cancels : of[c] = r /\ FlushDue(c)
      BY <1>1, <2>2, <2>3 DEF IInv, DrivenInv
    <3>2. FlushDue(c)'
      BY <2>1, <3>1, FlushDueKept
    <3>3. QED
      BY <1>1, <3>1, <3>2
  <2>4. QED
    BY <1>1, <1>3, <2>1, <2>3, DrivenExcept
<1>14. QED
  BY <1>6, <1>7, <1>8, <1>9, <1>10, <1>11, <1>12, <1>13 DEF IInv

\* The ref transition of cancel: what it captures is released, and what is
\* queued is its to flush.
LEMMA CancelRefStep ==
    ASSUME IInv, NEW c \in Cancels, CancelRef(c)
    PROVE  IInv'
<1>1. PICK r \in Runners :
      /\ r = of[c] /\ pc[c] = "held" /\ locked[r] = None
      /\ UNCHANGED <<runners, turns, of, queue, locked, done, exit, interrupts,
                     statusVars>>
  BY DEF IInv, HoldsRunner, CancelRef, RefFree
<1>2. CASE state[r].tag = "Idle"
  <2>1. Goto(c, "over") /\ UNCHANGED <<state, target, cut>>
    BY <1>1, <1>2 DEF CancelRef
  <2>2. TypeOK'
    BY <1>1, <2>1 DEF IInv, TypeOK, Goto
  <2>3. MayMove(c, "over")
    BY <1>1, AbortHoldsNoRunner DEF IInv, MayMove, FlushDue, AbortPhases
  <2>4. QED
    BY <1>1, <2>1, <2>2, <2>3, MoveStep DEF IInv, AbortInv, HeldVars
<1>3. CASE state[r].tag # "Idle"
  <2>0. PICK l \in {"flush", "stop"} :
           Goto(c, l) /\ (l = "stop" <=> state[r].tag # "Running")
    BY <1>1, <1>3 DEF CancelRef
  <2>1. /\ target' = [target EXCEPT ![c] = state[r].id]
        /\ cut' = [cut EXCEPT ![c] = Queued(r)]
        /\ state' = [state EXCEPT ![r] = IdleState]
    BY <1>1, <1>3 DEF CancelRef
  <2>2. /\ \A g \in Fibers : g # c => pc'[g] = pc[g]
        /\ pc'[c] = l
        /\ pc' \in [Fibers -> Phases]
    BY <2>0 DEF IInv, TypeOK, Goto
  <2>3. /\ state'[r] = IdleState
        /\ \A x \in Runners : x # r => state'[x] = state[x]
        /\ state' \in [Runners -> [tag : Tags, id : Prompts \cup Shells \cup {None}]]
    BY <1>1, <2>1 DEF IInv, TypeOK, IdleState
  <2>4. state[r].tag \in Tags
    BY <1>1 DEF IInv, TypeOK
  <2>5. PICK t \in Prompts \cup Shells :
        /\ t = state[r].id /\ of[t] = r
        /\ pc[t] \in RunPhases \cup ShellPhases
        /\ state[r].tag = "Running" => t \in Prompts
        /\ state[r].tag # "Running" => t \in Shells /\ pc[t] \in ShellPhases
    BY <1>1, <1>3, <2>4 DEF IInv, StateInv, StateOf
  <2>6. /\ \A d \in Cancels : d # c => target'[d] = target[d]
        /\ target'[c] = t
        /\ target' \in [Cancels -> Prompts \cup Shells \cup {None}]
    BY <2>1, <2>5 DEF IInv, TypeOK
  <2>7. cut' \in [Cancels -> SUBSET Prompts]
    <3>1. Queued(r) \in SUBSET Prompts
      BY <1>1, QueuedPrompts DEF IInv, Queued
    <3>2. QED
      BY <2>1, <3>1 DEF IInv, TypeOK
  <2>8. \A g \in Prompts \cup Shells : g # c
    OBVIOUS
  <2>9. TypeOK'
    BY <1>1, <2>2, <2>3, <2>6, <2>7 DEF IInv, TypeOK
  <2>10. HoldsRunner'
    BY <1>1, <2>2 DEF IInv, HoldsRunner
  <2>11. QueueInv'
    <3>1. \A q \in Prompts : pc[q] = "queued" => pc'[q] = "queued"
      BY <2>2, <2>8
    <3>2. QED
      BY <1>1, <3>1, QueueKept DEF QueueInv
  <2>12. StateInv'
    <3>1. \A g \in Prompts \cup Shells : pc'[g] = pc[g]
      BY <2>2, <2>8
    <3>2. StateOf(r)'
      BY <2>3 DEF StateOf, IdleState
    <3>3. QED
      BY <1>1, <2>3, <3>1, <3>2, StateExcept
  <2>13. LockInv'
    <3>1. \A x \in Runners : locked'[x] # None => state'[x].tag = "Idle"
      BY <1>1, <2>3 DEF IInv, LockInv, IdleState
    <3>2. \A z \in Shells : pc'[z] = "busy" => locked'[of'[z]] = z
      BY <1>1, <2>2, <2>8 DEF IInv, LockInv
    <3>3. QED
      BY <3>1, <3>2 DEF LockInv
  <2>14. AbortInv'
    <3>1. \A g \in Prompts \cup Shells : Released(g) => Released(g)'
      BY <2>2, <2>3, <2>8 DEF Released, IdleState
    <3>2. Released(t)'
      <4>1. \A x \in Runners : state'[x].id # t
        <5>1. state'[r].id # t
          BY <2>3, <2>5 DEF IdleState
        <5>2. ASSUME NEW x \in Runners, x # r, state[x].id = t
              PROVE  FALSE
          <6>1. state[x].tag \in Tags
            BY DEF IInv, TypeOK
          <6>2. of[t] = x
            BY <2>5, <5>2, <6>1 DEF IInv, StateInv, StateOf
          <6>3. QED
            BY <2>5, <5>2, <6>2
        <5>3. QED
          BY <2>3, <5>1, <5>2
      <4>2. pc'[t] = pc[t]
        BY <2>2, <2>5, <2>8
      <4>3. t \in Shells => pc[t] # "busy"
        BY <2>5 DEF ShellPhases
      <4>4. QED
        BY <2>5, <4>1, <4>2, <4>3 DEF Released, RunPhases, ShellPhases
    <3>3. \A g \in interrupts' : Released(g)'
      <4>1. interrupts \in SUBSET (Prompts \cup Shells)
        BY DEF IInv, TypeOK
      <4>2. QED
        BY <1>1, <3>1, <4>1 DEF IInv, AbortInv
    <3>4. ASSUME NEW d \in Cancels, pc'[d] \in AbortPhases
          PROVE  /\ target'[d] \in Prompts \cup Shells
                 /\ Released(target[d])'
                 /\ pc'[d] = "stop" => target'[d] \in Shells
      <4>1. CASE d = c
        BY <2>0, <2>2, <2>5, <2>6, <3>2, <4>1
      <4>2. CASE d # c
        BY <2>2, <2>6, <3>1, <3>4, <4>2 DEF IInv, AbortInv
      <4>3. QED
        BY <4>1, <4>2
    <3>5. QED
      BY <3>3, <3>4 DEF AbortInv
  <2>15. DoneInv'
    BY <1>1, <2>2, <2>8 DEF IInv, DoneInv
  <2>16. DrivenInv'
    <3>1. FlushDue(c)' /\ of'[c] = r
      BY <1>1, <2>2 DEF FlushDue
    <3>2. \A d \in Cancels : of[d] # r => pc'[d] = pc[d] /\ target'[d] = target[d]
      BY <1>1, <2>2, <2>6
    <3>3. QED
      BY <1>1, <2>3, <3>1, <3>2, DrivenExcept
  <2>17. QED
    BY <2>9, <2>10, <2>11, <2>12, <2>13, <2>14, <2>15, <2>16 DEF IInv
<1>4. QED
  BY <1>2, <1>3

\* flushQueue.
LEMMA FlushQueueStep ==
    ASSUME IInv, NEW c \in Cancels, FlushQueue(c)
    PROVE  IInv'
<1>1. PICK r \in Runners :
      /\ r = of[c] /\ pc[c] = "flush"
      /\ UNCHANGED <<runners, turns, of, state, locked, exit, interrupts, target,
                     cut, statusVars>>
  BY DEF IInv, HoldsRunner, FlushQueue
<1> DEFINE Q == Queued(r)
<1>2. \A q \in Q : q \in Prompts /\ pc[q] = "queued" /\ of[q] = r
  BY <1>1, QueuedPrompts DEF IInv, QueueInv, QueueOf, Queued
<1>3. PICK l \in {"interrupt", "recheck"} : l = AfterFlush(c)
  BY DEF AfterFlush
<1> HIDE DEF Q
<1>4. /\ \A q \in Q : pc'[q] = "over"
      /\ pc'[c] = l
      /\ \A g \in Fibers : g \notin Q /\ g # c => pc'[g] = pc[g]
      /\ pc' \in [Fibers -> Phases]
  <2>1. pc' = [g \in Fibers |-> IF g \in Q THEN "over"
                                ELSE IF g = c THEN l ELSE pc[g]]
    BY <1>1, <1>3 DEF FlushQueue, Q
  <2>2. c \notin Q
    BY <1>1, <1>2
  <2>3. QED
    BY <1>2, <2>1, <2>2 DEF IInv, TypeOK
<1>5. done' = [p \in Prompts |-> IF p \in Q THEN "Cancelled" ELSE done[p]]
  BY <1>1 DEF FlushQueue, Q
<1>6. /\ queue'[r] = <<>>
      /\ \A x \in Runners : x # r => queue'[x] = queue[x]
      /\ queue' \in [Runners -> Seq(Prompts)]
  BY <1>1 DEF IInv, TypeOK, FlushQueue
<1>7. \A g \in Prompts \cup Shells : g # c
  OBVIOUS
<1>8. TypeOK'
  BY <1>1, <1>4, <1>5, <1>6 DEF IInv, TypeOK
<1>9. HoldsRunner'
  BY <1>1, <1>2, <1>4 DEF IInv, HoldsRunner
<1>10. QueueInv'
  <2>1. QueueOf(r)'
    BY <1>1, <1>6 DEF QueueOf
  <2>2. ASSUME NEW x \in Runners, x # r
        PROVE  QueueOf(x)'
    <3>1. \A q \in Prompts : pc[q] = "queued" /\ of[q] = x => pc'[q] = "queued"
      BY <1>2, <1>4, <1>7, <2>2
    <3>2. QED
      BY <1>1, <1>6, <2>2, <3>1, QueueKept
  <2>3. QED
    BY <1>1, <2>1, <2>2 DEF QueueInv
<1>11. StateInv'
  <2>1. \A g \in Prompts \cup Shells :
           pc[g] \in RunPhases \cup ShellPhases => pc'[g] = pc[g]
    BY <1>2, <1>4, <1>7 DEF RunPhases, ShellPhases
  <2>2. StateOf(r)'
    <3>1. StateOf(r) /\ state[r].tag \in Tags
      BY DEF IInv, StateInv, TypeOK
    <3>2. QED
      BY <1>1, <2>1, <3>1 DEF StateOf
  <2>3. QED
    BY <1>1, <2>1, <2>2, StateExcept
<1>12. LockInv'
  BY <1>1, <1>2, <1>4, <1>7 DEF IInv, LockInv
<1>13. AbortInv'
  <2>1. ASSUME NEW g \in Prompts \cup Shells, Released(g)
        PROVE  Released(g)'
    <3>1. g \notin Q
      BY <1>2, <2>1 DEF Released
    <3>2. pc'[g] = pc[g]
      BY <1>4, <1>7, <3>1
    <3>3. QED
      BY <1>1, <2>1, <3>2 DEF Released
  <2>2. interrupts \in SUBSET (Prompts \cup Shells)
    BY DEF IInv, TypeOK
  <2>3. \A d \in Cancels : pc'[d] \in AbortPhases =>
           pc[d] \in AbortPhases /\ (pc'[d] = "stop" => pc[d] = "stop")
    BY <1>1, <1>2, <1>4 DEF AbortPhases
  <2>4. QED
    BY <1>1, <2>1, <2>2, <2>3 DEF IInv, AbortInv
<1>14. DoneInv'
  <2> SUFFICES ASSUME NEW p \in Prompts, done'[p] # "open"
               PROVE  pc'[p] = "over"
    BY DEF DoneInv
  <2>1. CASE p \in Q
    BY <1>4, <2>1
  <2>2. CASE p \notin Q
    BY <1>4, <1>5, <1>7, <2>2 DEF IInv, DoneInv
  <2>3. QED
    BY <2>1, <2>2
<1>15. DrivenInv'
  <2>1. \A d \in Cancels : of[d] # r => pc'[d] = pc[d] /\ target'[d] = target[d]
    BY <1>1, <1>2, <1>4
  <2>2. QED
    BY <1>1, <1>6, <2>1, DrivenExcept
<1>16. QED
  BY <1>8, <1>9, <1>10, <1>11, <1>12, <1>13, <1>14, <1>15 DEF IInv

-----------------------------------------------------------------------------
(* The invariant holds of every behaviour                                  *)

\* The invariant holds initially.
LEMMA InitIInv == Init => IInv
<1> SUFFICES ASSUME Init PROVE IInv
  OBVIOUS
<1>1. TypeOK
  BY DEF Init, TypeOK, IdleState
<1>2. HoldsRunner /\ QueueInv /\ DoneInv /\ LockInv
  BY DEF Init, HoldsRunner, QueueInv, QueueOf, DoneInv, LockInv, IdleState
<1>3. StateInv /\ AbortInv /\ DrivenInv
  BY DEF Init, StateInv, StateOf, AbortInv, AbortPhases, DrivenInv, IdleState
<1>4. QED
  BY <1>1, <1>2, <1>3 DEF IInv

\* A stuttering step keeps the invariant.
LEMMA StutterIInv ==
    ASSUME IInv, UNCHANGED vars
    PROVE  IInv'
  BY DEF IInv, TypeOK, HoldsRunner, QueueInv, QueueOf, StateInv, StateOf, LockInv,
         AbortInv, Released, DoneInv, DrivenInv, FlushDue

\* Every step keeps the invariant.
LEMMA NextIInv == IInv /\ [Next]_vars => IInv'
<1> SUFFICES ASSUME IInv, [Next]_vars PROVE IInv'
  OBVIOUS
<1>1. ASSUME NEW p \in Prompts, LookupRunner(p) \/ PromptStep(p)
      PROVE  IInv'
  BY <1>1, LookupRunnerStep, CreateRunnerStep, EnsureRunningStep,
     RunLoopBusyStep, RunLoopBusyPublishedStep, WorkEndsStep,
     WorkInterruptedStep, NeverStartedStep, FinishRunStep, OnIdleStep,
     SetIdleStep, IdlePublishedStep, CompleteStep DEF PromptStep
<1>2. ASSUME NEW s \in Shells, LookupRunner(s) \/ ShellStep(s)
      PROVE  IInv'
  BY <1>2, LookupRunnerStep, CreateRunnerStep, StartShellStep,
     ShellForkedStep, ShellReadyStep, ShellEndsStep, FinishShellStep,
     OnIdleStep, SetIdleStep, IdlePublishedStep DEF ShellStep
<1>3. ASSUME NEW c \in Cancels, LookupCancel(c) \/ CancelStep(c)
      PROVE  IInv'
  BY <1>3, LookupCancelStep, CancelRefStep, InterruptStep, FlushQueueStep,
     JoinedStep, IdleIfCurrentStep, OnIdleStep, SetIdleStep,
     IdlePublishedStep DEF CancelStep
<1>4. ASSUME UNCHANGED vars PROVE IInv'
  BY <1>4, StutterIInv
<1>5. QED
  BY <1>1, <1>2, <1>3, <1>4 DEF Next, Finished

\* The invariant always holds.
LEMMA AlwaysIInv == Spec => []IInv
  BY InitIInv, NextIInv, PTL DEF Spec

(* Type correctness, for any number of callers.                            *)
THEOREM TypeCorrect == Spec => []TypeOK
<1>1. IInv => TypeOK
  BY DEF IInv
<1>2. QED
  BY <1>1, AlwaysIInv, PTL

(* No prompt is ever stranded in a runner's queue, whatever the number and *)
(* the interleaving of prompts, shells and aborts: ensureRunning, finishRun*)
(* and finishShell hand the queue on, cancel flushes what it orphans.      *)
THEOREM NeverStranded == Spec => []NoPromptStranded
<1>1. ASSUME IInv PROVE NoPromptStranded
  BY <1>1 DEF IInv, DrivenInv, StateInv, StateOf, RunPhases, ShellPhases,
       NoPromptStranded
<1>2. QED
  BY <1>1, AlwaysIInv, PTL

(* An answered caller's turn has left every runner: it can neither run     *)
(* again nor be the victim of a later abort.                               *)
THEOREM AnsweredIsReleased == Spec => []SettledIsReleased
<1>1. ASSUME IInv, NEW p \in Prompts, done[p] # "open", NEW r \in Runners
      PROVE  p \notin Queued(r) /\ state[r].id # p
  <2>1. pc[p] = "over"
    BY <1>1 DEF IInv, DoneInv
  <2>2. p \notin Queued(r)
    BY <1>1, <2>1 DEF IInv, QueueInv, QueueOf, Queued
  <2>3. state[r].tag \in Tags /\ p # None
    BY <1>1 DEF IInv, TypeOK
  <2>4. state[r].id # p
    BY <1>1, <2>1, <2>3 DEF IInv, StateInv, StateOf, RunPhases, ShellPhases
  <2>5. QED
    BY <2>2, <2>4
<1>2. IInv => SettledIsReleased
  BY <1>1 DEF SettledIsReleased
<1>3. QED
  BY <1>2, AlwaysIInv, PTL

-----------------------------------------------------------------------------
(* What an abort leaves behind                                             *)

(* An abort names its target in its ref transition; a prompt it named is   *)
(* over and answered, unless the abort is still to flush, interrupt or     *)
(* join.                                                                   *)
EndsOf(c) ==
    /\ pc[c] \in {"call", "held"} => target[c] = None
    /\ target[c] \in Prompts =>
          \/ pc[c] \in {"flush", "interrupt", "join"}
          \/ pc[target[c]] = "over" /\ done[target[c]] # "open"

EndsInv == \A c \in Cancels : EndsOf(c)

\* A step of f that moves f alone.
LEMMA MoveEnds ==
    ASSUME TypeOK, EndsInv, NEW f \in Fibers, NEW l \in Phases, Goto(f, l), pc[f] # "over",
           target' = target, \A p \in Prompts : done[p] # "open" => done'[p] # "open",
           f \in Cancels =>
              /\ l \in {"call", "held"} => pc[f] \in {"call", "held"}
              /\ target[f] \in Prompts =>
                    \/ pc[f] \notin {"flush", "interrupt", "join"}
                    \/ l \in {"flush", "interrupt", "join"}
    PROVE  EndsInv'
<1> SUFFICES ASSUME NEW c \in Cancels PROVE EndsOf(c)'
  BY DEF EndsInv
<1>1. EndsOf(c) /\ \A g \in Fibers \ {f} : pc'[g] = pc[g]
  BY DEF EndsInv, Goto, TypeOK
<1>2. pc'[f] = l
  BY DEF Goto, TypeOK
<1>3. QED
  BY <1>1, <1>2 DEF EndsOf

\* A drain ends f's turn and promotes a prompt that waited.
LEMMA DrainEnds ==
    ASSUME IInv, EndsInv, NEW r \in Runners, NEW f \in Prompts \cup Shells, pc[f] # "over",
           NEW next, NEW idle, DrainQueue(r, f, next, idle), UNCHANGED <<target, done>>
    PROVE  EndsInv'
<1> SUFFICES ASSUME NEW c \in Cancels PROVE EndsOf(c)'
  BY DEF EndsInv
<1>1. EndsOf(c) /\ TypeOK
  BY DEF EndsInv, IInv
<1>2. queue[r] # <<>> => /\ Head(queue[r]) \in Prompts
                        /\ pc[Head(queue[r])] = "queued"
  BY <1>1 DEF IInv, QueueInv, QueueOf, TypeOK
<1>3. \A g \in Fibers : pc[g] = "over" => pc'[g] = "over"
  BY <1>1, <1>2 DEF DrainQueue, Goto, TypeOK
<1>4. pc'[c] = pc[c]
  BY <1>1, <1>2 DEF DrainQueue, Goto, TypeOK
<1>5. QED
  BY <1>1, <1>3, <1>4 DEF EndsOf

LEMMA EndsStep == IInv /\ EndsInv /\ [Next]_vars => EndsInv'
<1> SUFFICES ASSUME IInv, EndsInv, [Next]_vars PROVE EndsInv'
  OBVIOUS
<1>0. TypeOK
  BY DEF IInv
<1>1. ASSUME NEW f \in Prompts \cup Shells,
             LookupRunner(f) \/ CreateRunner(f) \/ OnIdle(f) \/ SetIdle(f) \/ IdlePublished(f)
      PROVE  EndsInv'
  BY <1>0, <1>1, MoveEnds DEF LookupRunner, CreateRunner, OnIdle, SetIdle, IdlePublished,
     AfterIdle
<1>2. ASSUME NEW p \in Prompts,
             \/ EnsureRunning(p) \/ RunLoopBusy(p) \/ RunLoopBusyPublished(p) \/ WorkEnds(p)
             \/ WorkInterrupted(p) \/ NeverStarted(p)
      PROVE  EndsInv'
  <2>1. PICK l \in Phases : Goto(p, l)
    BY <1>2 DEF EnsureRunning, RunLoopBusy, RunLoopBusyPublished, WorkEnds, WorkInterrupted,
       NeverStarted
  <2>2. pc[p] # "over" /\ UNCHANGED <<target, done>>
    BY <1>2 DEF EnsureRunning, RunLoopBusy, RunLoopBusyPublished, WorkEnds, WorkInterrupted,
       NeverStarted
  <2>3. QED
    BY <1>0, <2>1, <2>2, MoveEnds
<1>3. ASSUME NEW p \in Prompts, FinishRun(p)
      PROVE  EndsInv'
  <2>1. of[p] \in Runners
    BY <1>3 DEF IInv, HoldsRunner, FinishRun
  <2>2. CASE Goto(p, "complete")
    BY <1>0, <1>3, <2>2, MoveEnds DEF FinishRun
  <2>3. CASE DrainQueue(of[p], p, "complete", "onIdle")
    BY <1>3, <2>1, <2>3, DrainEnds DEF FinishRun
  <2>4. QED
    BY <1>3, <2>2, <2>3 DEF FinishRun
<1>4. ASSUME NEW p \in Prompts, Complete(p)
      PROVE  EndsInv'
  <2>1. \A q \in Prompts : done[q] # "open" => done'[q] # "open"
    BY <1>0, <1>4 DEF Complete, Settle, TypeOK
  <2>2. QED
    BY <1>0, <1>4, <2>1, MoveEnds DEF Complete
<1>5. ASSUME NEW s \in Shells, StartShell(s) \/ ShellForked(s) \/ ShellReady(s) \/ ShellEnds(s)
      PROVE  EndsInv'
  <2>1. PICK l \in Phases : Goto(s, l)
    BY <1>5 DEF StartShell, ShellForked, ShellReady, ShellEnds
  <2>2. pc[s] # "over" /\ UNCHANGED <<target, done>>
    BY <1>5 DEF StartShell, ShellForked, ShellReady, ShellEnds
  <2>3. QED
    BY <1>0, <2>1, <2>2, MoveEnds
<1>6. ASSUME NEW s \in Shells, FinishShell(s)
      PROVE  EndsInv'
  <2>1. of[s] \in Runners
    BY <1>6 DEF IInv, HoldsRunner, FinishShell
  <2>2. CASE Goto(s, "over")
    BY <1>0, <1>6, <2>2, MoveEnds DEF FinishShell
  <2>3. CASE DrainQueue(of[s], s, "over", "onIdle")
    BY <1>6, <2>1, <2>3, DrainEnds DEF FinishShell
  <2>4. QED
    BY <1>6, <2>2, <2>3 DEF FinishShell
<1>7. ASSUME NEW c \in Cancels,
             \/ LookupCancel(c) \/ OnIdle(c) \/ SetIdle(c) \/ IdlePublished(c)
             \/ IdleIfCurrent(c)
      PROVE  EndsInv'
  <2>1. PICK l \in {"held", "over", "idle", "unregister", "onIdle"} :
           Goto(c, l) /\ (l = "held" => pc[c] = "call")
    BY <1>7 DEF LookupCancel, OnIdle, SetIdle, IdlePublished, IdleIfCurrent, AfterIdle
  <2>2. /\ pc[c] \in {"call", "onIdle", "unregister", "idle", "recheck"}
        /\ UNCHANGED <<target, done>>
    BY <1>7 DEF LookupCancel, OnIdle, SetIdle, IdlePublished, IdleIfCurrent
  <2>3. QED
    BY <1>0, <2>1, <2>2, MoveEnds
<1>8. ASSUME NEW c \in Cancels, CancelRef(c)
      PROVE  EndsInv'
  <2>1. of[c] \in Runners /\ pc[c] = "held" /\ done' = done
    BY <1>8 DEF IInv, HoldsRunner, CancelRef
  <2>2. CASE target' = target /\ Goto(c, "over")
    BY <1>0, <2>1, <2>2, MoveEnds
  <2>3. CASE /\ target' = [target EXCEPT ![c] = state[of[c]].id]
             /\ Goto(c, IF state[of[c]].tag = "Running" THEN "flush" ELSE "stop")
             /\ state[of[c]].tag # "Idle"
    <3>1. state[of[c]].tag # "Running" => state[of[c]].id \in Shells
      BY <1>0, <2>1, <2>3 DEF IInv, StateInv, StateOf, TypeOK
    <3>2. \A d \in Cancels \ {c} : pc'[d] = pc[d] /\ target'[d] = target[d]
      BY <1>0, <2>3 DEF Goto, TypeOK
    <3>3. \A p \in Prompts : pc'[p] = pc[p]
      BY <1>0, <2>3 DEF Goto, TypeOK
    <3>4. EndsOf(c)'
      BY <1>0, <2>3, <3>1 DEF EndsOf, Goto, TypeOK
    <3>5. QED
      BY <2>1, <3>2, <3>3, <3>4 DEF EndsInv, EndsOf
  <2>4. QED
    BY <1>8, <2>2, <2>3 DEF CancelRef
<1>9. ASSUME NEW c \in Cancels, StopShell(c) \/ InterruptRun(c)
      PROVE  EndsInv'
  <2>1. /\ Goto(c, "join") /\ pc[c] \in {"stop", "interrupt"}
        /\ UNCHANGED <<target, done>>
    BY <1>9 DEF StopShell, InterruptRun
  <2>2. QED
    BY <1>0, <2>1, MoveEnds
<1>10. ASSUME NEW c \in Cancels, FlushQueue(c)
       PROVE  EndsInv'
  <2>1. Queued(of[c]) \subseteq Prompts
    <3>1. of[c] \in Runners
      BY <1>10 DEF IInv, HoldsRunner, FlushQueue
    <3>2. queue[of[c]] \in Seq(Prompts)
      BY <1>0, <3>1 DEF TypeOK
    <3>3. QED
      BY <3>2 DEF Queued
  <2>2. \A d \in Cancels \ {c} : pc'[d] = pc[d]
    BY <1>10, <2>1 DEF FlushQueue
  <2>3. \A p \in Prompts : /\ pc[p] = "over" => pc'[p] = "over"
                           /\ done[p] # "open" => done'[p] # "open"
    BY <1>10 DEF FlushQueue
  <2>4. /\ target' = target
        /\ target[c] \in Prompts => pc[c] = "flush" /\ (pc'[c] = "interrupt" \/ pc'[c] = "over")
        /\ pc'[c] \notin {"call", "held"}
    BY <1>10 DEF FlushQueue, AfterFlush
  <2>5. pc'[c] # "over"
    BY <1>10, <2>1 DEF FlushQueue, AfterFlush
  <2>6. QED
    BY <2>2, <2>3, <2>4, <2>5 DEF EndsInv, EndsOf
<1>11. ASSUME NEW c \in Cancels, Joined(c)
       PROVE  EndsInv'
  <2>1. \A q \in Prompts : done[q] # "open" => done'[q] # "open"
    BY <1>0, <1>11 DEF Joined, Settle, TypeOK
  <2>2. CASE target[c] \in Prompts
    <3>1. /\ Goto(c, "recheck") /\ Settle(target[c], "Cancelled")
          /\ pc[target[c]] = "over" /\ pc[c] = "join" /\ target' = target
      BY <1>11, <2>2 DEF Joined
    <3>2. done'[target[c]] # "open"
      BY <1>0, <2>2, <3>1 DEF Settle, TypeOK
    <3>3. \A f \in Fibers \ {c} : pc'[f] = pc[f]
      BY <1>0, <3>1 DEF Goto, TypeOK
    <3>4. EndsOf(c)'
      BY <1>0, <2>2, <3>1, <3>2, <3>3 DEF EndsOf, Goto, TypeOK
    <3>5. QED
      BY <2>1, <3>1, <3>3, <3>4 DEF EndsInv, EndsOf
  <2>3. CASE target[c] \notin Prompts
    BY <1>0, <1>11, <2>1, <2>3, MoveEnds DEF Joined
  <2>4. QED
    BY <2>2, <2>3
<1>12. CASE UNCHANGED vars
  BY <1>12 DEF EndsInv, EndsOf
<1>13. QED
  BY <1>1, <1>2, <1>3, <1>4, <1>5, <1>6, <1>7, <1>8, <1>9, <1>10, <1>11, <1>12
     DEF Next, PromptStep, ShellStep, CancelStep, Finished

(* When cancel returns, the turn it aborted is over and its caller has an  *)
(* answer, even if the run's fiber was interrupted before it ran at all or *)
(* another abort, a flush or the run's own end came first.                 *)
THEOREM AbortAnswers == Spec => []AbortSettlesTurn
<1>1. Init => EndsInv
  BY DEF Init, EndsInv, EndsOf
<1>2. EndsInv => AbortSettlesTurn
  BY DEF EndsInv, EndsOf, AbortSettlesTurn
<1>3. QED
  BY <1>1, <1>2, EndsStep, AlwaysIInv, PTL DEF Spec
-----------------------------------------------------------------------------
(* How a session comes to rest                                             *)

\* In phase l fiber f has a runner to leave, and an onIdle to run if nobody else will.
PendingAt(f, l) ==
    \/ l = "onIdle"
    \/ f \in Prompts \cup Shells /\ l = "held"
    \/ f \in Shells /\ l = "busy"
    \/ f \in Cancels /\ l \in AbortPhases \cup {"recheck"}

\* A runner works, or a fiber is about to make one work or to run onIdle.
Pending ==
    \/ \E r \in Runners : state[r].tag # "Idle"
    \/ \E f \in Fibers : PendingAt(f, pc[f])

\* The session is in the map only while somebody will take it out again.
MapInv == runners # None => Pending

\* No fiber holds a runner of a turn that has not begun, nor does the ledger know one.
TurnInv ==
    /\ ledger.generation <= turns
    /\ \A f \in Fibers : of[f] # None => of[f] <= turns
    /\ runners # None => runners <= turns

\* Every status published or about to be has a number the ledger has given.
StampInv ==
    /\ view.seq <= ledger.seq
    /\ \A f \in Fibers : stamp[f] <= ledger.seq

\* A run is its runner's current one, or an abort waits for it to end.
OwnedInv ==
    \A p \in Prompts : pc[p] \in RunPhases =>
        \/ state[of[p]].id = p
        \/ \E c \in Cancels : target[c] = p /\ pc[c] \in {"flush", "interrupt", "join"}

\* An idle that is yet to be numbered.
IdleDue == Pending \/ \E f \in Fibers : pc[f] = "unregister"

\* With one runner, whoever sees busy has an idle coming that is newer.
IdleInv ==
    turns <= 1 =>
        /\ status = "busy" => IdleDue \/ \E f \in Fibers : pc[f] = "idle"
        /\ view.type = "busy" =>
              IdleDue \/ \E f \in Fibers : pc[f] = "idle" /\ stamp[f] > view.seq

RestInv == MapInv /\ TurnInv /\ StampInv /\ OwnedInv /\ IdleInv

\* A step that moves f alone and leaves every runner as it was.
LEMMA MovePending ==
    ASSUME TypeOK, NEW f \in Fibers, NEW l \in Phases, Goto(f, l), state' = state,
           PendingAt(f, pc[f]) => PendingAt(f, l), Pending
    PROVE  Pending'
<1>1. \A g \in Fibers : pc'[g] = IF g = f THEN l ELSE pc[g]
  BY DEF TypeOK, Goto
<1>2. CASE \E r \in Runners : state[r].tag # "Idle"
  BY <1>2 DEF Pending
<1>3. CASE \E g \in Fibers : PendingAt(g, pc[g])
  <2>1. PICK g \in Fibers : PendingAt(g, pc[g])
    BY <1>3
  <2>2. PendingAt(g, pc'[g])
    BY <1>1, <2>1
  <2>3. QED
    BY <2>2 DEF Pending, PendingAt
<1>4. QED
  BY <1>2, <1>3 DEF Pending

\* A fiber that is pending after a step.
LEMMA PendingBy ==
    ASSUME NEW f \in Fibers, NEW l, PendingAt(f, l), pc'[f] = l
    PROVE  Pending'
  BY DEF Pending, PendingAt

\* A drain promotes a prompt or leads to onIdle.
LEMMA DrainPending ==
    ASSUME IInv, NEW r \in Runners, NEW f \in Fibers, NEW next,
           DrainQueue(r, f, next, "onIdle")
    PROVE  Pending'
<1>1. CASE state' = [state EXCEPT ![r] = IdleState] /\ Goto(f, "onIdle")
  <2>1. pc'[f] = "onIdle"
    BY <1>1 DEF Goto, IInv, TypeOK
  <2>2. QED
    BY <2>1, PendingBy DEF PendingAt
<1>2. CASE StartRun(r, Head(queue[r]))
  <2>1. state'[r].tag = "Running"
    BY <1>2 DEF StartRun, IInv, TypeOK
  <2>2. QED
    BY <2>1 DEF Pending
<1>3. QED
  BY <1>1, <1>2 DEF DrainQueue

\* Only onIdle, which takes the session out of the map, ends a pending one.
LEMMA PendingStep ==
    ASSUME IInv, [Next]_vars, Pending, ~ \E f \in Fibers : OnIdle(f)
    PROVE  Pending'
<1>0. TypeOK
  BY DEF IInv
<1>1. ASSUME NEW f \in Prompts \cup Shells,
             LookupRunner(f) \/ CreateRunner(f) \/ SetIdle(f) \/ IdlePublished(f)
      PROVE  Pending'
  <2>1. PICK l \in Phases : Goto(f, l)
    BY <1>1 DEF LookupRunner, CreateRunner, SetIdle, IdlePublished, AfterIdle
  <2>2. state' = state
    BY <1>1 DEF LookupRunner, CreateRunner, SetIdle, IdlePublished
  <2>3. ~ PendingAt(f, pc[f])
    BY <1>1 DEF LookupRunner, CreateRunner, SetIdle, IdlePublished, PendingAt
  <2>4. QED
    BY <1>0, <2>1, <2>2, <2>3, MovePending
<1>2. ASSUME NEW p \in Prompts,
             \/ RunLoopBusy(p) \/ RunLoopBusyPublished(p) \/ WorkEnds(p)
             \/ WorkInterrupted(p) \/ NeverStarted(p) \/ Complete(p)
      PROVE  Pending'
  <2>1. PICK l \in Phases : Goto(p, l)
    BY <1>2 DEF RunLoopBusy, RunLoopBusyPublished, WorkEnds, WorkInterrupted, NeverStarted,
       Complete
  <2>2. state' = state
    BY <1>2 DEF RunLoopBusy, RunLoopBusyPublished, WorkEnds, WorkInterrupted, NeverStarted,
       Complete
  <2>3. ~ PendingAt(p, pc[p])
    BY <1>2 DEF RunLoopBusy, RunLoopBusyPublished, WorkEnds, WorkInterrupted, NeverStarted,
       Complete, PendingAt
  <2>4. QED
    BY <1>0, <2>1, <2>2, <2>3, MovePending
<1>3. ASSUME NEW p \in Prompts, EnsureRunning(p)
      PROVE  Pending'
  <2>1. of[p] \in Runners /\ state \in [Runners -> [tag : Tags, id : Prompts \cup Shells \cup {None}]]
    BY <1>0, <1>3 DEF IInv, HoldsRunner, EnsureRunning, TypeOK
  <2>2. state'[of[p]].tag # "Idle"
    BY <1>3, <2>1 DEF EnsureRunning, StartRun
  <2>3. QED
    BY <2>1, <2>2 DEF Pending
<1>4. ASSUME NEW p \in Prompts, FinishRun(p)
      PROVE  Pending'
  <2>1. of[p] \in Runners
    BY <1>4 DEF IInv, HoldsRunner, FinishRun
  <2>2. CASE Goto(p, "complete") /\ UNCHANGED state
    BY <1>0, <1>4, <2>2, MovePending DEF FinishRun, PendingAt
  <2>3. CASE DrainQueue(of[p], p, "complete", "onIdle")
    BY <2>1, <2>3, DrainPending
  <2>4. QED
    BY <1>4, <2>2, <2>3 DEF FinishRun
<1>5. ASSUME NEW s \in Shells, FinishShell(s)
      PROVE  Pending'
  <2>1. of[s] \in Runners
    BY <1>5 DEF IInv, HoldsRunner, FinishShell
  <2>2. CASE Goto(s, "over") /\ UNCHANGED state
    BY <1>0, <1>5, <2>2, MovePending DEF FinishShell, PendingAt
  <2>3. CASE DrainQueue(of[s], s, "over", "onIdle")
    BY <2>1, <2>3, DrainPending
  <2>4. QED
    BY <1>5, <2>2, <2>3 DEF FinishShell
<1>6. ASSUME NEW s \in Shells, StartShell(s)
      PROVE  Pending'
  <2>1. of[s] \in Runners /\ state' = state
    BY <1>6 DEF IInv, HoldsRunner, StartShell
  <2>2. CASE state[of[s]].tag # "Idle"
    BY <2>1, <2>2 DEF Pending
  <2>3. CASE Goto(s, "busy")
    <3>1. pc'[s] = "busy"
      BY <1>0, <2>3 DEF Goto, TypeOK
    <3>2. QED
      BY <3>1, PendingBy DEF PendingAt
  <2>4. QED
    BY <1>6, <2>2, <2>3 DEF StartShell
<1>7. ASSUME NEW s \in Shells, ShellForked(s)
      PROVE  Pending'
  <2>1. of[s] \in Runners
    BY <1>7 DEF IInv, HoldsRunner, ShellForked
  <2>2. state'[of[s]].tag = "Shell"
    BY <1>0, <1>7, <2>1 DEF ShellForked, TypeOK
  <2>3. QED
    BY <2>1, <2>2 DEF Pending
<1>8. ASSUME NEW s \in Shells, ShellReady(s) \/ ShellEnds(s)
      PROVE  Pending'
  BY <1>0, <1>8, MovePending DEF ShellReady, ShellEnds, runnerVars, PendingAt
<1>9. ASSUME NEW c \in Cancels, LookupCancel(c) \/ SetIdle(c) \/ IdlePublished(c)
      PROVE  Pending'
  <2>1. PICK l \in Phases : Goto(c, l)
    BY <1>9 DEF LookupCancel, SetIdle, IdlePublished, AfterIdle
  <2>2. state' = state /\ ~ PendingAt(c, pc[c])
    BY <1>9 DEF LookupCancel, SetIdle, IdlePublished, PendingAt, AbortPhases
  <2>3. QED
    BY <1>0, <2>1, <2>2, MovePending
<1>10. ASSUME NEW c \in Cancels, CancelRef(c)
       PROVE  Pending'
  <2>1. CASE Goto(c, "over") /\ UNCHANGED state
    BY <1>0, <1>10, <2>1, MovePending DEF CancelRef, PendingAt, AbortPhases
  <2>2. CASE Goto(c, IF state[of[c]].tag = "Running" THEN "flush" ELSE "stop")
    <3>1. pc'[c] \in {"flush", "stop"}
      BY <1>0, <2>2 DEF Goto, TypeOK
    <3>2. QED
      BY <3>1, PendingBy DEF PendingAt, AbortPhases
  <2>3. QED
    BY <1>10, <2>1, <2>2 DEF CancelRef
<1>11. ASSUME NEW c \in Cancels, StopShell(c) \/ FlushQueue(c) \/ InterruptRun(c) \/ Joined(c)
       PROVE  Pending'
  <2>1. c \notin Queued(of[c]) \/ ~ FlushQueue(c)
    <3>1. SUFFICES ASSUME FlushQueue(c) PROVE c \notin Queued(of[c])
      OBVIOUS
    <3>2. of[c] \in Runners
      BY <3>1 DEF IInv, HoldsRunner, FlushQueue
    <3>3. queue[of[c]] \in Seq(Prompts)
      BY <1>0, <3>2 DEF TypeOK
    <3>4. QED
      BY <3>3 DEF Queued
  <2>2. pc'[c] \in {"join", "interrupt", "recheck", "flush"}
    BY <1>0, <1>11, <2>1 DEF StopShell, FlushQueue, InterruptRun, Joined, Goto, TypeOK, AfterFlush
  <2>3. QED
    BY <2>2, PendingBy DEF PendingAt, AbortPhases
<1>12. ASSUME NEW c \in Cancels, IdleIfCurrent(c)
       PROVE  Pending'
  <2>1. of[c] \in Runners /\ state' = state
    BY <1>12 DEF IInv, HoldsRunner, IdleIfCurrent
  <2>2. CASE state[of[c]].tag = "Idle"
    <3>1. pc'[c] = "onIdle"
      BY <1>0, <1>12, <2>2 DEF IdleIfCurrent, Goto, TypeOK
    <3>2. QED
      BY <3>1, PendingBy DEF PendingAt
  <2>3. CASE state[of[c]].tag # "Idle"
    BY <2>1, <2>3 DEF Pending
  <2>4. QED
    BY <2>2, <2>3
<1>13. CASE UNCHANGED vars
  BY <1>13 DEF Pending, PendingAt
<1>14. QED
  BY <1>1, <1>2, <1>3, <1>4, <1>5, <1>6, <1>7, <1>8, <1>9, <1>10, <1>11, <1>12, <1>13
     DEF Next, PromptStep, ShellStep, CancelStep, Finished

\* The session is in the map only while somebody is about to take it out.
LEMMA MapStep == IInv /\ MapInv /\ [Next]_vars => MapInv'
<1> SUFFICES ASSUME IInv, MapInv, [Next]_vars, runners' # None PROVE Pending'
  BY DEF MapInv
<1>1. ASSUME NEW f \in Fibers, OnIdle(f) PROVE FALSE
  BY <1>1 DEF OnIdle
<1>2. ASSUME NEW f \in Prompts \cup Shells, CreateRunner(f) PROVE Pending'
  <2>1. pc'[f] = "held"
    BY <1>2 DEF CreateRunner, Goto, IInv, TypeOK
  <2>2. QED
    BY <2>1, PendingBy DEF PendingAt
<1>3. CASE runners' = runners
  BY <1>1, <1>3, PendingStep DEF MapInv
<1>4. (\E f \in Fibers : OnIdle(f)) \/ (\E f \in Prompts \cup Shells : CreateRunner(f))
      \/ runners' = runners
  BY DEF Next, PromptStep, ShellStep, CancelStep, Finished, LookupRunner, LookupCancel,
     EnsureRunning, RunLoopBusy, RunLoopBusyPublished, WorkEnds, WorkInterrupted, NeverStarted,
     FinishRun, SetIdle, IdlePublished, Complete, StartShell, ShellForked, ShellReady, ShellEnds,
     FinishShell, CancelRef, StopShell, FlushQueue, InterruptRun, Joined, IdleIfCurrent
<1>5. QED
  BY <1>1, <1>2, <1>3, <1>4

\* What a step may do to the map and to the runners the fibers hold.
LEMMA MapChanges ==
    ASSUME IInv, [Next]_vars
    PROVE  \/ UNCHANGED <<runners, turns, of>>
           \/ \E f \in Fibers : OnIdle(f)
           \/ \E f \in Prompts \cup Shells : CreateRunner(f)
           \/ /\ UNCHANGED <<runners, turns>>
              /\ runners # None
              /\ \E f \in Fibers : of' = [of EXCEPT ![f] = runners]
<1>1. ASSUME NEW f \in Prompts \cup Shells, LookupRunner(f)
      PROVE  /\ UNCHANGED <<runners, turns>>
             /\ of' = of \/ (runners # None /\ of' = [of EXCEPT ![f] = runners])
  BY <1>1 DEF LookupRunner
<1>2. ASSUME NEW c \in Cancels, LookupCancel(c)
      PROVE  /\ UNCHANGED <<runners, turns>>
             /\ of' = of \/ (runners # None /\ of' = [of EXCEPT ![c] = runners])
  BY <1>2 DEF LookupCancel
<1>3. ASSUME NEW p \in Prompts, PromptStep(p)
      PROVE  UNCHANGED <<runners, turns, of>> \/ OnIdle(p) \/ CreateRunner(p)
  BY <1>3 DEF PromptStep, EnsureRunning, RunLoopBusy, RunLoopBusyPublished, WorkEnds,
     WorkInterrupted, NeverStarted, FinishRun, SetIdle, IdlePublished, Complete
<1>4. ASSUME NEW s \in Shells, ShellStep(s)
      PROVE  UNCHANGED <<runners, turns, of>> \/ OnIdle(s) \/ CreateRunner(s)
  BY <1>4 DEF ShellStep, StartShell, ShellForked, ShellReady, ShellEnds, FinishShell, SetIdle,
     IdlePublished
<1>5. ASSUME NEW c \in Cancels, CancelStep(c)
      PROVE  UNCHANGED <<runners, turns, of>> \/ OnIdle(c)
  BY <1>5 DEF CancelStep, CancelRef, StopShell, FlushQueue, InterruptRun, Joined, IdleIfCurrent,
     SetIdle, IdlePublished
<1>6. QED
  BY <1>1, <1>2, <1>3, <1>4, <1>5 DEF Next, Finished

\* What a step may do to the ledger, the stamps and the published status.
LEMMA StatusChanges ==
    ASSUME IInv, [Next]_vars
    PROVE  \/ UNCHANGED statusVars
           \/ \E c \in Cancels : StampStatus(c, 0) /\ UNCHANGED <<status, view>>
           \/ \E p \in Prompts : RunLoopBusy(p)
           \/ \E s \in Shells : StampStatus(s, of[s]) /\ StartShell(s) /\ UNCHANGED <<status, view>>
           \/ \E f \in Fibers : SetIdle(f) /\ StampStatus(f, of[f]) /\ UNCHANGED <<status, view>>
           \/ \E p \in Prompts : RunLoopBusyPublished(p)
           \/ \E s \in Shells : ShellForked(s)
           \/ \E f \in Fibers : IdlePublished(f)
           \/ \E p \in Prompts : WorkInterrupted(p)
<1>1. ASSUME NEW p \in Prompts, LookupRunner(p) \/ PromptStep(p)
      PROVE  \/ UNCHANGED statusVars
             \/ RunLoopBusy(p)
             \/ SetIdle(p) /\ StampStatus(p, of[p]) /\ UNCHANGED <<status, view>>
             \/ RunLoopBusyPublished(p)
             \/ IdlePublished(p)
             \/ WorkInterrupted(p)
  BY <1>1 DEF PromptStep, LookupRunner, CreateRunner, OnIdle, EnsureRunning, WorkEnds,
     NeverStarted, FinishRun, SetIdle, Complete
<1>2. ASSUME NEW s \in Shells, LookupRunner(s) \/ ShellStep(s)
      PROVE  \/ UNCHANGED statusVars
             \/ StampStatus(s, of[s]) /\ StartShell(s) /\ UNCHANGED <<status, view>>
             \/ SetIdle(s) /\ StampStatus(s, of[s]) /\ UNCHANGED <<status, view>>
             \/ ShellForked(s)
             \/ IdlePublished(s)
  BY <1>2 DEF ShellStep, LookupRunner, CreateRunner, OnIdle, StartShell, ShellReady, ShellEnds,
     FinishShell, SetIdle
<1>3. ASSUME NEW c \in Cancels, LookupCancel(c) \/ CancelStep(c)
      PROVE  \/ UNCHANGED statusVars
             \/ StampStatus(c, 0) /\ UNCHANGED <<status, view>>
             \/ SetIdle(c) /\ StampStatus(c, of[c]) /\ UNCHANGED <<status, view>>
             \/ IdlePublished(c)
  BY <1>3 DEF CancelStep, LookupCancel, OnIdle, CancelRef, StopShell, FlushQueue, InterruptRun,
     Joined, IdleIfCurrent, SetIdle
<1>4. CASE UNCHANGED vars
  BY <1>4
<1>5. ASSUME NEW p \in Prompts PROVE p \in Fibers
  OBVIOUS
<1>6. QED
  BY <1>1, <1>2, <1>3, <1>4, <1>5 DEF Next, Finished

\* No write of the ledger or of the map is ahead of the generation counter.
LEMMA TurnStep == IInv /\ TurnInv /\ [Next]_vars => TurnInv'
<1> SUFFICES ASSUME IInv, TurnInv, [Next]_vars PROVE TurnInv'
  OBVIOUS
<1>0. /\ turns \in Nat /\ turns' \in Nat /\ ledger.generation \in Nat
      /\ of \in [Fibers -> Runners \cup {None}] /\ runners \in Runners \cup {None}
      /\ ledger \in [seq : Nat, generation : 0 .. MaxRunners]
  BY NextIInv DEF IInv, TypeOK
<1>1. turns <= turns' /\ ledger.generation <= turns'
  BY <1>0, MapChanges DEF TurnInv, OnIdle, CreateRunner
<1>2. \A f \in Fibers : of'[f] # None => of'[f] <= turns'
  <2>1. of' = of \/ \E f \in Fibers, r \in Nat : r <= turns' /\ of' = [of EXCEPT ![f] = r]
    <3>1. runners # None => runners \in Nat /\ runners <= turns
      BY <1>0 DEF TurnInv
    <3>2. QED
      BY <1>0, <1>1, <3>1, MapChanges DEF OnIdle, CreateRunner
  <2>2. \A f \in Fibers : of[f] # None => of[f] <= turns'
    BY <1>0, <1>1 DEF TurnInv
  <2>3. QED
    BY <1>0, <2>1, <2>2
<1>3. runners' # None => runners' <= turns'
  BY <1>0, MapChanges DEF TurnInv, OnIdle, CreateRunner
<1>4. ledger'.generation <= turns'
  <2>1. ASSUME NEW f \in Fibers, NEW gen \in Nat, gen <= turns, StampStatus(f, gen)
        PROVE  ledger'.generation <= turns'
    BY <1>0, <1>1, <2>1 DEF StampStatus
  <2>2. CASE ledger' = ledger
    BY <1>1, <2>2
  <2>3. 0 \in Nat /\ 0 <= turns
    BY <1>0
  <2>4. ASSUME NEW f \in Fibers, of[f] # None, StampStatus(f, of[f])
        PROVE  ledger'.generation <= turns'
    <3>1. of[f] \in Nat /\ of[f] <= turns
      BY <1>0, <2>4 DEF TurnInv
    <3>2. QED
      BY <2>1, <2>4, <3>1
  <2>5. \A f \in Prompts \cup Shells : pc[f] \in {"held", "unregister"} => of[f] # None
    BY <1>0 DEF IInv, HoldsRunner
  <2>6. \A c \in Cancels : pc[c] = "unregister" => of[c] # None
    BY <1>0 DEF IInv, HoldsRunner
  <2>7. QED
    BY <2>1, <2>2, <2>3, <2>4, <2>5, <2>6, StatusChanges DEF RunLoopBusy, StartShell, SetIdle,
       RunLoopBusyPublished, ShellForked, IdlePublished, WorkInterrupted, PublishStatus
<1>5. QED
  BY <1>2, <1>3, <1>4 DEF TurnInv

\* Statuses are published with the numbers the ledger has given.
LEMMA StampStep == IInv /\ StampInv /\ [Next]_vars => StampInv'
<1> SUFFICES ASSUME IInv, StampInv, [Next]_vars PROVE StampInv'
  OBVIOUS
<1>0. /\ ledger \in [seq : Nat, generation : 0 .. MaxRunners]
      /\ stamp \in [Fibers -> Nat]
      /\ view \in [seq : Nat, type : {"busy", "idle"}]
  BY DEF IInv, TypeOK
<1>1. ASSUME NEW f \in Fibers, NEW gen, StampStatus(f, gen), view' = view
      PROVE  StampInv'
  BY <1>0, <1>1 DEF StampInv, StampStatus
<1>2. ASSUME NEW f \in Fibers, NEW type, PublishStatus(f, type)
      PROVE  StampInv'
  BY <1>0, <1>2 DEF StampInv, PublishStatus
<1>3. ASSUME NEW p \in Prompts, WorkInterrupted(p)
      PROVE  StampInv'
  BY <1>0, <1>3 DEF StampInv, WorkInterrupted
<1>4. CASE UNCHANGED statusVars
  BY <1>4 DEF StampInv
<1>5. QED
  BY <1>1, <1>2, <1>3, <1>4, StatusChanges DEF RunLoopBusy, RunLoopBusyPublished, ShellForked,
     IdlePublished

\* An abort in these phases waits for the run it has captured.
StopPhases == {"flush", "interrupt", "join"}

\* A step that moves f alone, leaves the runners and no run unattended.
LEMMA MoveOwned ==
    ASSUME IInv, OwnedInv, NEW f \in Fibers, NEW l \in Phases, Goto(f, l), UNCHANGED <<state, target>>,
           \A p \in Prompts : pc[p] \in RunPhases => of'[p] = of[p],
           f \in Prompts /\ l \in RunPhases => pc[f] \in RunPhases,
           f \in Cancels /\ pc[f] \in StopPhases =>
              l \in StopPhases \/ target[f] \notin Prompts \/ pc[target[f]] = "over"
    PROVE  OwnedInv'
<1> SUFFICES ASSUME NEW p \in Prompts, pc'[p] \in RunPhases
             PROVE  \/ state[of'[p]].id = p
                    \/ \E c \in Cancels : target[c] = p /\ pc'[c] \in StopPhases
  BY DEF OwnedInv, StopPhases
<1>1. \A g \in Fibers : pc'[g] = IF g = f THEN l ELSE pc[g]
  BY DEF IInv, TypeOK, Goto
<1>2. pc[p] \in RunPhases /\ of'[p] = of[p]
  BY <1>1
<1>3. CASE state[of[p]].id = p
  BY <1>2, <1>3
<1>4. CASE \E c \in Cancels : target[c] = p /\ pc[c] \in StopPhases
  <2>1. PICK c \in Cancels : target[c] = p /\ pc[c] \in StopPhases
    BY <1>4
  <2>2. pc'[c] \in StopPhases
    BY <1>1, <1>2, <2>1 DEF RunPhases
  <2>3. QED
    BY <2>1, <2>2
<1>5. QED
  BY <1>2, <1>3, <1>4 DEF OwnedInv, StopPhases

\* A drain ends f's turn; the prompt it promotes is the runner's current one.
LEMMA DrainOwned ==
    ASSUME IInv, OwnedInv, NEW f \in Prompts \cup Shells, NEW next \in Phases \ RunPhases,
           state[of[f]].id = f, of[f] \in Runners, DrainQueue(of[f], f, next, "onIdle"),
           UNCHANGED <<of, target>>
    PROVE  OwnedInv'
<1> DEFINE r == of[f]
<1> SUFFICES ASSUME NEW p \in Prompts, pc'[p] \in RunPhases
             PROVE  \/ state'[of[p]].id = p
                    \/ \E c \in Cancels : target[c] = p /\ pc'[c] \in StopPhases
  BY DEF OwnedInv, StopPhases
<1>1. TypeOK
  BY DEF IInv
<1>2. queue[r] # <<>> => /\ Head(queue[r]) \in Prompts
                        /\ of[Head(queue[r])] = r
                        /\ pc[Head(queue[r])] = "queued"
                        /\ state' = [state EXCEPT ![r] = [tag |-> "Running", id |-> Head(queue[r])]]
                        /\ \A g \in Fibers \ {f, Head(queue[r])} : pc'[g] = pc[g]
  BY <1>1 DEF IInv, QueueInv, QueueOf, TypeOK, DrainQueue, StartRun
<1>3. queue[r] = <<>> => /\ state' = [state EXCEPT ![r] = IdleState]
                        /\ \A g \in Fibers \ {f} : pc'[g] = pc[g]
  BY <1>1 DEF DrainQueue, TypeOK, Goto
<1>4. pc'[f] \notin RunPhases
  <2>1. CASE queue[r] = <<>>
    BY <1>1, <2>1 DEF DrainQueue, TypeOK, Goto, RunPhases
  <2>2. CASE queue[r] # <<>>
    <3>1. f # Head(queue[r])
      <4>1. StateOf(r) /\ state[r].tag \in Tags /\ f # None
        BY <1>1 DEF IInv, StateInv, TypeOK
      <4>2. pc[f] \in RunPhases \cup ShellPhases
        BY <4>1 DEF StateOf
      <4>3. QED
        BY <1>2, <2>2, <4>2 DEF RunPhases, ShellPhases
    <3>2. pc'[f] = next
      BY <1>1, <1>2, <2>2, <3>1 DEF DrainQueue, TypeOK
    <3>3. QED
      BY <3>2
  <2>3. QED
    BY <2>1, <2>2
<1>5. CASE queue[r] # <<>> /\ p = Head(queue[r])
  BY <1>1, <1>2, <1>5 DEF TypeOK
<1>6. CASE ~ (queue[r] # <<>> /\ p = Head(queue[r]))
  <2>1. p # f /\ pc'[p] = pc[p]
    BY <1>2, <1>3, <1>4, <1>6
  <2>2. \A c \in Cancels : pc'[c] = pc[c]
    BY <1>2, <1>3
  <2>3. CASE state[of[p]].id = p
    <3>1. of[p] # r
      BY <2>1, <2>3
    <3>2. of[p] \in Runners
      BY <2>1 DEF IInv, HoldsRunner, RunPhases
    <3>3. state'[of[p]] = state[of[p]]
      BY <1>1, <1>2, <1>3, <3>1, <3>2 DEF TypeOK
    <3>4. QED
      BY <2>3, <3>3
  <2>4. CASE \E c \in Cancels : target[c] = p /\ pc[c] \in StopPhases
    BY <2>2, <2>4
  <2>5. QED
    BY <2>1, <2>3, <2>4 DEF OwnedInv, StopPhases
<1>7. QED
  BY <1>5, <1>6

\* No run goes on that its runner has forgotten and no abort waits for.
LEMMA OwnedStep == IInv /\ OwnedInv /\ [Next]_vars => OwnedInv'
<1> SUFFICES ASSUME IInv, OwnedInv, [Next]_vars PROVE OwnedInv'
  OBVIOUS
<1>0. TypeOK
  BY DEF IInv
<1>1. ASSUME NEW f \in Fibers,
             \/ f \in Prompts \cup Shells /\ (LookupRunner(f) \/ CreateRunner(f))
             \/ OnIdle(f) \/ SetIdle(f) \/ IdlePublished(f)
      PROVE  OwnedInv'
  <2>1. PICK l \in Phases \ RunPhases : Goto(f, l)
    BY <1>1 DEF LookupRunner, CreateRunner, OnIdle, SetIdle, IdlePublished, AfterIdle, RunPhases
  <2>2. UNCHANGED <<state, target>> /\ pc[f] \notin StopPhases \cup RunPhases
    BY <1>1 DEF LookupRunner, CreateRunner, OnIdle, SetIdle, IdlePublished, StopPhases, RunPhases
  <2>3. \A p \in Prompts : pc[p] \in RunPhases => of'[p] = of[p]
    BY <1>0, <1>1, <2>2 DEF LookupRunner, CreateRunner, OnIdle, SetIdle, IdlePublished, TypeOK
  <2>4. QED
    BY <2>1, <2>2, <2>3, MoveOwned
<1>2. ASSUME NEW p \in Prompts,
             \/ RunLoopBusy(p) \/ RunLoopBusyPublished(p) \/ WorkEnds(p)
             \/ WorkInterrupted(p) \/ NeverStarted(p) \/ Complete(p)
      PROVE  OwnedInv'
  <2>1. PICK l \in Phases : Goto(p, l) /\ (l \in RunPhases => pc[p] \in RunPhases)
    BY <1>2 DEF RunLoopBusy, RunLoopBusyPublished, WorkEnds, WorkInterrupted, NeverStarted,
       Complete, RunPhases
  <2>2. UNCHANGED <<state, target, of>>
    BY <1>2 DEF RunLoopBusy, RunLoopBusyPublished, WorkEnds, WorkInterrupted, NeverStarted,
       Complete
  <2>3. QED
    BY <2>1, <2>2, MoveOwned
<1>3. ASSUME NEW p \in Prompts, EnsureRunning(p)
      PROVE  OwnedInv'
  <2>1. /\ of[p] \in Runners /\ UNCHANGED <<of, target>>
        /\ \A f \in Fibers \ {p} : pc'[f] = pc[f]
    BY <1>0, <1>3 DEF IInv, HoldsRunner, EnsureRunning, TypeOK, Goto
  <2>2. pc'[p] \in RunPhases => state'[of[p]].id = p
    BY <1>0, <1>3, <2>1 DEF EnsureRunning, StartRun, Goto, TypeOK, RunPhases
  <2>3. ASSUME NEW q \in Prompts, of[q] \in Runners, state[of[q]].id = q
        PROVE  state'[of[q]].id = q
    <3>1. state[of[p]].tag = "Idle" => of[q] # of[p]
      BY <2>1, <2>3 DEF IInv, StateInv, StateOf
    <3>2. QED
      BY <1>0, <1>3, <2>1, <2>3, <3>1 DEF EnsureRunning, StartRun, TypeOK
  <2>4. SUFFICES ASSUME NEW q \in Prompts \ {p}, pc'[q] \in RunPhases
                 PROVE  \/ state'[of[q]].id = q
                        \/ \E c \in Cancels : target[c] = q /\ pc'[c] \in StopPhases
    BY <2>1, <2>2 DEF OwnedInv, StopPhases
  <2>5. pc[q] \in RunPhases /\ of[q] \in Runners
    BY <2>1, <2>4 DEF IInv, HoldsRunner, RunPhases
  <2>6. QED
    BY <2>1, <2>3, <2>4, <2>5 DEF OwnedInv, StopPhases
<1>4. ASSUME NEW p \in Prompts, FinishRun(p)
      PROVE  OwnedInv'
  <2>1. of[p] \in Runners
    BY <1>4 DEF IInv, HoldsRunner, FinishRun
  <2>2. CASE Goto(p, "complete") /\ UNCHANGED state
    BY <1>4, <2>2, MoveOwned DEF FinishRun, RunPhases
  <2>3. CASE state[of[p]].id = p /\ DrainQueue(of[p], p, "complete", "onIdle")
    BY <1>4, <2>1, <2>3, DrainOwned DEF FinishRun, RunPhases
  <2>4. QED
    BY <1>4, <2>2, <2>3 DEF FinishRun
<1>5. ASSUME NEW s \in Shells, FinishShell(s)
      PROVE  OwnedInv'
  <2>1. of[s] \in Runners
    BY <1>5 DEF IInv, HoldsRunner, FinishShell
  <2>2. CASE Goto(s, "over") /\ UNCHANGED state
    BY <1>5, <2>2, MoveOwned DEF FinishShell, RunPhases
  <2>3. CASE state[of[s]].id = s /\ DrainQueue(of[s], s, "over", "onIdle")
    BY <1>5, <2>1, <2>3, DrainOwned DEF FinishShell, RunPhases
  <2>4. QED
    BY <1>5, <2>2, <2>3 DEF FinishShell
<1>6. ASSUME NEW s \in Shells, StartShell(s) \/ ShellReady(s) \/ ShellEnds(s)
      PROVE  OwnedInv'
  BY <1>6, MoveOwned DEF StartShell, ShellReady, ShellEnds
<1>7. ASSUME NEW s \in Shells, ShellForked(s)
      PROVE  OwnedInv'
  <2>1. of[s] \in Runners /\ UNCHANGED <<of, target>>
    BY <1>7 DEF IInv, HoldsRunner, ShellForked
  <2>2. state[of[s]].id = None
    BY <1>7, <2>1 DEF IInv, LockInv, StateInv, StateOf, ShellForked
  <2>3. \A f \in Prompts \cup Cancels : pc'[f] = pc[f]
    BY <1>0, <1>7 DEF ShellForked, Goto, TypeOK
  <2>4. SUFFICES ASSUME NEW q \in Prompts, pc[q] \in RunPhases
                 PROVE  \/ state'[of[q]].id = q
                        \/ \E c \in Cancels : target[c] = q /\ pc[c] \in StopPhases
    BY <2>1, <2>3 DEF OwnedInv, StopPhases
  <2>5. of[q] \in Runners
    BY <2>4 DEF IInv, HoldsRunner, RunPhases
  <2>6. state[of[q]].id = q => state'[of[q]].id = q
    BY <1>0, <1>7, <2>1, <2>2, <2>5 DEF ShellForked, TypeOK
  <2>7. QED
    BY <2>4, <2>6 DEF OwnedInv, StopPhases
<1>8. ASSUME NEW c \in Cancels,
             LookupCancel(c) \/ StopShell(c) \/ InterruptRun(c) \/ Joined(c) \/ IdleIfCurrent(c)
      PROVE  OwnedInv'
  <2>1. PICK l \in Phases : Goto(c, l)
    BY <1>8 DEF LookupCancel, StopShell, InterruptRun, Joined, IdleIfCurrent
  <2>2. UNCHANGED <<state, target>>
    BY <1>8 DEF LookupCancel, StopShell, InterruptRun, Joined, IdleIfCurrent
  <2>3. \A p \in Prompts : of'[p] = of[p]
    BY <1>0, <1>8 DEF LookupCancel, StopShell, InterruptRun, Joined, IdleIfCurrent, TypeOK
  <2>4. pc[c] \in StopPhases =>
           pc'[c] \in StopPhases \/ target[c] \notin Prompts \/ pc[target[c]] = "over"
    BY <1>0, <1>8 DEF LookupCancel, StopShell, InterruptRun, Joined, IdleIfCurrent, StopPhases,
       Goto, TypeOK
  <2>5. pc'[c] = l
    BY <1>0, <2>1 DEF Goto, TypeOK
  <2>6. QED
    BY <2>1, <2>2, <2>3, <2>4, <2>5, MoveOwned
<1>9. ASSUME NEW c \in Cancels, CancelRef(c)
      PROVE  OwnedInv'
  <2>1. of[c] \in Runners /\ UNCHANGED of /\ pc[c] = "held"
    BY <1>9 DEF IInv, HoldsRunner, CancelRef
  <2>2. CASE Goto(c, "over") /\ UNCHANGED <<state, target>>
    BY <2>1, <2>2, MoveOwned DEF StopPhases
  <2>3. CASE /\ Goto(c, IF state[of[c]].tag = "Running" THEN "flush" ELSE "stop")
             /\ target' = [target EXCEPT ![c] = state[of[c]].id]
             /\ state' = [state EXCEPT ![of[c]] = IdleState]
             /\ state[of[c]].tag # "Idle"
    <3>1. \A f \in Fibers \ {c} : pc'[f] = pc[f]
      BY <1>0, <2>3 DEF Goto, TypeOK
    <3>2. SUFFICES ASSUME NEW q \in Prompts, pc[q] \in RunPhases
                   PROVE  \/ state'[of[q]].id = q
                          \/ \E d \in Cancels : target'[d] = q /\ pc'[d] \in StopPhases
      BY <2>1, <3>1 DEF OwnedInv, StopPhases
    <3>3. of[q] \in Runners
      BY <3>2 DEF IInv, HoldsRunner, RunPhases
    <3>4. CASE state[of[q]].id = q /\ of[q] # of[c]
      BY <1>0, <2>1, <2>3, <3>3, <3>4 DEF TypeOK
    <3>5. CASE state[of[q]].id = q /\ of[q] = of[c]
      <4>1. state[of[c]].tag = "Running"
        BY <1>0, <2>1, <2>3, <3>5 DEF IInv, StateInv, StateOf, TypeOK
      <4>2. pc'[c] = "flush" /\ target'[c] = q
        BY <1>0, <2>3, <3>5, <4>1 DEF Goto, TypeOK
      <4>3. QED
        BY <4>2 DEF StopPhases
    <3>6. CASE \E d \in Cancels : target[d] = q /\ pc[d] \in StopPhases
      <4>1. PICK d \in Cancels : target[d] = q /\ pc[d] \in StopPhases
        BY <3>6
      <4>2. d # c
        BY <2>1, <4>1 DEF StopPhases
      <4>3. target'[d] = q /\ pc'[d] = pc[d]
        BY <1>0, <2>3, <3>1, <4>1, <4>2 DEF TypeOK
      <4>4. QED
        BY <4>1, <4>3
    <3>7. QED
      BY <3>2, <3>4, <3>5, <3>6 DEF OwnedInv, StopPhases
  <2>4. QED
    BY <1>9, <2>2, <2>3 DEF CancelRef
<1>10. ASSUME NEW c \in Cancels, FlushQueue(c)
       PROVE  OwnedInv'
  <2>1. queue[of[c]] \in Seq(Prompts)
    <3>1. of[c] \in Runners
      BY <1>10 DEF IInv, HoldsRunner, FlushQueue
    <3>2. QED
      BY <1>0, <3>1 DEF TypeOK
  <2>2. /\ UNCHANGED <<state, of, target>>
        /\ \A d \in Cancels \ {c} : pc'[d] = pc[d]
        /\ \A p \in Prompts : pc'[p] \in RunPhases => pc[p] \in RunPhases
        /\ target[c] \in Prompts => pc'[c] = "interrupt"
    BY <1>10, <2>1 DEF FlushQueue, AfterFlush, Queued, RunPhases
  <2>3. QED
    BY <2>2 DEF OwnedInv
<1>11. CASE UNCHANGED vars
  BY <1>11 DEF OwnedInv
<1>12. QED
  BY <1>1, <1>2, <1>3, <1>4, <1>5, <1>6, <1>7, <1>8, <1>9, <1>10, <1>11
     DEF Next, PromptStep, ShellStep, CancelStep, Finished

\* Fiber f alone moves, and no stamp but its own changes.
MovesOnly(f) ==
    /\ \E l \in Phases : Goto(f, l)
    /\ stamp' = stamp \/ \E n \in Nat : stamp' = [stamp EXCEPT ![f] = n]

\* A fiber with an idle to number or to publish stays where it is until it does.
LEMMA IdlePhaseKept ==
    ASSUME IInv, [Next]_vars, NEW f \in Fibers, pc[f] \in {"unregister", "idle"},
           ~ SetIdle(f), ~ IdlePublished(f)
    PROVE  pc'[f] = pc[f] /\ stamp'[f] = stamp[f]
<1>0. /\ pc \in [Fibers -> Phases] /\ stamp \in [Fibers -> Nat]
      /\ ledger \in [seq : Nat, generation : 0 .. MaxRunners]
      /\ queue \in [Runners -> Seq(Prompts)]
  BY DEF IInv, TypeOK
<1>1. ASSUME NEW g \in Fibers, MovesOnly(g), pc[g] \notin {"unregister", "idle"}
      PROVE  pc'[f] = pc[f] /\ stamp'[f] = stamp[f]
  BY <1>0, <1>1 DEF MovesOnly, Goto
<1>2. ASSUME NEW g \in Fibers, SetIdle(g) \/ IdlePublished(g)
      PROVE  pc'[f] = pc[f] /\ stamp'[f] = stamp[f]
  BY <1>0, <1>2 DEF SetIdle, IdlePublished, Goto, StampStatus, PublishStatus
<1>3. ASSUME NEW g \in Prompts \cup Shells, LookupRunner(g) \/ CreateRunner(g) \/ OnIdle(g)
      PROVE  MovesOnly(g) /\ pc[g] \notin {"unregister", "idle"}
  BY <1>3 DEF LookupRunner, CreateRunner, OnIdle, MovesOnly
<1>4. ASSUME NEW p \in Prompts,
             \/ EnsureRunning(p) \/ WorkEnds(p) \/ WorkInterrupted(p) \/ NeverStarted(p)
             \/ Complete(p)
      PROVE  MovesOnly(p) /\ pc[p] \notin {"unregister", "idle"}
  BY <1>4 DEF EnsureRunning, WorkEnds, WorkInterrupted, NeverStarted, Complete, MovesOnly
<1>5. ASSUME NEW p \in Prompts, RunLoopBusy(p) \/ RunLoopBusyPublished(p)
      PROVE  MovesOnly(p) /\ pc[p] \notin {"unregister", "idle"}
  BY <1>0, <1>5 DEF RunLoopBusy, RunLoopBusyPublished, StampStatus, PublishStatus, MovesOnly
<1>6. ASSUME NEW s \in Shells,
             StartShell(s) \/ ShellForked(s) \/ ShellReady(s) \/ ShellEnds(s)
      PROVE  MovesOnly(s) /\ pc[s] \notin {"unregister", "idle"}
  BY <1>0, <1>6 DEF StartShell, ShellForked, ShellReady, ShellEnds, StampStatus, PublishStatus,
     MovesOnly
<1>7. ASSUME NEW c \in Cancels,
             \/ LookupCancel(c) \/ CancelRef(c) \/ StopShell(c) \/ InterruptRun(c)
             \/ Joined(c) \/ IdleIfCurrent(c) \/ OnIdle(c)
      PROVE  MovesOnly(c) /\ pc[c] \notin {"unregister", "idle"}
  BY <1>0, <1>7 DEF LookupCancel, CancelRef, StopShell, InterruptRun, Joined, IdleIfCurrent,
     OnIdle, StampStatus, MovesOnly
<1>8. ASSUME NEW g \in Prompts \cup Shells, NEW next, of[g] \in Runners, pc[g] = "exited",
             DrainQueue(of[g], g, next, "onIdle"), stamp' = stamp
      PROVE  pc'[f] = pc[f] /\ stamp'[f] = stamp[f]
  <2>1. queue[of[g]] # <<>> => /\ Head(queue[of[g]]) \in Prompts
                               /\ pc[Head(queue[of[g]])] = "queued"
    BY <1>0, <1>8 DEF IInv, QueueInv, QueueOf
  <2>2. QED
    BY <1>0, <1>8, <2>1 DEF DrainQueue, Goto
<1>9. ASSUME NEW p \in Prompts, FinishRun(p)
      PROVE  pc'[f] = pc[f] /\ stamp'[f] = stamp[f]
  <2>1. of[p] \in Runners /\ pc[p] = "exited" /\ stamp' = stamp
    BY <1>9 DEF IInv, HoldsRunner, FinishRun
  <2>2. CASE Goto(p, "complete")
    BY <1>1, <2>1, <2>2 DEF MovesOnly
  <2>3. QED
    BY <1>8, <1>9, <2>1, <2>2 DEF FinishRun
<1>10. ASSUME NEW s \in Shells, FinishShell(s)
      PROVE  pc'[f] = pc[f] /\ stamp'[f] = stamp[f]
  <2>1. of[s] \in Runners /\ pc[s] = "exited" /\ stamp' = stamp
    BY <1>10 DEF IInv, HoldsRunner, FinishShell
  <2>2. CASE Goto(s, "over")
    BY <1>1, <2>1, <2>2 DEF MovesOnly
  <2>3. QED
    BY <1>8, <1>10, <2>1, <2>2 DEF FinishShell
<1>11. ASSUME NEW c \in Cancels, FlushQueue(c)
       PROVE  pc'[f] = pc[f] /\ stamp'[f] = stamp[f]
  <2>1. of[c] \in Runners
    BY <1>11 DEF IInv, HoldsRunner, FlushQueue
  <2>2. f \notin Queued(of[c])
    BY <2>1 DEF IInv, QueueInv, QueueOf, Queued
  <2>3. QED
    BY <1>11, <2>2 DEF FlushQueue
<1>12. CASE UNCHANGED vars
  BY <1>12
<1>13. QED
  BY <1>1, <1>2, <1>3, <1>4, <1>5, <1>6, <1>7, <1>9, <1>10, <1>11, <1>12
     DEF Next, PromptStep, ShellStep, CancelStep, Finished

\* What is due stays due until its idle has a number.
LEMMA IdleDueStep ==
    ASSUME IInv, [Next]_vars, IdleDue, ~ \E f \in Fibers : SetIdle(f)
    PROVE  IdleDue'
<1>1. ASSUME NEW f \in Fibers, OnIdle(f) PROVE IdleDue'
  <2>1. pc'[f] = "unregister"
    BY <1>1 DEF OnIdle, Goto, IInv, TypeOK
  <2>2. QED
    BY <2>1 DEF IdleDue
<1>2. CASE Pending /\ ~ \E f \in Fibers : OnIdle(f)
  BY <1>2, PendingStep DEF IdleDue
<1>3. ASSUME NEW f \in Fibers, pc[f] = "unregister" PROVE IdleDue'
  <2>1. ~ IdlePublished(f)
    BY <1>3 DEF IdlePublished
  <2>2. pc'[f] = "unregister"
    BY <1>3, <2>1, IdlePhaseKept
  <2>3. QED
    BY <2>2 DEF IdleDue
<1>4. QED
  BY <1>1, <1>2, <1>3 DEF IdleDue

\* The publication of a busy leaves somebody to publish an idle after it.
LEMMA BusyIsDue ==
    ASSUME IInv, OwnedInv, NEW f \in Prompts \cup Shells, pc[f] = "busy"
    PROVE  IdleDue
<1>1. CASE f \in Shells
  BY <1>1 DEF IdleDue, Pending, PendingAt
<1>2. CASE f \in Prompts
  <2>1. of[f] \in Runners
    BY <1>2 DEF IInv, HoldsRunner
  <2>2. CASE state[of[f]].id = f
    BY <1>2, <2>1, <2>2 DEF IInv, StateInv, StateOf, IdleDue, Pending
  <2>3. CASE \E c \in Cancels : target[c] = f /\ pc[c] \in StopPhases
    BY <2>3 DEF IdleDue, Pending, PendingAt, StopPhases, AbortPhases
  <2>4. QED
    BY <1>2, <2>2, <2>3 DEF OwnedInv, StopPhases, RunPhases
<1>3. QED
  BY <1>1, <1>2

\* The status map and the newest published status may still say busy.
StatusDue == IdleDue \/ \E f \in Fibers : pc[f] = "idle"
ViewDue   == IdleDue \/ \E f \in Fibers : pc[f] = "idle" /\ stamp[f] > view.seq

\* With one runner no idle is dropped, and the last status is an idle.
LEMMA IdleStep ==
    IInv /\ TurnInv /\ StampInv /\ OwnedInv /\ IdleInv /\ [Next]_vars => IdleInv'
<1> SUFFICES ASSUME IInv, TurnInv, StampInv, OwnedInv, IdleInv, [Next]_vars, turns' <= 1
             PROVE  /\ status' = "busy" => StatusDue'
                    /\ view'.type = "busy" => ViewDue'
  BY DEF IdleInv, StatusDue, ViewDue
<1>0. /\ turns \in Nat /\ turns <= 1
      /\ ledger \in [seq : Nat, generation : 0 .. MaxRunners]
      /\ stamp \in [Fibers -> Nat]
      /\ view \in [seq : Nat, type : {"busy", "idle"}]
      /\ pc \in [Fibers -> Phases]
  <2>1. turns \in Nat /\ turns' \in Nat
    BY NextIInv DEF IInv, TypeOK
  <2>2. turns <= turns'
    BY <2>1, MapChanges DEF OnIdle, CreateRunner
  <2>3. QED
    BY <2>1, <2>2 DEF IInv, TypeOK
<1>1. /\ status = "busy" => StatusDue
      /\ view.type = "busy" => ViewDue
  BY <1>0 DEF IdleInv, StatusDue, ViewDue
<1>2. ASSUME NEW f \in Fibers, SetIdle(f)
      PROVE  StatusDue' /\ ViewDue'
  <2>1. of[f] \in Runners /\ pc[f] = "unregister"
    BY <1>2 DEF IInv, HoldsRunner, SetIdle
  <2>2. of[f] >= ledger.generation
    BY <1>0, <2>1 DEF TurnInv
  <2>3. Goto(f, "idle") /\ StampStatus(f, of[f]) /\ UNCHANGED <<status, view>>
    BY <1>0, <1>2, <2>1, <2>2 DEF SetIdle
  <2>4. pc'[f] = "idle" /\ stamp'[f] > view'.seq
    BY <1>0, <2>3 DEF Goto, StampStatus, StampInv
  <2>5. QED
    BY <2>4 DEF StatusDue, ViewDue
<1>3. ASSUME NEW f \in Fibers, IdlePublished(f)
      PROVE  status' # "busy" /\ (view'.type = "busy" => ViewDue')
  <2>1. status' = "idle" /\ stamp' = [stamp EXCEPT ![f] = 0] /\ pc[f] = "idle"
    BY <1>3 DEF IdlePublished, PublishStatus
  <2>2. SUFFICES ASSUME view'.type = "busy" PROVE ViewDue'
    BY <2>1
  <2>3. view' = view /\ ~ stamp[f] > view.seq
    BY <1>0, <1>3, <2>2 DEF IdlePublished, PublishStatus
  <2>4. ~ \E g \in Fibers : SetIdle(g)
    BY <1>0, <1>3 DEF IdlePublished, SetIdle, Goto, AfterIdle
  <2>5. CASE IdleDue
    BY <2>4, <2>5, IdleDueStep DEF ViewDue
  <2>6. ASSUME NEW g \in Fibers, pc[g] = "idle", stamp[g] > view.seq
        PROVE  ViewDue'
    <3>1. g # f
      BY <2>3, <2>6
    <3>2. pc'[g] = "idle" /\ stamp'[g] = stamp[g]
      BY <1>0, <1>3, <2>1, <2>6, <3>1 DEF IdlePublished, Goto
    <3>3. QED
      BY <2>3, <2>6, <3>2 DEF ViewDue
  <2>7. QED
    BY <1>1, <2>2, <2>3, <2>5, <2>6 DEF ViewDue
<1>4. ASSUME NEW f \in Prompts \cup Shells, pc[f] = "busy", ~ \E g \in Fibers : SetIdle(g)
      PROVE  StatusDue' /\ ViewDue'
  BY <1>4, BusyIsDue, IdleDueStep DEF StatusDue, ViewDue
<1>5. ASSUME UNCHANGED <<status, view>>,
             ~ \E g \in Fibers : SetIdle(g) \/ IdlePublished(g)
      PROVE  /\ status' = "busy" => StatusDue'
             /\ view'.type = "busy" => ViewDue'
  <2>1. IdleDue => IdleDue'
    BY <1>5, IdleDueStep
  <2>2. \A g \in Fibers : pc[g] = "idle" => pc'[g] = "idle" /\ stamp'[g] = stamp[g]
    BY <1>5, IdlePhaseKept
  <2>3. QED
    BY <1>1, <1>5, <2>1, <2>2 DEF StatusDue, ViewDue
<1>6. ASSUME NEW f \in Prompts \cup Shells, pc[f] = "busy", Goto(f, pc'[f]),
             pc'[f] \in {"working", "starting"}
      PROVE  StatusDue' /\ ViewDue'
  <2>1. ~ \E g \in Fibers : SetIdle(g)
    BY <1>0, <1>6 DEF SetIdle, Goto, AfterIdle
  <2>2. QED
    BY <1>4, <1>6, <2>1
<1>7. ASSUME NEW p \in Prompts, RunLoopBusyPublished(p)
      PROVE  StatusDue' /\ ViewDue'
  BY <1>0, <1>6, <1>7 DEF RunLoopBusyPublished, Goto
<1>8. ASSUME NEW s \in Shells, ShellForked(s)
      PROVE  StatusDue' /\ ViewDue'
  BY <1>0, <1>6, <1>8 DEF ShellForked, Goto
<1>9. UNCHANGED <<status, view>> \/ \E f \in Fibers : IdlePublished(f)
      \/ (\E p \in Prompts : RunLoopBusyPublished(p)) \/ (\E s \in Shells : ShellForked(s))
  BY StatusChanges DEF RunLoopBusy, WorkInterrupted
<1>10. QED
  BY <1>2, <1>3, <1>5, <1>7, <1>8, <1>9

\* Everything above holds of every behaviour.
LEMMA AlwaysRestInv == Spec => []RestInv
<1>1. Init => RestInv
  BY DEF Init, RestInv, MapInv, TurnInv, StampInv, OwnedInv, IdleInv, RunPhases
<1>2. IInv /\ RestInv /\ [Next]_vars => RestInv'
  BY MapStep, TurnStep, StampStep, OwnedStep, IdleStep DEF RestInv
<1>3. QED
  BY <1>1, <1>2, AlwaysIInv, PTL DEF Spec

\* Nothing is pending once every call made has returned.
LEMMA AtRest ==
    ASSUME IInv, \A f \in Fibers : pc[f] \in {"call", "over"}
    PROVE  ~ Pending
<1>1. ASSUME NEW r \in Runners PROVE state[r].tag = "Idle"
  <2>1. StateOf(r) /\ state[r].tag \in Tags
    BY DEF IInv, TypeOK, StateInv
  <2>2. ASSUME NEW f \in Fibers PROVE pc[f] \notin RunPhases \cup ShellPhases
    BY DEF RunPhases, ShellPhases
  <2>3. QED
    BY <2>1, <2>2 DEF StateOf
<1>2. QED
  BY <1>1 DEF Pending, PendingAt, AbortPhases

(* A turn that was given a single runner ends idle, whatever the number of *)
(* prompts, shells and aborts that share it: once every call made has      *)
(* returned, the status map, the newest published status and run-state's   *)
(* map of runners (status.ts set, run-state.ts onIdle) all say idle.       *)
THEOREM OneRunnerEndsIdle == Spec => []SingleRunnerEndsIdle
<1>1. ASSUME IInv, RestInv, turns = 1, \A f \in Fibers : pc[f] \in {"call", "over"}
      PROVE  runners = None /\ status = "idle" /\ view.type = "idle"
  <2>1. ~ Pending
    BY <1>1, AtRest
  <2>2. ~ IdleDue /\ \A f \in Fibers : pc[f] # "idle"
    BY <1>1, <2>1 DEF IdleDue
  <2>3. status \in {"busy", "idle"} /\ view.type \in {"busy", "idle"}
    BY <1>1 DEF IInv, TypeOK
  <2>4. QED
    BY <1>1, <2>1, <2>2, <2>3 DEF RestInv, MapInv, IdleInv
<1>2. IInv /\ RestInv => SingleRunnerEndsIdle
  BY <1>1 DEF SingleRunnerEndsIdle
<1>3. QED
  BY <1>2, AlwaysIInv, AlwaysRestInv, PTL

(* Whatever the number of runners a session went through, it is not in     *)
(* run-state's map once every call made has returned: no entry is leaked.  *)
THEOREM NoRunnerLeaked ==
    Spec => []((\A f \in Fibers : pc[f] \in {"call", "over"}) => runners = None)
<1>1. IInv /\ RestInv => ((\A f \in Fibers : pc[f] \in {"call", "over"}) => runners = None)
  BY AtRest DEF RestInv, MapInv
<1>2. QED
  BY <1>1, AlwaysIInv, AlwaysRestInv, PTL
=============================================================================
