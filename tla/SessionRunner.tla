--------------------------- MODULE SessionRunner ---------------------------
(***************************************************************************)
(* The turns of one session in one engine process: the serial prompt queue *)
(* of effect/runner.ts, the map of live runners of session/run-state.ts    *)
(* and the status ledger of session/status.ts.                             *)
(*                                                                         *)
(* A fiber is a caller of ensureRunning together with the run forked for   *)
(* it (Prompts), a caller of startShell with its shell (Shells), or an     *)
(* abort (Cancels).  A step of a fiber ends where the code can suspend:    *)
(* the semaphore of the runner's SynchronizedRef, a call to the shared     *)
(* store, the publication of an event, a latch, a fork or a fiber join.    *)
(***************************************************************************)
EXTENDS Integers, Sequences, FiniteSets

CONSTANTS
    Prompts,     \* prompts posted to the session, each calls ensureRunning once
    Shells,      \* shell commands posted to the session
    Cancels,     \* aborts posted to the session
    MaxRunners,  \* runner objects that can be created; no fiber creates two
    None         \* no runner, fiber or owner

Fibers  == Prompts \cup Shells \cup Cancels
Runners == 1 .. MaxRunners

ASSUME FibersAssumption ==
    /\ Prompts \cap Shells = {}
    /\ Prompts \cap Cancels = {}
    /\ Shells \cap Cancels = {}
    /\ None \notin Fibers \cup Nat
ASSUME RunnersAssumption == MaxRunners \in Nat

VARIABLES
    runners,    \* run-state's map entry of the session, a runner or None
    state,      \* [r] the State of runner r: its tag and the id it holds
    queue,      \* [r] the FIFO of prompts waiting on runner r
    locked,     \* [r] the shell that holds r's ref across onBusy, or None
    pc,         \* [f] where fiber f stands
    of,         \* [f] the runner f obtained from run-state
    done,       \* [p] the Deferred the caller of ensureRunning awaits
    exit,       \* [p] how p's work ended
    interrupts, \* fibers that have been signalled to stop
    target,     \* [c] the fiber abort c captured in its ref transition
    cut,        \* [c] history: the prompts queued when abort c took effect
    turns,      \* ledger.turns; the generation of runner r is r
    ledger,     \* ledger.seq and ledger.generation
    stamp,      \* [f] the seq of the status that f is publishing, 0 when none
    status,     \* the status map of SessionStatus: "busy" or "idle"
    view        \* the newest status published: what a client shows

runnerVars == <<state, queue, locked, done, exit, interrupts, target, cut>>
statusVars == <<ledger, stamp, status, view>>
vars == <<runners, turns, pc, of, runnerVars, statusVars>>

Tags   == {"Idle", "Running", "Shell", "ShellThenRun"}
Phases == {"call", "create", "held", "queued", "forked", "busy", "working",
           "exited", "onIdle", "unregister", "idle", "complete", "over",
           "starting", "ready", "stop", "flush", "interrupt", "join", "recheck"}
IdleState == [tag |-> "Idle", id |-> None]

TypeOK ==
    /\ runners \in Runners \cup {None}
    /\ turns \in 0 .. MaxRunners
    /\ state \in [Runners -> [tag : Tags, id : Prompts \cup Shells \cup {None}]]
    /\ queue \in [Runners -> Seq(Prompts)]
    /\ locked \in [Runners -> Shells \cup {None}]
    /\ pc \in [Fibers -> Phases]
    /\ of \in [Fibers -> Runners \cup {None}]
    /\ done \in [Prompts -> {"open", "value", "Cancelled"}]
    /\ exit \in [Prompts -> {"value", "interrupt"}]
    /\ interrupts \in SUBSET (Prompts \cup Shells)
    /\ target \in [Cancels -> Prompts \cup Shells \cup {None}]
    /\ cut \in [Cancels -> SUBSET Prompts]
    /\ ledger \in [seq : Nat, generation : 0 .. MaxRunners]
    /\ stamp \in [Fibers -> Nat]
    /\ status \in {"busy", "idle"}
    /\ view \in [seq : Nat, type : {"busy", "idle"}]

Init ==
    /\ runners = None
    /\ turns = 0
    /\ state = [r \in Runners |-> IdleState]
    /\ queue = [r \in Runners |-> <<>>]
    /\ locked = [r \in Runners |-> None]
    /\ pc = [f \in Fibers |-> "call"]
    /\ of = [f \in Fibers |-> None]
    /\ done = [p \in Prompts |-> "open"]
    /\ exit = [p \in Prompts |-> "value"]
    /\ interrupts = {}
    /\ target = [c \in Cancels |-> None]
    /\ cut = [c \in Cancels |-> {}]
    /\ ledger = [seq |-> 0, generation |-> 0]
    /\ stamp = [f \in Fibers |-> 0]
    /\ status = "idle"
    /\ view = [seq |-> 0, type |-> "idle"]

-----------------------------------------------------------------------------
(* Helpers                                                                 *)

\* Fiber f reaches phase l.
Goto(f, l) == pc' = [pc EXCEPT ![f] = l]

Queued(r) == {queue[r][i] : i \in 1 .. Len(queue[r])}

\* The ref of runner r is free: no startShell is inside its transition.
RefFree(r) == locked[r] = None

(* SessionStatus.set up to its first suspension: the ledger entry.  A      *)
(* write of a turn's owner carries the generation gen; 0 stands for none.  *)
StampStatus(f, gen) ==
    /\ ledger' = [seq |-> ledger.seq + 1,
                  generation |-> IF gen > ledger.generation
                                    THEN gen ELSE ledger.generation]
    /\ stamp' = [stamp EXCEPT ![f] = ledger.seq + 1]

(* The rest of SessionStatus.set: publish, then the status map.  A client  *)
(* ignores a status older than the one it holds.                           *)
PublishStatus(f, type) ==
    /\ status' = type
    /\ view' = IF stamp[f] > view.seq THEN [seq |-> stamp[f], type |-> type]
                                      ELSE view
    /\ stamp' = [stamp EXCEPT ![f] = 0]
    /\ UNCHANGED ledger

-----------------------------------------------------------------------------
(* run-state.ts: the map of runners                                        *)

\* runner(): read the map; without an entry, claim the session in the store.
LookupRunner(f) ==
    /\ f \in Prompts \cup Shells
    /\ pc[f] = "call"
    /\ \/ /\ runners # None
          /\ of' = [of EXCEPT ![f] = runners]
          /\ Goto(f, "held")
       \/ /\ runners = None
          /\ Goto(f, "create")
          /\ UNCHANGED of
    /\ UNCHANGED <<runners, turns, runnerVars, statusVars>>

\* Mutant: the generation counter skips a value.
CreateRunnerSkips(f) ==
    /\ pc[f] = "create"
    /\ turns < MaxRunners
    /\ turns' = turns + 2
    /\ runners' = turns + 2
    /\ of' = [of EXCEPT ![f] = turns + 2]
    /\ Goto(f, "held")
    /\ UNCHANGED <<runnerVars, statusVars>>

\* runner(), after the store's register: draw a generation, make, set.
CreateRunner(f) ==
    /\ pc[f] = "create"
    /\ turns < MaxRunners
    /\ turns' = turns + 1
    /\ runners' = turns + 1
    /\ of' = [of EXCEPT ![f] = turns + 1]
    /\ Goto(f, "held")
    /\ UNCHANGED <<runnerVars, statusVars>>

\* cancel(): without a runner, a reconcile idle unless the status is busy.
LookupCancel(c) ==
    /\ c \in Cancels
    /\ pc[c] = "call"
    /\ \/ /\ runners # None
          /\ of' = [of EXCEPT ![c] = runners]
          /\ Goto(c, "held")
          /\ UNCHANGED statusVars
       \/ /\ runners = None
          /\ status = "busy"
          /\ Goto(c, "over")
          /\ UNCHANGED <<of, statusVars>>
       \/ /\ runners = None
          /\ status # "busy"
          /\ StampStatus(c, 0)
          /\ Goto(c, "idle")
          /\ UNCHANGED <<of, status, view>>
    /\ UNCHANGED <<runners, turns, runnerVars>>

\* The phase that follows a fiber's onIdle hook.
AfterIdle(f) == IF f \in Prompts THEN "complete" ELSE "over"

\* onIdle: drop the map entry, then release the claim in the store.
OnIdle(f) ==
    /\ pc[f] = "onIdle"
    /\ runners' = None
    /\ Goto(f, "unregister")
    /\ UNCHANGED <<turns, of, runnerVars, statusVars>>

\* onIdle, after unregister: the turn's idle, dropped when it is older.
SetIdle(f) ==
    /\ pc[f] = "unregister"
    /\ \/ /\ of[f] < ledger.generation
          /\ Goto(f, AfterIdle(f))
          /\ UNCHANGED statusVars
       \/ /\ of[f] >= ledger.generation
          /\ StampStatus(f, of[f])
          /\ Goto(f, "idle")
          /\ UNCHANGED <<status, view>>
    /\ UNCHANGED <<runners, turns, of, runnerVars>>

IdlePublished(f) ==
    /\ pc[f] = "idle"
    /\ PublishStatus(f, "idle")
    /\ Goto(f, AfterIdle(f))
    /\ UNCHANGED <<runners, turns, of, runnerVars>>

-----------------------------------------------------------------------------
(* runner.ts: a prompt and its run                                         *)

\* Promote prompt p to the run of runner r.
StartRun(r, p) == state' = [state EXCEPT ![r] = [tag |-> "Running", id |-> p]]

EnsureRunning(p) ==
    LET r == of[p] IN
    /\ p \in Prompts
    /\ pc[p] = "held"
    /\ RefFree(r)
    /\ \/ /\ state[r].tag = "Idle"
          /\ StartRun(r, p)
          /\ Goto(p, "forked")
          /\ UNCHANGED queue
       \/ /\ state[r].tag # "Idle"
          /\ queue' = [queue EXCEPT ![r] = Append(@, p)]
          /\ state' = [state EXCEPT ![r].tag =
                          IF @ = "Shell" THEN "ShellThenRun" ELSE @]
          /\ Goto(p, "queued")
    /\ UNCHANGED <<runners, turns, of, locked, done, exit, interrupts, target,
                   cut, statusVars>>

\* The run loop starts: a busy that carries no generation.
RunLoopBusy(p) ==
    /\ pc[p] = "forked"
    /\ p \notin interrupts
    /\ StampStatus(p, 0)
    /\ Goto(p, "busy")
    /\ UNCHANGED <<runners, turns, of, runnerVars, status, view>>

RunLoopBusyPublished(p) ==
    /\ p \in Prompts
    /\ pc[p] = "busy"
    /\ PublishStatus(p, "busy")
    /\ Goto(p, "working")
    /\ UNCHANGED <<runners, turns, of, runnerVars>>

\* The loop ends by itself, with a value or a failure of its own.
WorkEnds(p) ==
    /\ pc[p] = "working"
    /\ Goto(p, "exited")
    /\ exit' = [exit EXCEPT ![p] = "value"]
    /\ UNCHANGED <<runners, turns, of, state, queue, locked, done, interrupts,
                   target, cut, statusVars>>

WorkInterrupted(p) ==
    /\ p \in interrupts \cap Prompts
    /\ pc[p] \in {"busy", "working"}
    /\ Goto(p, "exited")
    /\ exit' = [exit EXCEPT ![p] = "interrupt"]
    /\ stamp' = [stamp EXCEPT ![p] = 0]
    /\ UNCHANGED <<runners, turns, of, state, queue, locked, done, interrupts,
                   target, cut, ledger, status, view>>

\* A fiber interrupted before it first runs exits without its onExit.
NeverStarted(p) ==
    /\ p \in interrupts
    /\ pc[p] = "forked"
    /\ Goto(p, "over")
    /\ UNCHANGED <<runners, turns, of, runnerVars, statusVars>>

\* Mutant: the runner settles Idle whatever its queue holds.
DrainQueueNever(r, f, next, idle) ==
    /\ state' = [state EXCEPT ![r] = IdleState]
    /\ Goto(f, idle)
    /\ UNCHANGED queue

\* Leave runner r's current fiber: promote the queue's head, or settle Idle.
DrainQueue(r, f, next, idle) ==
    \/ /\ queue[r] = <<>>
       /\ state' = [state EXCEPT ![r] = IdleState]
       /\ Goto(f, idle)
       /\ UNCHANGED queue
    \/ /\ queue[r] # <<>>
       /\ StartRun(r, Head(queue[r]))
       /\ queue' = [queue EXCEPT ![r] = Tail(@)]
       /\ pc' = [pc EXCEPT ![f] = next, ![Head(queue[r])] = "forked"]

FinishRun(p) ==
    LET r == of[p] IN
    /\ p \in Prompts
    /\ pc[p] = "exited"
    /\ RefFree(r)
    /\ \/ /\ ~ (state[r].tag = "Running" /\ state[r].id = p)
          /\ Goto(p, "complete")
          /\ UNCHANGED <<state, queue>>
       \/ /\ state[r].tag = "Running" /\ state[r].id = p
          /\ DrainQueue(r, p, "complete", "onIdle")
    /\ UNCHANGED <<runners, turns, of, locked, done, exit, interrupts, target,
                   cut, statusVars>>

\* Settle a Deferred; a second settlement has no effect.
Settle(p, value) ==
    done' = [done EXCEPT ![p] = IF @ = "open" THEN value ELSE @]

Complete(p) ==
    /\ pc[p] = "complete"
    /\ Settle(p, IF exit[p] = "interrupt" THEN "Cancelled" ELSE "value")
    /\ Goto(p, "over")
    /\ UNCHANGED <<runners, turns, of, state, queue, locked, exit, interrupts,
                   target, cut, statusVars>>

-----------------------------------------------------------------------------
(* runner.ts: a shell                                                      *)

\* Refused when busy; else onBusy runs while the ref is held.
StartShell(s) ==
    LET r == of[s] IN
    /\ s \in Shells
    /\ pc[s] = "held"
    /\ RefFree(r)
    /\ \/ /\ state[r].tag # "Idle"
          /\ Goto(s, "over")
          /\ UNCHANGED <<locked, ledger, stamp>>
       \/ /\ state[r].tag = "Idle"
          /\ locked' = [locked EXCEPT ![r] = s]
          /\ StampStatus(s, r)
          /\ Goto(s, "busy")
    /\ UNCHANGED <<runners, turns, of, state, queue, done, exit, interrupts,
                   target, cut, status, view>>

ShellForked(s) ==
    LET r == of[s] IN
    /\ s \in Shells
    /\ pc[s] = "busy"
    /\ PublishStatus(s, "busy")
    /\ locked' = [locked EXCEPT ![r] = None]
    /\ state' = [state EXCEPT ![r] = [tag |-> "Shell", id |-> s]]
    /\ Goto(s, "starting")
    /\ UNCHANGED <<runners, turns, of, queue, done, exit, interrupts, target,
                   cut>>

\* shellImpl opens the ready latch once its messages are written.
ShellReady(s) ==
    /\ pc[s] = "starting"
    /\ Goto(s, "ready")
    /\ UNCHANGED <<runners, turns, of, runnerVars, statusVars>>

ShellEnds(s) ==
    /\ pc[s] = "ready"
    /\ Goto(s, "exited")
    /\ UNCHANGED <<runners, turns, of, runnerVars, statusVars>>

FinishShell(s) ==
    LET r == of[s] IN
    /\ s \in Shells
    /\ pc[s] = "exited"
    /\ RefFree(r)
    /\ \/ /\ ~ (state[r].tag \in {"Shell", "ShellThenRun"} /\ state[r].id = s)
          /\ Goto(s, "over")
          /\ UNCHANGED <<state, queue>>
       \/ /\ state[r].tag \in {"Shell", "ShellThenRun"} /\ state[r].id = s
          /\ DrainQueue(r, s, "over", "onIdle")
    /\ UNCHANGED <<runners, turns, of, locked, done, exit, interrupts, target,
                   cut, statusVars>>

-----------------------------------------------------------------------------
(* runner.ts: cancel.  The ref transition settles Idle first; stopping the *)
(* work and flushing the queue happen after it, outside the ref.           *)

CancelRef(c) ==
    LET r == of[c] IN
    /\ c \in Cancels
    /\ pc[c] = "held"
    /\ RefFree(r)
    /\ \/ /\ state[r].tag = "Idle"
          /\ Goto(c, "over")
          /\ UNCHANGED <<state, target, cut>>
       \/ /\ state[r].tag # "Idle"
          /\ Goto(c, IF state[r].tag = "Running" THEN "flush" ELSE "stop")
          /\ target' = [target EXCEPT ![c] = state[r].id]
          /\ cut' = [cut EXCEPT ![c] = Queued(r)]
          /\ state' = [state EXCEPT ![r] = IdleState]
    /\ UNCHANGED <<runners, turns, of, queue, locked, done, exit, interrupts,
                   statusVars>>

\* stopShell: wait for the ready latch, then interrupt the shell's fiber.
StopShell(c) ==
    /\ pc[c] = "stop"
    /\ pc[target[c]] # "starting"
    /\ interrupts' = interrupts \cup {target[c]}
    /\ Goto(c, "join")
    /\ UNCHANGED <<runners, turns, of, state, queue, locked, done, exit, target,
                   cut, statusVars>>

\* The phase of abort c after the flush.
AfterFlush(c) == IF target[c] \in Prompts THEN "interrupt" ELSE "recheck"

\* Mutant: the queued callers are failed but stay in the queue.
FlushQueueKeeps(c) ==
    /\ pc[c] = "flush"
    /\ done' = [p \in Prompts |->
                  IF p \in Queued(of[c]) THEN "Cancelled" ELSE done[p]]
    /\ Goto(c, AfterFlush(c))
    /\ UNCHANGED <<runners, turns, of, state, queue, locked, exit, interrupts,
                   target, cut, statusVars>>

\* Mutant: a flushed prompt's call ends but its Deferred stays open.
FlushQueueSilent(c) ==
    LET r == of[c] IN
    /\ pc[c] = "flush"
    /\ queue' = [queue EXCEPT ![r] = <<>>]
    /\ pc' = [f \in Fibers |->
                IF f \in Queued(r) THEN "over"
                ELSE IF f = c THEN AfterFlush(c) ELSE pc[f]]
    /\ UNCHANGED <<runners, turns, of, state, locked, done, exit, interrupts,
                   target, cut, statusVars>>

\* Fail every queued caller; then stop the run, or recheck after a shell.
FlushQueue(c) ==
    LET r == of[c] IN
    /\ pc[c] = "flush"
    /\ done' = [p \in Prompts |-> IF p \in Queued(r) THEN "Cancelled" ELSE done[p]]
    /\ queue' = [queue EXCEPT ![r] = <<>>]
    /\ pc' = [f \in Fibers |->
                IF f \in Queued(r) THEN "over"
                ELSE IF f = c THEN AfterFlush(c) ELSE pc[f]]
    /\ UNCHANGED <<runners, turns, of, state, locked, exit, interrupts, target,
                   cut, statusVars>>

InterruptRun(c) ==
    /\ pc[c] = "interrupt"
    /\ interrupts' = interrupts \cup {target[c]}
    /\ Goto(c, "join")
    /\ UNCHANGED <<runners, turns, of, state, queue, locked, done, exit, target,
                   cut, statusVars>>

\* Mutant: the abort relies on the interrupted fiber to settle its caller.
JoinedUnsettled(c) ==
    /\ pc[c] = "join"
    /\ pc[target[c]] = "over"
    /\ Goto(c, IF target[c] \in Prompts THEN "recheck" ELSE "flush")
    /\ UNCHANGED <<runners, turns, of, runnerVars, statusVars>>

\* Fiber.interrupt returns once the fiber has ended, its finalizers included.
Joined(c) ==
    /\ pc[c] = "join"
    /\ pc[target[c]] = "over"
    /\ \/ /\ target[c] \in Prompts
          /\ Settle(target[c], "Cancelled")
          /\ Goto(c, "recheck")
       \/ /\ target[c] \in Shells
          /\ Goto(c, "flush")
          /\ UNCHANGED done
    /\ UNCHANGED <<runners, turns, of, state, queue, locked, exit, interrupts,
                   target, cut, statusVars>>

\* Mutant: an abort never runs the onIdle hook.
IdleIfCurrentNever(c) ==
    /\ pc[c] = "recheck"
    /\ RefFree(of[c])
    /\ Goto(c, "over")
    /\ UNCHANGED <<runners, turns, of, runnerVars, statusVars>>

IdleIfCurrent(c) ==
    /\ pc[c] = "recheck"
    /\ RefFree(of[c])
    /\ Goto(c, IF state[of[c]].tag = "Idle" THEN "onIdle" ELSE "over")
    /\ UNCHANGED <<runners, turns, of, runnerVars, statusVars>>

-----------------------------------------------------------------------------
\* Every call has been made and answered.
Finished ==
    /\ \A f \in Fibers : pc[f] = "over"
    /\ UNCHANGED vars

PromptStep(p) ==
    \/ CreateRunner(p)
    \/ EnsureRunning(p)
    \/ RunLoopBusy(p)
    \/ RunLoopBusyPublished(p)
    \/ WorkEnds(p)
    \/ WorkInterrupted(p)
    \/ NeverStarted(p)
    \/ FinishRun(p)
    \/ OnIdle(p)
    \/ SetIdle(p)
    \/ IdlePublished(p)
    \/ Complete(p)

ShellStep(s) ==
    \/ CreateRunner(s)
    \/ StartShell(s)
    \/ ShellForked(s)
    \/ ShellReady(s)
    \/ ShellEnds(s)
    \/ FinishShell(s)
    \/ OnIdle(s)
    \/ SetIdle(s)
    \/ IdlePublished(s)

CancelStep(c) ==
    \/ CancelRef(c)
    \/ StopShell(c)
    \/ FlushQueue(c)
    \/ InterruptRun(c)
    \/ Joined(c)
    \/ IdleIfCurrent(c)
    \/ OnIdle(c)
    \/ SetIdle(c)
    \/ IdlePublished(c)

Next ==
    \/ \E p \in Prompts : LookupRunner(p) \/ PromptStep(p)
    \/ \E s \in Shells : LookupRunner(s) \/ ShellStep(s)
    \/ \E c \in Cancels : LookupCancel(c) \/ CancelStep(c)
    \/ Finished

(* Once a call is made, its fiber is scheduled until it ends: turns and    *)
(* shells end by themselves.  Nothing forces a client to make a call.      *)
Fairness ==
    /\ \A p \in Prompts : WF_vars(PromptStep(p))
    /\ \A s \in Shells : WF_vars(ShellStep(s))
    /\ \A c \in Cancels : WF_vars(CancelStep(c))

Spec == Init /\ [][Next]_vars /\ Fairness

-----------------------------------------------------------------------------
(* Properties                                                              *)

\* The phases of an abort that has settled Idle but not flushed the queue yet.
FlushDue(c) ==
    \/ pc[c] \in {"stop", "flush"}
    \/ pc[c] = "join" /\ target[c] \in Shells

(* No prompt is stranded (#1582, runner.ts ensureRunning / finishRun /     *)
(* finishShell): while a prompt waits in a runner's queue, that runner is  *)
(* held by a run or shell that is still alive and will drain the queue, or *)
(* an abort of that runner is still to flush it.                           *)
NoPromptStranded ==
    \A r \in Runners : queue[r] # <<>> =>
        \/ /\ state[r].tag = "Running"
           /\ pc[state[r].id] \in {"forked", "busy", "working", "exited"}
        \/ /\ state[r].tag = "ShellThenRun"
           /\ pc[state[r].id] \in {"starting", "ready", "exited"}
        \/ \E c \in Cancels : of[c] = r /\ FlushDue(c)

(* A caller of ensureRunning is answered only after its turn has left the  *)
(* runner: no settled prompt is the current run of a runner or waits in    *)
(* its queue, so a settled turn can neither start nor be aborted.          *)
SettledIsReleased ==
    \A p \in Prompts : done[p] # "open" =>
        \A r \in Runners : p \notin Queued(r) /\ state[r].id # p

(* When cancel returns, the turn it aborted has ended and its caller has   *)
(* an answer, even if its fiber was interrupted before it ran at all.      *)
AbortSettlesTurn ==
    \A c \in Cancels : pc[c] = "over" /\ target[c] \in Prompts =>
        pc[target[c]] = "over" /\ done[target[c]] # "open"

(* A turn that was given a single runner ends idle: once every call made   *)
(* has returned, the status map, the newest published status and the map   *)
(* of runners all say that the session is idle.                            *)
SingleRunnerEndsIdle ==
    turns = 1 /\ (\A f \in Fibers : pc[f] \in {"call", "over"}) =>
        runners = None /\ status = "idle" /\ view.type = "idle"

(* Every call made of run-state returns, and every prompt's Deferred is    *)
(* settled: no queued caller hangs (runner.ts flushQueue).                 *)
EveryCallReturns ==
    []<>(\A f \in Fibers :
            \/ pc[f] = "call"
            \/ pc[f] = "over" /\ (f \in Prompts => done[f] # "open"))

(* runner.ts on flushQueue: an abort flushes the whole queue, "and no      *)
(* queued turn starts after abort".  TLC refutes it (SessionRunner.cfg     *)
(* with this INVARIANT): a call between Idle and the flush drains it.      *)
NoQueuedTurnStartsAfterAbort ==
    \A c \in Cancels : \A p \in cut[c] : pc[p] \in {"queued", "over"}

(* status.ts on the drop-older guard: "the last status published for a     *)
(* still-running session is never a stale idle".  TLC refutes it too: the  *)
(* run loop's busy carries no generation, so a late idle passes the guard. *)
NoStaleIdle ==
    \A p \in Prompts : pc[p] = "working" => view.type = "busy"

(* runner.ts: prompts of a session run serially, one turn at a time.       *)
SerialTurns ==
    \A p, q \in Prompts : pc[p] = "working" /\ pc[q] = "working" => p = q

=============================================================================
