# A TLA+ verification of Amicode's sessions and event stream

Amicode is a VS Code extension around an agent engine (an overlay of opencode), an
application that shows the engine's sessions, a service that joins the engines of several
machines into one fleet, and command-line tooling for experiments. This project models the
part whose correctness everything else leans on: how the turns of a session are started,
queued and aborted; how processes that share a database claim a session and settle the
questions asked in it; how every event of every engine reaches a client exactly once, in
order, or with an announced loss; how a machine changes its mode while proposals are applied;
how the windows of a machine hand its engine on to each other; and how a rebuild replaces
the engine and the extension.

`OV` below is `src/packages/app-bundle/overlay/packages`, `SVC` is
`src/packages/extension/src/amicode_service`.

## Inventory

| component | state | operations | interacts with | what is hard | what makes it correct |
|---|---|---|---|---|---|
| Session runner (`OV/opencode/src/effect/runner.ts`) | `State` in a `SynchronizedRef`, FIFO queue | `ensureRunning`, `startShell`, `cancel`, `finishRun`, `finishShell` | run state calls it; it forks the run loop; `onIdle`/`onBusy` call back | an abort settles Idle and flushes later; fibers interrupted before they run; a shell's latch | no prompt stranded, every caller answered, an abort ends the turn it hit |
| Run state (`OV/opencode/src/session/run-state.ts`) | map session → runner | `runner`, `cancel`, `onIdle` | shared store (`register`, `unregister`), status ledger | lookup, suspension, then insert | one turn at a time |
| Status ledger (`OV/opencode/src/session/status.ts`) | status map, `seq`, `generation`, `turns` | `set`, `nextGeneration` | publishes events, claims busy rows | late idles, overlapping turns | the last status is the true one |
| Event bus (`OV/opencode/src/bus/global.ts`) | epoch, sequence, mirror window | `emit` | taps the replay buffer | sync copies share a sequence | strictly increasing, no self-made holes |
| Replay buffer (`OV/opencode/src/bus/global-replay.ts`) | retained frames, floor, current | `push`, `skip`, `subscribe`, `#evict`, `#resolve` | stream route | eviction against reconnects, restarts | what it accepts it can serve completely |
| Stream route and bounded writer (`…/handlers/global.ts`, `…/shared/sse-bounded-writer.ts`) | per-connection queues | `eventResponse`, heartbeat, `dropConnection` | socket | a stalled or half-open socket | ids never decrease; a drop loses only what a replay brings back |
| Client cursor and loop (`OV/app/src/context/stream-cursor.ts`, `server-sdk.tsx`, `sse-origin.ts`, `server-sync.tsx`) | cursor, per-origin positions, re-base set | `frame`, `gap`, stream loop, dead-man's switch, `forceResync` | engine or fan-in | duplicates, holes, unannounced restarts | no silent loss, nothing twice, no needless resync |
| Fan-in (`SVC/sse_fanin_aggregator.ts`, `sse_fanin_driver.ts`, `sse_composite_cursor.ts`) | composite cursor, pending stream, verbatim buffer, resume points, arms | `connect`, `ingest`, `resume`, `setMembership`, `reopenArm`, `reconcile`, `pump`, `close` | one upstream per engine, one listener | backpressure, overflow, membership changes, arms that die | no arm resumes past what is on its way or announced |
| Shared runtime state (`OV/core/src/runtime-state`) | owner, busy and pending rows in SQLite | `register`, `busyEnter`, `busyHeartbeat`, `recordPending`, `settlePending`, … | several engine processes | check-then-act, late writers, dead owners, calls that fail | a request is settled once, double ownership is flagged, ghosts fade |
| Permission and question requests (`OV/opencode/src/question`, `…/permission`) | pending maps with Deferreds, pending rows, approved patterns | `ask`, `reply`, `reject`, cascades, finalizer | runner (abort), store, clients | replies racing aborts, each other and other engines | one answer, which the asker gets; every grant has a cause |
| Attachment state (`SVC/attach_state.ts`) | record (mode, posture, legacy state), engine state, snapshot, mode journal | `stage`, `verify`, `commit`, `resume`, `rollback`, recovery, `writePosture` | the queue by two hooks, the transport classifier | waits inside `verify`, a halt inside `commit` | the mode moves only by a commit |
| Remote write proposals (`SVC/proposal_queue.ts`) | staged proposals, receipts, drain chain, hold, retry timers | `enqueue`, drains, `applyProposal`, `setHold`, retries | mode engine, truth fetches, apply target | truth fetched before the hold is looked at, crashes around an apply | no apply against a half-committed mode, nothing applied twice |
| Extension server lifecycle (`src/packages/extension/src`: `extension.ts`, `server_*.ts`; the engine's `server.ts`, `…/amicode/self-shutdown.ts`) | handshake record, engine process and its idle counters, keepalive, per-window manager | adopt, spawn, sweep, reclaim, stop, restart, switch of solver mode or vault, keepalive, detach, self-exit | other windows by the record and the port only | no lock: records and ports change between a look and a use | no window ends another's turn; a served engine stays adoptable; abandoned ones exit |
| Projections, transports, enrolment (`SVC/*`) | sessions joined for display, tunnels, credentials | | fleet peers | retries, single-use nonces | |
| Managed rebuild (`src/packages/extension/src/rebuild`, the handler in `chat_bridge.ts`) | build outputs, overlay hash, installed extension, backup, staging directory | build, overlay gate, teardown, backup, stage, swap, rollback | the running engine and its record, the file system, edits of the tree | every step can fail, the host can end between any two, later rebuilds meet what earlier ones left | extension and engine are replaced or restored together; the engine that is kept is the new one |
| amico-run, companion, hub front door, UI, schemas | | | | | |

`PROJECT.json` lists all of them with the files and, for what is left out, the reason. The
same file lists the hazards, each at its line, with the properties that would catch it.

## Modules

| module | models |
|---|---|
| `SessionRunner` | the turns of one session in one process: runner, run state, status ledger |
| `SessionRunnerProofs` | its inductive invariant and theorems |
| `SessionClaims` | the same turns, and drains, of several processes as the shared store sees them |
| `SessionClaimsProofs` | its inductive invariants and theorems |
| `Settlement` | abstract: write-once cells, one per request, and one outcome per ask |
| `PendingRequests` | questions and permissions over processes, store and reconcile loops; implements `Settlement` |
| `PendingRequestsProofs` | its inductive invariant, theorems and the refinement |
| `EventStream` | the global stream of one engine and one client: bus, buffer, connection, writer, cursor, loop |
| `EventStreamProofs` | its inductive invariants and theorems, and what a replay holds |
| `FanIn` | one listener of the fan-in: engines as `EventStream` shows them, arms, aggregator, per-origin cursor |
| `FanInProofs` | its inductive invariant and theorems |
| `ModeTransition` | the attach-state record and the two-phase mode engine |
| `ProposalQueue` | the proposal queue, composed with `ModeTransition` by the engine's two hooks |
| `ProposalQueueProofs` | the invariants of the queue and of the engine, and theorems |
| `EngineHandoff` | windows, engines, the handshake record and the port of one machine |
| `EngineHandoffProofs` | its inductive invariant and theorems |
| `ManagedRebuild` | one rebuild after another: build, overlay gate, teardown, swap, rollback |
| `ManagedRebuildProofs` | its invariants and theorems |
| `MC*` | the instances for TLC |

Each module names its variables after the fields of the source, and each action after the
function it stands for. `FanIn` composes with `EventStream` by contract: an engine there is a
position, a floor and the answer "served from your cursor, or reset", which is what
`ServableIsRetained` and `NoSilentLoss` establish of the detailed engine.

### SessionRunner

A fiber is a prompt (the caller of `ensureRunning` and the run forked for it), a shell, or an
abort; `pc[f]` is where it stands. Effect fibers can be preempted wherever an effect yields,
so an action is what happens between two such points: one `SynchronizedRef` transition, one
step of `SessionStatus.set` before and after it publishes, the store call inside `runner()`,
the latch and the join of `cancel`. `startShell` holds the ref across `onBusy` (`locked`).
A runner object is created with a generation of its own, and the model's runner `r` has
generation `r`. `cut` is a history variable: what was queued when an abort took effect.

Left out: the busy heartbeat fibers, background jobs an abort also cancels, the instance's
finalizer (an abort like any other), the rows of the shared store.

### EventStream

A frame is its position, an epoch and a sequence. `wire` is everything sent and not read
yet: the connection's queue, the bounded writer's queue and the socket, which are all FIFO.
Eviction by bytes and age is a choice of how many of the oldest frames go, at each place
where the code evicts. A restart, a dropped or a closed connection leaves the client any
prefix of what was sent. A dropped client is told nothing and finds out by its dead-man's
switch. `unseen` is a history variable: events neither applied nor part of a fetched state;
the first position of a client without a cursor is a baseline, since the client bootstraps.
`Detour` is a spell behind the fan-in, after which the cursor is composite: the buffer then
compares it as a string with payload ids, and as it begins with an origin's name either all
or none of the retained frames are at or behind it.

Left out: subscribers that ask for sync copies, payload-id cursors of older clients, the
wire form of payloads, the clearing of the cursor by the reset coordinator and the
generations of a hidden page, and the refresh signal that every reconnect gives beside the
replay (`server-sdk.tsx`, `resyncCount`): what the model shows holds without it. Saving the cursor before the batch is applied is safe, because
a reload bootstraps again.

### FanIn

`arm[o]` is the upstream of origin `o`: what is left of its handshake and how far it has
read. The composite cursor is a sequence of entries, because its insertion order is what
`resolveEventOrigin` looks at. A write may stall the socket at any time (`Sink`); what is
written is received at once, and a lost listener is one that was given up earlier.
`resume()` is one synchronous call, modelled write by write with `draining` keeping every
other call out. Comments and the focus frame appear as writes that may stall the socket.

Left out: engines without ids (the `sever` fallback), the listener cap, the census. Three
restrictions are constants, and hypotheses of the theorems. `MaxControls` is smaller than
`BufferBound`: the code's bound is 256, which heartbeats alone do not fill within a stall.
`LeaveStalled` says whether peers may leave while the socket is stalled; it is `FALSE` in the
passing runs because `OvertakenIsLoud` fails with `TRUE`. `RestartHeld` says whether an engine
may restart while the aggregator still holds frames of it; with `TRUE` and a restart
`AppliedInOrder` fails (see Disagreements), while `NoSilentLoss` and `ResumeIsCovered` pass
in the same instance. `fan_in` has no restart, and `fan_in_live` has `TRUE`.

### PendingRequests and Settlement

The asking process keeps `entry` (its pending map) and `deferred`; the store keeps `row`. A
reply is a fiber `c` that goes through `call[c].at`: `lookup` (`replyThroughStore`), `settle`
and `update` (the two statements of `settlePending`), `apply` (`applyReply`) and, for a
permission, `cascade`. The ask goes through `prune`, `insert` (`recordPending`), `publish`,
`wait` and `cleanup` (`discardPending`); its reconcile loop is `rec`, and a permission's loop
replies to itself through the same code as a caller, which is why `Replies` contains the
permissions. Any store call may fail (`Store`), which `bestEffort` turns into going on
without it. The cleanup is attached to the wait only, so an ask may be interrupted in two ways:
in its wait (`Interrupt`), which removes the entry and discards the row, or before it
(`Abandon`), in `recordPending` or the publication, which leaves both behind. A question asked
by a tool runs inside the runner's uninterruptible mask and is interruptible at its wait only
(`question/index.ts`, comment at 225); `Abandon` stands for an ask outside such a mask, and of
a permission's ask the code does not say that it is inside one. Age is one bit: `Lapse` makes a row older than `TTL_MS`, a heartbeat undoes it.

The refinement maps `row[r]` to a cell: an absent row is `unset` as long as the ask has not
passed its insert, and `gone` afterwards. What an ask returned is the outcome. `WriteOnce` says
that the select-then-update of `settlePending`, the conditional insert and delete, the prune,
heartbeats, failures and crashes together are steps of write-once cells.

Left out: several patterns and rules of one permission (it has one pattern, also its `always`
list; the configured rules are a choice of the action), the parent session, the tool call a
request belongs to, wire forms. A reply's handler is assumed to run to its end, and its
synchronous part between two store calls is one step.

### SessionClaims

A claim is a row of `RuntimeBusyTable` or `RuntimeSessionOwnerTable`. `busyEnter` is four
steps and a flag (`enter`, `stamp`, `seekBusy`, `flagBusy`, `seekReg`, `flagReg`), `register`
three; every other process may act between two of them. `Turns` go through run-state and
status (`Look`, `Make`, `SetBusy`, `End`, `SetIdle`, `Clear`), where all turns of a process
share one status entry, one heartbeat fiber and one generation ledger; `Shells` are the turns
whose busy carries a generation. `Drains` are brackets of `execution/local.ts`. `hurt`, `late`
and `twins` are history variables that name the causes the properties except: a failed or
missed write, a turn that began while another one of the process was ending, and two turns
that both made a runner (the `SerialTurns` finding).

The rows of an owner lapse when nobody stamps them for the TTL (`Unstamped`), which is taken to
be longer than a store operation: a call between two statements of `busyEnter` or `register`
lapses only as a mishap, a suspended process say.

Left out: aborts and the queue of the runner, which `SessionRunner` has, and the directory of
a row. An `interrupt` of a drain is its end. The run has the turns and the drains in processes of
their own. One process that did both would remove the busy row of its drain at the end of its
turn, as the two write the same row.

### ModeTransition and ProposalQueue

`attach_state.ts` is synchronous but for `verify`, which waits for the drain hook and for the
attach test; each verb is one action and a verify three. `Commit` may stop after the journal's
commit-pending entry (the code's own kill hooks halt it there), and `Recover` is a new engine
on the record and the journal. `restoreModeScoped`, `writePosture` and `confirmMode` are the
functions `Restored`, `Postured` and `Confirmed`, with the legacy projection they write.

`ProposalQueue` extends it: `queueDrainHook` is `StartVerify` (a verify chains a drain and
waits for it) and `EndDrain`, `queueHoldHook` is `HoldHook`, a conjunct of every engine verb.
A drain examines a snapshot; for each proposal it suspends at the fetch of its truth
(`Fetched`, `FetchFails`) and at the executor (`Execute`, `Applied`, `DrainThrows`). The
store file is saved in the same synchronous stretch as the memory it mirrors. What the
apply target does is external, `executed` counts it. An executor may reject before the target
has applied the proposal or after it, and a restart may come in between: then the queue never
learns the answer, the proposal stays staged without a receipt and a later drain sends it
again, also in the same life of the process. `unanswered` counts these, and
`AppliedOncePerAnswer` allows one execution more for each. What then keeps the effect single is
the target's own dedupe by portable identity, on which the comment at `applyProposal` relies.

Two constants restrict the environment. `Overlap` allows other engine verbs while a `verify`
waits; nothing in the code calls them so today, and the passing run says `FALSE` (see
Disagreements). `PreSplit` allows a record from before mode and posture were separate fields.

Left out: the attach action, the lifecycle and the pointers around the record, the contents of
proposals, the receipts' pages.

### EngineHandoff

A window is an extension host; `pc[w]` follows `adoptOrSpawn` (`read`, `check`, `recheck`,
`probe`, `reclaim`, `spawn`, `boot`), `wireReadyState` (`early`, `wire`, `sweep`, `ready`) and
stop (`kill`, `free`, `erase`, `off`). `hs` is the handshake record, one file for the machine;
an engine stands for its pid, port and password. `mine` is the engine of the window's server
manager, `keep` the pid that it read for its sweep and its keepalive, `beat` whom the keepalive
pings. Intervals and thresholds are choices: whoever does not answer may have failed often
enough. `deaf` and `hidden` are history: engines the gate took for dead, and engines which
another one's record, start or end has hidden, or which never had a record.

`Switch` is what a change of the solver mode (`extension.ts`, 2095-2158) and the respawn for a
new vault (2503-2563) do alike: stop the engine and start another under a new server manager.
The new manager has no `afterHealthy`, so nothing writes or deletes the record
(`HealthyBare`), and its `onReady` does not wire the window: keepalive and sweep remain those of
the engine before, on its port. `bare` are the windows this has happened to; it lasts until
the window closes, also through its restart command, which starts the same manager. Whether
another window's sweep sees a bare window as a client of its engine depends on the chat panel
(solver mode) or the reconnected stream (vault), and is a choice (`spared` in `Sweep`).

The keepalive module has one `stopped` flag for all its loops. A ping that is in flight when
a loop is replaced finds the flag cleared by the new loop, and goes on with the old pid: `late`
are such pids, `GoneLate` their end. A ping times out after five seconds and the next comes
after ten, so that a loop has at most one.

What the engine's idle watcher knows of turns and streams is what `server.ts` (217-235) counts.
`busySessions` are open POST requests to `message`, `command` or `shell` of a session, until their
connection closes: `post`, per window. The application's ordinary prompt goes to `prompt_async`
(`OV/app/src/utils/server-compat.ts`, 219), which answers at once and is not counted. So
`StartTurn` has both kinds, `HangUp` closes a counted request under its turn, and `SelfExit`
looks at `Busy` and not at `turn`: an engine that nobody pings for the grace window ends whatever
turn it has left. `sseSubscribers` are streams whose URL begins with `/event`, which is the
window's own (`sse_client.ts`); a `/global/event` stream is not counted (`Streams`).

Left out: foreign processes on the port, engines of another protocol version and the restart
offered for them, the hub's paths, and the fleet command Go Standalone, a switch that also gives
up a pinned port. Two windows on one *pinned* port are not followed
(`Activate`): when the second one boots, its engine dies on the taken port, and
`freePortIfOurs` of its failed start then kills the first one's engine, whose process is
"ours" by its command line.

### ManagedRebuild

`pc` follows the handler of `dev-tools-rebuild` (`build`, `gate`, `binary`, `cache`, `app`),
`stopSurvivingServer` (`probe`, `recorded`, `killed`), `deployBuild` and `atomicSwap` (`backup`,
`stage`, `out`, `in`, `adopt`, `clean`) and `rollback` (`undo dist` to `undone`). A build's
output is the version of the tree it was built from. What one call moves or removes goes in
one step; a copied directory is absent until the copy is there, so a host that ends in the
middle leaves it absent. Every step may fail (`Trouble`), the host may end between any two
(`HostEnds`), engines start and end, and the overlay is edited, at any time. `installed.old` is
`dist.pre-swap`, which outlives a rebuild that does not get to its end. `before` and `blind`
are history variables: what a deployment found, and that a failing `lsof` was read as a free
port.

Left out: preflight, database backup and git sync (`Begin`), which touch none of this state; a
configured `opencodeBinary`; the directories beside `dist` and `vendor`, which the code copies
without a guarantee; the pending marker, which is written and read by nobody; other processes
that hold the port, or appear in the output of `lsof` as its clients.

## Runs

| run | checks | bounds |
|---|---|---|
| `session_runner` | `TypeOK`, `NoPromptStranded`, `SettledIsReleased`, `AbortSettlesTurn`, `SingleRunnerEndsIdle`, `EveryCallReturns` | two prompts, a shell, an abort, three runners |
| `event_stream` | `TypeOK`, `NoSilentLoss`, `AppliedInOrder`, `ServableIsRetained`, `IdsNeverDecrease`, `ResyncOnlyForLoss` | three events, the first durable, in each of two runs; a mirror window of two; two losses |
| `event_stream_live` | `EveryEventArrives` | two sequences in each of two runs, the first event durable; no mirror window; one loss |
| `fan_in` | `TypeOK`, `NoSilentLoss`, `AppliedInOrder`, `ResumeIsCovered` | one peer, two local events, one of the peer, one break |
| `fan_in_live` | `NoSilentLoss`, `EveryLocalEventArrives` | one local event in each of two runs; a queue of four frames and gaps |
| `pending_questions` | `AnsweredOnce`, `SettledBeforeCleanup`, `RecordedIsReturned`, `AnswerArrives` | one question, two calls, two processes, two mishaps |
| `pending_permissions` | `TypeOK`, `GrantHasCause`, `ListedWhileOpen`, `WriteOnce` | two permissions of one session and pattern, two calls, two processes, one mishap |
| `proposal_queue` | `NeverInterleaves`, `HoldCoversCommit`, `AppliedOncePerAnswer`, `NotForThisQueue`, `ModeMovesOnlyByCommit`, `QueueComesToRest` | an ordinary proposal, a surface, one of another contract version; one verify at a time, two writes, two troubles, two retries, two drains waiting |
| `session_claims` | `DoubleOwnershipFlagged`, `ExecutingImpliesOwning`, `NothingLeaks`, `GhostsFade` | a prompt and a shell of one process, a drain of another, one mishap |
| `engine_handoff` | `TurnsSurvive`, `ServedIsRecorded`, `AbandonedExits` | two windows, two engines, one mishap |
| `session_runner_SerialTurns`, `managed_rebuild_KeptServerIsNew` | the property they are named after, which TLC refutes | as `session_runner`; one edit, four starts, two mishaps |

Why the bounds suffice: a queue conflict of the runner needs the run that ends, one prompt
that waits and one call in between, with an abort. A hole needs one event that is
lost and one frame after it. A duplicate needs a sync copy that comes after a later event,
so that the newest retained frame is an older position: three events and a mirror window of
two give that. A copy whose source event has left the window (256 events in the code, a
window of 0 in the model) needs the event and the sequence the copy takes. An overflow needs
a heartbeat and an event held and one event more (`BufferBound = 2`), and an overtaking resume
point two queued events. `fan_in_live` has one event in each run of the engine: there the event
of the old run and a heartbeat are held, the gap of the restart comes between, and the event
of the new run finds the queue at its bound and is dropped. That takes a queue of four
(`MaxQueue`); TLC finds states with a dropped frame (`dropped # {}`) in this run. Two answers race for one request, and one process holds it while
another only has its row, so two calls, two processes and a request with a neighbour to
cascade over are every role the code distinguishes. A failed store call and the lapse it
leads to are two mishaps, an aborted ask is one; a proposal that is retried and blocked for good
needs two failed fetches, and one whose answer is lost twice two failures. A claim
conflict is between two processes, and a turn that ends late needs a younger one beside it. The
handoff has two windows because the record is read and used by one window while the other
changes it, and two engines because a sweep, a switch or a late keepalive confuses one with
the one after it. Three of either are more than a run should take; `TurnsSurvive` and
`ServedIsRecorded` are proved for any number. Of the processes that never were, `Spawn` takes one
by `CHOOSE`, since they differ in nothing.

A stale hash needs an edit, a rebuild that stops, and one that does not, with an engine started
before them. `RestoredTogether`, `DoneIsBuilt` and `NeverOrphaned` of `ManagedRebuild` pass when
they are named in `ManagedRebuild.cfg` in the place of the refuted property, and are proved.

`MaxRunners` never blocks a call (`RunnersSuffice`, checked by TLC). The `TypeOK` of
`ProposalQueue`, `SessionClaims` and `EngineHandoff` is in no run's list; adding it to the
respective configuration as an `INVARIANT` passes.

### Fairness

- `SessionRunner`: weak fairness of each fiber once it has begun. The Effect scheduler runs
  every ready fiber; no fairness is assumed of calls being made, and the work of a run or a
  shell is assumed to end.
- `EventStream`: the loop reconnects and reads, the engine's timer beats, the dead-man's
  switch fires and a forced resync is carried out. Nothing has to be emitted and nothing has
  to be lost.
- `FanIn`: the event loop gives each callback its turn. `resume()` disables the others only
  while it runs, so the pumps of the local arm and `reconcile` have strong fairness. The
  listener reads: again and again a write does not stall the socket. That last assumption is
  needed: `emitGapIfDropped` runs only after a drain that did not stall again, so a socket
  that stalls at every single write, with a heartbeat arriving each time, postpones the
  overflow gap for ever.
- `PendingRequests`: each fiber of an ask and of a call that can run does, and the reconcile
  loop's heartbeat comes. Nobody has to answer, to abort or to die.
- `ProposalQueue`: fetches and executors settle, and armed timers fire. Humans and
  transports may never act, and a verify's attach test may never settle.
- `SessionClaims`: only time passes, for rows that nobody stamps. A call may stop anywhere.
- `EngineHandoff`: an engine answers again, and its idle watcher runs. Nothing is asked of the
  windows, and no turn has to end.

## Disagreements between the code and what it says

Two have a run that TLC refutes, and an entry under `findings` that quotes the line.

| run | what happens |
|---|---|
| `session_runner_SerialTurns` | Two prompts that find no runner each create one. |
| `managed_rebuild_KeptServerIsNew` | The overlay's hash is recorded when the engine is built. A rebuild that stops after that (the app bundle does not build, the port is not freed, the swap fails, the host ends) makes the next one skip the engine: it keeps the old engine running, deploys the new extension over it and reports success. |

Nine more are stated in the modules and are refuted as soon as a configuration names them:

| definition | configuration | what happens |
|---|---|---|
| `NoQueuedTurnStartsAfterAbort` | `SessionRunner.cfg` | A prompt or shell that starts between an abort's Idle and its flush drains the old queue, and a turn queued before the abort starts after it (`runner.ts`, `flushQueue`: "no queued turn starts after abort"). |
| `NoStaleIdle` | `SessionRunner.cfg` | The run loop's busy carries no generation, so the previous turn's late idle is not older than it and is published over it (`status.ts`: "the last status published for a still-running session is never a stale idle"). |
| `OvertakenIsLoud` | `FanIn.cfg` with `LeaveStalled = TRUE` | The last peer leaves a stalled listener; `resume()` writes a local frame of the verbatim buffer before an older one of the pending stream, which the client drops as a duplicate after a gap has re-based the origin (`sse_fanin_aggregator.ts`: "Data + control entries flush in true ARRIVAL ORDER"). |
| `AppliedInOrder` | `FanIn.cfg` with `RestartHeld = TRUE`, `MaxEpoch = 1`, `LocalEvents = 0`, `MaxQueue = 4`, `MaxControls = 2`, `BufferBound = 3` | An engine restarts while a frame of its old epoch is held behind a stalled socket. Its new upstream moves the resume point on; the drain then delivers the old frame, and `advanceResume` takes the point back to the old epoch and on to the first held frame of the new one. An arm that breaks before the drain is over is re-opened from there and replays what is still held, so that the client applies an event twice (`sse_fanin_aggregator.ts`, 697-698: "never re-sends a frame the listener will already get"). |
| `OriginIsTrue` | `FanIn.cfg` | A bare id makes the client forget its peers; when the peer is back, a local event is attributed to it. |
| `EndedIsUnlisted` | `PendingQuestions.cfg` | An ask interrupted in `recordPending` or the publication leaves its entry, and its row if it was recorded, and is listed on (`question/index.ts`: "the ensuring below still removes the entry on every exit path"). |
| `IdleSparesTurns` | `EngineHandoff.cfg` | A window starts a turn by `prompt_async` and closes. When the grace window is over the engine exits in the middle of the turn (`self-shutdown.ts`: "so a busy session prevents premature exit"). The same happens to a counted turn whose client has gone. |
| `LoneIsRecorded` | `EngineHandoff.cfg` | After a switch the only engine of the only window has no record but the one its predecessor left (`extension.ts`: "the durable record a later reload adopts"): a reload starts another engine beside it. |
| `ReplacedIsSilent` | `EngineHandoff.cfg` | A restart replaces a keepalive that has a ping in flight. The ping fails, and as the old pid is dead it deletes the record of the new engine and stops the new loop (`server_keepalive.ts`: "Replaces any existing keepalive"). |

`NeverInterleaves` and `HoldCoversCommit` fail with `Overlap = TRUE` in `ProposalQueue.cfg`: a
rollback while a verify waits is overwritten by the verify's own end, which sets the state to
verified although the window was closed; the engine has no guard against it.

What the models show besides, and the properties therefore except, each a few lines of code a
reader may want to look at:

- `settlePending` answers true to both of two racing settlers (`runtime-state/index.ts`, line
  121: "true only when a pending row was settled"), a local reply is applied in memory although a remote
  resolution was recorded first, so row and outcome may differ (`RecordedIsReturned` is about
  questions nobody answered in the asking process).
- A reply that finds the entry before `recordPending` has inserted its row settles nothing,
  and the row is inserted and discarded afterwards. A remote reply is acknowledged although
  its update failed or its row was pruned (`hurt`).
- A heartbeat fiber that ended because the status was idle for a moment stays in `fibers`, so
  the busy after it has no heartbeat until the next idle clears the map (`status.ts`, 189).
- A rollback restores the legacy `state` of the snapshot although the posture has changed
  since. A record `{state: "fleet"}` from before the split reads as mode standalone after a
  hub-down posture is written over it (`PreSplit = TRUE` refutes `ModeMovesOnlyByCommit`).
- An attach test that throws leaves the window open. An executor that throws in the release
  drain leaves the held proposals unexamined until the next one (`thrown`). One that rejects after
  its target has applied the proposal is asked again by the next drain, in the same life of the
  process; the comment at `applyProposal` speaks of a crash only. A retry timer does not survive
  a restart, and `attempts` is not reset once a fetch succeeds.
- `extension.ts` 1638 says "Do NOT spawn on the occupied port", and spawns whenever nothing
  was adopted. `reclaimOrphanPort` looks the pid up again without checking it again. A
  window's keepalive and an engine's own end delete the record whomever it names by then
  (`hidden`), and an engine no window ever pinged does not exit: so it is with each engine that a
  switch starts on a free port, as the keepalive goes on pinging the port before. All windows
  watch the same solver-mode file, so one change of the mode switches every one of them.
- `dist.pre-swap` stays behind when the binary cannot be adopted or the host ends between the
  two renames (`atomic_adoption.ts`, 203-211); every later rebuild then fails to rename `dist`
  onto it and rolls back. The pending marker, written "for crash recovery", is read by nobody.
  A `lsof` that fails reads as a free port, and the record of a live engine is deleted.

`SingleRunnerEndsIdle` is the part of the status protocol that does hold: with one runner
the session ends idle in the map, in the ledger and on the wire.

## Proofs

TLAPS checks the following for every value of the constants that satisfies the assumptions named
in the modules. TLC evaluates each of these assumptions in the runs.

| module | theorems |
|---|---|
| `SessionRunnerProofs` | `TypeCorrect`, `NeverStranded` (`NoPromptStranded`), `AnsweredIsReleased` (`SettledIsReleased`), `AbortAnswers` (`AbortSettlesTurn`), `OneRunnerEndsIdle` (`SingleRunnerEndsIdle`), `NoRunnerLeaked` |
| `SessionClaimsProofs` | `DoubleOwnershipIsFlagged` (`DoubleOwnershipFlagged`), and under `Unmixed` `RunningIsVisible` (`ExecutingImpliesOwning`) and `NothingIsLeft` (`NothingLeaks`) |
| `EventStreamProofs` | `StreamTypes` (`TypeOK`), `ServedCompletely` (`ServableIsRetained`), `LossIsLoud` (`NoSilentLoss`), `AppliedOnceInOrder` (`AppliedInOrder`), `IdsAscend` (`IdsNeverDecrease`), `ResyncHasCause` (`ResyncOnlyForLoss`) |
| `FanInProofs` | `FanInTypes` (`TypeOK`), and under `~LeaveStalled`, `~RestartHeld` and `MaxControls < BufferBound` `EveryLossIsLoud` (`NoSilentLoss`), `EachAppliedOnceInOrder` (`AppliedInOrder`), `ResumePointIsCovered` (`ResumeIsCovered`) |
| `PendingRequestsProofs` | `TypeCorrect`, `OneAnswer` (`AnsweredOnce`), `NoGrantWithoutCause` (`GrantHasCause`), `SettlesFirst` (`SettledBeforeCleanup`), `OpenIsListed` (`ListedWhileOpen`), `RecordedReturns` (`RecordedIsReturned`), `ImplementsSettlement` (`WriteOnce`) |
| `ProposalQueueProofs` | `AppliesAreIdempotent` (`AppliedOncePerAnswer`), `OnlyExaminedReach` (`NotForThisQueue`), under `~Overlap` `AppliesWaitForTheWindow` (`NeverInterleaves`) and `HoldCovers` (`HoldCoversCommit`), under `~Overlap` and `~PreSplit` `CommitMovesMode` (`ModeMovesOnlyByCommit`) |
| `EngineHandoffProofs` | `NoTurnIsCut` (`TurnsSurvive`), `ServedStaysRecorded` (`ServedIsRecorded`) |
| `ManagedRebuildProofs` | `RollbackRestores` (`RestoredTogether`), `SuccessIsComplete` (`DoneIsBuilt`), `TeardownConfirms` (`NeverOrphaned`) |

None of the properties is inductive as it stands. What is added, and why:

- **Session runner.** That a queue is drained says nothing of who is in it or of who holds the
  runner. `IInv` adds that a fiber past `runner()` holds one (`HoldsRunner`), that a queue holds
  distinct prompts which wait on that very runner (`QueueInv`), that the fiber named by a runner's
  state is alive and its own (`StateInv`), that the ref is held only over an Idle runner
  (`LockInv`), that what an abort captured or interrupted has left its runner for good
  (`AbortInv`), that a settled prompt is over (`DoneInv`), and that a non-empty queue has a busy
  runner or an abort that is still to flush it (`DrivenInv`). `EndsInv` follows an abort from the
  turn it named to that turn's answer. That a session ends idle takes `RestInv`: the session is in
  the map only while some runner works or somebody is about to run `onIdle` (`MapInv`); a run
  goes on only while its runner names it, or an abort waits for it (`OwnedInv`), without which an
  interrupted run could set busy after the last idle; every status on its way has a number the
  ledger has given (`TurnInv`, `StampInv`); and with one runner whoever sees busy has an idle with
  a higher number coming (`IdleInv`). With two runners that no longer holds, and TLC finds a
  session that ends busy. That the map forgets every runner (`NoRunnerLeaked`) follows from
  `MapInv` alone.
- **Claims.** A conflict is looked for before it is flagged, and a heartbeat can bring a row back
  to life after somebody has looked. `PairInv` says that two live rows are flagged or that one
  of the two owners is still to look, or has seen the other and is still to flag; `FreshInv`
  that an owner with a heartbeat, or between a prune and a look, has no stale row that a
  heartbeat could revive. For what runs, `SoloInv` says that a turn is alone unless a turn began
  late or twice, `DrawnInv` that a working turn has the newest generation and the entry of the
  map (so that its idle is never dropped as stale), `BeatInv` that it has a heartbeat, `HeldInv`
  that its rows are there. `LeakInv` names for each row and status the call that will clear it.
- **Event stream.** `EngineInv` adds the types of the engine's variables; the heart is
  `EvictKeeps`, that eviction raises the floor past whatever it takes although sync copies make
  the retained sequences non-monotonic. `OrderInv` says what is on the way: items of one run of
  the engine (`OneRun`), at or behind the bus (`Bounded`), a reset only at the head and never
  behind the cursor (`ResetFirst`), the frames for a client in ascending order
  (`FramesInOrder`), no event under the sequence of a late sync copy (`SyncIsNoEvent`), the
  last applied event at or behind the cursor (`LastPassed`). With them a frame that opens no
  hole can pass over one position only, its own, and `NoSilentLoss` is preserved. For
  `ResyncOnlyForLoss` it takes the converse, that nothing due is missing: `Chain` says that the
  items after a given one bring each sequence the buffer can serve before anything that would
  overtake it, `Continues` says it of the cursor, `ResetHasCause` of an announced reset. What a
  replay holds (`ReplayIs`) is proved without induction over the sequence: `Place` picks a frame
  by its rank among those that are sent, and `CountIsReached` finds each rank from the least
  number with enough members below it.
- **Fan-in.** What is read, held, re-opened and skipped of an origin are five positions that move
  at different times. `OrderInv` orders them: the last event applied, the client's position, the
  composite cursor, the held frames (ascending, events strictly), the resume point, the upstream,
  the bus; it is what a restart over held frames breaks. `CursorInv` says that the client's
  position is the composite's, or nothing, or behind held verbatim frames; `FlowInv`, when
  something can be held and on which path it came. Nothing of this says that a position is not
  skipped: `CoverInv` does, for an event at or behind the resume point or the upstream which the
  client has, or will be given, an earlier position of. It is held, or announced by something
  held, or dropped and the client not about to re-base unawares, or a resync is due. A gap that
  names an origin makes the client accept its next position whatever it is, so `ChainInv` adds
  that the first held frame that moves a re-basing client skips no event without an
  announcement before it. `FullBuffer` is where `MaxControls < BufferBound` is used: a buffer
  at its bound holds an event, so a drop after it opens a hole the client can see. `IInv` was
  checked by TLC on four instances, one with a restart, before it was proved.
- **Requests.** `CallsInv` relates the stage of a reply to what it has read, `RowsInv` the row to
  the stage of its ask, `AskInv` the entry and the Deferred to the outcome, `QuestionsInv` what a
  question's asker is told to what was recorded. `GrantHasCause` is part of the invariant itself.
  The refinement maps each statement on a row to a step or a stutter of its write-once cell.
- **Mode engine and queue.** `WindowInv` says that there is one verify at a time and that the
  window covers what follows a passed test; the hold equals the window. `DrainInv` says that what
  is on its way to the target was examined, has no receipt and found the window open; `ReachInv`
  counts executions by receipts and lost answers; `SnapInv` says that what a transition would restore
  agrees with the record.
- **Handoff.** `TurnInv` says that a working engine is up and recorded, hidden or taken for dead,
  whether or not anything counts its turn; `UnbornInv` that nobody knows an engine before it is
  spawned; `PinnedInv` that a pinned port has one engine and one window;
  `WindowInv`, for each window by itself, what its manager, its sweep and its keepalive know
  (`StepOf`, `RecordOf`), that an engine being started is its window's own and has no turn
  (`BootOf`), and that on a pinned port nobody else has one (`OnlyMineOf`).
- **Rebuild.** `SwapInv` says, for each step of the adoption, that the backup is what the
  deployment found, that the staging directory is the build, and that each step taken has put
  its part in place.

The proofs have a lemma for each part of the invariant, or for each group of actions.

Only model-checked: everything under fairness (out of the prover's reach), and `FanIn` where
engines restart over held frames (`fan_in_live`).

## Plan

1. `EventFeed`: an abstract feed (a growing log, a client that is at a position or owes a
   resync) which `EventStream` and `FanIn` are shown to refine.
2. Proofs: `NoSilentLoss` and `ResumeIsCovered` of `FanIn` without `~RestartHeld`, for which TLC
   finds no counterexample.
3. The attach action and its pointers; the cache of engine instances and its disposal; the
   single-use nonces of the enrolment.

## Not modelled

The prompt loop, tools, MCP and providers are I/O whose results enter as choices. Lineage,
ledgers and receipts of a session are append-only records one process writes in one order; the
session store is a data layer. Projections, front door, UI and schemas are functions of what
they are given. Transports show in `FanIn` as a peer that becomes usable or not at any time.
Enrolment nonces, the companion's timers and the file-based tools of `amico-run`
have state of their own, but none that the modules above depend on. `PROJECT.json` names
the files of each.
