---------------------------- MODULE EventStream ----------------------------
(***************************************************************************)
(* The global event stream from the engine's bus to one client: the bus    *)
(* sequence and its sync copies (bus/global.ts), the replay buffer         *)
(* (bus/global-replay.ts), a connection of the /global/event route and its *)
(* bounded writer (handlers/global.ts, sse-bounded-writer.ts), the         *)
(* client's resume cursor (stream-cursor.ts) and its stream loop           *)
(* (server-sdk.tsx).                                                       *)
(*                                                                         *)
(* A frame is named by its position, the epoch and the sequence of its SSE *)
(* id.  The byte and age bounds of the buffer are abstracted to a choice:  *)
(* wherever the code evicts, any number of the oldest frames may go.       *)
(***************************************************************************)
EXTENDS Integers, Sequences, FiniteSets

CONSTANTS
    MaxSeq,        \* sequences a run of the engine hands out
    MaxEpoch,      \* runs of the engine
    MaxLosses,     \* connections that are lost
    MaxBeats,      \* heartbeats under way at once
    MirrorWindow,  \* MIRROR_WINDOW: source events remembered for their copies
    Durable,       \* sequences that, given to an event, make it a durable one
    None           \* no position

ASSUME BoundsAssumption ==
    /\ MaxSeq \in Nat
    /\ MaxEpoch \in Nat
    /\ MaxLosses \in Nat
    /\ MaxBeats \in Nat
    /\ MirrorWindow \in Nat
    /\ Durable \subseteq Nat

Epochs    == 0 .. MaxEpoch
Positions == [epoch : Epochs, seq : 0 .. MaxSeq]

ASSUME NoneAssumption == None \notin Positions

VARIABLES
    epoch,     \* the bus's epoch token
    seq,       \* the bus's last sequence, which is also the buffer's #current
    mirrors,   \* source events whose sequence a sync copy can still share
    uncopied,  \* durable events whose sync copy is still to be emitted
    frames,    \* the retained frames, oldest first
    floor,     \* #floor: the newest sequence whose frames are not all retained
    sub,       \* the engine holds a subscription for the client's connection
    wire,      \* what the client has yet to read: queues and socket, in order
    link,      \* the client's side of the connection: "open" or "down"
    pos,       \* the client's cursor, a position or None
    bare,      \* the cursor has the engine's form, not the fan-in's composite
    owed,      \* a forced resync is due
    losses,    \* connections lost so far
    holes,     \* history: sequences of this epoch that were given no frame
    last,      \* history: the position of the last event the client applied
    unseen     \* history: events the client neither applied nor fetched

engineVars == <<epoch, seq, mirrors, uncopied, frames, floor, holes>>
clientVars == <<pos, bare, owed, last>>
vars == <<engineVars, sub, wire, link, clientVars, losses, unseen>>

ControlTypes == {"connected", "heartbeat", "reset"}
FrameTypes   == {"event", "sync", "copy"}
Items  == [type : ControlTypes \cup {"event", "sync"}, at : Positions]
Frames == [type : FrameTypes, at : Positions]

TypeOK ==
    /\ epoch \in Epochs
    /\ seq \in 0 .. MaxSeq
    /\ mirrors \in SUBSET (1 .. MaxSeq)
    /\ uncopied \in SUBSET (1 .. MaxSeq)
    /\ frames \in Seq(Frames)
    /\ floor \in 0 .. MaxSeq
    /\ sub \in BOOLEAN
    /\ wire \in Seq(Items)
    /\ link \in {"open", "down"}
    /\ pos \in Positions \cup {None}
    /\ bare \in BOOLEAN
    /\ owed \in BOOLEAN
    /\ losses \in 0 .. MaxLosses
    /\ holes \in SUBSET (1 .. MaxSeq)
    /\ last \in Positions
    /\ unseen \in SUBSET Positions

\* An engine that has emitted nothing and a client that has no cursor.
Init ==
    /\ epoch = 0
    /\ seq = 0
    /\ mirrors = {}
    /\ uncopied = {}
    /\ frames = <<>>
    /\ floor = 0
    /\ sub = FALSE
    /\ wire = <<>>
    /\ link = "down"
    /\ pos = None
    /\ bare = TRUE
    /\ owed = FALSE
    /\ losses = 0
    /\ holes = {}
    /\ last = [epoch |-> 0, seq |-> 0]
    /\ unseen = {}

-----------------------------------------------------------------------------
(* The bus and the replay buffer                                           *)

At(n) == [epoch |-> epoch, seq |-> n]

\* Mutant: an evicted frame does not raise the floor.
EvictForgets(fs, k) ==
    /\ frames' = SubSeq(fs, k + 1, Len(fs))
    /\ UNCHANGED floor

\* Retain all but the k oldest of fs, and raise the floor past those.
Evict(fs, k) ==
    LET gone == {floor} \cup {fs[i].at.seq : i \in 1 .. k}
    IN  /\ frames' = SubSeq(fs, k + 1, Len(fs))
        /\ \E top \in gone : (\A n \in gone : n <= top) /\ floor' = top

\* ReplayBuffer.push: retain a frame, fan it out, evict.
Push(type, n) ==
    LET frame == [type |-> type, at |-> At(n)]
    IN  /\ \E k \in 0 .. Len(frames) + 1 : Evict(Append(frames, frame), k)
        /\ wire' = IF sub /\ type # "copy" THEN Append(wire, frame) ELSE wire
        /\ UNCHANGED holes

\* ReplayBuffer.skip: the sequence has no frame.
Skip(n) ==
    /\ holes' = holes \cup {n}
    /\ UNCHANGED <<frames, floor, wire>>

\* The window of #mirrors after source event n.
Remember(n) ==
    {m \in mirrors \cup {n} : Cardinality({x \in mirrors \cup {n} : x >= m}) <= MirrorWindow}

\* GlobalBus.emit of an event: it can be serialized and framed, or not.
EmitEvent ==
    /\ seq < MaxSeq
    /\ seq' = seq + 1
    /\ mirrors' = Remember(seq + 1)
    /\ uncopied' = uncopied \cup ({seq + 1} \cap Durable)
    /\ unseen' = unseen \cup {At(seq + 1)}
    /\ Push("event", seq + 1) \/ Skip(seq + 1)
    /\ UNCHANGED <<epoch, sub, link, clientVars, losses>>

(* GlobalBus.emit of the sync copy of source event n.  It shares n's       *)
(* sequence while n is remembered, and is then for sync subscribers only.  *)
EmitCopy(n) ==
    /\ n \in uncopied
    /\ uncopied' = uncopied \ {n}
    /\ \/ /\ n \in mirrors
          /\ \/ Push("copy", n)
             \/ UNCHANGED <<frames, floor, wire, holes>>
          /\ UNCHANGED seq
       \/ /\ n \notin mirrors
          /\ seq < MaxSeq
          /\ seq' = seq + 1
          /\ Push("sync", seq + 1) \/ Skip(seq + 1)
    /\ UNCHANGED <<epoch, mirrors, sub, link, clientVars, losses, unseen>>

\* Part of what was sent still reaches the client after the engine let go.
Severed == \E k \in 0 .. Len(wire) : wire' = SubSeq(wire, 1, k)

\* The engine's process ends and a new one starts with a new epoch.
Restart ==
    /\ epoch < MaxEpoch
    /\ epoch' = epoch + 1
    /\ seq' = 0
    /\ mirrors' = {}
    /\ uncopied' = {}
    /\ holes' = {}
    /\ frames' = <<>>
    /\ floor' = 0
    /\ sub' = FALSE
    /\ Severed
    /\ UNCHANGED <<link, clientVars, losses, unseen>>

-----------------------------------------------------------------------------
(* The connection, on the engine's side                                    *)

Control(type, at) == [type |-> type, at |-> at]

\* The places in fs of the frames after position n that a client is sent.
Replayed(fs, n) == {i \in 1 .. Len(fs) : fs[i].at.seq > n /\ fs[i].type # "copy"}

\* Member j of K in increasing order.
Place(K, j) == CHOOSE i \in K : Cardinality({k \in K : k <= i}) = j

\* Those frames, in the order of fs.
Replay(fs, n) ==
    LET K == Replayed(fs, n) IN [j \in 1 .. Cardinality(K) |-> fs[Place(K, j)]]

\* A cursor that can be served: connected at it, then the frames after it.
Serve(n) == wire' = <<Control("connected", At(n))>> \o Replay(frames', n)

\* Any other cursor: an explicit reset comes first.
Reset == wire' = <<Control("reset", At(seq)), Control("connected", At(seq))>>

\* #resolve's test of a cursor of the engine's own form.
Servable(p) == p.epoch = epoch /\ p.seq <= seq /\ p.seq >= floor'

(* The client connects with its cursor.  subscribe evicts, registers the   *)
(* listener and resolves the cursor.  A composite cursor is compared as a  *)
(* string with the retained frames' payload ids: it begins with the name   *)
(* of an origin, so all of them are at or behind it, or none is.           *)
Connect ==
    /\ link = "down"
    /\ \E k \in 0 .. Len(frames) : Evict(frames, k)
    /\ \/ pos = None /\ Serve(seq)
       \/ pos # None /\ bare /\ Servable(pos) /\ Serve(pos.seq)
       \/ pos # None /\ bare /\ ~ Servable(pos) /\ Reset
       \/ pos # None /\ ~ bare /\ frames' # <<>> /\ Serve(frames'[Len(frames')].at.seq)
       \/ pos # None /\ ~ bare /\ Reset
    /\ sub' = TRUE
    /\ link' = "open"
    /\ UNCHANGED <<epoch, seq, mirrors, uncopied, holes, clientVars, losses,
                   unseen>>

Beats == {i \in 1 .. Len(wire) : wire[i].type = "heartbeat"}

\* Mutant: a heartbeat claims the sequence that comes next.
HeartbeatAhead ==
    /\ sub
    /\ Cardinality(Beats) < MaxBeats
    /\ wire' = Append(wire, Control("heartbeat", At(seq + 1)))
    /\ UNCHANGED <<engineVars, sub, link, clientVars, losses, unseen>>

\* Mutant: a heartbeat overtakes the frames queued before it.
HeartbeatFirst ==
    /\ sub
    /\ Cardinality(Beats) < MaxBeats
    /\ wire' = <<Control("heartbeat", At(seq))>> \o wire
    /\ UNCHANGED <<engineVars, sub, link, clientVars, losses, unseen>>

\* Mutant: a heartbeat carries the sequence of the newest retained frame.
HeartbeatOfFrame ==
    LET at == IF frames = <<>> THEN At(floor) ELSE frames[Len(frames)].at IN
    /\ sub
    /\ Cardinality(Beats) < MaxBeats
    /\ wire' = Append(wire, Control("heartbeat", at))
    /\ UNCHANGED <<engineVars, sub, link, clientVars, losses, unseen>>

\* A heartbeat enters the connection's own queue with the current sequence.
Heartbeat ==
    /\ sub
    /\ Cardinality(Beats) < MaxBeats
    /\ wire' = Append(wire, Control("heartbeat", At(seq)))
    /\ UNCHANGED <<engineVars, sub, link, clientVars, losses, unseen>>

(* The engine drops the connection: the bounded writer's stall, or the     *)
(* socket's close.  The client is told nothing.                            *)
Drop ==
    /\ sub
    /\ losses < MaxLosses
    /\ losses' = losses + 1
    /\ sub' = FALSE
    /\ Severed
    /\ UNCHANGED <<engineVars, link, clientVars, unseen>>

-----------------------------------------------------------------------------
(* The client                                                              *)

\* Position p is at or behind position q, epochs in the order they began.
AtOrBehind(p, q) == p.epoch < q.epoch \/ (p.epoch = q.epoch /\ p.seq <= q.seq)

\* createStreamCursor.frame: how a position stands to the client's own.
Baseline(item) == item.type = "reset" \/ pos = None
IsControl(item) == item.type \in ControlTypes

\* Mutant: the frame at the cursor is not taken for a duplicate.
BehindStrictly(item) ==
    /\ ~ Baseline(item)
    /\ item.at.epoch = pos.epoch
    /\ item.at.seq < pos.seq

Behind(item) ==
    /\ ~ Baseline(item)
    /\ item.at.epoch = pos.epoch
    /\ \/ item.at.seq < pos.seq
       \/ item.at.seq = pos.seq /\ ~ IsControl(item)

\* Mutant: the sequence of a control frame is not checked.
HoleExceptControl(item) ==
    /\ ~ Baseline(item)
    /\ \/ item.at.epoch # pos.epoch
       \/ ~ IsControl(item) /\ item.at.seq > pos.seq + 1

\* Mutant: a control frame must be one past the cursor too.
HoleOffByOne(item) ==
    /\ ~ Baseline(item)
    /\ \/ item.at.epoch # pos.epoch
       \/ item.at.seq # pos.seq + 1

Hole(item) ==
    /\ ~ Baseline(item)
    /\ \/ item.at.epoch # pos.epoch
       \/ item.at.seq > pos.seq + (IF IsControl(item) THEN 0 ELSE 1)

\* A frame behind the cursor never moves it, and a bus event is dropped.
ReceiveBehind(item) == UNCHANGED <<clientVars, unseen>>

\* What a frame accounts for: its event, and what a first position skips.
Seen(item) ==
    {p \in unseen : \/ item.type = "event" /\ p = item.at
                    \/ pos = None /\ AtOrBehind(p, item.at)}

\* Any other frame moves the cursor; a reset or a hole owes a resync.
ReceiveNext(item) ==
    /\ pos' = item.at
    /\ bare' = TRUE
    /\ owed' = (owed \/ item.type = "reset" \/ Hole(item))
    /\ last' = IF item.type = "event" THEN item.at ELSE last
    /\ unseen' = unseen \ Seen(item)

\* The stream loop reads one frame.
Receive ==
    LET item == Head(wire) IN
    /\ link = "open"
    /\ wire # <<>>
    /\ wire' = Tail(wire)
    /\ \/ Behind(item) /\ ReceiveBehind(item)
       \/ ~ Behind(item) /\ ReceiveNext(item)
    /\ UNCHANGED <<engineVars, sub, link, losses>>

\* The client gives the connection up: an error, a clean end, a watchdog.
HangUp ==
    /\ link' = "down"
    /\ sub' = FALSE
    /\ wire' = <<>>
    /\ UNCHANGED <<engineVars, clientVars, unseen>>

\* A connection fails under the client, or the page is hidden.
Disconnect ==
    /\ link = "open"
    /\ losses < MaxLosses
    /\ losses' = losses + 1
    /\ HangUp

\* The dead-man's switch: nothing arrives on a connection the engine left.
DeadMan ==
    /\ link = "open"
    /\ ~ sub
    /\ wire = <<>>
    /\ HangUp
    /\ UNCHANGED losses

\* The forced resync fetches the engine's state, which holds every event.
Resync ==
    /\ owed
    /\ owed' = FALSE
    /\ unseen' = {}
    /\ UNCHANGED <<engineVars, sub, wire, link, pos, bare, last, losses>>

\* A spell behind the fan-in leaves the cursor in its composite form.
Detour ==
    /\ link = "down"
    /\ pos # None
    /\ bare
    /\ bare' = FALSE
    /\ UNCHANGED <<engineVars, sub, wire, link, pos, owed, last, losses, unseen>>

-----------------------------------------------------------------------------
Next ==
    \/ EmitEvent
    \/ \E n \in 1 .. MaxSeq : EmitCopy(n)
    \/ Restart
    \/ Connect
    \/ Heartbeat
    \/ Drop
    \/ Receive
    \/ Disconnect
    \/ DeadMan
    \/ Resync
    \/ Detour

(* The stream loop reconnects and reads, the engine beats, the watchdog    *)
(* fires and a forced resync is carried out.  No event has to be emitted   *)
(* and no connection has to be lost.                                       *)
Fairness ==
    /\ WF_vars(Connect)
    /\ WF_vars(Receive)
    /\ WF_vars(Heartbeat)
    /\ WF_vars(DeadMan)
    /\ WF_vars(Resync)

Spec == Init /\ [][Next]_vars /\ Fairness

-----------------------------------------------------------------------------
(* Properties                                                              *)

\* Position p is at or behind the client's cursor.
Passed(p) == pos # None /\ AtOrBehind(p, pos)

(* Every unreplayable loss is loud (stream-cursor.ts, ReplayBuffer): an    *)
(* event the cursor has moved past was applied by the client or is part of *)
(* a state it fetched, or a forced resync is due.  Eviction, sequences     *)
(* without a frame, restarts, dropped connections and cursors in the       *)
(* fan-in's form included.                                                 *)
NoSilentLoss == \A p \in unseen : Passed(p) => owed

(* The client applies the events in the order of the bus and none twice,   *)
(* across any number of reconnects with replay: a frame it would apply is  *)
(* strictly after the last one it applied (stream-cursor.ts).              *)
AppliedInOrder ==
    link = "open" /\ wire # <<>> /\ Head(wire).type = "event" /\ ~ Behind(Head(wire)) =>
        ~ AtOrBehind(Head(wire).at, last)

(* What the buffer can serve it can serve completely: every sequence above *)
(* the floor that was framed is retained (ReplayBuffer #floor, #evict).    *)
ServableIsRetained ==
    \A n \in floor + 1 .. seq :
        n \in holes \/ \E i \in 1 .. Len(frames) :
                              frames[i].at = At(n) /\ frames[i].type # "copy"

(* Ids on one connection never decrease (handlers/global.ts controlEvent): *)
(* neither a heartbeat nor a replayed frame runs ahead of what precedes it.*)
IdsNeverDecrease ==
    \A i, j \in 1 .. Len(wire) :
        i < j /\ wire[i].at.epoch = wire[j].at.epoch => wire[i].at.seq <= wire[j].at.seq

(* A resync is forced only for a loss: with a cursor of the engine's form, *)
(* a frame makes one due only if the engine restarted, evicted what the    *)
(* client lacks or gave a sequence in between no frame.  Sync copies and   *)
(* heartbeats open no holes (bus/global.ts #sequence, handlers/global.ts). *)
ResyncOnlyForLoss ==
    [][pos # None /\ bare /\ ~ owed /\ owed' =>
          \/ pos.epoch # epoch
          \/ pos.seq < floor
          \/ \E n \in holes : pos.seq < n /\ n <= pos'.seq]_vars

(* Every event reaches the client in the end, applied or fetched: no       *)
(* stalled socket, hole or eviction leaves it behind for good.             *)
EveryEventArrives == []<>(unseen = {})

=============================================================================
