------------------------------- MODULE FanIn -------------------------------
(***************************************************************************)
(* The fan-in of several engines' event streams into one listener: the     *)
(* aggregator and its composite cursor (sse_fanin_aggregator.ts,           *)
(* sse_composite_cursor.ts), the connection that opens and closes the      *)
(* upstream arms (sse_fanin_driver.ts) and the client's per-origin cursor  *)
(* (stream-cursor.ts, sse-origin.ts).                                      *)
(*                                                                         *)
(* An engine is what EventStream shows it to be: it numbers its events and *)
(* serves a cursor completely or answers with a reset.  What is written to *)
(* the listener's socket is received at once; what a broken socket loses   *)
(* is what a connection given up earlier has not written.                  *)
(***************************************************************************)
EXTENDS Integers, Sequences, FiniteSets

CONSTANTS
    Local,        \* LOCAL_NAMESPACE: the origin that is always there
    Peers,        \* the other machines that can own sessions
    LocalEvents,  \* events the local engine emits in one run
    PeerEvents,   \* events a peer's engine emits in one run
    MaxEpoch,     \* runs of an engine
    MaxBreaks,    \* arms and listeners that are lost
    MaxQueue,     \* entries the aggregator holds at most
    MaxControls,  \* control frames among them
    BufferBound,  \* bufferBound: data entries it holds for one origin
    LeaveStalled, \* peers may leave while the listener's socket is stalled
    RestartHeld,  \* an engine may restart while frames of it are held
    None

ASSUME FanInAssumption ==
    /\ Local \notin Peers
    /\ LocalEvents \in Nat
    /\ PeerEvents \in Nat
    /\ MaxEpoch \in Nat
    /\ MaxBreaks \in Nat
    /\ MaxQueue \in Nat
    /\ MaxControls \in Nat
    /\ BufferBound \in Nat \ {0}
    /\ LeaveStalled \in BOOLEAN
    /\ RestartHeld \in BOOLEAN

Origins   == Peers \cup {Local}
Seqs      == 0 .. (IF LocalEvents > PeerEvents THEN LocalEvents ELSE PeerEvents)
Positions == [epoch : 0 .. MaxEpoch, seq : Seqs]
Events    == [o : Origins, at : Positions]
Ids       == [bare : BOOLEAN, at : Seq(Events)]

ASSUME NoneAssumption == None \notin Positions /\ None \notin Ids

VARIABLES
    head,        \* per origin: the position of its engine's bus
    floor,       \* per origin: the oldest sequence its engine can serve from
    arm,         \* per origin: the upstream connection, or None
    composite,   \* the composite cursor: origins and positions, in order
    peerArms,    \* the active peers
    flowing,     \* the listener's socket accepts writes
    draining,    \* resume() is under way
    pending,     \* the ordered pending stream
    verbatim,    \* verbatimBuffer: frames held for a listener without peers
    dropped,     \* origins with a droppedCount above 0
    delivered,   \* everDelivered
    resumeAt,    \* per origin: the position its arm resumes from
    resuming,    \* arms re-opened from a cursor and not answered yet
    link,        \* the listener's connection: "up" or "down"
    raw,         \* the client's cursor: the id of the last frame, or None
    applied,     \* per origin: the client's position, or None
    rebase,      \* origins whose next position is a new baseline
    owed,        \* a forced resync is due
    breaks,      \* arms and listeners lost so far
    unseen,      \* history: events the client neither applied nor fetched
    last         \* history: per origin, the last event the client applied

engineVars  == <<head, floor>>
cursorVars  == <<composite, delivered, resumeAt, resuming>>
queueVars   == <<flowing, draining, pending, verbatim, dropped>>
clientVars  == <<raw, applied, rebase, owed, unseen, last>>
vars == <<engineVars, arm, cursorVars, queueVars, peerArms, link, clientVars, breaks>>

ControlTypes == {"connected", "heartbeat", "reset"}
DataFrames == [type : ControlTypes \cup {"event"}, o : Origins, at : Positions]
Gaps       == [type : {"gap"}, o : Origins]
Arms       == [hello : Seq({"connected", "reset"}), at : Positions]

TypeOK ==
    /\ head \in [Origins -> Positions]
    /\ floor \in [Origins -> Seqs]
    /\ arm \in [Origins -> Arms \cup {None}]
    /\ composite \in Seq(Events)
    /\ peerArms \subseteq Peers
    /\ flowing \in BOOLEAN
    /\ draining \in BOOLEAN
    /\ pending \in Seq(DataFrames \cup Gaps)
    /\ verbatim \in Seq(DataFrames)
    /\ dropped \subseteq Origins
    /\ delivered \subseteq Origins
    /\ resumeAt \in [Origins -> Positions \cup {None}]
    /\ resuming \subseteq Origins
    /\ link \in {"up", "down"}
    /\ raw = None \/ raw \in Ids
    /\ applied \in [Origins -> Positions \cup {None}]
    /\ rebase \subseteq Origins
    /\ owed \in BOOLEAN
    /\ breaks \in 0 .. MaxBreaks
    /\ unseen \subseteq Events
    /\ last \in [Origins -> Positions]

Zero == [epoch |-> 0, seq |-> 0]

\* Engines that have emitted nothing and a client that has no cursor.
Init ==
    /\ head = [o \in Origins |-> Zero]
    /\ floor = [o \in Origins |-> 0]
    /\ arm = [o \in Origins |-> None]
    /\ composite = <<>>
    /\ peerArms = {}
    /\ flowing = TRUE
    /\ draining = FALSE
    /\ pending = <<>>
    /\ verbatim = <<>>
    /\ dropped = {}
    /\ delivered = {}
    /\ resumeAt = [o \in Origins |-> None]
    /\ resuming = {}
    /\ link = "down"
    /\ raw = None
    /\ applied = [o \in Origins |-> None]
    /\ rebase = {}
    /\ owed = FALSE
    /\ breaks = 0
    /\ unseen = {}
    /\ last = [o \in Origins |-> Zero]

\* Position p is at or behind position q, epochs in the order they began.
AtOrBehind(p, q) ==
    p.epoch < q.epoch \/ (p.epoch = q.epoch /\ p.seq <= q.seq)

-----------------------------------------------------------------------------
(* Maps with the insertion order of a JavaScript Map                       *)

Keys(m) == {m[i].o : i \in 1 .. Len(m)}

\* The value of key o of map m, or None.
Get(m, o) ==
    IF o \in Keys(m) THEN (CHOOSE e \in {m[i] : i \in 1 .. Len(m)} : e.o = o).at ELSE None

\* Map m with key o set to p: in its old place, or at the end.
Put(m, o, p) ==
    IF o \in Keys(m)
    THEN [i \in 1 .. Len(m) |-> IF m[i].o = o THEN [o |-> o, at |-> p] ELSE m[i]]
    ELSE Append(m, [o |-> o, at |-> p])

-----------------------------------------------------------------------------
(* The client                                                              *)

BareId(p)      == [bare |-> TRUE, at |-> <<[o |-> Local, at |-> p]>>]
CompositeId(m) == [bare |-> FALSE, at |-> m]

\* createStreamCursor.frame: the origins whose position frame f moves.
Changed(id) == {o \in Keys(id.at) : Get(id.at, o) # applied[o]}

Rebased(f, o) == f.type = "reset" \/ o \in rebase \/ applied[o] = None

Behind(f, id) ==
    \E o \in Changed(id) :
        /\ ~ Rebased(f, o)
        /\ Get(id.at, o).epoch = applied[o].epoch
        /\ Get(id.at, o).seq <= applied[o].seq

\* Mutant: contiguity is not asked of control frames.
HoleExceptControl(f, id, o) ==
    /\ ~ Rebased(f, o)
    /\ f.type \notin ControlTypes
    /\ \/ Get(id.at, o).epoch # applied[o].epoch
       \/ Get(id.at, o).seq > applied[o].seq + 1

Hole(f, id, o) ==
    /\ ~ Rebased(f, o)
    /\ \/ Get(id.at, o).epoch # applied[o].epoch
       \/ Get(id.at, o).seq > applied[o].seq + (IF f.type \in ControlTypes THEN 0 ELSE 1)

\* A bare id: the last bus event again.
Repeated(f, id) == Changed(id) = {} /\ id.bare /\ f.type = "event"

\* resolveEventOrigin: the first origin of the id whose position moved.
Attributed(id) ==
    LET moved == {i \in 1 .. Len(id.at) : id.at[i].o \in Changed(id)}
    IN  IF id.bare \/ moved = {} THEN Local
        ELSE id.at[CHOOSE i \in moved : \A j \in moved : i <= j].o

\* A bare id is the client's whole cursor; a composite one is merged in.
Advance(id) ==
    [o \in Origins |-> IF o \in Keys(id.at) THEN Get(id.at, o)
                       ELSE IF id.bare THEN None ELSE applied[o]]

\* What an id skips of the events of the origins it gives a first position.
Skipped(id) ==
    {e \in unseen : e.o \in Changed(id) /\ applied[e.o] = None
                                        /\ AtOrBehind(e.at, Get(id.at, e.o))}

\* Mutant: a reset is a new baseline and nothing more.
ReceiveResetQuietly(f, id) ==
    \/ /\ Behind(f, id) \/ Repeated(f, id)
       /\ UNCHANGED clientVars
    \/ /\ ~ Behind(f, id) /\ ~ Repeated(f, id)
       /\ raw' = id
       /\ applied' = Advance(id)
       /\ rebase' = rebase \ Changed(id)
       /\ owed' = (owed \/ \E o \in Changed(id) : Hole(f, id, o))
       /\ IF f.type = "event"
          THEN /\ unseen' = (unseen \ Skipped(id)) \ {[o |-> f.o, at |-> f.at]}
               /\ last' = [last EXCEPT ![f.o] = f.at]
          ELSE /\ unseen' = unseen \ Skipped(id)
               /\ UNCHANGED last

(* The stream loop reads frame f with the given id: one behind the cursor  *)
(* or repeated never moves it, any other does, and a reset or a hole owes  *)
(* a resync.                                                               *)
Receive(f, id) ==
    \/ /\ Behind(f, id) \/ Repeated(f, id)
       /\ UNCHANGED clientVars
    \/ /\ ~ Behind(f, id) /\ ~ Repeated(f, id)
       /\ raw' = id
       /\ applied' = Advance(id)
       /\ rebase' = rebase \ Changed(id)
       /\ owed' = (owed \/ f.type = "reset" \/ \E o \in Changed(id) : Hole(f, id, o))
       /\ IF f.type = "event"
          THEN /\ unseen' = (unseen \ Skipped(id)) \ {[o |-> f.o, at |-> f.at]}
               /\ last' = [last EXCEPT ![f.o] = f.at]
          ELSE /\ unseen' = unseen \ Skipped(id)
               /\ UNCHANGED last

\* An amicode.sync.gap frame: the named origins re-base, a resync is due.
ReceiveGap(os) ==
    /\ rebase' = rebase \cup os
    /\ owed' = TRUE
    /\ UNCHANGED <<raw, applied, unseen, last>>

\* The forced resync fetches the fleet's state, which holds every event.
Resync ==
    /\ owed
    /\ owed' = FALSE
    /\ unseen' = {}
    /\ UNCHANGED <<engineVars, arm, cursorVars, queueVars, peerArms, link, raw, applied,
                   rebase, last, breaks>>

-----------------------------------------------------------------------------
(* The aggregator                                                          *)

\* A write to the socket reports that it is still accepting, or not.
Sink == flowing' \in BOOLEAN

\* Mutant: the resume point follows every frame.
AdvanceResumeBack(o, p) == resumeAt' = [resumeAt EXCEPT ![o] = p]

\* advanceResume: never backwards within one epoch.
AdvanceResume(o, p) ==
    resumeAt' = IF resumeAt[o] # None /\ resumeAt[o].epoch = p.epoch /\ p.seq < resumeAt[o].seq
                THEN resumeAt ELSE [resumeAt EXCEPT ![o] = p]

\* deliver: stamp the frame with the whole composite and write it.
Deliver(f) ==
    /\ composite' = Put(composite, f.o, f.at)
    /\ AdvanceResume(f.o, f.at)
    /\ Receive(f, CompositeId(composite'))
    /\ Sink

Live(o) == {i \in 1 .. Len(pending) : pending[i].type # "gap" /\ pending[i].o = o}

\* enqueue: hold the frame, or drop it at the bound of its origin.
Enqueue(f) ==
    /\ \/ /\ Cardinality(Live(f.o)) >= BufferBound
          /\ dropped' = dropped \cup {f.o}
          /\ UNCHANGED <<pending, resumeAt>>
       \/ /\ Cardinality(Live(f.o)) < BufferBound
          /\ pending' = Append(pending, f)
          /\ AdvanceResume(f.o, f.at)
          /\ UNCHANGED dropped
    /\ UNCHANGED <<composite, flowing, clientVars>>

\* writeControl of a gap that names origin o.
WriteGap(o) ==
    \/ flowing /\ ReceiveGap({o}) /\ Sink /\ UNCHANGED pending
    \/ /\ ~ flowing
       /\ pending' = Append(pending, [type |-> "gap", o |-> o])
       /\ UNCHANGED <<flowing, clientVars>>

\* The local arm's frames pass untouched while there are no peers.
Verbatim(o) == o = Local /\ peerArms = {}

\* ingest on the verbatim path.
IngestVerbatim(f) ==
    /\ composite' = Put(composite, Local, f.at)
    /\ AdvanceResume(Local, f.at)
    /\ \/ flowing /\ Receive(f, BareId(f.at)) /\ Sink /\ UNCHANGED verbatim
       \/ ~ flowing /\ verbatim' = Append(verbatim, f) /\ UNCHANGED <<flowing, clientVars>>
    /\ UNCHANGED <<pending, dropped>>

\* Mutant: a reset moves the resume point and is not announced.
IngestResetQuietly(f) ==
    \/ /\ f.type = "reset" \/ (f.type = "connected" /\ f.o \in resuming)
       /\ AdvanceResume(f.o, f.at)
       /\ UNCHANGED <<composite, pending, verbatim, dropped, flowing, clientVars>>
    \/ /\ f.type # "reset" /\ ~ (f.type = "connected" /\ f.o \in resuming)
       /\ \/ flowing /\ Deliver(f) /\ UNCHANGED <<pending, dropped>>
          \/ ~ flowing /\ Enqueue(f)
       /\ UNCHANGED verbatim

\* ingest in composite mode: a handshake is kept back, a reset becomes a gap.
IngestComposite(f) ==
    \/ /\ f.type = "connected" /\ f.o \in resuming
       /\ AdvanceResume(f.o, f.at)
       /\ UNCHANGED <<composite, pending, verbatim, dropped, flowing, clientVars>>
    \/ /\ f.type = "reset"
       /\ AdvanceResume(f.o, f.at)
       /\ WriteGap(f.o)
       /\ UNCHANGED <<composite, verbatim, dropped>>
    \/ /\ f.type # "reset" /\ ~ (f.type = "connected" /\ f.o \in resuming)
       /\ \/ flowing /\ Deliver(f) /\ UNCHANGED <<pending, dropped>>
          \/ ~ flowing /\ Enqueue(f)
       /\ UNCHANGED verbatim

\* SseFanInAggregator.ingest of one frame of an arm.
Ingest(f) ==
    /\ delivered' = delivered \cup {f.o}
    /\ resuming' = resuming \ {f.o}
    /\ \/ Verbatim(f.o) /\ IngestVerbatim(f)
       \/ ~ Verbatim(f.o) /\ IngestComposite(f)

\* The connection's pump may run: no other call of it is under way.
CanPump(o) ==
    /\ link = "up"
    /\ ~ draining
    /\ arm[o] # None
    /\ Len(pending) + Len(verbatim) < MaxQueue

\* The control frames that are held back by a stalled socket.
HeldControls ==
    Cardinality({i \in 1 .. Len(pending) : pending[i].type \in ControlTypes})
    + Cardinality({i \in 1 .. Len(verbatim) : verbatim[i].type \in ControlTypes})

Frame(type, o, p) == [type |-> type, o |-> o, at |-> p]

\* The upstream's handshake: connected, or a reset and then connected.
PumpHello(o) ==
    /\ CanPump(o)
    /\ arm[o].hello # <<>>
    /\ HeldControls < MaxControls
    /\ Ingest(Frame(Head(arm[o].hello), o, arm[o].at))
    /\ arm' = [arm EXCEPT ![o].hello = Tail(@)]
    /\ UNCHANGED <<engineVars, peerArms, draining, link, breaks>>

\* The next bus event of the upstream.
PumpEvent(o) ==
    LET p == [arm[o].at EXCEPT !.seq = @ + 1] IN
    /\ CanPump(o)
    /\ arm[o].hello = <<>>
    /\ arm[o].at.seq < head[o].seq
    /\ Ingest(Frame("event", o, p))
    /\ arm' = [arm EXCEPT ![o].at = p]
    /\ UNCHANGED <<engineVars, peerArms, draining, link, breaks>>

\* A heartbeat of the upstream, at the connection's position.
PumpBeat(o) ==
    /\ CanPump(o)
    /\ arm[o].hello = <<>>
    /\ HeldControls < MaxControls
    /\ Ingest(Frame("heartbeat", o, arm[o].at))
    /\ UNCHANGED <<engineVars, peerArms, arm, draining, link, breaks>>

\* The socket's drain edge: resume() begins.
Drain ==
    /\ link = "up"
    /\ ~ flowing
    /\ ~ draining
    /\ flowing' = TRUE
    /\ draining' = TRUE
    /\ UNCHANGED <<engineVars, arm, cursorVars, pending, verbatim, dropped, peerArms, link,
                   clientVars, breaks>>

\* resume's loop over the verbatim buffer.
DrainVerbatim ==
    /\ verbatim # <<>>
    /\ verbatim' = Tail(verbatim)
    /\ Receive(Head(verbatim), BareId(Head(verbatim).at))
    /\ Sink
    /\ UNCHANGED <<cursorVars, pending, dropped>>

\* resume's loop over the pending stream.
DrainPending ==
    LET f == Head(pending) IN
    /\ verbatim = <<>>
    /\ pending # <<>>
    /\ pending' = Tail(pending)
    /\ \/ f.type = "gap" /\ ReceiveGap({f.o}) /\ Sink /\ UNCHANGED <<composite, resumeAt>>
       \/ f.type # "gap" /\ Deliver(f)
    /\ UNCHANGED <<delivered, resuming, verbatim, dropped>>

\* resume's end: one gap for all that was dropped.
DrainEnd ==
    /\ verbatim = <<>>
    /\ pending = <<>>
    /\ dropped' = {}
    /\ \/ dropped # {} /\ ReceiveGap(dropped) /\ Sink
       \/ dropped = {} /\ UNCHANGED <<flowing, clientVars>>
    /\ UNCHANGED <<cursorVars, pending, verbatim>>

\* One write of resume(), which goes on until the socket stalls again.
DrainStep ==
    /\ draining
    /\ \/ (DrainVerbatim \/ DrainPending) /\ draining' = flowing'
       \/ DrainEnd /\ draining' = FALSE
    /\ UNCHANGED <<engineVars, arm, peerArms, link, breaks>>

-----------------------------------------------------------------------------
(* The connection and its arms                                             *)

\* Mutant: a refused cursor is answered with the id of the next event.
OpenedAhead(o, p) ==
    IF p = None
    THEN [hello |-> <<"connected">>, at |-> head[o]]
    ELSE IF p.epoch = head[o].epoch /\ p.seq <= head[o].seq /\ p.seq >= floor[o]
    THEN [hello |-> <<"connected">>, at |-> p]
    ELSE [hello |-> <<"reset", "connected">>, at |-> [head[o] EXCEPT !.seq = @ + 1]]

\* An upstream opened with cursor p: it is served, or reset.
Opened(o, p) ==
    IF p = None
    THEN [hello |-> <<"connected">>, at |-> head[o]]
    ELSE IF p.epoch = head[o].epoch /\ p.seq <= head[o].seq /\ p.seq >= floor[o]
    THEN [hello |-> <<"connected">>, at |-> p]
    ELSE [hello |-> <<"reset", "connected">>, at |-> head[o]]

\* SseFanInAggregator.connect: the client's cursor seeds both positions.
SeedCursor(cursor) ==
    /\ composite' = cursor
    /\ resumeAt' = [o \in Origins |-> Get(cursor, o)]

(* setMembership: the usable owners become the active peers; the others    *)
(* are named in a comment, which a stalling socket may be given.           *)
SetMembership(usable) ==
    /\ peerArms' = usable
    /\ flowing' \in {flowing} \cup (IF usable = Peers THEN {} ELSE {FALSE})

\* reopenArm: an arm that has delivered is re-opened from its cursor.
ReopenArms(open) == resuming' = resuming \cup {o \in open : arm[o] = None /\ o \in delivered}

\* A new FanInConnection: connect(cursor), the local arm, the usable peers.
Connect ==
    /\ link = "down"
    /\ link' = "up"
    /\ \E usable \in SUBSET Peers :
          LET cursor == IF raw = None THEN <<>> ELSE raw.at
              open   == usable \cup {Local}
          IN  /\ SeedCursor(cursor)
              /\ arm' = [o \in Origins |-> IF o \in open THEN Opened(o, Get(cursor, o)) ELSE None]
              /\ peerArms' = usable
    /\ Sink
    /\ draining' = FALSE
    /\ pending' = <<>>
    /\ verbatim' = <<>>
    /\ dropped' = {}
    /\ delivered' = {}
    /\ resuming' = {}
    /\ UNCHANGED <<engineVars, clientVars, breaks>>

\* Mutant: only the arms of active peers are re-opened.
ReconcilePeersOnly ==
    /\ link = "up"
    /\ ~ draining
    /\ \E usable \in SUBSET Peers :
          /\ LeaveStalled \/ flowing \/ peerArms \subseteq usable
          /\ SetMembership(usable)
          /\ arm' = [o \in Origins |->
                        IF o \notin usable \cup {Local} THEN None
                        ELSE IF arm[o] # None \/ o = Local THEN arm[o]
                        ELSE Opened(o, resumeAt[o])]
          /\ ReopenArms(usable)
    /\ UNCHANGED <<engineVars, composite, delivered, resumeAt, draining, pending, verbatim,
                   dropped, link, clientVars, breaks>>

(* reconcile: arms that are missing are (re-)opened from where they got    *)
(* to, arms of peers that are not active any more are closed.              *)
Reconcile ==
    /\ link = "up"
    /\ ~ draining
    /\ \E usable \in SUBSET Peers :
          LET open == usable \cup {Local} IN
          /\ LeaveStalled \/ flowing \/ peerArms \subseteq usable
          /\ SetMembership(usable)
          /\ arm' = [o \in Origins |->
                        IF o \notin open THEN None
                        ELSE IF arm[o] # None THEN arm[o]
                        ELSE Opened(o, resumeAt[o])]
          /\ ReopenArms(open)
    /\ UNCHANGED <<engineVars, composite, delivered, resumeAt, draining, pending, verbatim,
                   dropped, link, clientVars, breaks>>

\* An upstream ends or fails; pump forgets the source.
BreakArm(o) ==
    /\ arm[o] # None
    /\ breaks < MaxBreaks
    /\ breaks' = breaks + 1
    /\ arm' = [arm EXCEPT ![o] = None]
    /\ UNCHANGED <<engineVars, cursorVars, queueVars, peerArms, link, clientVars>>

\* The listener is gone, or the client gives it up: its arms are closed.
HangUp ==
    /\ link = "up"
    /\ ~ draining
    /\ breaks < MaxBreaks
    /\ breaks' = breaks + 1
    /\ link' = "down"
    /\ arm' = [o \in Origins |-> None]
    /\ UNCHANGED <<engineVars, cursorVars, queueVars, peerArms, clientVars>>

-----------------------------------------------------------------------------
(* The engines                                                             *)

Emit(o) ==
    /\ head[o].seq < (IF o = Local THEN LocalEvents ELSE PeerEvents)
    /\ head' = [head EXCEPT ![o].seq = @ + 1]
    /\ unseen' = unseen \cup {[o |-> o, at |-> head'[o]]}
    /\ UNCHANGED <<floor, arm, cursorVars, queueVars, peerArms, link, raw, applied, rebase, owed,
                   last, breaks>>

\* The engine's replay buffer evicts.
Evict(o) ==
    /\ floor[o] < head[o].seq
    /\ floor' = [floor EXCEPT ![o] = head[o].seq]
    /\ UNCHANGED <<head, arm, cursorVars, queueVars, peerArms, link, clientVars, breaks>>

\* The aggregator holds frames of origin o.
Holds(o) == Live(o) # {} \/ (o = Local /\ verbatim # <<>>)

Restart(o) ==
    /\ head[o].epoch < MaxEpoch
    /\ RestartHeld \/ link = "down" \/ ~ Holds(o)
    /\ head' = [head EXCEPT ![o] = [epoch |-> @.epoch + 1, seq |-> 0]]
    /\ floor' = [floor EXCEPT ![o] = 0]
    /\ arm' = [arm EXCEPT ![o] = None]
    /\ UNCHANGED <<cursorVars, queueVars, peerArms, link, clientVars, breaks>>

-----------------------------------------------------------------------------
Next ==
    \/ \E o \in Origins :
          \/ PumpHello(o)
          \/ PumpEvent(o)
          \/ PumpBeat(o)
          \/ BreakArm(o)
          \/ Emit(o)
          \/ Restart(o)
          \/ Evict(o)
    \/ Drain
    \/ DrainStep
    \/ Connect
    \/ Reconcile
    \/ HangUp
    \/ Resync

(* The event loop gives every callback its turn: the connection and its    *)
(* local upstream go on, and a socket that stalled drains.  resume() is    *)
(* one synchronous call, so what its steps disable here comes up again.    *)
(* The listener reads: its socket takes a write without stalling again and *)
(* again.                                                                  *)
Fairness ==
    /\ WF_vars(Connect)
    /\ SF_vars(Reconcile)
    /\ SF_vars(PumpHello(Local))
    /\ SF_vars(PumpEvent(Local))
    /\ WF_vars(Drain)
    /\ WF_vars(DrainStep)
    /\ SF_vars(DrainStep /\ flowing')
    /\ WF_vars(Resync)

Spec == Init /\ [][Next]_vars /\ Fairness

-----------------------------------------------------------------------------
(* Properties                                                              *)

\* The next frame of an open arm, but for heartbeats.
NextFrame(o) ==
    IF arm[o].hello # <<>> THEN Frame(Head(arm[o].hello), o, arm[o].at)
    ELSE Frame("event", o, [arm[o].at EXCEPT !.seq = @ + 1])

\* Frame f of an arm is written to the listener, not kept back.
Forwarded(f) ==
    /\ flowing
    /\ Verbatim(f.o) \/ ~ (f.type = "reset" \/ (f.type = "connected" /\ f.o \in resuming))

\* The arms whose next frame goes to the listener as it comes.
Sending ==
    {o \in Origins :
        /\ CanPump(o)
        /\ arm[o].hello # <<>> \/ arm[o].at.seq < head[o].seq
        /\ Forwarded(NextFrame(o))}

\* The frames the client may be sent next, with their ids.
Upcoming ==
    LET Bare(f)    == [f |-> f, id |-> BareId(f.at)]
        Stamped(f) == [f |-> f, id |-> CompositeId(Put(composite, f.o, f.at))]
        First(q)   == {q[i] : i \in {j \in 1 .. Len(q) : j = 1 /\ draining}}
    IN  {IF Verbatim(o) THEN Bare(NextFrame(o)) ELSE Stamped(NextFrame(o)) : o \in Sending}
        \cup {Bare(f) : f \in First(verbatim)}
        \cup {Stamped(f) : f \in {g \in First(pending) : verbatim = <<>> /\ g.type # "gap"}}

Applies(u) == ~ Behind(u.f, u.id) /\ ~ Repeated(u.f, u.id)

\* Event e waits in one of the aggregator's buffers.
Queued(e) ==
    \/ \E i \in 1 .. Len(pending) : pending[i] = Frame("event", e.o, e.at)
    \/ \E i \in 1 .. Len(verbatim) : verbatim[i] = Frame("event", e.o, e.at)

(* No event is lost silently (stream-cursor.ts, sse_fanin_aggregator.ts):  *)
(* an event of an origin that the client's position of that origin has     *)
(* passed was applied or fetched, or a forced resync is due.  Overflowing  *)
(* buffers, re-opened arms, restarted engines and peers that come and go   *)
(* included.                                                               *)
NoSilentLoss ==
    \A e \in unseen :
        applied[e.o] # None /\ AtOrBehind(e.at, applied[e.o]) => owed

(* No event is applied twice or after a later one of its origin, whatever  *)
(* is replayed, held back and re-opened (stream-cursor.ts frame).          *)
AppliedInOrder ==
    \A u \in Upcoming :
        u.f.type = "event" /\ Applies(u) => ~ AtOrBehind(u.f.at, last[u.f.o])

(* An arm is resumed after nothing but what is on its way or announced     *)
(* (resumeAt): an event at or behind the resume point that the client      *)
(* lacks is queued, or a gap or reset is queued for it, will be written    *)
(* when the queues have drained, or has made a resync due.                 *)
ResumeIsCovered ==
    \A e \in unseen :
        /\ link = "up"
        /\ applied[e.o] # None
        /\ resumeAt[e.o] # None
        /\ AtOrBehind(e.at, resumeAt[e.o])
        => \/ owed
           \/ Queued(e)
           \/ e.o \in dropped
           \/ \E i \in 1 .. Len(pending) : pending[i] = [type |-> "gap", o |-> e.o]
           \/ e.o = Local /\ \E i \in 1 .. Len(verbatim) : verbatim[i].type = "reset"

(* Every event of the local engine reaches the client in the end, applied  *)
(* or fetched: neither a stalled socket nor a lost arm holds it for good.  *)
EveryLocalEventArrives == []<>(\A e \in unseen : e.o # Local)

(* "Every unreplayable loss [is] loud" (stream-cursor.ts:2) when the last  *)
(* peer leaves a stalled listener: the client never moves past an event it *)
(* has not applied without owing a resync.                                 *)
OvertakenIsLoud ==
    \A e \in unseen :
        /\ applied[e.o] # None
        /\ AtOrBehind(e.at, applied[e.o])
        /\ e.at # applied[e.o]
        => owed

(* "The namespace whose value changed from the previous cursor is the      *)
(* originator" (sse-origin.ts): an event is attributed to the engine that  *)
(* emitted it.  TLC refutes it (FanIn.cfg with this INVARIANT): a bare     *)
(* id makes the client forget its peers.                                   *)
OriginIsTrue ==
    \A u \in Upcoming : u.f.type = "event" /\ Applies(u) => Attributed(u.id) = u.f.o

=============================================================================
