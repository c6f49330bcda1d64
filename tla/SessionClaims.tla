---------------------------- MODULE SessionClaims ----------------------------
(***************************************************************************)
(* core/src/runtime-state: the rows by which processes that share a        *)
(* database claim one session, busy and registered, with a heartbeat and   *)
(* a conflict flag; and the two clients that write them.                   *)
(*                                                                         *)
(*   - a turn of run-state.ts and status.ts registers the session, claims  *)
(*     it busy with every busy status and releases both when it ends; the  *)
(*     turns of a process share one status entry and one heartbeat fiber;  *)
(*   - a drain of session/execution/local.ts brackets its work in a claim  *)
(*     with a heartbeat of its own.                                        *)
(*                                                                         *)
(* Processes interleave between the statements of one store operation.     *)
(* Age is one bit: a row is fresh, or its heartbeat is older than the TTL. *)
(***************************************************************************)
EXTENDS Naturals, FiniteSets

CONSTANTS
    Owners,      \* processes, each with the owner_id it writes its rows under
    Turns,       \* turns of run-state.ts
    Shells,      \* the turns that are shells: their busy carries a generation
    Drains,      \* drains of local.ts
    OwnerOf,     \* [call] the process that runs it
    MaxMishaps,  \* failing store operations, missed heartbeats, crashes
    None

Calls == Turns \cup Drains

ASSUME ClaimsAssumption ==
    /\ Turns \cap Drains = {} /\ Shells \subseteq Turns
    /\ OwnerOf \in [Calls -> Owners]
    /\ MaxMishaps \in Nat
    /\ None \notin Turns \cup [fresh : BOOLEAN, conflict : BOOLEAN]

VARIABLES
    busy,      \* RuntimeBusyTable, [o] the row of owner o or None
    reg,       \* RuntimeSessionOwnerTable, likewise
    pc,        \* [c] where the call stands
    saw,       \* [c] flagConflict's select found another owner
    runner,    \* [o] run-state's entry for the session
    gen,       \* [c] the generation drawn for the turn
    ledger,    \* [o] status.ts: turns drawn, highest generation seen
    data,      \* [o] the status map holds the session as busy
    fiber,     \* [o] status.ts fibers: the session's heartbeat
    alive,     \* [o] the process runs
    mishaps,   \* mishaps so far
    hurt,      \* history: owners whose claim a mishap hit
    late,      \* history: owners that began a turn while one was ending
    twins      \* history: owners that made a runner over a current one

tables == <<busy, reg>>
status == <<runner, gen, ledger, data, fiber>>
history == <<mishaps, hurt, late, twins>>
vars == <<tables, pc, saw, status, alive, history>>

Row == [fresh : BOOLEAN, conflict : BOOLEAN]

\* The statements of busyEnter, in order, and those of register.
Entering    == {"enter", "stamp", "seekBusy", "flagBusy", "seekReg", "flagReg"}
Registering == {"register", "seek", "flag"}
Ending      == {"unregister", "idle", "clear", "exit"}
StoreSteps  == Entering \cup Registering \cup {"unregister", "exit"}

TypeOK ==
    /\ busy \in [Owners -> Row \cup {None}] /\ reg \in [Owners -> Row \cup {None}]
    /\ pc \in [Calls -> StoreSteps \cup {"off", "make",
                                         "running", "idle", "clear", "over"}]
    /\ saw \in [Calls -> BOOLEAN]
    /\ runner \in [Owners -> Turns \cup {None}]
    /\ gen \in [Turns -> 0 .. Cardinality(Turns)]
    /\ ledger \in [Owners -> [turns : 0 .. Cardinality(Turns),
                              generation : 0 .. Cardinality(Turns)]]
    /\ data \in [Owners -> BOOLEAN]
    /\ fiber \in [Owners -> {"none", "beating", "ended"}]
    /\ alive \in [Owners -> BOOLEAN]
    /\ mishaps \in 0 .. MaxMishaps
    /\ hurt \subseteq Owners /\ late \subseteq Owners /\ twins \subseteq Owners

Init ==
    /\ busy = [o \in Owners |-> None] /\ reg = [o \in Owners |-> None]
    /\ pc = [c \in Calls |-> "off"]
    /\ saw = [c \in Calls |-> FALSE]
    /\ runner = [o \in Owners |-> None]
    /\ gen = [c \in Turns |-> 0]
    /\ ledger = [o \in Owners |-> [turns |-> 0, generation |-> 0]]
    /\ data = [o \in Owners |-> FALSE]
    /\ fiber = [o \in Owners |-> "none"]
    /\ alive = [o \in Owners |-> TRUE]
    /\ mishaps = 0 /\ hurt = {} /\ late = {} /\ twins = {}

At(c, step) == pc[c] = step /\ alive[OwnerOf[c]]
Goto(c, step) == pc' = [pc EXCEPT ![c] = step]

-----------------------------------------------------------------------------
(* The store                                                               *)

Fresh(row) == row # None /\ row.fresh

\* pruneDead: a write removes the claims that are too old, its own too.
Pruned(table) == [x \in Owners |-> IF Fresh(table[x]) THEN table[x] ELSE None]

\* An insert, or the update that stamps a row and keeps its conflict flag.
Stamped(table, o) ==
    [table EXCEPT ![o] = [fresh |-> TRUE, conflict |-> @ # None /\ @.conflict]]

\* busyHeartbeat and its like: an update, no row is inserted.
Beaten(table, o) == [table EXCEPT ![o] = IF @ = None THEN None ELSE [@ EXCEPT !.fresh = TRUE]]

Flagged(table) ==
    [x \in Owners |-> IF Fresh(table[x]) THEN [table[x] EXCEPT !.conflict = TRUE]
                                         ELSE table[x]]

Others(table, o) == \E x \in Owners \ {o} : Fresh(table[x])

\* register and busyEnter: one step for each statement.
RegisterRow(c) ==
    /\ At(c, "register")
    /\ reg' = Stamped(Pruned(reg), OwnerOf[c])
    /\ busy' = Pruned(busy)
    /\ Goto(c, "seek")
    /\ UNCHANGED <<saw, status, alive, history>>

Enter(c) ==
    /\ At(c, "enter")
    /\ busy' = Stamped(Pruned(busy), OwnerOf[c])
    /\ reg' = Pruned(reg)
    /\ Goto(c, "stamp")
    /\ UNCHANGED <<saw, status, alive, history>>

\* Mutant: busyEnter does not stamp the registration.
StampNothing(c) ==
    /\ At(c, "stamp")
    /\ Goto(c, "seekBusy")
    /\ UNCHANGED <<tables, saw, status, alive, history>>

Stamp(c) ==
    /\ At(c, "stamp")
    /\ reg' = Stamped(reg, OwnerOf[c])
    /\ Goto(c, "seekBusy")
    /\ UNCHANGED <<busy, saw, status, alive, history>>

\* flagConflict: first the select of the other owners.
Seek(c) ==
    /\ \E s \in {"seek", "seekBusy", "seekReg"} :
          /\ At(c, s)
          /\ saw' = [saw EXCEPT ![c] = Others(IF s = "seekBusy" THEN busy ELSE reg,
                                             OwnerOf[c])]
          /\ Goto(c, CASE s = "seek"     -> "flag"
                       [] s = "seekBusy" -> "flagBusy"
                       [] s = "seekReg"  -> "flagReg")
    /\ UNCHANGED <<tables, status, alive, history>>

\* After busyEnter a turn forks a heartbeat, unless `fibers` has one, be it
\* over already.
Forked(c) ==
    IF c \in Turns /\ fiber[OwnerOf[c]] = "none"
      THEN [fiber EXCEPT ![OwnerOf[c]] = "beating"] ELSE fiber

\* Mutant: only the own claim is flagged.
FlagOwn(c) ==
    LET Own(table) == [table EXCEPT ![OwnerOf[c]] =
                          IF @ = None THEN None ELSE [@ EXCEPT !.conflict = TRUE]]
    IN /\ \E s \in {"flag", "flagBusy", "flagReg"} :
             /\ At(c, s)
             /\ busy' = IF saw[c] /\ s = "flagBusy" THEN Own(busy) ELSE busy
             /\ reg' = IF saw[c] /\ s # "flagBusy" THEN Own(reg) ELSE reg
             /\ Goto(c, CASE s = "flag"     -> "make"
                          [] s = "flagBusy" -> "seekReg"
                          [] s = "flagReg"  -> "running")
       /\ fiber' = IF pc[c] = "flagReg" THEN Forked(c) ELSE fiber
       /\ saw' = [saw EXCEPT ![c] = FALSE]
       /\ UNCHANGED <<runner, gen, ledger, data, alive, history>>

\* ... then, if there is one, the update that flags every live claim.
Flag(c) ==
    /\ \E s \in {"flag", "flagBusy", "flagReg"} :
          /\ At(c, s)
          /\ busy' = IF saw[c] /\ s = "flagBusy" THEN Flagged(busy) ELSE busy
          /\ reg' = IF saw[c] /\ s # "flagBusy" THEN Flagged(reg) ELSE reg
          /\ Goto(c, CASE s = "flag"     -> "make"
                       [] s = "flagBusy" -> "seekReg"
                       [] s = "flagReg"  -> "running")
    /\ fiber' = IF pc[c] = "flagReg" THEN Forked(c) ELSE fiber
    /\ saw' = [saw EXCEPT ![c] = FALSE]
    /\ UNCHANGED <<runner, gen, ledger, data, alive, history>>

Unregister(c) ==
    /\ At(c, "unregister")
    /\ reg' = [reg EXCEPT ![OwnerOf[c]] = None]
    /\ Goto(c, "idle")
    /\ UNCHANGED <<busy, saw, status, alive, history>>

BusyExit(c) ==
    /\ At(c, "exit")
    /\ busy' = [busy EXCEPT ![OwnerOf[c]] = None]
    /\ Goto(c, "over")
    /\ UNCHANGED <<reg, saw, status, alive, history>>

\* bestEffort: an operation that fails is given up where it stands.
StoreFails(c) ==
    /\ pc[c] \in StoreSteps /\ alive[OwnerOf[c]] /\ mishaps < MaxMishaps
    /\ mishaps' = mishaps + 1
    /\ hurt' = hurt \cup {OwnerOf[c]}
    /\ Goto(c, CASE pc[c] \in Registering  -> "make"
                 [] pc[c] \in Entering     -> "running"
                 [] pc[c] = "unregister"   -> "idle"
                 [] pc[c] = "exit"         -> "over")
    /\ fiber' = IF pc[c] \in Entering THEN Forked(c) ELSE fiber
    /\ saw' = [saw EXCEPT ![c] = FALSE]
    /\ UNCHANGED <<tables, runner, gen, ledger, data, alive, late, twins>>

-----------------------------------------------------------------------------
(* A turn                                                                  *)

\* runner(): no entry for the session is found.
Look(c) ==
    /\ c \in Turns /\ At(c, "off")
    /\ runner[OwnerOf[c]] = None
    /\ late' = IF \E t \in Turns : OwnerOf[t] = OwnerOf[c] /\ pc[t] \in Ending
                 THEN late \cup {OwnerOf[c]} ELSE late
    /\ Goto(c, "register")
    /\ UNCHANGED <<tables, saw, status, alive, mishaps, hurt, twins>>

\* set(busy): a shell's generation is noted, then the status map is written.
SetBusy(c, drawn) ==
    LET o == OwnerOf[c]
        note == c \in Shells /\ gen'[c] > ledger[o].generation
    IN /\ ledger' = [ledger EXCEPT ![o].turns = @ + drawn,
                                  ![o].generation = IF note THEN gen'[c] ELSE @]
       /\ data' = [data EXCEPT ![o] = TRUE]
       /\ Goto(c, "enter")

\* nextGeneration, Runner.make, the entry in the map, and the turn's start.
Make(c) ==
    LET o == OwnerOf[c]
    IN /\ At(c, "make")
       /\ gen' = [gen EXCEPT ![c] = ledger[o].turns + 1]
       /\ runner' = [runner EXCEPT ![o] = c]
       /\ twins' = IF \E t \in Turns \ {c} : OwnerOf[t] = o
                          /\ (runner[o] = t \/ pc[t] \in Registering \cup {"make"})
                     THEN twins \cup {o} ELSE twins
       /\ SetBusy(c, 1)
       /\ UNCHANGED <<tables, saw, fiber, alive, mishaps, hurt, late>>

\* A later step of the prompt loop: busy once more.
Again(c) ==
    /\ c \in Turns \ Shells /\ At(c, "running")
    /\ UNCHANGED gen
    /\ SetBusy(c, 0)
    /\ UNCHANGED <<tables, saw, runner, fiber, alive, history>>

\* onIdle: the entry goes first, whoever made it.
End(c) ==
    /\ c \in Turns /\ At(c, "running")
    /\ runner' = [runner EXCEPT ![OwnerOf[c]] = None]
    /\ Goto(c, "unregister")
    /\ UNCHANGED <<tables, saw, gen, ledger, data, fiber, alive, history>>

\* set(idle): dropped if a younger generation has been seen.
SetIdle(c) ==
    LET o == OwnerOf[c]
        stale == gen[c] < ledger[o].generation
    IN /\ At(c, "idle")
       /\ ledger' = IF stale THEN ledger ELSE [ledger EXCEPT ![o].generation = gen[c]]
       /\ Goto(c, IF stale THEN "over" ELSE "clear")
       /\ UNCHANGED <<tables, saw, runner, gen, data, fiber, alive, history>>

\* Mutant: the idle leaves the heartbeat and the status as they are.
ClearKeepsFiber(c) ==
    /\ At(c, "clear")
    /\ Goto(c, "exit")
    /\ UNCHANGED <<tables, saw, status, alive, history>>

\* The idle is published: map and heartbeat, then the busy row.
Clear(c) ==
    /\ At(c, "clear")
    /\ data' = [data EXCEPT ![OwnerOf[c]] = FALSE]
    /\ fiber' = [fiber EXCEPT ![OwnerOf[c]] = "none"]
    /\ Goto(c, "exit")
    /\ UNCHANGED <<tables, saw, runner, gen, ledger, alive, history>>

-----------------------------------------------------------------------------
(* A drain                                                                 *)

\* The coordinator (external) runs one drain of a session at a time.
Begin(c) ==
    /\ c \in Drains /\ At(c, "off")
    /\ \A d \in Drains : OwnerOf[d] = OwnerOf[c] => pc[d] \in {"off", "over"}
    /\ Goto(c, "enter")
    /\ UNCHANGED <<tables, saw, status, alive, history>>

\* The release: the heartbeat is interrupted, then the row goes.
Release(c) ==
    /\ c \in Drains /\ At(c, "running")
    /\ Goto(c, "exit")
    /\ UNCHANGED <<tables, saw, status, alive, history>>

-----------------------------------------------------------------------------
(* Heartbeats, age and crashes                                             *)

\* Mutant: the heartbeat of a drain is not interrupted when it is released.
BeatingAfterRelease(o) ==
    /\ alive[o]
    /\ \/ fiber[o] = "beating" /\ data[o]
       \/ \E d \in Drains : OwnerOf[d] = o /\ pc[d] \in {"running", "exit", "over"}

\* A heartbeat of o is running: of its status entry, or of a drain.
Beating(o) ==
    /\ alive[o]
    /\ \/ fiber[o] = "beating" /\ data[o]
       \/ \E d \in Drains : OwnerOf[d] = o /\ pc[d] = "running"

\* A heartbeat stamps the rows that are there; it ends with the status.
Heartbeat(o) ==
    /\ alive[o]
    /\ \/ /\ Beating(o)
          /\ busy' = Beaten(busy, o) /\ reg' = Beaten(reg, o)
          /\ UNCHANGED fiber
       \/ /\ fiber[o] = "beating" /\ ~data[o]
          /\ fiber' = [fiber EXCEPT ![o] = "ended"]
          /\ UNCHANGED tables
    /\ UNCHANGED <<pc, saw, runner, gen, ledger, data, alive, history>>

\* Every call is over, or its process is gone.
AtRest(o) == ~alive[o] \/ \A c \in Calls : OwnerOf[c] = o => pc[c] \in {"off", "over"}

\* Does any call of o stand between its first statement and its last flag?
Claiming(o) ==
    \E c \in Calls : OwnerOf[c] = o /\ pc[c] \in Entering \cup Registering

(* Nobody stamps the rows of o, for as long as it takes: longer than a     *)
(* store operation does.                                                   *)
Unstamped(o) ==
    /\ ~Beating(o) /\ ~Claiming(o)
    /\ AtRest(o) \/ \E c \in Calls : OwnerOf[c] = o /\ pc[c] = "running"

(* Three heartbeats' time passes: for the rows of an owner that sends      *)
(* none, or of one that was suspended meanwhile.                           *)
Aged(row) == IF row = None THEN None ELSE [row EXCEPT !.fresh = FALSE]

Lapse(o) ==
    /\ Fresh(busy[o]) \/ Fresh(reg[o])
    /\ busy' = [busy EXCEPT ![o] = Aged(@)] /\ reg' = [reg EXCEPT ![o] = Aged(@)]
    /\ \/ Unstamped(o) /\ UNCHANGED <<mishaps, hurt>>
       \/ /\ ~Unstamped(o) /\ mishaps < MaxMishaps
          /\ mishaps' = mishaps + 1 /\ hurt' = hurt \cup {o}
    /\ UNCHANGED <<pc, saw, status, alive, late, twins>>

\* A process dies: what it held in memory is gone, its rows stay.
Crash(o) ==
    LET mine == {c \in Calls : OwnerOf[c] = o}
    IN /\ alive[o] /\ mishaps < MaxMishaps
       /\ alive' = [alive EXCEPT ![o] = FALSE]
       /\ mishaps' = mishaps + 1
       /\ pc' = [c \in Calls |-> IF c \in mine THEN "over" ELSE pc[c]]
       /\ saw' = [c \in Calls |-> c \notin mine /\ saw[c]]
       /\ gen' = [c \in Turns |-> IF c \in mine THEN 0 ELSE gen[c]]
       /\ runner' = [runner EXCEPT ![o] = None]
       /\ ledger' = [ledger EXCEPT ![o] = [turns |-> 0, generation |-> 0]]
       /\ data' = [data EXCEPT ![o] = FALSE]
       /\ fiber' = [fiber EXCEPT ![o] = "none"]
       /\ hurt' = IF Claiming(o) THEN hurt \cup {o} ELSE hurt
       /\ UNCHANGED <<tables, late, twins>>

\* Everything is over; what there is still to come is time.
Rest == (\A o \in Owners : AtRest(o)) /\ UNCHANGED vars

\* What a call does once it has been made.
Step(c) ==
    \/ RegisterRow(c) \/ Enter(c) \/ Stamp(c) \/ Seek(c) \/ Flag(c)
    \/ Unregister(c) \/ BusyExit(c)
    \/ Make(c)
    \/ End(c) \/ SetIdle(c) \/ Clear(c) \/ Release(c)

Next ==
    \/ \E c \in Calls : Step(c) \/ Again(c) \/ Look(c) \/ Begin(c) \/ StoreFails(c)
    \/ \E o \in Owners : Heartbeat(o) \/ Lapse(o) \/ Crash(o)
    \/ Rest

(* Time passes: the rows that nobody stamps lapse.  Nothing is asked of    *)
(* the calls, which may stop or go on for ever wherever they stand.        *)
Fairness == \A o \in Owners : WF_vars(Unstamped(o) /\ Lapse(o))

Spec == Init /\ [][Next]_vars /\ Fairness

-----------------------------------------------------------------------------
(* Properties                                                              *)

(* flagConflict, "more than one is double ownership": whenever two         *)
(* processes hold live claims on the session, of either table, both rows   *)
(* say so, however the statements of their writes, exits and heartbeats    *)
(* interleave; a store that failed or a claim that lapsed excepted.        *)
DoubleOwnershipFlagged ==
    \A o, x \in Owners \ hurt : \A table \in {busy, reg} :
        /\ o # x /\ Fresh(table[o]) /\ Fresh(table[x])
        /\ ~Claiming(o) /\ ~Claiming(x)
        => table[o].conflict /\ table[x].conflict

(* "executing implies owning": a running drain or turn is visible to every *)
(* other process, busy and registered.  Only a missed heartbeat, a failed  *)
(* write or the late end of an older turn of the same process, whose       *)
(* unregister and idle do not look whose rows they remove, can hide it.    *)
ExecutingImpliesOwning ==
    \A c \in Calls :
        LET o == OwnerOf[c]
        IN pc[c] = "running" /\ alive[o] /\ o \notin hurt \cup late \cup twins =>
              Fresh(busy[o]) /\ Fresh(reg[o])

(* What is over leaves nothing behind: a process at rest has no busy row,  *)
(* no busy status and, if its turns made it, no registration, although a   *)
(* turn's end races the start, the heartbeat and the end of the next.      *)
NothingLeaks ==
    \A o \in Owners : alive[o] /\ AtRest(o) /\ o \notin hurt \cup twins =>
        /\ ~data[o] /\ busy[o] = None
        /\ (\E c \in Turns : OwnerOf[c] = o /\ pc[c] = "over") => reg[o] = None

(* "ANY component can answer where is this, and is it alive": a claim that *)
(* nobody holds any more, because its process died or its exit failed, is  *)
(* read as dead in the end and for good: no heartbeat of another process,  *)
(* or of a turn that is over, keeps it fresh.                              *)
GhostsFade ==
    <>[](\A o \in Owners :
            AtRest(o) /\ o \notin twins => ~Fresh(busy[o]) /\ ~Fresh(reg[o]))
=============================================================================
