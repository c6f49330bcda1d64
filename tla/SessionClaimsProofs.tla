------------------------- MODULE SessionClaimsProofs -------------------------
(* Double ownership is flagged, what runs is visible and what is over      *)
(* leaves nothing: for any number of processes, turns, drains and mishaps. *)
EXTENDS SessionClaims, TLAPS

-----------------------------------------------------------------------------
(* The inductive invariant                                                 *)

ClaimTypes ==
    /\ busy \in [Owners -> Row \cup {None}] /\ reg \in [Owners -> Row \cup {None}]
    /\ pc \in [Calls -> StoreSteps \cup {"off", "make", "running", "idle", "clear", "over"}]
    /\ saw \in [Calls -> BOOLEAN]
    /\ runner \in [Owners -> Turns \cup {None}]
    /\ data \in [Owners -> BOOLEAN] /\ alive \in [Owners -> BOOLEAN]
    /\ fiber \in [Owners -> {"none", "beating", "ended"}]
    /\ gen \in [Turns -> Nat]
    /\ ledger \in [Owners -> [turns : Nat, generation : Nat]]

\* Turns draw and release, drains only claim.
CallInv ==
    /\ \A c \in Drains : pc[c] \in Entering \cup {"off", "running", "exit", "over"}
    /\ \A c \in Calls : ~alive[OwnerOf[c]] => pc[c] = "over"

Stale(row) == row # None /\ ~row.fresh

EnteringCall(o) == \E c \in Calls : OwnerOf[c] = o /\ pc[c] = "enter"
Inside(o) ==
    \E c \in Calls : /\ OwnerOf[c] = o
                     /\ pc[c] \in (Entering \ {"enter"}) \cup {"seek", "flag"}

(* Where a heartbeat runs, or a write has pruned and not yet looked for    *)
(* others, the rows are not stale, but for a busyEnter still to come.      *)
FreshInv ==
    \A o \in Owners \ hurt :
        (Beating(o) \/ Inside(o)) /\ ~EnteringCall(o) => ~Stale(busy[o]) /\ ~Stale(reg[o])

\* The calls that still have a conflict to look for or to flag.
PendBusy(c) == pc[c] \in {"enter", "stamp", "seekBusy"} \/ (pc[c] = "flagBusy" /\ saw[c])
PendReg(c) ==
    \/ pc[c] \in {"enter", "stamp", "seekBusy", "flagBusy", "seekReg", "seek"}
    \/ pc[c] \in {"flag", "flagReg"} /\ saw[c]

BothFlagged(table, o, x) == table[o].conflict /\ table[x].conflict

\* Two live claims are flagged, or one of the two owners is about to do it.
PairInv ==
    \A o, x \in Owners \ hurt : o # x =>
        /\ Fresh(busy[o]) /\ Fresh(busy[x]) =>
              BothFlagged(busy, o, x) \/ \E c \in Calls : OwnerOf[c] \in {o, x} /\ PendBusy(c)
        /\ Fresh(reg[o]) /\ Fresh(reg[x]) =>
              BothFlagged(reg, o, x) \/ \E c \in Calls : OwnerOf[c] \in {o, x} /\ PendReg(c)

FlagInv == ClaimTypes /\ CallInv /\ FreshInv /\ PairInv

Working == Entering \cup {"running"}

\* The generations drawn, and the turn that the map of runners names.
DrawnInv ==
    /\ \A o \in Owners : ledger[o].generation <= ledger[o].turns
    /\ \A t \in Turns : gen[t] <= ledger[OwnerOf[t]].turns
    /\ \A t \in Turns : OwnerOf[t] \notin twins /\ pc[t] \in Working =>
          runner[OwnerOf[t]] = t /\ gen[t] = ledger[OwnerOf[t]].turns

\* Without late ends and twins, a turn at work or ending is alone; so is a drain.
SoloInv ==
    /\ \A t, u \in Turns :
        /\ t # u /\ OwnerOf[t] = OwnerOf[u] /\ OwnerOf[t] \notin late \cup twins
        /\ pc[t] \in Working \cup Ending
        => pc[u] \in {"off", "over"}
    /\ \A c, d \in Drains : c # d /\ OwnerOf[c] = OwnerOf[d] /\ pc[c] \notin {"off", "over"}
        => pc[d] \in {"off", "over"}

\* A working turn has the status busy, and a running one its heartbeat.
BeatInv ==
    /\ \A t \in Turns : OwnerOf[t] \notin late \cup twins =>
          /\ pc[t] \in Working => data[OwnerOf[t]]
          /\ pc[t] = "running" => fiber[OwnerOf[t]] = "beating"
    /\ \A o \in Owners \ (late \cup twins) :
          fiber[o] # "ended" /\ (fiber[o] = "beating" => data[o])

\* What a working call has written is there.
HeldOf(c) ==
    /\ pc[c] \in Working \ {"enter"} => busy[OwnerOf[c]] # None
    /\ pc[c] \in Working \ {"enter", "stamp"} => reg[OwnerOf[c]] # None

HeldInv == \A c \in Calls : OwnerOf[c] \notin hurt \cup late \cup twins => HeldOf(c)

\* Whatever is set has a turn, or a drain, that is still to clear it.
Newest(t, o) == OwnerOf[t] = o /\ gen[t] = ledger[o].turns

DataOf(o) ==
    data[o] => \E t \in Turns : Newest(t, o) /\ pc[t] \in Working \cup (Ending \ {"exit"})

BusyOf(o) ==
    busy[o] # None =>
        \/ \E t \in Turns : Newest(t, o) /\ pc[t] \in Working \cup Ending
        \/ \E d \in Drains : OwnerOf[d] = o /\ pc[d] \in Working \cup {"exit"}

RegOf(o) ==
    reg[o] # None /\ (\E t \in Turns : OwnerOf[t] = o) =>
        \E t \in Turns : /\ OwnerOf[t] = o
                         /\ pc[t] \in {"seek", "flag", "make", "unregister"} \cup Working

LeakInv ==
    \A o \in Owners : alive[o] /\ o \notin hurt \cup twins => DataOf(o) /\ BusyOf(o) /\ RegOf(o)

\* No process runs both a turn and a drain of the session.
Unmixed == \A t \in Turns, d \in Drains : OwnerOf[t] # OwnerOf[d]

IInv == FlagInv /\ DrawnInv /\ SoloInv /\ BeatInv /\ HeldInv /\ LeakInv

-----------------------------------------------------------------------------
(* Types                                                                   *)

LEMMA InitFlagInv == Init => FlagInv
<1> SUFFICES ASSUME Init PROVE FlagInv
  OBVIOUS
<1> USE ClaimsAssumption DEF Init, Calls
<1>1. ClaimTypes /\ CallInv
  BY DEF ClaimTypes, CallInv
<1>2. FreshInv /\ PairInv
  BY DEF FreshInv, PairInv, Stale, Fresh
<1> QED BY <1>1, <1>2 DEF FlagInv

LEMMA TableTypes ==
    ASSUME NEW T \in [Owners -> Row \cup {None}], NEW q \in Owners
    PROVE  /\ Pruned(T) \in [Owners -> Row \cup {None}]
           /\ Stamped(T, q) \in [Owners -> Row \cup {None}]
           /\ Beaten(T, q) \in [Owners -> Row \cup {None}]
           /\ Flagged(T) \in [Owners -> Row \cup {None}]
           /\ [T EXCEPT ![q] = None] \in [Owners -> Row \cup {None}]
           /\ [T EXCEPT ![q] = Aged(@)] \in [Owners -> Row \cup {None}]
BY DEF Pruned, Stamped, Beaten, Flagged, Aged, Fresh, Row

LEMMA TypesStep == ClaimTypes /\ CallInv /\ [Next]_vars => ClaimTypes' /\ CallInv'
<1> SUFFICES ASSUME ClaimTypes, CallInv, [Next]_vars PROVE ClaimTypes' /\ CallInv'
  OBVIOUS
<1> USE ClaimsAssumption DEF ClaimTypes, CallInv, Calls, tables, status, history, At, Goto,
        Entering, Registering, Ending, StoreSteps
<1>0. ASSUME NEW c \in Calls
      PROVE  OwnerOf[c] \in Owners
  OBVIOUS
<1>1. ASSUME NEW c \in Calls, RegisterRow(c) \/ Enter(c)
      PROVE  ClaimTypes' /\ CallInv'
  <2>1. OwnerOf[c] \in Owners /\ Pruned(busy) \in [Owners -> Row \cup {None}]
        /\ Pruned(reg) \in [Owners -> Row \cup {None}]
    BY TableTypes
  <2>2. Stamped(Pruned(busy), OwnerOf[c]) \in [Owners -> Row \cup {None}]
        /\ Stamped(Pruned(reg), OwnerOf[c]) \in [Owners -> Row \cup {None}]
    BY <2>1, TableTypes
  <2>3. busy' \in [Owners -> Row \cup {None}] /\ reg' \in [Owners -> Row \cup {None}]
    BY <1>1, <2>1, <2>2 DEF RegisterRow, Enter
  <2>4. CASE RegisterRow(c)
    BY <2>4, <2>3 DEF RegisterRow
  <2>5. CASE Enter(c)
    BY <2>5, <2>3 DEF Enter
  <2> QED BY <1>1, <2>4, <2>5
<1>2. ASSUME NEW c \in Calls, Stamp(c)
      PROVE  ClaimTypes' /\ CallInv'
  BY <1>2, TableTypes DEF Stamp
<1>3. ASSUME NEW c \in Calls, Seek(c)
      PROVE  ClaimTypes' /\ CallInv'
  BY <1>3 DEF Seek, Others
<1>4. ASSUME NEW c \in Calls, Flag(c)
      PROVE  ClaimTypes' /\ CallInv'
  <2>1. Flagged(busy) \in [Owners -> Row \cup {None}]
        /\ Flagged(reg) \in [Owners -> Row \cup {None}]
    BY <1>0, TableTypes
  <2>2. busy' \in [Owners -> Row \cup {None}] /\ reg' \in [Owners -> Row \cup {None}]
    BY <1>4, <2>1 DEF Flag
  <2>3. pc' \in [Calls -> StoreSteps \cup {"off", "make", "running", "idle", "clear", "over"}]
        /\ CallInv'
    BY <1>4 DEF Flag
  <2>4. fiber' \in [Owners -> {"none", "beating", "ended"}]
    BY <1>4 DEF Flag, Forked
  <2> QED BY <1>4, <2>2, <2>3, <2>4 DEF Flag
<1>5. ASSUME NEW c \in Calls, Unregister(c) \/ BusyExit(c)
      PROVE  ClaimTypes' /\ CallInv'
  <2>1. CASE Unregister(c)
    BY <1>0, <2>1 DEF Unregister
  <2>2. CASE BusyExit(c)
    BY <1>0, <2>2 DEF BusyExit
  <2> QED BY <1>5, <2>1, <2>2
<1>6. ASSUME NEW c \in Calls, StoreFails(c)
      PROVE  ClaimTypes' /\ CallInv'
  BY <1>6 DEF StoreFails, Forked
<1>7. ASSUME NEW c \in Calls, Look(c) \/ Begin(c) \/ Release(c)
      PROVE  ClaimTypes' /\ CallInv'
  <2>1. CASE Look(c)
    BY <1>0, <2>1 DEF Look
  <2>2. CASE Begin(c)
    BY <2>2 DEF Begin
  <2>3. CASE Release(c)
    BY <2>3 DEF Release
  <2> QED BY <1>7, <2>1, <2>2, <2>3
<1>13. ASSUME NEW c \in Calls, End(c) \/ Clear(c)
       PROVE  ClaimTypes' /\ CallInv'
  <2>1. c \in Turns
    BY <1>13 DEF End, Clear
  <2>2. CASE End(c)
    BY <1>0, <2>1, <2>2 DEF End
  <2>3. CASE Clear(c)
    BY <1>0, <2>1, <2>3 DEF Clear
  <2> QED BY <1>13, <2>2, <2>3
<1>8. ASSUME NEW c \in Calls, Make(c)
      PROVE  ClaimTypes' /\ CallInv'
  <2>1. c \in Turns /\ pc[c] = "make" /\ ledger[OwnerOf[c]] \in [turns : Nat, generation : Nat]
    BY <1>0, <1>8 DEF Make
  <2>2. gen' \in [Turns -> Nat] /\ gen'[c] \in Nat
    BY <1>8, <2>1 DEF Make
  <2>3. ledger' \in [Owners -> [turns : Nat, generation : Nat]]
    BY <1>0, <1>8, <2>1, <2>2 DEF Make, SetBusy
  <2> QED BY <1>0, <1>8, <2>1, <2>2, <2>3 DEF Make, SetBusy
<1>14. ASSUME NEW c \in Calls, Again(c)
       PROVE  ClaimTypes' /\ CallInv'
  <2>1. c \in Turns /\ gen'[c] \in Nat
        /\ ledger[OwnerOf[c]] \in [turns : Nat, generation : Nat]
    BY <1>0, <1>14 DEF Again
  <2>2. ledger' \in [Owners -> [turns : Nat, generation : Nat]]
    BY <1>0, <1>14, <2>1 DEF Again, SetBusy
  <2> QED BY <1>0, <1>14, <2>1, <2>2 DEF Again, SetBusy
<1>9. ASSUME NEW c \in Calls, SetIdle(c)
      PROVE  ClaimTypes' /\ CallInv'
  <2>1. c \in Turns /\ gen[c] \in Nat
        /\ ledger[OwnerOf[c]] \in [turns : Nat, generation : Nat]
    BY <1>0, <1>9 DEF SetIdle
  <2>2. ledger' \in [Owners -> [turns : Nat, generation : Nat]]
    BY <1>0, <1>9, <2>1 DEF SetIdle
  <2> QED BY <1>9, <2>1, <2>2 DEF SetIdle
<1>10. ASSUME NEW o \in Owners, Heartbeat(o) \/ Lapse(o)
       PROVE  ClaimTypes' /\ CallInv'
  <2>1. busy' \in [Owners -> Row \cup {None}] /\ reg' \in [Owners -> Row \cup {None}]
    <3>1. CASE Heartbeat(o)
      <4>1. Beaten(busy, o) \in [Owners -> Row \cup {None}]
            /\ Beaten(reg, o) \in [Owners -> Row \cup {None}]
        BY TableTypes
      <4> QED BY <3>1, <4>1 DEF Heartbeat
    <3>2. CASE Lapse(o)
      <4>1. [busy EXCEPT ![o] = Aged(@)] \in [Owners -> Row \cup {None}]
            /\ [reg EXCEPT ![o] = Aged(@)] \in [Owners -> Row \cup {None}]
        BY TableTypes
      <4> QED BY <3>2, <4>1 DEF Lapse
    <3> QED BY <1>10, <3>1, <3>2
  <2> QED BY <1>10, <2>1 DEF Heartbeat, Lapse
<1>11. ASSUME NEW o \in Owners, Crash(o)
       PROVE  ClaimTypes' /\ CallInv'
  BY <1>11 DEF Crash
<1>12. CASE UNCHANGED vars
  BY <1>12 DEF vars
<1> QED BY <1>1, <1>2, <1>3, <1>4, <1>5, <1>6, <1>7, <1>8, <1>9, <1>10, <1>11, <1>12,
           <1>13, <1>14 DEF Next, Step, Rest

-----------------------------------------------------------------------------
(* What the statements do to one row                                       *)

LEMMA PrunedRow ==
    ASSUME NEW T \in [Owners -> Row \cup {None}], NEW x \in Owners
    PROVE  /\ ~Stale(Pruned(T)[x])
           /\ Fresh(Pruned(T)[x]) <=> Fresh(T[x])
           /\ Fresh(T[x]) => Pruned(T)[x] = T[x]
BY DEF Pruned, Stale, Fresh

LEMMA NoneIsNoRow == None \notin Row
BY ClaimsAssumption DEF Row

LEMMA StampedRow ==
    ASSUME NEW T \in [Owners -> Row \cup {None}], NEW q \in Owners, NEW x \in Owners
    PROVE  /\ x # q => Stamped(T, q)[x] = T[x]
           /\ Fresh(Stamped(T, q)[q])
           /\ ~Stale(T[x]) => ~Stale(Stamped(T, q)[x])
<1>1. x # q => Stamped(T, q)[x] = T[x]
  BY DEF Stamped
<1>2. Stamped(T, q)[q] = [fresh |-> TRUE, conflict |-> T[q] # None /\ T[q].conflict]
  BY DEF Stamped
<1>3. Stamped(T, q)[q] \in Row /\ Stamped(T, q)[q].fresh
  BY <1>2 DEF Row
<1>4. Fresh(Stamped(T, q)[q])
  BY <1>3, NoneIsNoRow DEF Fresh
<1> QED BY <1>1, <1>4 DEF Stale, Fresh

LEMMA BeatenRow ==
    ASSUME NEW T \in [Owners -> Row \cup {None}], NEW q \in Owners, NEW x \in Owners
    PROVE  /\ x # q => Beaten(T, q)[x] = T[x]
           /\ ~Stale(T[x]) => ~Stale(Beaten(T, q)[x])
           /\ Fresh(Beaten(T, q)[q]) <=> T[q] # None
           /\ Fresh(T[x]) => Beaten(T, q)[x].conflict = T[x].conflict
BY ClaimsAssumption DEF Beaten, Stale, Fresh, Row

\* A heartbeat freshens no row that had gone stale but its owner's, and clears no flag.
LEMMA BeatenKeeps ==
    ASSUME NEW T \in [Owners -> Row \cup {None}], NEW q \in Owners, NEW x \in Owners,
           x = q => ~Stale(T[x]), Fresh(Beaten(T, q)[x])
    PROVE  Fresh(T[x]) /\ (T[x].conflict => Beaten(T, q)[x].conflict)
<1>1. Fresh(T[x])
  <2>1. CASE x = q
    <3>1. T[x] # None
      BY <2>1, BeatenRow
    <3> QED BY <2>1, <3>1 DEF Stale, Fresh
  <2>2. CASE x # q
    BY <2>2, BeatenRow
  <2> QED BY <2>1, <2>2
<1> QED BY <1>1, BeatenRow

\* A heartbeat and time leave the rows that are there.
LEMMA LastingRow ==
    ASSUME NEW T \in [Owners -> Row \cup {None}], NEW q \in Owners, NEW x \in Owners,
           T[x] # None
    PROVE  Beaten(T, q)[x] # None /\ [T EXCEPT ![q] = Aged(@)][x] # None
<1>1. T[x] \in Row
  OBVIOUS
<1>2. [T[x] EXCEPT !.fresh = TRUE] \in Row /\ [T[x] EXCEPT !.fresh = FALSE] \in Row
  BY <1>1 DEF Row
<1>3. [T[x] EXCEPT !.fresh = TRUE] # None /\ [T[x] EXCEPT !.fresh = FALSE] # None
  BY <1>2, NoneIsNoRow
<1> QED BY <1>3 DEF Beaten, Aged

LEMMA FlaggedRow ==
    ASSUME NEW T \in [Owners -> Row \cup {None}], NEW x \in Owners
    PROVE  /\ Stale(Flagged(T)[x]) <=> Stale(T[x])
           /\ Fresh(Flagged(T)[x]) <=> Fresh(T[x])
           /\ Flagged(T)[x] = None <=> T[x] = None
           /\ Fresh(T[x]) => Flagged(T)[x].conflict
BY ClaimsAssumption DEF Flagged, Stale, Fresh, Row

-----------------------------------------------------------------------------
(* Freshness                                                               *)

LEMMA FreshStep == FlagInv /\ [Next]_vars => FreshInv'
<1> SUFFICES ASSUME FlagInv, [Next]_vars, NEW o \in Owners, o \notin hurt',
                    Beating(o)' \/ Inside(o)', ~EnteringCall(o)'
             PROVE  ~Stale(busy'[o]) /\ ~Stale(reg'[o])
  BY DEF FreshInv
<1> DEFINE Good == ~Stale(busy[o]) /\ ~Stale(reg[o])
<1> USE ClaimsAssumption
<1> USE DEF FlagInv, FreshInv, ClaimTypes, CallInv, Calls, tables, status, history, At, Goto
<1>0. ASSUME NEW c \in Calls
      PROVE  OwnerOf[c] \in Owners
  OBVIOUS
<1>1. ASSUME hurt \subseteq hurt', Beating(o)' \/ Inside(o)' => Beating(o) \/ Inside(o),
             EnteringCall(o) => EnteringCall(o)'
      PROVE  Good
  BY <1>1
<1>2. ASSUME NEW c \in Calls, RegisterRow(c) \/ Enter(c)
      PROVE  Good'
  <2>1. /\ Pruned(busy) \in [Owners -> Row \cup {None}]
        /\ Pruned(reg) \in [Owners -> Row \cup {None}]
    BY <1>0, <1>2, TableTypes
  <2>2. ~Stale(Pruned(busy)[o]) /\ ~Stale(Pruned(reg)[o])
    BY PrunedRow
  <2>3. /\ ~Stale(Stamped(Pruned(busy), OwnerOf[c])[o])
        /\ ~Stale(Stamped(Pruned(reg), OwnerOf[c])[o])
    BY <1>0, <1>2, <2>1, <2>2, StampedRow
  <2> QED BY <1>2, <2>2, <2>3 DEF RegisterRow, Enter
<1>3. ASSUME NEW c \in Calls, Stamp(c)
      PROVE  Good'
  <2>1. Good
    BY <1>1, <1>3 DEF Stamp, Beating, Inside, EnteringCall, Entering
  <2>2. ~Stale(Stamped(reg, OwnerOf[c])[o])
    BY <1>0, <2>1, StampedRow
  <2> QED BY <1>3, <2>1, <2>2 DEF Stamp
<1>4. ASSUME NEW c \in Calls, Seek(c)
      PROVE  Good'
  <2>1. Good
    BY <1>1, <1>4 DEF Seek, Beating, Inside, EnteringCall, Entering
  <2> QED BY <1>4, <2>1 DEF Seek
<1>5. ASSUME NEW c \in Calls, Flag(c)
      PROVE  Good'
  <2>1. Beating(o)' => Beating(o) \/ Inside(o)
    BY <1>0, <1>5 DEF Flag, Forked, Beating, Inside, Entering
  <2>2. Good
    BY <1>1, <1>5, <2>1 DEF Flag, Inside, EnteringCall, Entering
  <2> QED BY <1>5, <2>2, FlaggedRow DEF Flag
<1>6. ASSUME NEW c \in Calls, Unregister(c)
      PROVE  Good'
  <2>1. Good
    BY <1>1, <1>6 DEF Unregister, Beating, Inside, EnteringCall, Entering
  <2> QED BY <1>0, <1>6, <2>1 DEF Unregister, Stale
<1>7. ASSUME NEW c \in Calls, BusyExit(c)
      PROVE  Good'
  <2>1. Good
    BY <1>1, <1>7 DEF BusyExit, Beating, Inside, EnteringCall, Entering
  <2> QED BY <1>0, <1>7, <2>1 DEF BusyExit, Stale
<1>8. ASSUME NEW c \in Calls, StoreFails(c)
      PROVE  Good'
  <2>1. o # OwnerOf[c]
    BY <1>0, <1>8 DEF StoreFails
  <2>2. Good
    BY <1>0, <1>1, <1>8, <2>1 DEF StoreFails, Forked, Beating, Inside, EnteringCall
  <2> QED BY <1>8, <2>2 DEF StoreFails
<1>9. ASSUME NEW c \in Calls, Make(c) \/ Again(c)
      PROVE  Good'
  <2>1. pc' = [pc EXCEPT ![c] = "enter"]
    BY <1>9 DEF Make, Again, SetBusy
  <2>2. o # OwnerOf[c]
    BY <2>1 DEF EnteringCall
  <2>3. alive' = alive /\ fiber' = fiber /\ data'[o] = data[o] /\ hurt' = hurt
    BY <1>0, <1>9, <2>2 DEF Make, Again, SetBusy
  <2>4. Good
    BY <1>1, <2>1, <2>2, <2>3 DEF Beating, Inside, EnteringCall
  <2> QED BY <1>9, <2>4 DEF Make, Again
<1>10. ASSUME NEW c \in Calls, Begin(c)
       PROVE  Good'
  <2>1. Good
    BY <1>1, <1>10 DEF Begin, Beating, Inside, EnteringCall
  <2> QED BY <1>10, <2>1 DEF Begin
<1>11. ASSUME NEW c \in Calls, Look(c) \/ End(c) \/ SetIdle(c) \/ Clear(c) \/ Release(c)
       PROVE  Good'
  <2>1. /\ pc[c] \in {"off", "running", "idle", "clear"}
        /\ \E s \in {"register", "unregister", "clear", "over", "exit"} :
              pc' = [pc EXCEPT ![c] = s]
        /\ UNCHANGED <<busy, reg, alive, hurt>>
    BY <1>11 DEF Look, End, SetIdle, Clear, Release
  <2>2. fiber'[o] = "beating" /\ data'[o] => fiber[o] = "beating" /\ data[o]
    BY <1>0, <1>11 DEF Look, End, SetIdle, Clear, Release
  <2>3. Good
    BY <1>1, <2>1, <2>2 DEF Beating, Inside, EnteringCall, Entering
  <2> QED BY <2>1, <2>3
<1>12. ASSUME NEW p \in Owners, Heartbeat(p)
       PROVE  Good'
  <2>1. Good
    BY <1>1, <1>12 DEF Heartbeat, Beating, Inside, EnteringCall
  <2>2. ~Stale(Beaten(busy, p)[o]) /\ ~Stale(Beaten(reg, p)[o])
    BY <2>1, BeatenRow
  <2> QED BY <1>12, <2>1, <2>2 DEF Heartbeat
<1>13. ASSUME NEW p \in Owners, Lapse(p)
       PROVE  Good'
  <2>1. CASE p = o
    <3>1. Unstamped(o)
      BY <1>13, <2>1 DEF Lapse
    <3> QED BY <1>13, <3>1 DEF Lapse, Unstamped, Beating, Claiming, Inside, Entering, Registering
  <2>2. CASE p # o
    BY <1>1, <1>13, <2>2 DEF Lapse, Beating, Inside, EnteringCall
  <2> QED BY <2>1, <2>2
<1>14. ASSUME NEW p \in Owners, Crash(p)
       PROVE  Good'
  <2>1. p # o
    BY <1>14 DEF Crash, Beating, Inside, Entering
  <2> QED BY <1>1, <1>14, <2>1 DEF Crash, Beating, Inside, EnteringCall
<1>15. CASE UNCHANGED vars
  BY <1>1, <1>15 DEF vars, Beating, Inside, EnteringCall
<1> QED BY <1>2, <1>3, <1>4, <1>5, <1>6, <1>7, <1>8, <1>9, <1>10, <1>11, <1>12, <1>13,
           <1>14, <1>15 DEF Next, Step, Rest

-----------------------------------------------------------------------------
(* Double ownership                                                        *)

\* The two halves of PairInv, for one pair of owners.
BusyPair(o, x) ==
    Fresh(busy[o]) /\ Fresh(busy[x]) =>
        BothFlagged(busy, o, x) \/ \E c \in Calls : OwnerOf[c] \in {o, x} /\ PendBusy(c)

RegPair(o, x) ==
    Fresh(reg[o]) /\ Fresh(reg[x]) =>
        BothFlagged(reg, o, x) \/ \E c \in Calls : OwnerOf[c] \in {o, x} /\ PendReg(c)

LEMMA PairStep == FlagInv /\ [Next]_vars => PairInv'
<1> SUFFICES ASSUME FlagInv, [Next]_vars, NEW o \in Owners, NEW x \in Owners, o # x,
                    o \notin hurt', x \notin hurt'
             PROVE  BusyPair(o, x)' /\ RegPair(o, x)'
  BY DEF PairInv, BusyPair, RegPair
<1> DEFINE Pairs == BusyPair(o, x) /\ RegPair(o, x)
<1> DEFINE Kept(T) ==
       \A y \in {o, x} : Fresh(T'[y]) => Fresh(T[y]) /\ (T[y].conflict => T'[y].conflict)
<1> USE ClaimsAssumption
<1> USE DEF FlagInv, ClaimTypes, CallInv, Calls, tables, status, history, At, Goto
<1>0. ASSUME NEW c \in Calls
      PROVE  OwnerOf[c] \in Owners
  OBVIOUS
<1>a. hurt \subseteq hurt' => Pairs
  BY DEF PairInv, BusyPair, RegPair
<1>b. ASSUME Pairs, Kept(busy), Kept(reg),
             \A c \in Calls : OwnerOf[c] \in {o, x} =>
                /\ PendBusy(c) => PendBusy(c)'
                /\ PendReg(c) => PendReg(c)'
      PROVE  Pairs'
  BY <1>b DEF BusyPair, RegPair, BothFlagged
<1>1. ASSUME NEW c \in Calls, RegisterRow(c)
      PROVE  Pairs'
  <2>1. Pairs
    BY <1>1, <1>a DEF RegisterRow
  <2>2. Pruned(reg) \in [Owners -> Row \cup {None}]
    BY <1>0, <1>1, TableTypes
  <2>3. Kept(busy) /\ saw' = saw /\ pc' = [pc EXCEPT ![c] = "seek"] /\ pc[c] = "register"
    BY <1>1, PrunedRow DEF RegisterRow
  <2>4. CASE OwnerOf[c] \in {o, x}
    <3>1. PendReg(c)'
      BY <2>3 DEF PendReg
    <3>2. \A d \in Calls : PendBusy(d) => PendBusy(d)'
      BY <2>3 DEF PendBusy
    <3> QED BY <2>1, <2>3, <2>4, <3>1, <3>2 DEF BusyPair, RegPair, BothFlagged
  <2>5. CASE OwnerOf[c] \notin {o, x}
    <3>1. \A y \in {o, x} : reg'[y] = Pruned(reg)[y]
      <4>1. OwnerOf[c] \in Owners /\ o # OwnerOf[c] /\ x # OwnerOf[c]
        BY <1>0, <2>5
      <4>2. \A y \in {o, x} : Stamped(Pruned(reg), OwnerOf[c])[y] = Pruned(reg)[y]
        BY <2>2, <4>1 DEF Stamped
      <4> QED BY <1>1, <4>2 DEF RegisterRow
    <3>3. Kept(reg)
      BY <3>1, PrunedRow
    <3>2. \A d \in Calls : OwnerOf[d] \in {o, x} =>
             (PendBusy(d) => PendBusy(d)') /\ (PendReg(d) => PendReg(d)')
      BY <2>3, <2>5 DEF PendBusy, PendReg
    <3> QED BY <1>b, <2>1, <2>3, <3>2, <3>3
  <2> QED BY <2>4, <2>5
<1>2. ASSUME NEW c \in Calls, Enter(c)
      PROVE  Pairs'
  <2>1. Pairs
    BY <1>2, <1>a DEF Enter
  <2>2. Pruned(busy) \in [Owners -> Row \cup {None}]
    BY <1>0, <1>2, TableTypes
  <2>3. Kept(reg) /\ saw' = saw /\ pc' = [pc EXCEPT ![c] = "stamp"] /\ pc[c] = "enter"
    BY <1>2, PrunedRow DEF Enter
  <2>4. PendBusy(c)' /\ PendReg(c)'
    BY <2>3 DEF PendBusy, PendReg
  <2>5. CASE OwnerOf[c] \in {o, x}
    BY <2>4, <2>5 DEF BusyPair, RegPair
  <2>6. CASE OwnerOf[c] \notin {o, x}
    <3>1. \A y \in {o, x} : busy'[y] = Pruned(busy)[y]
      <4>1. OwnerOf[c] \in Owners /\ o # OwnerOf[c] /\ x # OwnerOf[c]
        BY <1>0, <2>6
      <4>2. \A y \in {o, x} : Stamped(Pruned(busy), OwnerOf[c])[y] = Pruned(busy)[y]
        BY <2>2, <4>1 DEF Stamped
      <4> QED BY <1>2, <4>2 DEF Enter
    <3>3. Kept(busy)
      BY <3>1, PrunedRow
    <3>2. \A d \in Calls : OwnerOf[d] \in {o, x} =>
             (PendBusy(d) => PendBusy(d)') /\ (PendReg(d) => PendReg(d)')
      BY <2>3, <2>6 DEF PendBusy, PendReg
    <3> QED BY <1>b, <2>1, <2>3, <3>2, <3>3
  <2> QED BY <2>5, <2>6
<1>3. ASSUME NEW c \in Calls, Stamp(c)
      PROVE  Pairs'
  <2>1. Pairs
    BY <1>3, <1>a DEF Stamp
  <2>2. saw' = saw /\ busy' = busy /\ pc' = [pc EXCEPT ![c] = "seekBusy"] /\ pc[c] = "stamp"
    BY <1>3 DEF Stamp
  <2>3. PendBusy(c)' /\ PendReg(c)'
    BY <2>2 DEF PendBusy, PendReg
  <2>4. CASE OwnerOf[c] \in {o, x}
    BY <2>3, <2>4 DEF BusyPair, RegPair
  <2>5. CASE OwnerOf[c] \notin {o, x}
    <3>1. Kept(reg)
      <4>1. OwnerOf[c] \in Owners /\ o # OwnerOf[c] /\ x # OwnerOf[c]
        BY <1>0, <2>5
      <4>2. \A y \in {o, x} : Stamped(reg, OwnerOf[c])[y] = reg[y]
        BY <4>1 DEF Stamped
      <4> QED BY <1>3, <4>2 DEF Stamp
    <3>2. \A d \in Calls : OwnerOf[d] \in {o, x} =>
             (PendBusy(d) => PendBusy(d)') /\ (PendReg(d) => PendReg(d)')
      BY <2>2, <2>5 DEF PendBusy, PendReg
    <3> QED BY <1>b, <2>1, <2>2, <3>1, <3>2
  <2> QED BY <2>4, <2>5
<1>4. ASSUME NEW c \in Calls, Seek(c)
      PROVE  Pairs'
  <2>1. Pairs
    BY <1>4, <1>a DEF Seek
  <2>2. busy' = busy /\ reg' = reg
    BY <1>4 DEF Seek
  <2>3. CASE OwnerOf[c] \notin {o, x}
    <3>1. \A d \in Calls : OwnerOf[d] \in {o, x} =>
             (PendBusy(d) => PendBusy(d)') /\ (PendReg(d) => PendReg(d)')
      BY <1>4, <2>3 DEF Seek, PendBusy, PendReg
    <3> QED BY <1>b, <2>1, <2>2, <3>1
  <2>4. CASE OwnerOf[c] \in {o, x}
    <3>1. /\ Fresh(busy[o]) /\ Fresh(busy[x]) => Others(busy, OwnerOf[c])
          /\ Fresh(reg[o]) /\ Fresh(reg[x]) => Others(reg, OwnerOf[c])
      BY <2>4 DEF Others
    <3>2. \A d \in Calls \ {c} :
             (PendBusy(d) => PendBusy(d)') /\ (PendReg(d) => PendReg(d)')
      BY <1>4 DEF Seek, PendBusy, PendReg
    <3>3. /\ PendBusy(c) /\ Others(busy, OwnerOf[c]) => PendBusy(c)'
          /\ PendReg(c) /\ Others(reg, OwnerOf[c]) => PendReg(c)'
      BY <1>4 DEF Seek, PendBusy, PendReg
    <3> QED BY <2>1, <2>2, <3>1, <3>2, <3>3 DEF BusyPair, RegPair, BothFlagged
  <2> QED BY <2>3, <2>4
<1>5. ASSUME NEW c \in Calls, Flag(c)
      PROVE  Pairs'
  <2>1. Pairs
    BY <1>5, <1>a DEF Flag
  <2>2. \A d \in Calls \ {c} :
           (PendBusy(d) => PendBusy(d)') /\ (PendReg(d) => PendReg(d)')
    BY <1>5 DEF Flag, PendBusy, PendReg
  <2>3. (busy' = busy \/ busy' = Flagged(busy)) /\ (reg' = reg \/ reg' = Flagged(reg))
    BY <1>5 DEF Flag
  <2>4. Kept(busy) /\ Kept(reg)
    BY <2>3, FlaggedRow
  <2>5. /\ PendBusy(c) => PendBusy(c)' \/ busy' = Flagged(busy)
        /\ PendReg(c) => PendReg(c)' \/ reg' = Flagged(reg)
    BY <1>5 DEF Flag, PendBusy, PendReg
  <2>6. /\ busy' = Flagged(busy) /\ Fresh(busy'[o]) /\ Fresh(busy'[x]) => BothFlagged(busy, o, x)'
        /\ reg' = Flagged(reg) /\ Fresh(reg'[o]) /\ Fresh(reg'[x]) => BothFlagged(reg, o, x)'
    BY FlaggedRow DEF BothFlagged
  <2> QED BY <2>1, <2>2, <2>4, <2>5, <2>6 DEF BusyPair, RegPair, BothFlagged
<1>6. ASSUME NEW c \in Calls, Unregister(c) \/ BusyExit(c)
      PROVE  Pairs'
  <2>1. Pairs
    BY <1>6, <1>a DEF Unregister, BusyExit
  <2>2. Kept(busy) /\ Kept(reg)
    <3>1. CASE Unregister(c)
      BY <1>0, <3>1 DEF Unregister, Fresh
    <3>2. CASE BusyExit(c)
      BY <1>0, <3>2 DEF BusyExit, Fresh
    <3> QED BY <1>6, <3>1, <3>2
  <2>3. \A d \in Calls : (PendBusy(d) => PendBusy(d)') /\ (PendReg(d) => PendReg(d)')
    BY <1>6 DEF Unregister, BusyExit, PendBusy, PendReg
  <2> QED BY <1>b, <2>1, <2>2, <2>3
<1>7. ASSUME NEW c \in Calls, StoreFails(c)
      PROVE  Pairs'
  <2>1. Pairs /\ OwnerOf[c] \notin {o, x} /\ UNCHANGED <<busy, reg>>
    BY <1>0, <1>7, <1>a DEF StoreFails
  <2>2. \A d \in Calls : OwnerOf[d] \in {o, x} =>
           (PendBusy(d) => PendBusy(d)') /\ (PendReg(d) => PendReg(d)')
    BY <1>7, <2>1 DEF StoreFails, PendBusy, PendReg
  <2> QED BY <1>b, <2>1, <2>2
<1>8. ASSUME NEW c \in Calls, NEW s, Goto(c, s), UNCHANGED <<busy, reg, saw, hurt>>,
             pc[c] \in {"off", "make", "running", "idle", "clear"}
      PROVE  Pairs'
  <2>1. Pairs
    BY <1>8, <1>a
  <2>2. \A d \in Calls : (PendBusy(d) => PendBusy(d)') /\ (PendReg(d) => PendReg(d)')
    BY <1>8 DEF PendBusy, PendReg
  <2> QED BY <1>8, <1>b, <2>1, <2>2
<1>9. ASSUME NEW c \in Calls,
             \/ Make(c) \/ Again(c) \/ Begin(c) \/ Look(c) \/ End(c) \/ SetIdle(c)
             \/ Clear(c) \/ Release(c)
      PROVE  Pairs'
  BY <1>8, <1>9 DEF Make, Again, SetBusy, Begin, Look, End, SetIdle, Clear, Release
<1>10. ASSUME NEW p \in Owners, Heartbeat(p)
       PROVE  Pairs'
  <2>1. Pairs /\ UNCHANGED <<pc, saw>>
    BY <1>10, <1>a DEF Heartbeat
  <2>2. ASSUME UNCHANGED <<busy, reg>>
        PROVE  Pairs'
    BY <1>b, <2>1, <2>2 DEF PendBusy, PendReg
  <2>3. ASSUME busy' = Beaten(busy, p), reg' = Beaten(reg, p), Beating(p)
        PROVE  Pairs'
    <3>1. CASE p \in {o, x} /\ EnteringCall(p)
      BY <2>1, <3>1 DEF EnteringCall, PendBusy, PendReg, BusyPair, RegPair
    <3>2. CASE ~(p \in {o, x} /\ EnteringCall(p))
      <4>1. p \in {o, x} => ~Stale(busy[p]) /\ ~Stale(reg[p])
        BY <1>10, <2>3, <3>2 DEF FreshInv, Heartbeat
      <4>2. \A y \in {o, x} : y = p => ~Stale(busy[y]) /\ ~Stale(reg[y])
        BY <4>1
      <4>3. Kept(busy)
        BY <2>3, <4>2, BeatenKeeps
      <4>4. Kept(reg)
        BY <2>3, <4>2, BeatenKeeps
      <4> QED BY <1>b, <2>1, <4>3, <4>4 DEF PendBusy, PendReg
    <3> QED BY <3>1, <3>2
  <2> QED BY <1>10, <2>2, <2>3 DEF Heartbeat
<1>11. ASSUME NEW p \in Owners, Lapse(p)
       PROVE  Pairs'
  <2>1. Pairs /\ UNCHANGED <<pc, saw>>
    BY <1>11, <1>a DEF Lapse
  <2>2. Kept(busy) /\ Kept(reg)
    BY <1>11 DEF Lapse, Aged, Fresh, Row
  <2> QED BY <1>b, <2>1, <2>2 DEF PendBusy, PendReg
<1>12. ASSUME NEW p \in Owners, Crash(p)
       PROVE  Pairs'
  <2>1. Pairs /\ UNCHANGED <<busy, reg>>
    BY <1>12, <1>a DEF Crash
  <2>2. \A d \in Calls : OwnerOf[d] = p /\ p \in {o, x} => ~PendBusy(d) /\ ~PendReg(d)
    BY <1>12 DEF Crash, Claiming, PendBusy, PendReg, Entering, Registering
  <2>3. \A d \in Calls : OwnerOf[d] # p => pc'[d] = pc[d] /\ saw'[d] = saw[d]
    BY <1>12 DEF Crash
  <2> QED BY <1>b, <2>1, <2>2, <2>3 DEF PendBusy, PendReg
<1>13. CASE UNCHANGED vars
  BY <1>13, <1>a, <1>b DEF vars, PendBusy, PendReg
<1> QED BY <1>1, <1>2, <1>3, <1>4, <1>5, <1>6, <1>7, <1>9, <1>10, <1>11, <1>12, <1>13
        DEF Next, Step, Rest

-----------------------------------------------------------------------------
(* Turns one at a time                                                     *)

LEMMA DrawnStep == FlagInv /\ DrawnInv /\ [Next]_vars => DrawnInv'
<1> SUFFICES ASSUME FlagInv, DrawnInv, [Next]_vars PROVE DrawnInv'
  OBVIOUS
<1> USE ClaimsAssumption
<1> USE DEF FlagInv, DrawnInv, ClaimTypes, CallInv, Calls, tables, status, history, At, Goto
<1>0. ASSUME NEW c \in Calls
      PROVE  OwnerOf[c] \in Owners
  OBVIOUS
<1>a. ASSUME UNCHANGED <<runner, gen, ledger>>, twins \subseteq twins',
             \A t \in Turns : pc'[t] \in Working => pc[t] \in Working
      PROVE  DrawnInv'
  BY <1>a
<1>1. ASSUME NEW c \in Calls,
             RegisterRow(c) \/ Enter(c) \/ Stamp(c) \/ Unregister(c) \/ BusyExit(c)
      PROVE  DrawnInv'
  BY <1>1, <1>a DEF RegisterRow, Enter, Stamp, Unregister, BusyExit, Working, Entering
<1>2. ASSUME NEW c \in Calls, Seek(c) \/ Flag(c) \/ StoreFails(c)
      PROVE  DrawnInv'
  BY <1>2, <1>a DEF Seek, Flag, StoreFails, Working, Entering, Registering, StoreSteps
<1>3. ASSUME NEW c \in Calls, Look(c) \/ Clear(c)
      PROVE  DrawnInv'
  BY <1>3, <1>a DEF Look, Clear, Working, Entering
<1>4. ASSUME NEW c \in Calls, Begin(c) \/ Release(c)
      PROVE  DrawnInv'
  BY <1>4, <1>a DEF Begin, Release, Working, Entering
<1>5. ASSUME NEW c \in Calls, Make(c)
      PROVE  DrawnInv'
  <2> DEFINE o == OwnerOf[c]
  <2>1. c \in Turns /\ o \in Owners
    BY <1>0, <1>5 DEF Make, Entering
  <2>2. gen'[c] = ledger[o].turns + 1 /\ \A t \in Turns \ {c} : gen'[t] = gen[t]
    BY <1>5, <2>1 DEF Make
  <2>3. /\ ledger'[o].turns = ledger[o].turns + 1
        /\ ledger'[o].generation \in {ledger[o].generation, gen'[c]}
        /\ \A p \in Owners \ {o} : ledger'[p] = ledger[p]
    BY <1>5, <2>1 DEF Make, SetBusy
  <2>4. pc' = [pc EXCEPT ![c] = "enter"] /\ runner' = [runner EXCEPT ![o] = c]
    BY <1>5 DEF Make, SetBusy
  <2>5. \A t \in Turns : gen[t] \in Nat /\ OwnerOf[t] \in Owners
    BY <1>0
  <2>6. \A p \in Owners : ledger[p].turns \in Nat /\ ledger[p].generation \in Nat
    OBVIOUS
  <2>7. ASSUME NEW t \in Turns \ {c}, OwnerOf[t] = o, o \notin twins'
        PROVE  pc[t] \notin Working
    BY <1>5, <2>7 DEF Make
  <2>8. \A p \in Owners : ledger'[p].generation <= ledger'[p].turns
    BY <2>2, <2>3, <2>6
  <2>9. \A t \in Turns : gen'[t] <= ledger'[OwnerOf[t]].turns
    BY <2>2, <2>3, <2>5, <2>6
  <2>10. ASSUME NEW t \in Turns, OwnerOf[t] \notin twins', pc'[t] \in Working
         PROVE  runner'[OwnerOf[t]] = t /\ gen'[t] = ledger'[OwnerOf[t]].turns
    <3>1. CASE t = c
      BY <2>1, <2>2, <2>3, <2>4, <3>1
    <3>2. CASE t # c
      <4>1. pc[t] \in Working /\ OwnerOf[t] # o
        BY <2>4, <2>7, <2>10, <3>2
      <4>2. OwnerOf[t] \notin twins
        BY <1>5, <2>10 DEF Make
      <4> QED BY <2>1, <2>2, <2>3, <2>4, <2>5, <3>2, <4>1, <4>2
    <3> QED BY <3>1, <3>2
  <2> QED BY <2>8, <2>9, <2>10
<1>6. ASSUME NEW c \in Calls, Again(c)
      PROVE  DrawnInv'
  <2>1. c \in Turns /\ OwnerOf[c] \in Owners
    BY <1>0, <1>6 DEF Again
  <2>2. \A p \in Owners : /\ ledger'[p].turns = ledger[p].turns
                          /\ ledger'[p].generation = ledger[p].generation
    BY <1>6, <2>1 DEF Again, SetBusy
  <2>3. pc' = [pc EXCEPT ![c] = "enter"] /\ pc[c] = "running"
    BY <1>6 DEF Again, SetBusy
  <2> QED BY <1>0, <1>6, <2>2, <2>3 DEF Again, Working
<1>7. ASSUME NEW c \in Calls, End(c)
      PROVE  DrawnInv'
  <2>1. c \in Turns /\ pc[c] \in Working /\ pc' = [pc EXCEPT ![c] = "unregister"]
        /\ UNCHANGED <<gen, ledger, twins>>
    BY <1>7 DEF End, Working
  <2>2. ASSUME NEW t \in Turns, OwnerOf[t] \notin twins', pc'[t] \in Working
        PROVE  runner'[OwnerOf[t]] = t /\ gen'[t] = ledger'[OwnerOf[t]].turns
    <3>1. t # c /\ pc[t] \in Working
      BY <2>1, <2>2 DEF Working, Entering
    <3>2. OwnerOf[t] # OwnerOf[c]
      BY <2>1, <2>2, <3>1
    <3> QED BY <1>0, <1>7, <2>1, <2>2, <3>1, <3>2 DEF End
  <2> QED BY <2>1, <2>2
<1>8. ASSUME NEW c \in Calls, SetIdle(c)
      PROVE  DrawnInv'
  <2>1. c \in Turns /\ OwnerOf[c] \in Owners
    BY <1>0, <1>8 DEF SetIdle, Entering
  <2>2. \A p \in Owners : ledger'[p].turns = ledger[p].turns
    BY <1>8, <2>1 DEF SetIdle
  <2>3. \A p \in Owners : ledger'[p].generation <= ledger'[p].turns
    BY <1>8, <2>1 DEF SetIdle
  <2>4. \A t \in Turns : pc'[t] \in Working => pc[t] \in Working
    BY <1>8, <2>1 DEF SetIdle, Working, Entering
  <2> QED BY <1>0, <1>8, <2>2, <2>3, <2>4 DEF SetIdle
<1>9. ASSUME NEW p \in Owners, Heartbeat(p) \/ Lapse(p)
      PROVE  DrawnInv'
  BY <1>9, <1>a DEF Heartbeat, Lapse
<1>10. ASSUME NEW p \in Owners, Crash(p)
       PROVE  DrawnInv'
  BY <1>0, <1>10 DEF Crash, Working, Entering
<1>11. CASE UNCHANGED vars
  BY <1>11, <1>a DEF vars
<1> QED BY <1>1, <1>2, <1>3, <1>4, <1>5, <1>6, <1>7, <1>8, <1>9, <1>10, <1>11
        DEF Next, Step, Rest

LEMMA SoloStep == FlagInv /\ DrawnInv /\ SoloInv /\ [Next]_vars => SoloInv'
<1> SUFFICES ASSUME FlagInv, DrawnInv, SoloInv, [Next]_vars PROVE SoloInv'
  OBVIOUS
<1> USE ClaimsAssumption
<1> USE DEF FlagInv, SoloInv, ClaimTypes, CallInv, Calls, tables, status, history, At, Goto
<1>a. ASSUME late \subseteq late', twins \subseteq twins',
             \A c \in Calls : /\ pc'[c] \in Working \cup Ending => pc[c] \in Working \cup Ending
                              /\ pc[c] \in {"off", "over"} => pc'[c] \in {"off", "over"}
      PROVE  SoloInv'
  BY <1>a
<1>b. ASSUME NEW c \in Calls, NEW s, Goto(c, s), late \subseteq late', twins \subseteq twins',
             s \in Working \cup Ending => pc[c] \in Working \cup Ending,
             pc[c] \notin {"off", "over"}
      PROVE  SoloInv'
  BY <1>a, <1>b
<1> HIDE DEF SoloInv
<1>1. ASSUME NEW c \in Calls,
             RegisterRow(c) \/ Enter(c) \/ Stamp(c) \/ Unregister(c) \/ BusyExit(c)
      PROVE  SoloInv'
  BY <1>1, <1>b DEF RegisterRow, Enter, Stamp, Unregister, BusyExit, Working, Entering, Ending
<1>2. ASSUME NEW c \in Calls, Seek(c) \/ Flag(c)
      PROVE  SoloInv'
  <2>1. CASE Seek(c)
    <3>1. PICK s \in {"flag", "flagBusy", "flagReg"} :
             Goto(c, s) /\ (s = "flag" <=> pc[c] = "seek")
      BY <2>1 DEF Seek
    <3>2. pc[c] \in {"seek", "seekBusy", "seekReg"} /\ UNCHANGED <<late, twins>>
      BY <2>1 DEF Seek
    <3> QED BY <1>b, <3>1, <3>2 DEF Working, Entering, Ending
  <2>2. CASE Flag(c)
    <3>1. PICK s \in {"make", "seekReg", "running"} :
             Goto(c, s) /\ (s = "make" <=> pc[c] = "flag")
      BY <2>2 DEF Flag
    <3>2. pc[c] \in {"flag", "flagBusy", "flagReg"} /\ UNCHANGED <<late, twins>>
      BY <2>2 DEF Flag
    <3> QED BY <1>b, <3>1, <3>2 DEF Working, Entering, Ending
  <2> QED BY <1>2, <2>1, <2>2
<1>3. ASSUME NEW c \in Calls, StoreFails(c)
      PROVE  SoloInv'
  BY <1>3, <1>b DEF StoreFails, Working, Entering, Registering, Ending, StoreSteps
<1>4. ASSUME NEW c \in Calls, Again(c) \/ End(c) \/ SetIdle(c) \/ Clear(c) \/ Release(c)
      PROVE  SoloInv'
  BY <1>4, <1>b DEF Again, SetBusy, End, SetIdle, Clear, Release, Working, Entering, Ending
<1>5. ASSUME NEW c \in Calls, Look(c)
      PROVE  SoloInv'
  <2>1. c \in Turns /\ pc' = [pc EXCEPT ![c] = "register"] /\ twins' = twins
        /\ late \subseteq late'
    BY <1>5 DEF Look
  <2>2. ASSUME NEW t \in Turns, OwnerOf[t] = OwnerOf[c], OwnerOf[c] \notin late' \cup twins'
        PROVE  pc[t] \notin Working \cup Ending
    BY <1>5, <2>1, <2>2 DEF Look, DrawnInv
  <2>3. pc'[c] \notin Working \cup Ending
    BY <2>1 DEF Working, Entering, Ending
  <2> QED BY <2>1, <2>2, <2>3 DEF SoloInv
<1>6. ASSUME NEW c \in Calls, Make(c)
      PROVE  SoloInv'
  <2>1. c \in Turns /\ pc' = [pc EXCEPT ![c] = "enter"] /\ pc[c] = "make"
        /\ late' = late /\ twins \subseteq twins'
    BY <1>6 DEF Make, SetBusy, Entering
  <2>2. ASSUME NEW t \in Turns \ {c}, OwnerOf[t] = OwnerOf[c],
               OwnerOf[c] \notin late' \cup twins'
        PROVE  pc[t] \in {"off", "over"}
    <3>1. pc[t] \notin Registering \cup {"make"} /\ pc[t] \notin Working
      BY <1>6, <2>1, <2>2 DEF Make, DrawnInv
    <3>2. pc[t] \notin Ending
      BY <2>1, <2>2 DEF SoloInv
    <3> QED BY <3>1, <3>2 DEF Working, StoreSteps, Ending
  <2> QED BY <2>1, <2>2 DEF SoloInv, Working, Ending
<1>7. ASSUME NEW c \in Calls, Begin(c)
      PROVE  SoloInv'
  <2>1. c \in Drains /\ pc' = [pc EXCEPT ![c] = "enter"] /\ UNCHANGED <<late, twins>>
        /\ \A d \in Drains : OwnerOf[d] = OwnerOf[c] => pc[d] \in {"off", "over"}
    BY <1>7 DEF Begin
  <2> QED BY <2>1 DEF SoloInv
<1>8. ASSUME NEW p \in Owners, Heartbeat(p) \/ Lapse(p)
      PROVE  SoloInv'
  BY <1>8, <1>a DEF Heartbeat, Lapse
<1>9. ASSUME NEW p \in Owners, Crash(p)
      PROVE  SoloInv'
  BY <1>9, <1>a DEF Crash, Working, Entering, Ending
<1>10. CASE UNCHANGED vars
  BY <1>10, <1>a DEF vars
<1> QED BY <1>1, <1>2, <1>3, <1>4, <1>5, <1>6, <1>7, <1>8, <1>9, <1>10 DEF Next, Step, Rest

LEMMA BeatStep == FlagInv /\ SoloInv /\ BeatInv /\ [Next]_vars => BeatInv'
<1> SUFFICES ASSUME FlagInv, SoloInv, BeatInv, [Next]_vars PROVE BeatInv'
  OBVIOUS
<1> USE ClaimsAssumption
<1> USE DEF FlagInv, BeatInv, ClaimTypes, CallInv, Calls, tables, status, history, At, Goto
<1>0. ASSUME NEW c \in Calls
      PROVE  OwnerOf[c] \in Owners
  OBVIOUS
<1>a. ASSUME UNCHANGED <<fiber, data>>, late \subseteq late', twins \subseteq twins',
             \A t \in Turns : /\ pc'[t] \in Working => pc[t] \in Working
                              /\ pc'[t] = "running" => pc[t] = "running"
      PROVE  BeatInv'
  BY <1>a
<1>1. ASSUME NEW c \in Calls,
             RegisterRow(c) \/ Enter(c) \/ Stamp(c) \/ Unregister(c) \/ BusyExit(c)
      PROVE  BeatInv'
  BY <1>1, <1>a DEF RegisterRow, Enter, Stamp, Unregister, BusyExit, Working, Entering
<1>2. ASSUME NEW c \in Calls, Seek(c)
      PROVE  BeatInv'
  BY <1>2, <1>a DEF Seek, Working, Entering
<1>3. ASSUME NEW c \in Calls, NEW s, Goto(c, s), s \in Working => pc[c] \in Working,
             fiber' = (IF pc[c] \in Entering THEN Forked(c) ELSE fiber) \/ fiber' = fiber,
             s = "running" => pc[c] \in Entering /\ fiber' = Forked(c),
             UNCHANGED <<data, late, twins>>
      PROVE  BeatInv'
  <2>1. ASSUME NEW t \in Turns, OwnerOf[t] \notin late' \cup twins'
        PROVE  /\ pc'[t] \in Working => data'[OwnerOf[t]]
               /\ pc'[t] = "running" => fiber'[OwnerOf[t]] = "beating"
    <3>1. pc'[t] \in Working => pc[t] \in Working
      BY <1>3, <2>1
    <3>2. fiber[OwnerOf[t]] # "ended"
      BY <1>0, <1>3, <2>1
    <3>3. fiber[OwnerOf[t]] = "beating" => fiber'[OwnerOf[t]] = "beating"
      BY <1>0, <1>3 DEF Forked
    <3>4. CASE t = c
      BY <1>0, <1>3, <2>1, <3>1, <3>2, <3>4 DEF Forked
    <3>5. CASE t # c
      BY <1>3, <2>1, <3>1, <3>3, <3>5
    <3> QED BY <3>4, <3>5
  <2>2. ASSUME NEW o \in Owners, o \notin late' \cup twins'
        PROVE  fiber'[o] # "ended" /\ (fiber'[o] = "beating" => data'[o])
    <3>1. CASE fiber'[o] = fiber[o]
      BY <1>3, <2>2, <3>1
    <3>2. CASE fiber'[o] # fiber[o]
      <4>1. c \in Turns /\ o = OwnerOf[c] /\ fiber'[o] = "beating" /\ pc[c] \in Entering
        BY <1>3, <3>2 DEF Forked
      <4> QED BY <1>3, <2>2, <4>1 DEF Working
    <3> QED BY <3>1, <3>2
  <2> QED BY <2>1, <2>2
<1>4. ASSUME NEW c \in Calls, Flag(c)
      PROVE  BeatInv'
  <2>1. PICK s \in {"make", "seekReg", "running"} :
           Goto(c, s) /\ (s = "make" <=> pc[c] = "flag") /\ (s = "running" <=> pc[c] = "flagReg")
    BY <1>4 DEF Flag
  <2>2. /\ pc[c] \in {"flag", "flagBusy", "flagReg"} /\ UNCHANGED <<data, late, twins>>
        /\ fiber' = IF pc[c] = "flagReg" THEN Forked(c) ELSE fiber
    BY <1>4 DEF Flag
  <2> QED BY <1>3, <2>1, <2>2 DEF Working, Entering
<1>5. ASSUME NEW c \in Calls, StoreFails(c)
      PROVE  BeatInv'
  <2>1. PICK s \in {"make", "running", "idle", "over"} :
           Goto(c, s) /\ (s = "running" => pc[c] \in Entering)
    BY <1>5 DEF StoreFails, StoreSteps, Entering, Registering
  <2>2. /\ UNCHANGED <<data, late, twins>>
        /\ fiber' = IF pc[c] \in Entering THEN Forked(c) ELSE fiber
    BY <1>5 DEF StoreFails
  <2> QED BY <1>3, <2>1, <2>2 DEF Working, Entering
<1>6. ASSUME NEW c \in Calls, Look(c) \/ End(c) \/ SetIdle(c)
      PROVE  BeatInv'
  BY <1>6, <1>a DEF Look, End, SetIdle, Working, Entering
<1>7. ASSUME NEW c \in Calls, Make(c) \/ Again(c)
      PROVE  BeatInv'
  <2>1. /\ pc' = [pc EXCEPT ![c] = "enter"] /\ fiber' = fiber
        /\ data' = [data EXCEPT ![OwnerOf[c]] = TRUE]
        /\ late' = late /\ twins \subseteq twins'
    BY <1>7 DEF Make, Again, SetBusy
  <2> QED BY <1>0, <2>1
<1>8. ASSUME NEW c \in Calls, Clear(c)
      PROVE  BeatInv'
  <2>1. /\ c \in Turns /\ pc[c] \in Ending /\ pc' = [pc EXCEPT ![c] = "exit"]
        /\ data' = [data EXCEPT ![OwnerOf[c]] = FALSE]
        /\ fiber' = [fiber EXCEPT ![OwnerOf[c]] = "none"] /\ UNCHANGED <<late, twins>>
    BY <1>8 DEF Clear, Entering, Ending
  <2>2. ASSUME NEW t \in Turns, OwnerOf[t] = OwnerOf[c], OwnerOf[t] \notin late' \cup twins'
        PROVE  pc'[t] \notin Working
    BY <2>1, <2>2 DEF SoloInv, Working, Entering
  <2> QED BY <1>0, <2>1, <2>2 DEF Working
<1>9. ASSUME NEW c \in Calls, Begin(c) \/ Release(c)
      PROVE  BeatInv'
  BY <1>9, <1>a DEF Begin, Release
<1>10. ASSUME NEW p \in Owners, Heartbeat(p)
       PROVE  BeatInv'
  BY <1>10 DEF Heartbeat
<1>11. ASSUME NEW p \in Owners, Lapse(p)
       PROVE  BeatInv'
  BY <1>11, <1>a DEF Lapse
<1>12. ASSUME NEW p \in Owners, Crash(p)
       PROVE  BeatInv'
  BY <1>0, <1>12 DEF Crash, Working, Entering
<1>13. CASE UNCHANGED vars
  BY <1>13, <1>a DEF vars
<1> QED BY <1>1, <1>2, <1>4, <1>5, <1>6, <1>7, <1>8, <1>9, <1>10, <1>11, <1>12, <1>13
        DEF Next, Step, Rest

-----------------------------------------------------------------------------
(* What runs is visible                                                    *)

\* The other calls of a process whose call works do nothing.
LEMMA Alone ==
    ASSUME Unmixed, SoloInv, NEW c \in Calls, OwnerOf[c] \notin late \cup twins,
           pc[c] \in Working, NEW d \in Calls \ {c}, OwnerOf[d] = OwnerOf[c]
    PROVE  pc[d] \in {"off", "over"}
BY DEF Unmixed, SoloInv, Calls, Working, Entering

\* Its rows are not stale, once it has entered.
LEMMA NotStale ==
    ASSUME Unmixed, FlagInv, SoloInv, BeatInv, NEW c \in Calls,
           OwnerOf[c] \notin hurt \cup late \cup twins, pc[c] \in Working \ {"enter"}
    PROVE  ~Stale(busy[OwnerOf[c]]) /\ ~Stale(reg[OwnerOf[c]])
<1>1. OwnerOf[c] \in Owners /\ alive[OwnerOf[c]]
  BY ClaimsAssumption DEF FlagInv, CallInv, ClaimTypes, Working, Entering
<1>2. Beating(OwnerOf[c]) \/ Inside(OwnerOf[c])
  <2>1. CASE pc[c] # "running"
    BY <2>1 DEF Inside, Working
  <2>2. CASE pc[c] = "running" /\ c \in Turns
    BY <1>1, <2>2 DEF BeatInv, Beating, Working
  <2>3. CASE pc[c] = "running" /\ c \in Drains
    BY <1>1, <2>3 DEF Beating
  <2> QED BY <2>1, <2>2, <2>3 DEF Calls
<1>3. ~EnteringCall(OwnerOf[c])
  BY Alone DEF EnteringCall
<1> QED BY <1>1, <1>2, <1>3 DEF FlagInv, FreshInv

LEMMA HeldStep ==
    ASSUME Unmixed
    PROVE  FlagInv /\ SoloInv /\ BeatInv /\ HeldInv /\ [Next]_vars => HeldInv'
<1> SUFFICES ASSUME FlagInv, SoloInv, BeatInv, HeldInv, [Next]_vars, NEW c \in Calls,
                    OwnerOf[c] \notin hurt' \cup late' \cup twins'
             PROVE  HeldOf(c)'
  BY DEF HeldInv
<1> DEFINE o == OwnerOf[c]
<1> DEFINE Kept == /\ busy[o] # None => busy'[o] # None
                   /\ reg[o] # None => reg'[o] # None
<1> USE ClaimsAssumption
<1> USE DEF ClaimTypes, Calls, tables, status, history, At, Goto
<1>0. o \in Owners /\ ClaimTypes /\ CallInv
  BY DEF FlagInv
<1>a. ASSUME hurt \subseteq hurt', late \subseteq late', twins \subseteq twins'
      PROVE  HeldOf(c)
  BY <1>a DEF HeldInv
<1>b. ASSUME NEW d \in Calls, NEW s, Goto(d, s), HeldOf(c), Kept,
             s \in Working \ {"enter"} => pc[d] \in Working \ {"enter"},
             s \in Working \ {"enter", "stamp"} => pc[d] \in Working \ {"enter", "stamp"}
      PROVE  HeldOf(c)'
  BY <1>0, <1>b DEF HeldOf
<1>c. ASSUME NEW d \in Calls, d # c, pc'[c] = pc[c], pc[d] \notin {"off", "over"},
             pc[c] \in Working \ {"enter"},
             hurt \subseteq hurt', late \subseteq late', twins \subseteq twins'
      PROVE  OwnerOf[d] # o /\ ~Stale(busy[o]) /\ ~Stale(reg[o])
  BY <1>c, Alone, NotStale
<1>1. ASSUME NEW d \in Calls, RegisterRow(d)
      PROVE  HeldOf(c)'
  <2>1. HeldOf(c) /\ pc[d] = "register" /\ pc' = [pc EXCEPT ![d] = "seek"]
    BY <1>1, <1>a DEF RegisterRow
  <2>2. pc'[c] \in Working => d # c /\ pc'[c] = pc[c]
    BY <1>0, <2>1 DEF Working, Entering
  <2>3. ASSUME pc'[c] \in Working \ {"enter"}
        PROVE  Kept
    <3>1. OwnerOf[d] # o /\ ~Stale(busy[o]) /\ ~Stale(reg[o]) /\ OwnerOf[d] \in Owners
      BY <1>1, <1>c, <2>1, <2>2, <2>3 DEF RegisterRow
    <3>2. /\ busy[o] # None => Pruned(busy)[o] # None
          /\ reg[o] # None => Pruned(reg)[o] # None
      BY <1>0, <3>1, PrunedRow DEF Stale, Fresh
    <3>3. Stamped(Pruned(reg), OwnerOf[d])[o] = Pruned(reg)[o]
      BY <1>0, <3>1, TableTypes DEF Stamped
    <3> QED BY <1>1, <3>2, <3>3 DEF RegisterRow
  <2> QED BY <2>1, <2>2, <2>3 DEF HeldOf
<1>2. ASSUME NEW d \in Calls, Enter(d)
      PROVE  HeldOf(c)'
  <2>1. HeldOf(c) /\ pc[d] = "enter" /\ pc' = [pc EXCEPT ![d] = "stamp"]
    BY <1>2, <1>a DEF Enter
  <2>2. CASE d = c
    <3>1. Pruned(busy) \in [Owners -> Row \cup {None}]
      BY <1>0, TableTypes
    <3>2. busy'[o] # None
      BY <1>0, <1>2, <2>2, <3>1, StampedRow DEF Enter, Fresh
    <3> QED BY <1>0, <2>1, <2>2, <3>2 DEF HeldOf
  <2>3. CASE d # c
    <3>1. pc'[c] = pc[c]
      BY <2>1, <2>3
    <3>2. ASSUME pc'[c] \in Working \ {"enter"}
          PROVE  Kept
      <4>1. OwnerOf[d] # o /\ ~Stale(busy[o]) /\ ~Stale(reg[o]) /\ OwnerOf[d] \in Owners
        BY <1>2, <1>c, <2>1, <2>3, <3>1, <3>2 DEF Enter
      <4>2. /\ busy[o] # None => Pruned(busy)[o] # None
            /\ reg[o] # None => Pruned(reg)[o] # None
        BY <1>0, <4>1, PrunedRow DEF Stale, Fresh
      <4>3. Stamped(Pruned(busy), OwnerOf[d])[o] = Pruned(busy)[o]
        BY <1>0, <4>1, TableTypes DEF Stamped
      <4> QED BY <1>2, <4>2, <4>3 DEF Enter
    <3> QED BY <2>1, <3>1, <3>2 DEF HeldOf
  <2> QED BY <2>2, <2>3
<1>3. ASSUME NEW d \in Calls, Stamp(d)
      PROVE  HeldOf(c)'
  <2>1. HeldOf(c) /\ pc[d] = "stamp" /\ pc' = [pc EXCEPT ![d] = "seekBusy"] /\ busy' = busy
        /\ OwnerOf[d] \in Owners
    BY <1>3, <1>a DEF Stamp
  <2>2. reg[o] # None \/ o = OwnerOf[d] => reg'[o] # None
    BY <1>0, <1>3, <2>1, StampedRow DEF Stamp, Fresh
  <2>3. busy[OwnerOf[d]] # None \/ d # c
    BY <2>1 DEF HeldOf, Working, Entering
  <2> QED BY <1>0, <2>1, <2>2, <2>3 DEF HeldOf
<1>4. ASSUME NEW d \in Calls, Seek(d)
      PROVE  HeldOf(c)'
  <2>1. PICK s \in {"flag", "flagBusy", "flagReg"} :
           Goto(d, s) /\ (s = "flag" <=> pc[d] = "seek")
    BY <1>4 DEF Seek
  <2>2. pc[d] \in {"seek", "seekBusy", "seekReg"}
        /\ UNCHANGED <<tables, hurt, late, twins>>
    BY <1>4 DEF Seek
  <2> QED BY <1>a, <1>b, <2>1, <2>2 DEF Working, Entering
<1>5. ASSUME NEW d \in Calls, Flag(d)
      PROVE  HeldOf(c)'
  <2>1. PICK s \in {"make", "seekReg", "running"} :
           Goto(d, s) /\ (s = "make" <=> pc[d] = "flag")
    BY <1>5 DEF Flag
  <2>2. pc[d] \in {"flag", "flagBusy", "flagReg"} /\ UNCHANGED <<hurt, late, twins>>
    BY <1>5 DEF Flag
  <2>3. Kept
    BY <1>0, <1>5, FlaggedRow DEF Flag
  <2> QED BY <1>a, <1>b, <2>1, <2>2, <2>3 DEF Working, Entering
<1>6. ASSUME NEW d \in Calls, Unregister(d) \/ BusyExit(d)
      PROVE  HeldOf(c)'
  <2>1. /\ HeldOf(c) /\ pc[d] \in {"unregister", "exit"}
        /\ \E s \in {"idle", "over"} : pc' = [pc EXCEPT ![d] = s]
        /\ UNCHANGED <<hurt, late, twins>>
    BY <1>6, <1>a DEF Unregister, BusyExit
  <2>2. pc'[c] \in Working => d # c /\ pc'[c] = pc[c]
    BY <1>0, <2>1 DEF Working, Entering
  <2>3. ASSUME pc'[c] \in Working \ {"enter"}
        PROVE  Kept
    <3>1. OwnerOf[d] # o
      BY <1>c, <2>1, <2>2, <2>3
    <3> QED BY <1>0, <1>6, <3>1 DEF Unregister, BusyExit
  <2> QED BY <2>1, <2>2, <2>3 DEF HeldOf
<1>7. ASSUME NEW d \in Calls, StoreFails(d)
      PROVE  HeldOf(c)'
  <2>1. d # c /\ pc'[c] = pc[c] /\ UNCHANGED tables /\ HeldOf(c)
    BY <1>0, <1>7, <1>a DEF StoreFails
  <2> QED BY <2>1 DEF HeldOf
<1>8. ASSUME NEW d \in Calls,
             Look(d) \/ End(d) \/ SetIdle(d) \/ Clear(d) \/ Release(d) \/ Begin(d)
      PROVE  HeldOf(c)'
  <2>1. /\ \E s \in {"register", "unregister", "over", "clear", "exit", "enter"} : Goto(d, s)
        /\ UNCHANGED <<tables, hurt, twins>> /\ late \subseteq late'
    BY <1>8 DEF Look, End, SetIdle, Clear, Release, Begin
  <2> QED BY <1>a, <1>b, <2>1 DEF Working, Entering
<1>9. ASSUME NEW d \in Calls, Make(d) \/ Again(d)
      PROVE  HeldOf(c)'
  <2>1. Goto(d, "enter") /\ UNCHANGED <<tables, hurt, late>> /\ twins \subseteq twins'
    BY <1>9 DEF Make, Again, SetBusy
  <2> QED BY <1>a, <1>b, <2>1
<1>10. ASSUME NEW p \in Owners, Heartbeat(p) \/ Lapse(p)
       PROVE  HeldOf(c)'
  <2>1. HeldOf(c) /\ pc' = pc
    BY <1>10, <1>a DEF Heartbeat, Lapse
  <2>2. CASE Heartbeat(p)
    <3>1. ASSUME busy[o] # None PROVE Beaten(busy, p)[o] # None
      BY <1>0, <3>1, LastingRow
    <3>2. ASSUME reg[o] # None PROVE Beaten(reg, p)[o] # None
      BY <1>0, <3>2, LastingRow
    <3>3. Kept
      BY <2>2, <3>1, <3>2 DEF Heartbeat
    <3> QED BY <2>1, <3>3 DEF HeldOf
  <2>3. CASE Lapse(p)
    <3>1. ASSUME busy[o] # None PROVE [busy EXCEPT ![p] = Aged(@)][o] # None
      BY <1>0, <3>1, LastingRow
    <3>2. ASSUME reg[o] # None PROVE [reg EXCEPT ![p] = Aged(@)][o] # None
      BY <1>0, <3>2, LastingRow
    <3>3. Kept
      BY <2>3, <3>1, <3>2 DEF Lapse
    <3> QED BY <2>1, <3>3 DEF HeldOf
  <2> QED BY <1>10, <2>2, <2>3
<1>11. ASSUME NEW p \in Owners, Crash(p)
       PROVE  HeldOf(c)'
  <2>1. HeldOf(c) /\ UNCHANGED tables /\ (pc'[c] = pc[c] \/ pc'[c] = "over")
    BY <1>11, <1>a DEF Crash
  <2> QED BY <2>1 DEF HeldOf, Working, Entering
<1>12. CASE UNCHANGED vars
  BY <1>12, <1>a DEF vars, HeldOf
<1> QED BY <1>1, <1>2, <1>3, <1>4, <1>5, <1>6, <1>7, <1>8, <1>9, <1>10, <1>11, <1>12
        DEF Next, Step, Rest

-----------------------------------------------------------------------------
(* What is over leaves nothing                                             *)

LEMMA LeakStep ==
    ASSUME Unmixed
    PROVE  FlagInv /\ DrawnInv /\ LeakInv /\ [Next]_vars => LeakInv'
<1> SUFFICES ASSUME FlagInv, DrawnInv, LeakInv, [Next]_vars, NEW o \in Owners, alive'[o],
                    o \notin hurt' \cup twins'
             PROVE  DataOf(o)' /\ BusyOf(o)' /\ RegOf(o)'
  BY DEF LeakInv
<1> DEFINE Leaks == DataOf(o) /\ BusyOf(o) /\ RegOf(o)
<1> DEFINE InData == Working \cup (Ending \ {"exit"})
<1> DEFINE InBusy == Working \cup Ending
<1> DEFINE InReg == {"seek", "flag", "make", "unregister"} \cup Working
<1> USE ClaimsAssumption
<1> USE DEF ClaimTypes, Calls, tables, status, history, At, Goto
<1>0. /\ ClaimTypes /\ CallInv
      /\ \A c \in Calls : OwnerOf[c] \in Owners
  BY DEF FlagInv
<1>a. ASSUME alive[o], hurt \subseteq hurt', twins \subseteq twins'
      PROVE  Leaks
  BY <1>a DEF LeakInv
<1>b. ASSUME Leaks, UNCHANGED <<gen, data>>, ledger'[o].turns = ledger[o].turns,
             busy[o] = None => busy'[o] = None, reg[o] = None => reg'[o] = None,
             NEW c \in Calls, NEW s, Goto(c, s),
             pc[c] \in InData /\ c \in Turns /\ Newest(c, o) => s \in InData,
             pc[c] \in InBusy => s \in InBusy \/ (c \in Turns /\ ~Newest(c, o)),
             pc[c] \in Working \cup {"exit"} /\ c \in Drains => s \in Working \cup {"exit"},
             pc[c] \in InReg => s \in InReg
      PROVE  Leaks'
  <2>1. DataOf(o)'
    BY <1>0, <1>b DEF DataOf, Newest
  <2>2. BusyOf(o)'
    BY <1>0, <1>b DEF BusyOf, Newest
  <2>3. RegOf(o)'
    BY <1>0, <1>b DEF RegOf
  <2> QED BY <2>1, <2>2, <2>3
<1>c. ASSUME NEW c \in Calls, OwnerOf[c] # o, Leaks,
             data'[o] = data[o], ledger'[o].turns = ledger[o].turns,
             busy[o] = None => busy'[o] = None, reg[o] = None => reg'[o] = None,
             \A d \in Calls : OwnerOf[d] = o => pc'[d] = pc[d],
             \A t \in Turns : OwnerOf[t] = o => gen'[t] = gen[t]
      PROVE  Leaks'
  BY <1>c DEF DataOf, BusyOf, RegOf, Newest
<1>d. ASSUME NEW T \in [Owners -> Row \cup {None}], NEW q \in Owners, T[o] = None
      PROVE  /\ Pruned(T)[o] = None /\ Beaten(T, q)[o] = None /\ Flagged(T)[o] = None
             /\ [T EXCEPT ![q] = Aged(@)][o] = None
             /\ q # o => Stamped(T, q)[o] = None /\ Stamped(Pruned(T), q)[o] = None
  BY <1>d DEF Pruned, Beaten, Flagged, Aged, Stamped, Fresh
<1>1. ASSUME NEW c \in Calls, RegisterRow(c)
      PROVE  Leaks'
  <2>1. /\ Leaks /\ c \in Turns /\ OwnerOf[c] \in Owners
        /\ pc[c] = "register" /\ pc' = [pc EXCEPT ![c] = "seek"]
        /\ UNCHANGED <<gen, data, ledger>> /\ (busy[o] = None => busy'[o] = None)
    BY <1>0, <1>1, <1>a, <1>d DEF RegisterRow, CallInv, Entering
  <2>2. CASE OwnerOf[c] = o
    <3>1. DataOf(o)' /\ BusyOf(o)'
      BY <1>0, <2>1 DEF DataOf, BusyOf, Newest, Working, Entering, Ending
    <3>2. RegOf(o)'
      BY <1>0, <2>1, <2>2 DEF RegOf
    <3> QED BY <3>1, <3>2
  <2>3. CASE OwnerOf[c] # o
    <3>1. reg[o] = None => reg'[o] = None
      BY <1>0, <1>1, <1>d, <2>1, <2>3 DEF RegisterRow
    <3> QED BY <1>c, <2>1, <2>3, <3>1
  <2> QED BY <2>2, <2>3
<1>2. ASSUME NEW c \in Calls, Enter(c)
      PROVE  Leaks'
  <2>1. /\ Leaks /\ OwnerOf[c] \in Owners /\ o \notin twins
        /\ pc[c] = "enter" /\ pc' = [pc EXCEPT ![c] = "stamp"]
        /\ UNCHANGED <<gen, data, ledger>> /\ (reg[o] = None => reg'[o] = None)
    BY <1>0, <1>2, <1>a, <1>d DEF Enter
  <2>2. CASE OwnerOf[c] = o
    <3>1. c \in Turns => Newest(c, o)
      BY <2>1, <2>2 DEF DrawnInv, Newest, Working, Entering
    <3>2. DataOf(o)'
      BY <1>0, <2>1 DEF DataOf, Newest, Working, Entering
    <3>3. BusyOf(o)'
      BY <1>0, <2>1, <2>2, <3>1 DEF BusyOf, Newest, Working, Entering
    <3>4. RegOf(o)'
      BY <1>0, <2>1 DEF RegOf, Working, Entering
    <3> QED BY <3>2, <3>3, <3>4
  <2>3. CASE OwnerOf[c] # o
    <3>1. busy[o] = None => busy'[o] = None
      BY <1>0, <1>2, <1>d, <2>1, <2>3 DEF Enter
    <3> QED BY <1>c, <2>1, <2>3, <3>1
  <2> QED BY <2>2, <2>3
<1>3. ASSUME NEW c \in Calls, Stamp(c)
      PROVE  Leaks'
  <2>1. /\ Leaks /\ OwnerOf[c] \in Owners
        /\ pc[c] = "stamp" /\ pc' = [pc EXCEPT ![c] = "seekBusy"]
        /\ UNCHANGED <<gen, data, ledger, busy>>
    BY <1>0, <1>3, <1>a DEF Stamp
  <2>2. CASE OwnerOf[c] = o
    <3>1. DataOf(o)' /\ BusyOf(o)'
      BY <1>0, <2>1 DEF DataOf, BusyOf, Newest, Working, Entering
    <3>2. RegOf(o)'
      BY <1>0, <2>1, <2>2 DEF RegOf, Unmixed, Working, Entering
    <3> QED BY <3>1, <3>2
  <2>3. CASE OwnerOf[c] # o
    <3>1. reg[o] = None => reg'[o] = None
      BY <1>0, <1>3, <1>d, <2>1, <2>3 DEF Stamp
    <3> QED BY <1>c, <2>1, <2>3, <3>1
  <2> QED BY <2>2, <2>3
<1>4. ASSUME NEW c \in Calls, Seek(c)
      PROVE  Leaks'
  <2>1. PICK s \in {"flag", "flagBusy", "flagReg"} :
           Goto(c, s) /\ (s = "flag" <=> pc[c] = "seek")
    BY <1>4 DEF Seek
  <2>2. /\ Leaks /\ UNCHANGED <<gen, data, ledger, busy, reg>>
        /\ pc[c] \in {"seek", "seekBusy", "seekReg"}
    BY <1>4, <1>a DEF Seek
  <2> QED BY <1>b, <2>1, <2>2 DEF Working, Entering, Ending
<1>5. ASSUME NEW c \in Calls, Flag(c)
      PROVE  Leaks'
  <2>1. PICK s \in {"make", "seekReg", "running"} :
           Goto(c, s) /\ (s = "make" <=> pc[c] = "flag")
    BY <1>5 DEF Flag
  <2>2. /\ Leaks /\ UNCHANGED <<gen, data, ledger>>
        /\ pc[c] \in {"flag", "flagBusy", "flagReg"}
    BY <1>5, <1>a DEF Flag
  <2>3. (busy[o] = None => busy'[o] = None) /\ (reg[o] = None => reg'[o] = None)
    BY <1>0, <1>5, <1>d DEF Flag
  <2> QED BY <1>b, <2>1, <2>2, <2>3 DEF Working, Entering, Ending
<1>6. ASSUME NEW c \in Calls, Unregister(c)
      PROVE  Leaks'
  <2>1. /\ Leaks /\ OwnerOf[c] \in Owners
        /\ pc[c] = "unregister" /\ pc' = [pc EXCEPT ![c] = "idle"]
        /\ UNCHANGED <<gen, data, ledger, busy>>
        /\ reg'[o] = IF OwnerOf[c] = o THEN None ELSE reg[o]
    BY <1>0, <1>6, <1>a DEF Unregister
  <2>2. CASE OwnerOf[c] = o
    <3>1. DataOf(o)' /\ BusyOf(o)'
      BY <1>0, <2>1 DEF DataOf, BusyOf, Newest, Ending, Working, Entering
    <3> QED BY <2>1, <2>2, <3>1 DEF RegOf
  <2>3. CASE OwnerOf[c] # o
    BY <1>c, <2>1, <2>3
  <2> QED BY <2>2, <2>3
<1>7. ASSUME NEW c \in Calls, BusyExit(c)
      PROVE  Leaks'
  <2>1. /\ Leaks /\ OwnerOf[c] \in Owners
        /\ pc[c] = "exit" /\ pc' = [pc EXCEPT ![c] = "over"]
        /\ UNCHANGED <<gen, data, ledger, reg>>
        /\ busy'[o] = IF OwnerOf[c] = o THEN None ELSE busy[o]
    BY <1>0, <1>7, <1>a DEF BusyExit
  <2>2. CASE OwnerOf[c] = o
    <3>1. DataOf(o)' /\ RegOf(o)'
      BY <1>0, <2>1 DEF DataOf, RegOf, Newest, Working, Entering
    <3> QED BY <2>1, <2>2, <3>1 DEF BusyOf
  <2>3. CASE OwnerOf[c] # o
    BY <1>c, <2>1, <2>3
  <2> QED BY <2>2, <2>3
<1>8. ASSUME NEW c \in Calls, StoreFails(c)
      PROVE  Leaks'
  <2>1. /\ Leaks /\ OwnerOf[c] # o
        /\ UNCHANGED <<gen, data, ledger, busy, reg>> /\ \A d \in Calls \ {c} : pc'[d] = pc[d]
    BY <1>0, <1>8, <1>a DEF StoreFails
  <2> QED BY <1>c, <2>1
<1>9. ASSUME NEW c \in Calls, Make(c)
      PROVE  Leaks'
  <2>1. /\ Leaks /\ c \in Turns /\ OwnerOf[c] \in Owners
        /\ pc[c] = "make" /\ pc' = [pc EXCEPT ![c] = "enter"] /\ UNCHANGED <<busy, reg>>
    BY <1>0, <1>9, <1>a DEF Make, SetBusy, CallInv, Entering
  <2>2. /\ gen'[c] = ledger[OwnerOf[c]].turns + 1 /\ \A t \in Turns \ {c} : gen'[t] = gen[t]
        /\ ledger'[OwnerOf[c]].turns = ledger[OwnerOf[c]].turns + 1
        /\ \A p \in Owners \ {OwnerOf[c]} : ledger'[p] = ledger[p] /\ data'[p] = data[p]
    BY <1>0, <1>9, <2>1 DEF Make, SetBusy
  <2>3. CASE OwnerOf[c] = o
    <3>1. Newest(c, o)' /\ pc'[c] = "enter"
      BY <1>0, <2>1, <2>2, <2>3 DEF Newest
    <3> QED BY <2>1, <2>3, <3>1 DEF DataOf, BusyOf, RegOf, Newest, Working, Entering
  <2>4. CASE OwnerOf[c] # o
    BY <1>c, <2>1, <2>2, <2>4
  <2> QED BY <2>3, <2>4
<1>10. ASSUME NEW c \in Calls, Again(c)
       PROVE  Leaks'
  <2>1. /\ Leaks /\ c \in Turns /\ OwnerOf[c] \in Owners /\ o \notin twins
        /\ pc[c] = "running" /\ pc' = [pc EXCEPT ![c] = "enter"] /\ UNCHANGED <<busy, reg, gen>>
    BY <1>0, <1>10, <1>a DEF Again, SetBusy
  <2>2. /\ \A p \in Owners : ledger'[p].turns = ledger[p].turns
        /\ \A p \in Owners \ {OwnerOf[c]} : data'[p] = data[p]
    BY <1>0, <1>10, <2>1 DEF Again, SetBusy
  <2>3. CASE OwnerOf[c] = o
    <3>1. Newest(c, o)' /\ pc'[c] = "enter"
      BY <1>0, <2>1, <2>2, <2>3 DEF Newest, DrawnInv, Working
    <3> QED BY <2>1, <2>3, <3>1 DEF DataOf, BusyOf, RegOf, Newest, Working, Entering
  <2>4. CASE OwnerOf[c] # o
    BY <1>c, <2>1, <2>2, <2>4
  <2> QED BY <2>3, <2>4
<1>11. ASSUME NEW c \in Calls, Look(c) \/ Begin(c) \/ End(c) \/ Release(c)
       PROVE  Leaks'
  <2>1. /\ Leaks /\ UNCHANGED <<gen, data, ledger, busy, reg>>
        /\ \/ c \in Turns /\ pc[c] = "off" /\ Goto(c, "register")
           \/ c \in Drains /\ pc[c] = "off" /\ Goto(c, "enter")
           \/ c \in Turns /\ pc[c] = "running" /\ Goto(c, "unregister")
           \/ c \in Drains /\ pc[c] = "running" /\ Goto(c, "exit")
    BY <1>11, <1>a DEF Look, Begin, End, Release
  <2>2. CASE c \in Turns /\ pc[c] = "off" /\ Goto(c, "register")
    BY <1>b, <2>1, <2>2 DEF Working, Entering, Ending
  <2>3. CASE c \in Drains /\ pc[c] = "off" /\ Goto(c, "enter")
    BY <1>b, <2>1, <2>3 DEF Working, Entering, Ending
  <2>4. CASE c \in Turns /\ pc[c] = "running" /\ Goto(c, "unregister")
    BY <1>b, <2>1, <2>4 DEF Working, Entering, Ending
  <2>5. CASE c \in Drains /\ pc[c] = "running" /\ Goto(c, "exit")
    <3>1. DataOf(o)' /\ RegOf(o)'
      BY <1>0, <2>1, <2>5 DEF DataOf, RegOf, Newest, Unmixed
    <3>2. BusyOf(o)'
      BY <1>0, <2>1, <2>5 DEF BusyOf, Newest, Working
    <3> QED BY <3>1, <3>2
  <2> QED BY <2>1, <2>2, <2>3, <2>4, <2>5
<1>12. ASSUME NEW c \in Calls, SetIdle(c)
       PROVE  Leaks'
  <2>1. /\ Leaks /\ c \in Turns /\ OwnerOf[c] \in Owners /\ pc[c] = "idle"
        /\ UNCHANGED <<gen, data, busy, reg>>
    BY <1>0, <1>12, <1>a DEF SetIdle, CallInv, Entering
  <2>2. ledger'[o].turns = ledger[o].turns
    BY <1>0, <1>12, <2>1 DEF SetIdle
  <2>3. Goto(c, "clear") \/ (Goto(c, "over") /\ gen[c] < ledger[OwnerOf[c]].generation)
    BY <1>12 DEF SetIdle
  <2>4. ASSUME Newest(c, o)
        PROVE  ~(gen[c] < ledger[OwnerOf[c]].generation)
    BY <1>0, <2>1, <2>4 DEF DrawnInv, Newest
  <2> QED BY <1>b, <2>1, <2>2, <2>3, <2>4 DEF Working, Entering, Ending
<1>13. ASSUME NEW c \in Calls, Clear(c)
       PROVE  Leaks'
  <2>1. /\ Leaks /\ c \in Turns /\ OwnerOf[c] \in Owners
        /\ pc[c] = "clear" /\ pc' = [pc EXCEPT ![c] = "exit"]
        /\ UNCHANGED <<gen, ledger, busy, reg>>
        /\ data'[o] = IF OwnerOf[c] = o THEN FALSE ELSE data[o]
    BY <1>0, <1>13, <1>a DEF Clear, CallInv, Entering
  <2>2. CASE OwnerOf[c] = o
    <3>1. BusyOf(o)' /\ RegOf(o)'
      BY <1>0, <2>1 DEF BusyOf, RegOf, Newest, Ending, Working, Entering
    <3> QED BY <2>1, <2>2, <3>1 DEF DataOf
  <2>3. CASE OwnerOf[c] # o
    BY <1>c, <2>1, <2>3
  <2> QED BY <2>2, <2>3
<1>14. ASSUME NEW p \in Owners, Heartbeat(p) \/ Lapse(p)
       PROVE  Leaks'
  <2>1. Leaks /\ UNCHANGED <<gen, data, ledger, pc>>
    BY <1>14, <1>a DEF Heartbeat, Lapse
  <2>2. (busy[o] = None => busy'[o] = None) /\ (reg[o] = None => reg'[o] = None)
    BY <1>0, <1>14, <1>d DEF Heartbeat, Lapse
  <2> QED BY <2>1, <2>2 DEF DataOf, BusyOf, RegOf, Newest
<1>15. ASSUME NEW p \in Owners, Crash(p)
       PROVE  Leaks'
  <2>1. p # o /\ Leaks /\ UNCHANGED <<busy, reg>> /\ data'[o] = data[o]
        /\ ledger'[o] = ledger[o]
    BY <1>0, <1>15, <1>a DEF Crash
  <2>2. /\ \A d \in Calls : OwnerOf[d] = o => pc'[d] = pc[d]
        /\ \A t \in Turns : OwnerOf[t] = o => gen'[t] = gen[t]
    BY <1>15, <2>1 DEF Crash
  <2> QED BY <2>1, <2>2 DEF DataOf, BusyOf, RegOf, Newest
<1>16. CASE UNCHANGED vars
  BY <1>16, <1>a DEF vars, DataOf, BusyOf, RegOf, Newest
<1> QED BY <1>1, <1>2, <1>3, <1>4, <1>5, <1>6, <1>7, <1>8, <1>9, <1>10, <1>11, <1>12,
           <1>13, <1>14, <1>15, <1>16 DEF Next, Step, Rest

-----------------------------------------------------------------------------
(* The theorems                                                            *)

LEMMA FlagStep == FlagInv /\ [Next]_vars => FlagInv'
BY TypesStep, FreshStep, PairStep DEF FlagInv

LEMMA InitIInv == Init => IInv
<1> SUFFICES ASSUME Init PROVE IInv
  OBVIOUS
<1> USE ClaimsAssumption DEF Init, Calls
<1>1. FlagInv
  BY InitFlagInv
<1>2. DrawnInv /\ SoloInv /\ BeatInv
  BY DEF DrawnInv, SoloInv, BeatInv, Working, Entering, Ending
<1>3. HeldInv /\ LeakInv
  BY DEF HeldInv, HeldOf, LeakInv, DataOf, BusyOf, RegOf, Working, Entering
<1> QED BY <1>1, <1>2, <1>3 DEF IInv

(* Two live claims of different processes carry the conflict flag, however *)
(* the statements of register, busyEnter, the exits and the heartbeats of  *)
(* any number of processes interleave.                                     *)
THEOREM DoubleOwnershipIsFlagged == Spec => []DoubleOwnershipFlagged
<1>1. FlagInv => DoubleOwnershipFlagged
  <2> SUFFICES ASSUME FlagInv, NEW o \in Owners \ hurt, NEW x \in Owners \ hurt, o # x,
                      ~Claiming(o), ~Claiming(x), NEW table \in {busy, reg},
                      Fresh(table[o]), Fresh(table[x])
               PROVE  table[o].conflict /\ table[x].conflict
    BY DEF DoubleOwnershipFlagged
  <2>1. \A c \in Calls : OwnerOf[c] \in {o, x} => ~PendBusy(c) /\ ~PendReg(c)
    BY DEF Claiming, PendBusy, PendReg, Entering, Registering
  <2> QED BY <2>1 DEF FlagInv, PairInv, BothFlagged
<1> QED BY <1>1, InitFlagInv, FlagStep, PTL DEF Spec

(* In processes that run either turns or drains of the session, what runs  *)
(* has its busy row and its registration, both live: a write of another    *)
(* process prunes neither, and no heartbeat comes too late.                *)
THEOREM RunningIsVisible == ASSUME Unmixed PROVE Spec => []ExecutingImpliesOwning
<1>1. IInv => ExecutingImpliesOwning
  <2> SUFFICES ASSUME IInv, NEW c \in Calls, pc[c] = "running",
                      OwnerOf[c] \notin hurt \cup late \cup twins
               PROVE  Fresh(busy[OwnerOf[c]]) /\ Fresh(reg[OwnerOf[c]])
    BY DEF ExecutingImpliesOwning
  <2>1. busy[OwnerOf[c]] # None /\ reg[OwnerOf[c]] # None
    BY DEF IInv, HeldInv, HeldOf, Working
  <2>2. ~Stale(busy[OwnerOf[c]]) /\ ~Stale(reg[OwnerOf[c]])
    BY NotStale DEF IInv, Working
  <2> QED BY <2>1, <2>2 DEF Stale, Fresh
<1>2. IInv /\ [Next]_vars => IInv'
  BY FlagStep, DrawnStep, SoloStep, BeatStep, HeldStep, LeakStep DEF IInv
<1> QED BY <1>1, <1>2, InitIInv, PTL DEF Spec

(* A process whose turns and drains are over has no busy status, no busy   *)
(* row and no registration left, whichever of two turns ended last.        *)
THEOREM NothingIsLeft == ASSUME Unmixed PROVE Spec => []NothingLeaks
<1>1. IInv => NothingLeaks
  BY DEF IInv, LeakInv, DataOf, BusyOf, RegOf, NothingLeaks, AtRest, Calls, Newest,
         Working, Entering, Ending
<1>2. IInv /\ [Next]_vars => IInv'
  BY FlagStep, DrawnStep, SoloStep, BeatStep, HeldStep, LeakStep DEF IInv
<1> QED BY <1>1, <1>2, InitIInv, PTL DEF Spec
=============================================================================
