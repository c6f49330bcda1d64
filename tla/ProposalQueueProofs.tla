------------------------- MODULE ProposalQueueProofs -------------------------
(***************************************************************************)
(* For any proposals, verifies and bounds: the queue's applies and the     *)
(* engine's window exclude one another, an identity is applied once and    *)
(* once more for each answer that was lost, and only a commit moves the    *)
(* mode.  The engine's callers are sequential (~Overlap), as in the runs.  *)
(***************************************************************************)
EXTENDS ProposalQueue, SequenceTheorems, TLAPS

-----------------------------------------------------------------------------
(* The inductive invariant                                                 *)

Records == [mode : Modes \cup {Absent}, posture : Postures \cup {Absent},
            state : Legacy \cup {Absent}, overlay : {"old", "new"}]
Commits == [snap : Snapshots, to : Modes]

EngineTypes ==
    /\ record \in Records
    /\ state \in {"idle", "staged", "verified", "commit-pending", "committed",
                  "rolled-back"}
    /\ window \in BOOLEAN
    /\ pending \in Commits \cup {Absent}
    /\ attempt \in [Verifies -> {"off", "draining", "testing"}]

\* One verify at a time, and the window covers what follows a passed test.
WindowInv ==
    /\ state = "commit-pending" <=> pending # Absent
    /\ state \in {"verified", "commit-pending"} => window
    /\ \A v \in Verifies : attempt[v] # "off" =>
          /\ state \in {"staged", "verified"}
          /\ \A w \in Verifies : attempt[w] # "off" => w = v
    /\ \A v \in Verifies : attempt[v] = "testing" => window

\* What a transition in progress would restore or commit.
Staged ==
    state \in {"staged", "verified", "commit-pending"} =>
        /\ snap \in Snapshots /\ to \in Modes
        /\ pending # Absent => pending = [snap |-> snap, to |-> to]

EngineInv == EngineTypes /\ WindowInv /\ Staged

QueueTypes ==
    /\ file \in Seq(Proposals)
    /\ kept \in [Proposals -> {"staged", "blocked-degraded", "pending-reconfirm"}]
    /\ receipts \subseteq Proposals
    /\ drain \in [at : {"none", "next", "fetch", "apply", "applied"},
                  todo : Seq(Proposals)]
    /\ executed \in [Proposals -> Nat]
    /\ unanswered \in [Proposals -> Nat]

\* What is on its way to the target was examined and is not recorded yet.
DrainInv ==
    /\ drain.at \in {"fetch", "apply", "applied"} =>
          /\ drain.todo # <<>>
          /\ InFile(Head(drain.todo))
          /\ Head(drain.todo) \notin StaleVerbs \ Surfaces
    /\ drain.at \in {"apply", "applied"} =>
          /\ Head(drain.todo) \notin Surfaces \cup receipts
          /\ kept[Head(drain.todo)] = "staged"
          /\ ~window

\* An apply without a receipt is the running one, or its answer was lost.
Unrecorded(p) == drain.at = "applied" /\ Head(drain.todo) = p

ReachInv ==
    \A p \in Proposals :
        /\ executed[p] <= 1 + unanswered[p]
        /\ p \notin receipts /\ ~Unrecorded(p) => executed[p] <= unanswered[p]

QueueInv == QueueTypes /\ hold = window /\ DrainInv /\ ReachInv

-----------------------------------------------------------------------------
(* The engine's steps                                                      *)

\* The record's fields stay in their types.
LEMMA RecordTypes ==
  ASSUME NEW r \in Records
  PROVE  /\ ModeOf(r) \in Modes /\ PostureOf(r) \in Postures
         /\ \A x \in Postures : Postured(r, x) \in Records
         /\ \A m \in Modes : Confirmed(r, m) \in Records
         /\ \A m \in Modes : [Confirmed(r, m) EXCEPT !.overlay = "new"] \in Records
         /\ \A s \in Snapshots : Restored(r, s) \in Records
         /\ \A m \in Modes, x \in Postures : LegacyOf(m, x) \in Legacy
<1> USE ModeAssumption DEF Records, Modes, Postures, Legacy
<1>1. ModeOf(r) \in Modes /\ PostureOf(r) \in Postures
  BY DEF ModeOf, PostureOf
<1>2. \A m \in Modes, x \in Postures : LegacyOf(m, x) \in Legacy
  BY DEF LegacyOf
<1>3. \A x \in Postures : Postured(r, x) \in Records
  BY <1>1, <1>2 DEF Postured
<1>4. \A m \in Modes : Confirmed(r, m) \in Records
  BY <1>1, <1>2 DEF Confirmed
<1>5. \A m \in Modes : [Confirmed(r, m) EXCEPT !.overlay = "new"] \in Records
  BY <1>4
<1>6. ASSUME NEW s \in Snapshots PROVE Restored(r, s) \in Records
  <2>1. PICK moded \in Records :
          Restored(r, s) = [moded EXCEPT !.state = s.state, !.overlay = s.overlay]
    <3>1. CASE ModeOf(r) = s.mode
      BY <3>1 DEF Restored
    <3>2. CASE ModeOf(r) # s.mode
      <4>1. Confirmed(r, s.mode) \in Records
        BY <1>4 DEF Snapshots
      <4> QED BY <3>2, <4>1 DEF Restored
    <3> QED BY <3>1, <3>2
  <2> QED BY <2>1 DEF Snapshots
<1> QED BY <1>1, <1>2, <1>3, <1>4, <1>5, <1>6

\* A step of the engine itself, whoever takes it.
EngineMove ==
    \/ \E x \in Postures : WritePosture(x)
    \/ Stage \/ Commit \/ Resume \/ Abort \/ Rollback \/ Recover
    \/ \E v \in Verifies, o \in {"pass", "transient", "structural", "throws"} : Settle(v, o)
    \/ \E v \in Verifies : Verify(v) \/ OpenWindow(v) \/ DrainFailed(v)
    \/ /\ record' \in {record, Postured(record, "degraded")}
       /\ UNCHANGED <<engineVars, attempt>>

LEMMA EngineStepInv ==
  ASSUME ~Overlap, EngineInv, EngineMove
  PROVE  EngineInv'
<1> USE ModeAssumption
<1>t. EngineTypes /\ WindowInv /\ Staged
  BY DEF EngineInv
<1>1. ASSUME NEW x \in Postures, WritePosture(x) PROVE EngineInv'
  BY <1>1, <1>t, RecordTypes
     DEF WritePosture, engineVars, EngineInv, EngineTypes, WindowInv, Staged
<1>2. CASE Stage
  <2>1. /\ state' = "staged" /\ \A v \in Verifies : attempt[v] = "off"
        /\ pending = Absent
    BY <1>2, <1>t DEF Stage, Callable, WindowInv
  <2>2. snap' \in Snapshots /\ to' \in Modes
    BY <1>2, <1>t, RecordTypes DEF Stage, Snapshots, Mode, EngineTypes, Records, Modes
  <2> QED BY <1>2, <1>t, <2>1, <2>2
          DEF Stage, EngineInv, EngineTypes, WindowInv, Staged
<1>3. CASE Complete /\ Callable /\ state \in {"verified", "commit-pending"}
  <2>1. record' \in Records
    BY <1>3, <1>t, RecordTypes DEF Complete, Staged, EngineTypes
  <2> QED BY <1>3, <1>t, <2>1
          DEF Complete, Callable, EngineInv, EngineTypes, WindowInv, Staged
<1>4. CASE Commit /\ ~Complete
  <2>0. snap \in Snapshots /\ to \in Modes
    BY <1>4, <1>t DEF Commit, Staged
  <2>1. /\ pending' = [snap |-> snap, to |-> to]
        /\ pending' \in Commits /\ pending' # Absent
    BY <1>4, <2>0 DEF Commit, Commits
  <2>2. /\ state' = "commit-pending" /\ UNCHANGED <<record, window, snap, to, attempt>>
        /\ window /\ \A v \in Verifies : attempt[v] = "off"
    BY <1>4, <1>t DEF Commit, Callable, WindowInv
  <2> QED BY <1>t, <2>0, <2>1, <2>2 DEF EngineInv, EngineTypes, WindowInv, Staged
<1>5. CASE Abort \/ Rollback
  <2>1. record' \in Records
    BY <1>5, <1>t, RecordTypes DEF Abort, Rollback, Staged, EngineTypes
  <2> QED BY <1>5, <1>t, <2>1
          DEF Abort, Rollback, Callable, EngineInv, EngineTypes, WindowInv, Staged
<1>6. CASE Recover
  BY <1>6, <1>t DEF Recover, EngineInv, EngineTypes, WindowInv, Staged, Commits
<1>7. ASSUME NEW v \in Verifies, NEW o \in {"pass", "transient", "structural", "throws"},
             Settle(v, o)
      PROVE  EngineInv'
  <2>1. record' \in Records
    BY <1>7, <1>t, RecordTypes DEF Settle, Staged, EngineTypes, WindowInv
  <2>2. \A w \in Verifies : attempt'[w] = "off"
    BY <1>7, <1>t DEF Settle, EngineTypes, WindowInv
  <2> QED BY <1>7, <1>t, <2>1, <2>2
          DEF Settle, EngineInv, EngineTypes, WindowInv, Staged
<1>8. ASSUME NEW v \in Verifies, Verify(v) \/ OpenWindow(v) \/ DrainFailed(v)
      PROVE  EngineInv'
  <2>1. CASE Verify(v)
    <3>1. /\ state \in {"staged", "verified"} /\ UNCHANGED <<record, engineVars>>
          /\ \A w \in Verifies : attempt'[w] = IF w = v THEN "draining" ELSE "off"
          /\ attempt' \in [Verifies -> {"off", "draining", "testing"}]
      BY <2>1, <1>t DEF Verify, Callable, EngineTypes
    <3> QED BY <3>1, <1>t DEF engineVars, EngineInv, EngineTypes, WindowInv, Staged
  <2>2. CASE OpenWindow(v)
    <3>1. /\ UNCHANGED <<record, state, snap, to, pending>> /\ window' = TRUE
          /\ \A w \in Verifies : attempt'[w] = IF w = v THEN "testing" ELSE attempt[w]
          /\ attempt' \in [Verifies -> {"off", "draining", "testing"}]
          /\ attempt[v] # "off"
      BY <2>2, <1>t DEF OpenWindow, EngineTypes
    <3> QED BY <3>1, <1>t DEF EngineInv, EngineTypes, WindowInv, Staged
  <2>3. CASE DrainFailed(v)
    <3>1. /\ UNCHANGED <<record, engineVars>>
          /\ \A w \in Verifies : attempt'[w] = IF w = v THEN "off" ELSE attempt[w]
          /\ attempt' \in [Verifies -> {"off", "draining", "testing"}]
      BY <2>3, <1>t DEF DrainFailed, EngineTypes
    <3> QED BY <3>1, <1>t DEF engineVars, EngineInv, EngineTypes, WindowInv, Staged
  <2> QED BY <1>8, <2>1, <2>2, <2>3
<1>9. CASE /\ record' \in {record, Postured(record, "degraded")}
           /\ UNCHANGED <<engineVars, attempt>>
  <2>1. record' \in Records
    BY <1>9, <1>t, RecordTypes DEF EngineTypes, Postures
  <2> QED BY <1>9, <1>t, <2>1 DEF engineVars, EngineInv, EngineTypes, WindowInv, Staged
<1> QED BY <1>1, <1>2, <1>3, <1>4, <1>5, <1>6, <1>7, <1>8, <1>9
        DEF EngineMove, Commit, Resume

\* Every step moves the engine, or leaves it alone; only a verify's drain and
\* a restart open the window.
LEMMA NextMoves ==
  ASSUME [Next]_vars
  PROVE  /\ EngineMove
         /\ window' => window \/ drain' = NoDrain
<1>1. CASE EngineStep
  <2>1. EngineMove
    BY <1>1 DEF EngineStep, EngineMove
  <2>2. window' => window
    BY <1>1 DEF EngineStep, WritePosture, Stage, Commit, Complete, Resume, Abort,
         Rollback, Settle, engineVars
  <2> QED BY <2>1, <2>2
<1>2. CASE Restart
  BY <1>2 DEF Restart, EngineMove
<1>3. ASSUME NEW v \in Verifies, StartVerify(v)
      PROVE  EngineMove /\ UNCHANGED window
  BY <1>3 DEF StartVerify, EngineMove, Verify, engineVars
<1>4. CASE EndDrain
  BY <1>4 DEF EndDrain, EngineMove, modeVars
<1>5. CASE DrainThrows
  BY <1>5 DEF DrainThrows, EngineMove, modeVars
<1>6. CASE FetchFails
  BY <1>6 DEF FetchFails, EngineMove, engineVars
<1>7. CASE UNCHANGED modeVars
  BY <1>7 DEF modeVars, EngineMove, engineVars
<1>8. ASSUME NEW p \in Proposals, Enqueue(p) \/ WorldChanges(p) \/ RetryFires(p)
      PROVE  UNCHANGED modeVars
  BY <1>8 DEF Enqueue, WorldChanges, RetryFires
<1>9. ASSUME DrainStep, ~EndDrain PROVE UNCHANGED modeVars
  BY <1>9 DEF DrainStep, StartDrain, Examine, Fetched, Execute, Applied
<1>10. CASE UNCHANGED vars
  BY <1>10, <1>7 DEF vars
<1> QED BY <1>1, <1>2, <1>3, <1>4, <1>5, <1>6, <1>7, <1>8, <1>9, <1>10
        DEF Next, Rest, engineVars, modeVars

-----------------------------------------------------------------------------
(* The queue's steps                                                       *)

LEMMA WithoutType ==
  ASSUME NEW p, file \in Seq(Proposals), InFile(p)
  PROVE  Without(p) \in Seq(Proposals)
<1> DEFINE i == CHOOSE i \in 1 .. Len(file) : file[i] = p
<1>1. i \in 1 .. Len(file) /\ Len(file) \in Nat
  BY DEF InFile
<1>2. SubSeq(file, 1, i - 1) \in Seq(Proposals)
  <2>1. \A n \in 1 .. i - 1 : file[n] \in Proposals
    BY <1>1
  <2> QED BY <1>1, <2>1, SubSeqProperties
<1>3. SubSeq(file, i + 1, Len(file)) \in Seq(Proposals)
  <2>1. \A n \in i + 1 .. Len(file) : file[n] \in Proposals
    BY <1>1
  <2> QED BY <1>1, <2>1, SubSeqProperties
<1> QED BY <1>2, <1>3, ConcatProperties DEF Without

\* A drain looks at its own todo only.
LEMMA HeadType ==
  ASSUME QueueTypes, drain.todo # <<>>
  PROVE  Head(drain.todo) \in Proposals /\ Tail(drain.todo) \in Seq(Proposals)
BY HeadTailProperties DEF QueueTypes

LEMMA QueueStep == QueueInv /\ [Next]_vars => QueueInv'
<1> SUFFICES ASSUME QueueInv, [Next]_vars PROVE QueueInv'
  OBVIOUS
<1> USE QueueAssumption DEF history
<1> DEFINE p == Head(drain.todo)
<1>0. QueueTypes /\ hold = window /\ DrainInv /\ ReachInv
  BY DEF QueueInv
<1>w. window' => window \/ drain' = NoDrain
  BY NextMoves
<1>h. drain.todo # <<>> => p \in Proposals /\ Tail(drain.todo) \in Seq(Proposals)
  BY <1>0, HeadType
<1>d. drain \in [at : {"none", "next", "fetch", "apply", "applied"}, todo : Seq(Proposals)]
  BY <1>0 DEF QueueTypes
\* A drain that is not on its way to the target asks for nothing.
<1>i. ASSUME QueueTypes', hold' = window', drain'.at \in {"none", "next"},
             UNCHANGED <<executed, unanswered>>, receipts \subseteq receipts',
             drain.at = "applied" => p \in receipts'
      PROVE  QueueInv'
  <2>1. DrainInv'
    BY <1>i DEF DrainInv
  <2>2. ReachInv'
    BY <1>i, <1>0 DEF ReachInv, Unrecorded, QueueTypes
  <2> QED BY <1>i, <2>1, <2>2 DEF QueueInv
\* The drain stays where it is.
<1>k. ASSUME QueueTypes', hold' = window', UNCHANGED <<drain, receipts, executed, unanswered>>,
             drain.at \in {"fetch", "apply", "applied"} => InFile(p)' /\ kept'[p] = kept[p]
      PROVE  QueueInv'
  <2>1. drain.at \in {"apply", "applied"} => ~window'
    BY <1>k, <1>0, <1>w DEF DrainInv, NoDrain
  <2>2. DrainInv'
    BY <1>k, <2>1, <1>0 DEF DrainInv
  <2>3. ReachInv'
    BY <1>k, <1>0 DEF ReachInv, Unrecorded
  <2> QED BY <1>k, <2>2, <2>3 DEF QueueInv
<1>1. ASSUME NEW x \in Proposals, Enqueue(x) PROVE QueueInv'
  <2>1. file' \in Seq(Proposals) /\ \A y : InFile(y) => InFile(y)'
    BY <1>1, <1>0, AppendProperties DEF Enqueue, QueueTypes, InFile
  <2>2. QueueTypes'
    BY <1>1, <2>1, <1>0 DEF Enqueue, QueueTypes
  <2>3. hold' = window'
    BY <1>1, <1>0 DEF Enqueue, modeVars, engineVars
  <2>4. drain.at \in {"fetch", "apply", "applied"} => InFile(p) /\ p # x
    BY <1>1, <1>0 DEF Enqueue, DrainInv
  <2> QED BY <1>1, <2>1, <2>2, <2>3, <2>4, <1>k, <1>0 DEF Enqueue, QueueTypes
<1>2. ASSUME \/ \E x \in Proposals : WorldChanges(x) \/ RetryFires(x)
             \/ EngineStep
             \/ \E v \in Verifies : StartVerify(v)
             \/ UNCHANGED vars
      PROVE  QueueInv'
  <2>1. /\ UNCHANGED <<file, kept, receipts, drain, executed, unanswered>>
        /\ hold' = window'
    BY <1>2, <1>0 DEF WorldChanges, RetryFires, EngineStep, HoldHook, StartVerify, Verify,
       vars, queueVars, modeVars, engineVars
  <2>2. QueueTypes' /\ (InFile(p) => InFile(p)')
    BY <2>1, <1>0 DEF QueueTypes, InFile
  <2>3. drain.at \in {"fetch", "apply", "applied"} => InFile(p)
    BY <1>0 DEF DrainInv
  <2> QED BY <2>1, <2>2, <2>3, <1>k
<1>3. CASE StartDrain
  <2>1. /\ drain.at = "none" /\ drain'.at = "next" /\ hold' = window'
        /\ UNCHANGED <<file, kept, receipts, executed, unanswered>>
    BY <1>3, <1>0 DEF StartDrain, NoDrain, modeVars, engineVars
  <2>2. QueueTypes'
    BY <1>3, <1>0, <2>1 DEF StartDrain, QueueTypes
  <2> QED BY <2>1, <2>2, <1>i, <1>0 DEF QueueTypes
<1>4. CASE Examine
  <2>1. /\ drain.at = "next" /\ drain.todo # <<>> /\ hold' = window'
        /\ UNCHANGED <<file, kept, receipts, executed, unanswered>>
    BY <1>4, <1>0 DEF Examine, modeVars, engineVars
  <2>2. CASE Rests(p) /\ Onward
    <3>1. QueueTypes' /\ drain'.at = "next"
      BY <2>1, <2>2, <1>0, <1>h DEF Onward, QueueTypes
    <3> QED BY <2>1, <3>1, <1>i, <1>0 DEF QueueTypes
  <2>3. CASE ~Rests(p) /\ drain' = [drain EXCEPT !.at = "fetch"]
    <3>1. QueueTypes' /\ drain'.at = "fetch" /\ drain'.todo = drain.todo
      BY <2>1, <2>3, <1>0, <1>d DEF QueueTypes
    <3>2. DrainInv'
      BY <2>1, <2>3, <3>1 DEF DrainInv, Rests, InFile
    <3>3. ReachInv'
      BY <2>1, <3>1, <1>0 DEF ReachInv, Unrecorded
    <3> QED BY <2>1, <3>1, <3>2, <3>3 DEF QueueInv
  <2> QED BY <1>4, <2>2, <2>3 DEF Examine
<1>5. CASE FetchFails
  <2>1. /\ drain.at = "fetch" /\ drain.todo # <<>> /\ hold' = window'
        /\ UNCHANGED <<file, receipts, executed, unanswered>>
    BY <1>5, <1>0 DEF FetchFails, engineVars, DrainInv
  <2>2. QueueTypes' /\ drain'.at = "next"
    BY <1>5, <2>1, <1>0, <1>h DEF FetchFails, Onward, QueueTypes
  <2> QED BY <2>1, <2>2, <1>i, <1>0 DEF QueueTypes
<1>6. CASE Fetched
  <2>1. /\ drain.at = "fetch" /\ drain.todo # <<>> /\ hold' = window'
        /\ UNCHANGED <<executed, unanswered, window, hold>>
        /\ InFile(p) /\ p \in Proposals /\ p \notin StaleVerbs \ Surfaces
    BY <1>6, <1>0, <1>h DEF Fetched, modeVars, engineVars, DrainInv
  <2>2. file' \in Seq(Proposals)
    BY <1>6, <2>1, <1>0, WithoutType DEF Fetched, QueueTypes
  <2>3. receipts' \subseteq Proposals /\ receipts \subseteq receipts'
    BY <1>6, <2>1, <1>0 DEF Fetched, QueueTypes
  <2>4. kept' \in [Proposals -> {"staged", "blocked-degraded", "pending-reconfirm"}]
    BY <1>6, <1>0 DEF Fetched, QueueTypes
  <2>5. CASE Onward
    <3>1. QueueTypes' /\ drain'.at = "next"
      BY <2>1, <2>2, <2>3, <2>4, <2>5, <1>0, <1>h DEF Onward, QueueTypes
    <3> QED BY <2>1, <2>3, <3>1, <1>i, <1>0 DEF QueueTypes
  <2>6. CASE /\ p \notin Surfaces /\ world[p] /\ ~hold /\ p \notin receipts
             /\ drain' = [drain EXCEPT !.at = "apply"]
    <3>1. QueueTypes' /\ drain'.at = "apply" /\ drain'.todo = drain.todo
      BY <2>1, <2>2, <2>3, <2>4, <2>6, <1>0, <1>d DEF QueueTypes
    <3>2. kept'[p] = "staged" /\ UNCHANGED <<file, receipts>>
      BY <1>6, <2>1, <2>6, <1>0 DEF Fetched, QueueTypes
    <3>3. DrainInv'
      BY <2>1, <2>6, <3>1, <3>2, <1>0 DEF DrainInv, InFile
    <3>4. ReachInv'
      BY <2>1, <3>1, <3>2, <1>0 DEF ReachInv, Unrecorded
    <3> QED BY <2>1, <3>1, <3>3, <3>4 DEF QueueInv
  <2> QED BY <1>6, <2>5, <2>6 DEF Fetched
<1>7. CASE Execute
  <2>1. /\ drain.at = "apply" /\ drain.todo # <<>> /\ p \in Proposals
        /\ UNCHANGED <<file, kept, receipts, unanswered, hold, window>>
        /\ executed' = [executed EXCEPT ![p] = @ + 1]
        /\ drain' = [drain EXCEPT !.at = "applied"]
    BY <1>7, <1>0, <1>h DEF Execute, modeVars, engineVars, DrainInv
  <2>2. QueueTypes' /\ drain'.at = "applied" /\ drain'.todo = drain.todo
    <3>1. executed' \in [Proposals -> Nat]
      BY <2>1, <1>0 DEF QueueTypes
    <3>2. /\ drain' \in [at : {"none", "next", "fetch", "apply", "applied"},
                         todo : Seq(Proposals)]
          /\ drain'.at = "applied" /\ drain'.todo = drain.todo
      BY <2>1, <1>d
    <3> QED BY <2>1, <3>1, <3>2, <1>0 DEF QueueTypes
  <2>3. DrainInv'
    BY <2>1, <2>2, <1>0 DEF DrainInv, InFile
  <2>4. ReachInv'
    <3>1. /\ executed'[p] = executed[p] + 1 /\ Unrecorded(p)'
          /\ \A x \in Proposals : x # p => /\ executed'[x] = executed[x]
                                          /\ ~Unrecorded(x)
      BY <2>1, <2>2, <1>0 DEF QueueTypes, Unrecorded
    <3>2. p \notin receipts /\ ~Unrecorded(p)
      BY <2>1, <1>0 DEF DrainInv, Unrecorded
    <3>3. executed[p] <= unanswered[p]
      BY <2>1, <3>2, <1>0 DEF ReachInv
    <3>4. \A x \in Proposals : executed[x] \in Nat /\ unanswered[x] \in Nat
      BY <1>0 DEF QueueTypes
    <3> QED BY <2>1, <3>1, <3>3, <3>4, <1>0 DEF ReachInv
  <2> QED BY <2>1, <2>2, <2>3, <2>4, <1>0 DEF QueueInv
<1>8. CASE Applied
  <2>1. /\ drain.at = "applied" /\ drain.todo # <<>> /\ p \in Proposals /\ InFile(p)
        /\ UNCHANGED <<kept, executed, unanswered, hold, window>>
        /\ receipts' = receipts \cup {p} /\ file' = Without(p) /\ Onward
    BY <1>8, <1>0, <1>h DEF Applied, modeVars, engineVars, DrainInv
  <2>2. QueueTypes' /\ drain'.at = "next"
    BY <2>1, <1>0, <1>h, WithoutType DEF Onward, QueueTypes
  <2> QED BY <2>1, <2>2, <1>i, <1>0 DEF QueueTypes
<1>9. CASE EndDrain
  <2>1. /\ drain' = NoDrain /\ drain.at = "next" /\ hold' = window'
        /\ UNCHANGED <<file, kept, receipts, executed, unanswered>>
    BY <1>9, <1>0 DEF EndDrain, OpenWindow, modeVars, engineVars
  <2>2. QueueTypes' /\ drain'.at = "none"
    BY <2>1, <1>0 DEF NoDrain, QueueTypes
  <2> QED BY <2>1, <2>2, <1>i, <1>0 DEF QueueTypes
\* A drain that ends at the target has lost the answer of its proposal only.
<1>10. CASE DrainThrows \/ Restart
  <2>1. /\ drain' = NoDrain /\ hold' = window' /\ AnswerLost
        /\ UNCHANGED <<file, kept, receipts, executed>>
    <3>1. CASE DrainThrows
      BY <3>1, <1>0 DEF DrainThrows, DrainFailed, modeVars, engineVars
    <3>2. CASE Restart
      BY <3>2 DEF Restart, Recover
    <3> QED BY <1>10, <3>1, <3>2
  <2>2. /\ unanswered' \in [Proposals -> Nat]
        /\ \A x \in Proposals :
              /\ unanswered'[x] >= unanswered[x]
              /\ Unrecorded(x) => unanswered'[x] = unanswered[x] + 1
    <3>1. unanswered \in [Proposals -> Nat]
      BY <1>0 DEF QueueTypes
    <3>2. CASE drain.at = "applied"
      <4>1. /\ p \in Proposals
            /\ unanswered' = [unanswered EXCEPT ![p] = @ + 1]
        BY <3>2, <2>1, <1>0, <1>h DEF AnswerLost, DrainInv
      <4> QED BY <4>1, <3>1 DEF Unrecorded
    <3>3. CASE drain.at # "applied"
      <4>1. unanswered' = unanswered
        BY <3>3, <2>1 DEF AnswerLost
      <4> QED BY <4>1, <3>1, <3>3 DEF Unrecorded
    <3> QED BY <3>2, <3>3
  <2>3. QueueTypes' /\ drain'.at = "none"
    BY <2>1, <2>2, <1>0 DEF NoDrain, QueueTypes
  <2>4. DrainInv'
    BY <2>3 DEF DrainInv
  <2>5. ReachInv'
    BY <2>1, <2>2, <1>0 DEF ReachInv, QueueTypes
  <2> QED BY <2>1, <2>3, <2>4, <2>5 DEF QueueInv
<1> QED BY <1>1, <1>2, <1>3, <1>4, <1>5, <1>6, <1>7, <1>8, <1>9, <1>10
        DEF Next, DrainStep, Rest

-----------------------------------------------------------------------------
(* The theorems                                                            *)

LEMMA InitInv == Init => EngineInv /\ QueueInv
<1> SUFFICES ASSUME Init PROVE EngineInv /\ QueueInv
  OBVIOUS
<1> USE ModeAssumption, QueueAssumption DEF Init, ModeInit
<1> DEFINE blank == [mode |-> Absent, posture |-> Absent, state |-> Absent,
                     overlay |-> "old"]
<1>1. record \in Records
  <2>1. blank \in Records
    BY DEF Records
  <2>2. Confirmed(blank, "fleet") \in Records
    BY <2>1, RecordTypes DEF Modes
  <2>3. \A s \in Legacy : [blank EXCEPT !.state = s] \in Records
    BY DEF Records
  <2> QED BY <2>1, <2>2, <2>3 DEF InitialRecords
<1>2. EngineInv
  BY <1>1 DEF EngineInv, EngineTypes, WindowInv, Staged
<1>3. QueueInv
  <2>1. QueueTypes
    BY DEF QueueTypes, NoDrain
  <2>2. DrainInv
    BY DEF DrainInv, NoDrain
  <2>3. ReachInv
    BY DEF ReachInv
  <2> QED BY <2>1, <2>2, <2>3 DEF QueueInv
<1> QED BY <1>2, <1>3

LEMMA QueueInvariance == Spec => []QueueInv
BY InitInv, QueueStep, PTL DEF Spec

LEMMA EngineInvariance ==
  ASSUME ~Overlap
  PROVE  Spec => []EngineInv
<1>1. EngineInv /\ [Next]_vars => EngineInv'
  BY EngineStepInv, NextMoves
<1> QED BY InitInv, <1>1, PTL DEF Spec

(* applyProposal's tripwire, the receipts and the serial drains: however   *)
(* an identity is confirmed again, retried, held or released, the target   *)
(* is asked once for it, and once more only for each answer that was lost, *)
(* by an executor that rejects after the target applied or by a restart    *)
(* before the save.                                                        *)
THEOREM AppliesAreIdempotent == Spec => []AppliedOncePerAnswer
<1>1. QueueInv => AppliedOncePerAnswer
  BY DEF QueueInv, ReachInv, AppliedOncePerAnswer
<1> QED BY QueueInvariance, <1>1, PTL

(* runDrain: what reaches the target is no surface, has the contract's     *)
(* version and was not sent back to the human, at the moment it reaches it. *)
THEOREM OnlyExaminedReach == Spec => []NotForThisQueue
<1>1. QueueInv => NotForThisQueue
  BY DEF QueueInv, DrainInv, NotForThisQueue
<1> QED BY QueueInvariance, <1>1, PTL

(* queueHoldHook: no apply is on its way to the target while the window    *)
(* is open or a commit is pending, for any number of verifies and drains,  *)
(* when the engine's caller waits for its verify.                          *)
THEOREM AppliesWaitForTheWindow ==
  ASSUME ~Overlap
  PROVE  Spec => []NeverInterleaves
<1>1. EngineInv /\ QueueInv => NeverInterleaves
  BY DEF EngineInv, WindowInv, QueueInv, DrainInv, NeverInterleaves
<1> QED BY EngineInvariance, QueueInvariance, <1>1, PTL

(* onCommitWindow and recoverFromJournal: the hold covers the verified and *)
(* the pending commit, through halts and restarts, and the engine is       *)
(* pending exactly when its journal is.                                    *)
THEOREM HoldCovers ==
  ASSUME ~Overlap
  PROVE  Spec => []HoldCoversCommit
<1>1. EngineInv /\ QueueInv => HoldCoversCommit
  BY DEF EngineInv, WindowInv, QueueInv, HoldCoversCommit
<1> QED BY EngineInvariance, QueueInvariance, <1>1, PTL

-----------------------------------------------------------------------------
(* Only a commit moves the mode                                            *)

\* Of a record that carries no mode, the legacy state says standalone.
NewForm(r) == r.mode = Absent => r.state \in {Absent, "standalone"}

\* A posture write, and restoring a snapshot that agrees, leave the mode.
LEMMA ModeStays ==
  ASSUME NEW r \in Records, NewForm(r)
  PROVE  /\ \A x \in Postures : /\ ModeOf(Postured(r, x)) = ModeOf(r)
                                /\ Postured(r, x).mode = r.mode
                                /\ NewForm(Postured(r, x))
         /\ \A s \in Snapshots : /\ s.mode = ModeOf(r)
                                 /\ r.mode = Absent => s.state = "standalone"
                => /\ ModeOf(Restored(r, s)) = ModeOf(r)
                   /\ NewForm(Restored(r, s))
         /\ \A m \in Modes : LET x == [Confirmed(r, m) EXCEPT !.overlay = "new"]
                             IN ModeOf(x) = m /\ NewForm(x)
<1> USE ModeAssumption
<1>0. r.mode = Absent => ModeOf(r) = "standalone"
  BY DEF NewForm, ModeOf, Legacy, Modes
<1>1. ASSUME NEW x \in Postures
      PROVE  /\ ModeOf(Postured(r, x)) = ModeOf(r)
             /\ Postured(r, x).mode = r.mode
             /\ NewForm(Postured(r, x))
  <2>1. /\ Postured(r, x).mode = r.mode
        /\ Postured(r, x).state = LegacyOf(ModeOf(r), x)
    BY DEF Postured, Records
  <2>2. r.mode = Absent => Postured(r, x).state = "standalone"
    BY <2>1, <1>0 DEF LegacyOf
  <2> QED BY <2>1, <2>2, <1>0 DEF ModeOf, NewForm
<1>2. ASSUME NEW s \in Snapshots, s.mode = ModeOf(r), r.mode = Absent => s.state = "standalone"
      PROVE  ModeOf(Restored(r, s)) = ModeOf(r) /\ NewForm(Restored(r, s))
  <2>1. Restored(r, s).mode = r.mode /\ Restored(r, s).state = s.state
    BY <1>2 DEF Restored, Records
  <2> QED BY <1>2, <2>1, <1>0 DEF ModeOf, NewForm
<1>3. ASSUME NEW m \in Modes
      PROVE  LET x == [Confirmed(r, m) EXCEPT !.overlay = "new"]
             IN ModeOf(x) = m /\ NewForm(x)
  <2>1. [Confirmed(r, m) EXCEPT !.overlay = "new"].mode = m
    BY DEF Confirmed, Records
  <2> QED BY <2>1 DEF ModeOf, NewForm
<1> QED BY <1>1, <1>2, <1>3

\* What a transition would restore agrees with the record.
SnapInv ==
    /\ NewForm(record)
    /\ state \in {"staged", "verified", "commit-pending"} =>
          /\ snap.mode = Mode
          /\ record.mode = Absent => snap.state = "standalone"

\* The mode as it should move.
ModeMove == Mode' # Mode => /\ state \in {"verified", "commit-pending"}
                            /\ state' = "committed"
                            /\ Mode' = to

LEMMA ModeStep ==
  ASSUME ~Overlap, EngineInv, SnapInv, EngineMove
  PROVE  SnapInv' /\ ModeMove
<1> USE ModeAssumption DEF Mode
<1>0. /\ EngineTypes /\ WindowInv /\ Staged /\ record \in Records /\ NewForm(record)
      /\ state \in {"staged", "verified", "commit-pending"} =>
            /\ snap \in Snapshots /\ snap.mode = ModeOf(record)
            /\ record.mode = Absent => snap.state = "standalone"
  BY DEF EngineInv, EngineTypes, SnapInv, Staged
\* The mode stays, and so does what is staged.
<1>1. ASSUME NEW x \in Postures, record' = Postured(record, x),
             UNCHANGED <<state, snap>>
      PROVE  SnapInv' /\ ModeMove
  BY <1>1, <1>0, ModeStays DEF SnapInv, ModeMove
<1>2. ASSUME UNCHANGED <<record, snap>>,
             state' \in {"staged", "verified", "commit-pending"} =>
                state \in {"staged", "verified", "commit-pending"}
      PROVE  SnapInv' /\ ModeMove
  BY <1>2, <1>0 DEF SnapInv, ModeMove
<1>3. ASSUME state \in {"staged", "verified", "commit-pending"},
             record' = Restored(record, snap), state' = "rolled-back"
      PROVE  SnapInv' /\ ModeMove
  BY <1>3, <1>0, ModeStays DEF SnapInv, ModeMove
<1>4. ASSUME NEW x \in Postures, WritePosture(x) PROVE SnapInv' /\ ModeMove
  BY <1>1, <1>4 DEF WritePosture, engineVars
<1>5. CASE Stage
  <2>1. /\ record' = record /\ snap'.mode = ModeOf(record)
        /\ snap'.state = IF record.state # Absent THEN record.state
                         ELSE LegacyOf(ModeOf(record), PostureOf(record))
    BY <1>5 DEF Stage
  <2>2. record.mode = Absent => snap'.state = "standalone"
    BY <2>1, <1>0 DEF NewForm, ModeOf, LegacyOf, Legacy, Modes
  <2> QED BY <2>1, <2>2, <1>0 DEF SnapInv, ModeMove
<1>6. CASE Complete /\ state \in {"verified", "commit-pending"}
  BY <1>6, <1>0, ModeStays DEF Complete, SnapInv, ModeMove, Staged
<1>7. CASE Commit /\ ~Complete
  BY <1>7, <1>2 DEF Commit
<1>8. CASE Abort \/ Rollback
  BY <1>8, <1>3 DEF Abort, Rollback
<1>9. CASE Recover
  <2>1. /\ record' = record
        /\ state' = "commit-pending" => pending # Absent /\ snap' = pending.snap
        /\ state' \in {"idle", "commit-pending"}
    BY <1>9 DEF Recover
  <2>2. pending # Absent => state = "commit-pending" /\ pending.snap = snap
    BY <1>0 DEF WindowInv, Staged
  <2> QED BY <2>1, <2>2, <1>0 DEF SnapInv, ModeMove
<1>10. ASSUME NEW v \in Verifies,
              NEW o \in {"pass", "transient", "structural", "throws"}, Settle(v, o)
       PROVE  SnapInv' /\ ModeMove
  <2>1. state \in {"staged", "verified"}
    BY <1>10, <1>0 DEF Settle, WindowInv
  <2>2. \/ record' = Restored(record, snap) /\ state' = "rolled-back"
        \/ UNCHANGED <<record, snap>>
    BY <1>10 DEF Settle
  <2> QED BY <2>1, <2>2, <1>2, <1>3
<1>11. ASSUME NEW v \in Verifies, Verify(v) \/ OpenWindow(v) \/ DrainFailed(v)
       PROVE  SnapInv' /\ ModeMove
  BY <1>11, <1>2 DEF Verify, OpenWindow, DrainFailed, engineVars
<1>12. CASE /\ record' \in {record, Postured(record, "degraded")}
            /\ UNCHANGED <<engineVars, attempt>>
  BY <1>12, <1>1, <1>2 DEF engineVars, Postures
<1> QED BY <1>4, <1>5, <1>6, <1>7, <1>8, <1>9, <1>10, <1>11, <1>12
        DEF EngineMove, Commit, Resume

(* confirmMode, writePosture and restoreModeScoped: for a record written   *)
(* in the new form, no posture, drain, rollback or recovery moves the mode; *)
(* a commit moves it, to the confirmed one, when the engine's caller waits *)
(* for its verify.                                                         *)
THEOREM CommitMovesMode ==
  ASSUME ~Overlap, ~PreSplit
  PROVE  Spec => ModeMovesOnlyByCommit
<1>1. Init => SnapInv
  <2>1. Init => /\ state = "idle"
                /\ \/ record.mode = Absent /\ record.state = Absent
                   \/ record.mode = "fleet"
    <3> DEFINE blank == [mode |-> Absent, posture |-> Absent, state |-> Absent,
                         overlay |-> "old"]
    <3>1. InitialRecords = {blank, Confirmed(blank, "fleet")}
      BY DEF InitialRecords
    <3>2. Confirmed(blank, "fleet").mode = "fleet"
      BY DEF Confirmed
    <3> QED BY <3>1, <3>2 DEF Init, ModeInit
  <2> QED BY <2>1, ModeAssumption DEF SnapInv, NewForm, Modes
<1>2. EngineInv /\ SnapInv /\ [Next]_vars => SnapInv' /\ ModeMove
  BY ModeStep, NextMoves
<1>3. EngineInv /\ SnapInv /\ [Next]_vars =>
         [Mode' # Mode => /\ state \in {"verified", "commit-pending"}
                          /\ state' = "committed"
                          /\ Mode' = to]_vars
  BY <1>2 DEF ModeMove
<1> QED BY EngineInvariance, <1>1, <1>2, <1>3, PTL DEF Spec, ModeMovesOnlyByCommit
=============================================================================
