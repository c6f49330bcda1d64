---------------------------- MODULE ProposalQueue ----------------------------
(***************************************************************************)
(* amicode_service/proposal_queue.ts composed with the mode engine: staged *)
(* proposals drain at the engine's verify entry (queueDrainHook), applies  *)
(* are held while its verify-to-commit window is open (queueHoldHook), and *)
(* the window's closing starts a release drain.                            *)
(*                                                                         *)
(* The store file changes only together with the memory it mirrors, so one *)
(* variable stands for both, and a restart loses what was in flight only.  *)
(* Drains are chained; a drain suspends at the fetch of a proposal's truth *)
(* and at the executor.  When the drain of a verify ends, the engine opens *)
(* its window before a fetch of the next drain can return: both wait for   *)
(* the same promise and the fetch needs a turn of its own.  Hence the two  *)
(* are one step.                                                           *)
(***************************************************************************)
EXTENDS ModeTransition

CONSTANTS
    Proposals,    \* portable identities: content hash and confirm stamp
    Surfaces,     \* the ones that only surface a structural signal
    StaleVerbs,   \* the ones that carry another contract version
    maxRetries,   \* fetch attempts per proposal
    MaxWorld,     \* changes of the world, failed fetches, executor failures
    MaxDrains     \* drains waiting on the activity chain

ASSUME QueueAssumption ==
    /\ Surfaces \subseteq Proposals /\ StaleVerbs \subseteq Proposals
    /\ maxRetries \in Nat \ {0}
    /\ MaxWorld \in Nat /\ MaxDrains \in Nat

VARIABLES
    file,      \* the staged proposals in the order they were queued
    kept,      \* [p] its ProposalState
    attempts,  \* [p] failed fetches so far
    receipts,  \* identities with an apply receipt
    chain,     \* activity: who asked for the drains that are not over
    drain,     \* the running drain: where it is and what it has yet to examine
    hold,      \* holdActive
    retry,     \* [p] retry timers that are armed
    world,     \* [p] the truth the precondition of p expects
    executed,  \* [p] external: how often the apply target was asked to apply p
    held,      \* history: proposals held and not examined since
    trouble,   \* changes of the world and failures so far
    thrown,    \* history: an executor threw
    restarted, \* history: the process has restarted
    unanswered \* history: [p] executions whose answer the queue never got

queueVars == <<file, kept, attempts, receipts, chain, drain, hold, retry, world,
               executed, held, trouble, thrown, restarted, unanswered>>
vars == <<modeVars, queueVars>>

Manual == "manual"
Release == "release"
Requesters == Verifies \cup {Manual, Release}
NoDrain == [at |-> "none", todo |-> <<>>]

TypeOK ==
    /\ ModeTypeOK
    /\ file \in Seq(Proposals) /\ Len(file) <= Cardinality(Proposals)
    /\ kept \in [Proposals -> {"staged", "blocked-degraded", "pending-reconfirm"}]
    /\ attempts \in [Proposals -> 0 .. maxRetries]
    /\ receipts \subseteq Proposals
    /\ chain \in Seq(Requesters)
    /\ drain.at \in {"none", "next", "fetch", "apply", "applied"}
    /\ drain.todo \in Seq(Proposals)
    /\ hold \in BOOLEAN
    /\ retry \in [Proposals -> 0 .. maxRetries]
    /\ world \in [Proposals -> BOOLEAN]
    /\ executed \in [Proposals -> Nat]
    /\ held \subseteq Proposals
    /\ trouble \in 0 .. MaxWorld
    /\ thrown \in BOOLEAN
    /\ restarted \in BOOLEAN
    /\ unanswered \in [Proposals -> Nat]

Init ==
    /\ ModeInit
    /\ file = <<>>
    /\ kept = [p \in Proposals |-> "staged"]
    /\ attempts = [p \in Proposals |-> 0]
    /\ receipts = {}
    /\ chain = <<>>
    /\ drain = NoDrain
    /\ hold = FALSE
    /\ retry = [p \in Proposals |-> 0]
    /\ world = [p \in Proposals |-> TRUE]
    /\ executed = [p \in Proposals |-> 0]
    /\ held = {}
    /\ trouble = 0
    /\ thrown = FALSE
    /\ restarted = FALSE
    /\ unanswered = [p \in Proposals |-> 0]

InFile(p) == \E i \in 1 .. Len(file) : file[i] = p
\* The filter that removes a proposal: an identity is in the file once.
Without(p) == LET i == CHOOSE i \in 1 .. Len(file) : file[i] = p
              IN SubSeq(file, 1, i - 1) \o SubSeq(file, i + 1, Len(file))
history == <<thrown, restarted, unanswered>>
Trouble == trouble < MaxWorld /\ trouble' = trouble + 1

-----------------------------------------------------------------------------
(* The queue on its own                                                    *)

(* enqueue: a human confirms p, or the classifier emits a signal; what is  *)
(* staged or has a receipt already is not recorded again.                  *)
Enqueue(p) ==
    /\ ~InFile(p) /\ p \notin receipts
    /\ file' = Append(file, p)
    /\ kept' = [kept EXCEPT ![p] = "staged"]
    /\ attempts' = [attempts EXCEPT ![p] = 0]
    /\ UNCHANGED <<modeVars, receipts, chain, drain, hold, retry, world,
                   executed, held, trouble, history>>

\* External: the truth that p's precondition claims changes.
WorldChanges(p) ==
    /\ Trouble
    /\ world' = [world EXCEPT ![p] = ~@]
    /\ UNCHANGED <<modeVars, file, kept, attempts, receipts, chain, drain, hold,
                   retry, executed, held, history>>

\* A retry timer fires: one more drain on the chain.
RetryFires(p) ==
    /\ retry[p] > 0 /\ Len(chain) < MaxDrains
    /\ retry' = [retry EXCEPT ![p] = @ - 1]
    /\ chain' = Append(chain, Manual)
    /\ UNCHANGED <<modeVars, file, kept, attempts, receipts, drain, hold, world,
                   executed, held, trouble, history>>

\* runDrain examines a snapshot of the file.
StartDrain ==
    /\ drain = NoDrain /\ chain # <<>>
    /\ drain' = [at |-> "next", todo |-> file]
    /\ UNCHANGED <<modeVars, file, kept, attempts, receipts, chain, hold, retry,
                   world, executed, held, trouble, history>>

\* Mutant: a drain does not look at the contract version.
RestsAnyVersion(p) ==
    \/ ~InFile(p)
    \/ kept[p] = "pending-reconfirm"
    \/ kept[p] = "blocked-degraded" /\ attempts[p] >= maxRetries

(* What a drain passes over: removed meanwhile, waiting for the human, out *)
(* of retries, or rejected for its contract version.                       *)
Rests(p) ==
    \/ ~InFile(p)
    \/ kept[p] = "pending-reconfirm"
    \/ kept[p] = "blocked-degraded" /\ attempts[p] >= maxRetries
    \/ p \in StaleVerbs \ Surfaces

\* The drain goes on after the proposal it examined.
Onward == drain' = [at |-> "next", todo |-> Tail(drain.todo)]

Examine ==
    /\ drain.at = "next" /\ drain.todo # <<>>
    /\ LET p == Head(drain.todo)
       IN IF Rests(p) THEN /\ Onward
                           /\ held' = held \ {p}
                      ELSE /\ drain' = [drain EXCEPT !.at = "fetch"]
                           /\ UNCHANGED held
    /\ UNCHANGED <<modeVars, file, kept, attempts, receipts, chain, hold, retry,
                   world, executed, trouble, history>>

\* Mutant: a failed fetch blocks the proposal and arms no timer.
FetchFailsUnarmed ==
    LET p == Head(drain.todo)
    IN /\ drain.at = "fetch" /\ Trouble
       /\ kept' = [kept EXCEPT ![p] = "blocked-degraded"]
       /\ attempts' = [attempts EXCEPT ![p] = @ + 1]
       /\ record' = Postured(record, "degraded")
       /\ held' = held \ {p}
       /\ Onward
       /\ UNCHANGED <<engineVars, attempt, writes, file, receipts, chain, hold,
                      retry, world, executed, history>>

\* The truth cannot be fetched: blocked, posture degraded, bounded retry.
FetchFails ==
    LET p == Head(drain.todo)
    IN /\ drain.at = "fetch" /\ Trouble
       /\ kept' = [kept EXCEPT ![p] = "blocked-degraded"]
       /\ attempts' = [attempts EXCEPT ![p] = @ + 1]
       /\ retry' = [retry EXCEPT ![p] =
                       IF attempts[p] + 1 < maxRetries THEN @ + 1 ELSE @]
       /\ record' = Postured(record, "degraded")
       /\ held' = held \ {p}
       /\ Onward
       /\ UNCHANGED <<engineVars, attempt, writes, file, receipts, chain, hold,
                      world, executed, history>>

\* Mutant: the hold is not looked at once the truth has been fetched.
FetchedIgnoresHold ==
    LET p == Head(drain.todo)
    IN /\ drain.at = "fetch"
       /\ kept' = [kept EXCEPT ![p] = IF world[p] \/ p \in Surfaces
                                         THEN "staged" ELSE "pending-reconfirm"]
       /\ IF p \in Surfaces \cup receipts \/ ~world[p] THEN Onward
             ELSE drain' = [drain EXCEPT !.at = "apply"]
       /\ held' = held \ {p}
       /\ UNCHANGED <<modeVars, file, receipts, attempts, chain, hold, retry,
                      world, executed, trouble, history>>

(* The truth arrived: a surface is kept while its claim holds and resolved *)
(* when not; a changed precondition sends the proposal back to the human;  *)
(* a good one is applied unless it has a receipt (applyProposal's          *)
(* tripwire), or held while the window is open.                            *)
Fetched ==
    LET p == Head(drain.todo)
        resolved == p \in Surfaces /\ ~world[p]
        good == p \notin Surfaces /\ world[p]
    IN /\ drain.at = "fetch"
       /\ kept' = [kept EXCEPT ![p] = IF world[p] \/ p \in Surfaces
                                         THEN "staged" ELSE "pending-reconfirm"]
       /\ receipts' = IF resolved THEN receipts \cup {p} ELSE receipts
       /\ file' = IF resolved THEN Without(p) ELSE file
       /\ IF good /\ ~hold /\ p \notin receipts
             THEN drain' = [drain EXCEPT !.at = "apply"] ELSE Onward
       /\ held' = IF good /\ hold THEN held \cup {p} ELSE held \ {p}
       /\ UNCHANGED <<modeVars, attempts, chain, hold, retry, world, executed,
                      trouble, history>>

\* External: the apply target executes p.
Execute ==
    /\ drain.at = "apply"
    /\ executed' = [executed EXCEPT ![Head(drain.todo)] = @ + 1]
    /\ drain' = [drain EXCEPT !.at = "applied"]
    /\ UNCHANGED <<modeVars, file, kept, attempts, receipts, chain, hold, retry,
                   world, held, trouble, history>>

\* Mutant: the proposal is removed and no receipt is kept.
AppliedUnrecorded ==
    LET p == Head(drain.todo)
    IN /\ drain.at = "applied"
       /\ file' = Without(p)
       /\ Onward
       /\ UNCHANGED <<modeVars, kept, attempts, receipts, chain, hold, retry,
                      world, executed, held, trouble, history>>

\* The executor returned: the receipt and the removal are saved together.
Applied ==
    LET p == Head(drain.todo)
    IN /\ drain.at = "applied"
       /\ receipts' = receipts \cup {p}
       /\ file' = Without(p)
       /\ Onward
       /\ UNCHANGED <<modeVars, kept, attempts, chain, hold, retry, world,
                      executed, held, trouble, history>>

-----------------------------------------------------------------------------
(* The two machines together                                               *)

\* What the engine's window does to the queue: queueHoldHook.
HoldHook ==
    /\ hold' = window'
    /\ chain' = IF window /\ ~window' THEN Append(chain, Release) ELSE chain
    /\ UNCHANGED <<file, kept, attempts, receipts, drain, retry, world, executed,
                   held, trouble, history>>

\* An engine verb, with the window hook it fires.
EngineStep ==
    /\ \/ \E x \in Postures : WritePosture(x)
       \/ Stage \/ Commit \/ Resume \/ Abort \/ Rollback
       \/ \E v \in Verifies, o \in {"pass", "transient", "structural", "throws"} :
             Settle(v, o)
    /\ HoldHook

\* A verify begins: queueDrainHook chains a drain.
StartVerify(v) ==
    /\ Len(chain) < MaxDrains
    /\ Verify(v)
    /\ chain' = Append(chain, v)
    /\ UNCHANGED <<file, kept, attempts, receipts, drain, hold, retry, world,
                   executed, held, trouble, history>>

\* A drain is over; the verify that waits for it opens its window.
EndDrain ==
    /\ drain.at = "next" /\ drain.todo = <<>>
    /\ drain' = NoDrain
    /\ chain' = Tail(chain)
    /\ IF Head(chain) \in Verifies
          THEN OpenWindow(Head(chain)) /\ hold' = TRUE
          ELSE UNCHANGED <<modeVars, hold>>
    /\ UNCHANGED <<file, kept, attempts, receipts, retry, world, executed, held,
                   trouble, history>>

\* An answer is lost: the target has applied p and the queue does not know.
AnswerLost ==
    unanswered' = IF drain.at = "applied"
                  THEN [unanswered EXCEPT ![Head(drain.todo)] = @ + 1]
                  ELSE unanswered

(* The executor throws, before the target has applied the proposal or      *)
(* after it: the drain rejects and leaves the rest unexamined, and the     *)
(* proposal stays staged without a receipt.                                *)
DrainThrows ==
    /\ drain.at \in {"apply", "applied"} /\ Trouble
    /\ drain' = NoDrain
    /\ chain' = Tail(chain)
    /\ IF Head(chain) \in Verifies THEN DrainFailed(Head(chain))
                                   ELSE UNCHANGED modeVars
    /\ thrown' = TRUE
    /\ AnswerLost
    /\ UNCHANGED <<file, kept, attempts, receipts, hold, retry, world, executed,
                   held, restarted>>

\* The process restarts: a fresh engine and queue on what was saved.
Restart ==
    /\ Recover
    /\ hold' = (pending # Absent)
    /\ chain' = <<>>
    /\ drain' = NoDrain
    /\ retry' = [p \in Proposals |-> 0]
    /\ held' = {}
    /\ restarted' = TRUE
    /\ AnswerLost
    /\ UNCHANGED <<file, kept, attempts, receipts, world, executed, trouble,
                   thrown>>

\* Nothing left to do but for the human.
Rest == chain = <<>> /\ UNCHANGED vars

DrainStep == StartDrain \/ Examine \/ Fetched \/ Execute \/ Applied \/ EndDrain

Next ==
    \/ \E p \in Proposals : Enqueue(p) \/ WorldChanges(p) \/ RetryFires(p)
    \/ EngineStep
    \/ \E v \in Verifies : StartVerify(v)
    \/ DrainStep \/ FetchFails \/ DrainThrows
    \/ Restart \/ Rest

\* Fetches and executors settle, timers fire; humans and transports may not act.
Fairness ==
    /\ WF_vars(DrainStep)
    /\ \A p \in Proposals : WF_vars(RetryFires(p))

Spec == Init /\ [][Next]_vars /\ Fairness

-----------------------------------------------------------------------------
(* Properties                                                              *)

(* The serialization hold: "a held apply never executes against a          *)
(* half-committed mode transition".  No apply is on its way to the target  *)
(* while the window is open or the journal has a commit pending, whichever *)
(* drain sent it and whenever it started.                                  *)
NeverInterleaves ==
    drain.at \in {"apply", "applied"} => ~window /\ pending = Absent

(* onCommitWindow: from a passed attach test until the commit, the abort   *)
(* or the rollback, the queue holds its applies, also through a second     *)
(* verify, a drain that throws, a halt in the commit and a restart; and    *)
(* the engine is pending exactly when the journal is.                      *)
HoldCoversCommit ==
    /\ state \in {"verified", "commit-pending"} => hold
    /\ state = "commit-pending" <=> pending # Absent

(* "Only a human confirm mutates it": the mode changes only when a staged  *)
(* transition that passed its attach test commits, to the confirmed mode,  *)
(* whatever postures are written, drains run or engines recover.           *)
ModeMovesOnlyByCommit ==
    [][Mode' # Mode => /\ state \in {"verified", "commit-pending"}
                       /\ state' = "committed"
                       /\ Mode' = to]_vars

(* "APPLIES ARE IDEMPOTENT": a confirmed identity reaches the apply target *)
(* once, and once more only for an apply whose answer the queue never got  *)
(* (the executor rejected although the target had applied, or the process  *)
(* restarted before the save), however often it is confirmed again,        *)
(* retried, held or released.                                              *)
AppliedOncePerAnswer ==
    \A p \in Proposals : executed[p] <= 1 + unanswered[p]

(* A proposal sent back to the human is not applied any more, and neither  *)
(* is a surface or a proposal of another contract version.                 *)
NotForThisQueue ==
    drain.at \in {"apply", "applied"} =>
        LET p == Head(drain.todo)
        IN p \notin Surfaces \cup StaleVerbs /\ kept[p] = "staged"

(* "Blocked-degraded NEVER WEDGES the drain": the drains come to an end    *)
(* again and again; by then what was held waits for an open window only,   *)
(* and what is blocked has used up its retries, unless a restart forgot    *)
(* its timer or a drain that threw passed it over.                         *)
QueueComesToRest ==
    []<>(/\ chain = <<>>
         /\ \A p \in Proposals :
               /\ p \in held => window \/ thrown
               /\ InFile(p) /\ kept[p] = "blocked-degraded" =>
                     attempts[p] >= maxRetries \/ restarted \/ thrown)
=============================================================================
