--------------------------- MODULE ModeTransition ---------------------------
(***************************************************************************)
(* amicode_service/attach_state.ts: the attach-state record with its mode, *)
(* its posture and the frozen legacy field, the ModeMachine that writes    *)
(* it, and the two-phase engine that stages, verifies and commits a change *)
(* of mode.                                                                *)
(*                                                                         *)
(* The engine's verbs are synchronous, so each is one step; a verify waits *)
(* twice, for the drain hook and for the attach test, and anything may     *)
(* happen meanwhile.  Of the mode journal only what recovery looks for is  *)
(* kept: the commit-pending entry that no later entry resolves.  The       *)
(* values of the mode-scoped overlay fields are one field with two values. *)
(***************************************************************************)
EXTENDS Integers, Sequences, FiniteSets

CONSTANTS
    Verifies,   \* calls of verify(), each is made again once it has settled
    Overlap,    \* may the engine's verbs be called while a verify waits?
    PreSplit,   \* may the record stem from before mode and posture were split?
    MaxWrites,  \* transitions staged, posture writes and restarts
    Absent      \* a field that is not there, no snapshot

Modes    == {"standalone", "fleet"}
Postures == {"ok", "degraded", "hub-down"}
Legacy   == {"fleet", "degraded", "standalone"}
Snapshots == [mode : Modes, state : Legacy, overlay : {"old", "new"}]

ASSUME ModeAssumption ==
    /\ Overlap \in BOOLEAN /\ PreSplit \in BOOLEAN
    /\ MaxWrites \in Nat
    /\ Absent \notin Modes \cup Postures \cup Legacy
    /\ Absent \notin Snapshots /\ Absent \notin [snap : Snapshots, to : Modes]

VARIABLES
    record,   \* the attach-state record: mode, posture, state, overlay
    state,    \* the engine's stateValue
    window,   \* windowOpenValue: the verify-to-commit window is open
    snap,     \* snapshotValue: the mode-scoped fields when staged
    to,       \* the mode the confirmed proposal leads to
    pending,  \* the journal's unresolved commit-pending entry, or Absent
    attempt,  \* [v] where the verify call v stands
    writes    \* bounded events so far

engineVars == <<state, window, snap, to, pending>>
modeVars == <<record, engineVars, attempt, writes>>

ModeTypeOK ==
    /\ record \in [mode : Modes \cup {Absent}, posture : Postures \cup {Absent},
                   state : Legacy \cup {Absent}, overlay : {"old", "new"}]
    /\ state \in {"idle", "staged", "verified", "commit-pending", "committed",
                  "rolled-back"}
    /\ window \in BOOLEAN
    /\ snap \in Snapshots \cup {Absent}
    /\ to \in Modes \cup {Absent}
    /\ pending \in [snap : Snapshots, to : Modes] \cup {Absent}
    /\ attempt \in [Verifies -> {"off", "draining", "testing"}]
    /\ writes \in 0 .. MaxWrites

Once == writes < MaxWrites /\ writes' = writes + 1

-----------------------------------------------------------------------------
(* The record                                                              *)

\* resolveAttachState: the new fields first, the legacy values mapped.
ModeOf(r) == IF r.mode # Absent THEN r.mode
             ELSE IF r.state \in {"fleet", "degraded"} THEN "fleet"
             ELSE "standalone"
PostureOf(r) == IF r.posture # Absent THEN r.posture
                ELSE IF r.state = "degraded" THEN "degraded"
                ELSE IF r.state = "standalone" THEN "hub-down"
                ELSE "ok"

\* legacyStateOf: what readers from before the split see.
LegacyOf(mode, posture) ==
    IF mode = "standalone" \/ posture = "hub-down" THEN "standalone"
    ELSE IF posture = "degraded" THEN "degraded"
    ELSE "fleet"

Mode == ModeOf(record)

\* Mutant: the transport's hub-down entry exits the fleet mode.
PosturedExits(r, posture) ==
    LET mode == IF posture = "hub-down" THEN "standalone" ELSE ModeOf(r)
    IN [r EXCEPT !.mode = mode, !.posture = posture,
                 !.state = LegacyOf(mode, posture)]

\* writePosture: the posture and its projection, never the mode.
Postured(r, posture) ==
    [r EXCEPT !.posture = posture, !.state = LegacyOf(ModeOf(r), posture)]

\* confirmMode: the mode and its projection.
Confirmed(r, mode) ==
    [r EXCEPT !.mode = mode, !.state = LegacyOf(mode, PostureOf(r))]

\* restoreModeScoped: field by field, what is equal is not written.
Restored(r, s) ==
    LET moded == IF ModeOf(r) = s.mode THEN r ELSE Confirmed(r, s.mode)
    IN [moded EXCEPT !.state = s.state, !.overlay = s.overlay]

-----------------------------------------------------------------------------
InitialRecords ==
    LET blank == [mode |-> Absent, posture |-> Absent, state |-> Absent,
                  overlay |-> "old"]
    IN {blank, Confirmed(blank, "fleet")}
       \cup (IF PreSplit THEN {[blank EXCEPT !.state = s] : s \in Legacy} ELSE {})

ModeInit ==
    /\ record \in InitialRecords
    /\ state = "idle"
    /\ window = FALSE
    /\ snap = Absent
    /\ to = Absent
    /\ pending = Absent
    /\ attempt = [v \in Verifies |-> "off"]
    /\ writes = 0

\* Does the caller wait for a verify before it calls another verb?
Callable == Overlap \/ \A v \in Verifies : attempt[v] = "off"

\* The transport classifier writes the posture and its projection.
WritePosture(posture) ==
    /\ Once
    /\ posture # PostureOf(record)
    /\ record' = Postured(record, posture)
    /\ UNCHANGED <<engineVars, attempt>>

\* stage: the snapshot first, then the journal; no field is written.
Stage ==
    /\ Callable /\ Once
    /\ state \notin {"staged", "verified", "commit-pending"}
    /\ state' = "staged"
    /\ to' = IF Mode = "fleet" THEN "standalone" ELSE "fleet"
    /\ snap' = [mode |-> Mode, overlay |-> record.overlay,
                state |-> IF record.state # Absent THEN record.state
                             ELSE LegacyOf(Mode, PostureOf(record))]
    /\ UNCHANGED <<record, window, pending, attempt>>

\* verify: allowed from staged and verified; first the drain hook.
Verify(v) ==
    /\ Callable
    /\ state \in {"staged", "verified"}
    /\ attempt[v] = "off"
    /\ attempt' = [attempt EXCEPT ![v] = "draining"]
    /\ UNCHANGED <<record, engineVars, writes>>

\* The drain hook of v returned: the window opens, the attach test starts.
OpenWindow(v) ==
    /\ attempt[v] = "draining"
    /\ attempt' = [attempt EXCEPT ![v] = "testing"]
    /\ window' = TRUE
    /\ UNCHANGED <<record, state, snap, to, pending, writes>>

\* The drain hook of v threw: nothing is written, the transition stays.
DrainFailed(v) ==
    /\ attempt[v] = "draining"
    /\ attempt' = [attempt EXCEPT ![v] = "off"]
    /\ UNCHANGED <<record, engineVars, writes>>

(* The attach test of v settles or the budget expires, which counts as     *)
(* transient.  A test that throws changes nothing.                         *)
Settle(v, outcome) ==
    /\ attempt[v] = "testing"
    /\ attempt' = [attempt EXCEPT ![v] = "off"]
    /\ state' = CASE outcome = "pass"       -> "verified"
                  [] outcome = "transient"  -> "staged"
                  [] outcome = "structural" -> "rolled-back"
                  [] OTHER                  -> state
    /\ window' = (window /\ outcome \in {"pass", "throws"})
    /\ record' = IF outcome = "structural" THEN Restored(record, snap) ELSE record
    /\ UNCHANGED <<snap, to, pending, writes>>

\* Mutant: the commit does not resolve its entry in the journal.
CompleteUnjournaled ==
    /\ record' = [Confirmed(record, to) EXCEPT !.overlay = "new"]
    /\ state' = "committed"
    /\ window' = FALSE
    /\ UNCHANGED <<snap, to, pending, attempt, writes>>

\* completeCommit: the mode, the overlay fields, the journal, the window.
Complete ==
    /\ record' = [Confirmed(record, to) EXCEPT !.overlay = "new"]
    /\ state' = "committed"
    /\ pending' = Absent
    /\ window' = FALSE
    /\ UNCHANGED <<snap, to, attempt, writes>>

(* commit: journal commit-pending, then complete, unless it is halted in   *)
(* between.  A halt before the journal entry leaves everything as it was.  *)
Commit ==
    /\ Callable
    /\ state = "verified"
    /\ \/ Complete
       \/ /\ pending' = [snap |-> snap, to |-> to]
          /\ state' = "commit-pending"
          /\ UNCHANGED <<record, window, snap, to, attempt, writes>>

\* resume, and a pending transition resolved with "resume".
Resume ==
    /\ Callable
    /\ state = "commit-pending"
    /\ Complete

\* A pending transition resolved with "abort", by choice or by force.
Abort ==
    /\ Callable
    /\ state = "commit-pending"
    /\ record' = Restored(record, snap)
    /\ state' = "rolled-back"
    /\ pending' = Absent
    /\ window' = FALSE
    /\ UNCHANGED <<snap, to, attempt, writes>>

\* The explicit rollback of a transition that is not pending.
Rollback ==
    /\ Callable
    /\ state \in {"staged", "verified"}
    /\ record' = Restored(record, snap)
    /\ state' = "rolled-back"
    /\ window' = FALSE
    /\ UNCHANGED <<snap, to, pending, attempt, writes>>

\* A fresh engine on the same record and journal: recoverFromJournal.
Recover ==
    /\ Once
    /\ state' = IF pending = Absent THEN "idle" ELSE "commit-pending"
    /\ window' = (pending # Absent)
    /\ snap' = IF pending = Absent THEN Absent ELSE pending.snap
    /\ to' = IF pending = Absent THEN Absent ELSE pending.to
    /\ attempt' = [v \in Verifies |-> "off"]
    /\ UNCHANGED <<record, pending>>
=============================================================================
