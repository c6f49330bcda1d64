------------------------ MODULE ManagedRebuildProofs ------------------------
(* What a rebuild guarantees whatever fails, ends or is left behind by     *)
(* earlier rebuilds: rollback, success and the teardown.                   *)
EXTENDS ManagedRebuild, TLAPS

-----------------------------------------------------------------------------
(* Types, one group of variables after the other                           *)

LEMMA CountStep ==
  ASSUME CountTypes, [Next]_vars
  PROVE  CountTypes'
<1> USE DEF CountTypes, diskVars, buildVars, serverVars, Trouble, Mishap, Smooth, Start
<1>1. CASE Edit \/ Spawn \/ EngineEnds \/ HostEnds
  BY <1>1 DEF Edit, Spawn, EngineEnds, HostEnds
<1>2. CASE Build
  BY <1>2 DEF Build, Begin, BuildExtension, Gate, BuildBinary,
              WriteCachedOverlayHash, BuildApp
<1>3. CASE Teardown
  BY <1>3 DEF Teardown, ClearRecord, ProbedFree, SignalRecorded, KillByPort,
              TeardownFails
<1>0. ASSUME UNCHANGED <<overlay, edits, starts>>, mishaps' \in {mishaps, mishaps + 1}
      PROVE  CountTypes'
  BY <1>0
<1>4. CASE Deploy
  <2>1. UNCHANGED <<overlay, edits, starts>>
    BY <1>4 DEF Deploy, CreateBackup, StageExtensionBuild, MoveOut, MoveIn,
                AdoptBinary, CleanUp
  <2>2. Smooth \/ Mishap
    BY <1>4 DEF Deploy, CreateBackup, StageExtensionBuild, MoveOut, MoveIn,
                AdoptBinary, CleanUp
  <2> QED BY <2>1, <2>2, <1>0
<1>5. CASE Rollback
  <2>1. UNCHANGED <<overlay, edits, starts>>
    BY <1>5 DEF Rollback, RemoveDist, RemoveVendor, Removed, CopyDist, CopyVendor,
                CopiedBack, CopyFails, RolledBack
  <2>2. Smooth \/ Mishap
    BY <1>5 DEF Rollback, RemoveDist, RemoveVendor, Removed, CopyDist, CopyVendor,
                CopiedBack, CopyFails, RolledBack
  <2> QED BY <2>1, <2>2, <1>0
<1>6. CASE UNCHANGED vars
  BY <1>6 DEF vars
<1> QED BY <1>1, <1>2, <1>3, <1>4, <1>5, <1>6 DEF Next

LEMMA BuildTypesStep ==
  ASSUME CountTypes, BuildTypes, [Next]_vars
  PROVE  BuildTypes'
<1> USE DEF BuildTypes, CountTypes, buildVars, Builds, Versions
<1>1. CASE Edit \/ Spawn \/ EngineEnds \/ HostEnds
  BY <1>1 DEF Edit, Spawn, EngineEnds, HostEnds
<1>2. CASE Build
  BY <1>2 DEF Build, Begin, BuildExtension, Gate, BuildBinary,
              WriteCachedOverlayHash, BuildApp
<1>3. CASE Teardown
  BY <1>3 DEF Teardown, ClearRecord, ProbedFree, SignalRecorded, KillByPort,
              TeardownFails
<1>4. CASE Deploy
  BY <1>4 DEF Deploy, CreateBackup, StageExtensionBuild, MoveOut, MoveIn,
              AdoptBinary, CleanUp
<1>5. CASE Rollback
  BY <1>5 DEF Rollback, RemoveDist, RemoveVendor, Removed, CopyDist, CopyVendor,
              CopiedBack, CopyFails, RolledBack
<1>6. CASE UNCHANGED vars
  BY <1>6 DEF vars
<1> QED BY <1>1, <1>2, <1>3, <1>4, <1>5, <1>6 DEF Next

LEMMA DiskTypesStep ==
  ASSUME BuildTypes, DiskTypes, [Next]_vars
  PROVE  DiskTypes'
<1> USE DEF DiskTypes, BuildTypes, diskVars, Builds, Installs, Versions
<1>1. CASE Edit \/ Spawn \/ EngineEnds \/ HostEnds
  BY <1>1 DEF Edit, Spawn, EngineEnds, HostEnds
<1>2. CASE Build
  BY <1>2 DEF Build, Begin, BuildExtension, Gate, BuildBinary,
              WriteCachedOverlayHash, BuildApp
<1>3. CASE Teardown
  BY <1>3 DEF Teardown, ClearRecord, ProbedFree, SignalRecorded, KillByPort,
              TeardownFails
<1>4. CASE Deploy
  BY <1>4 DEF Deploy, CreateBackup, StageExtensionBuild, MoveOut, MoveIn,
              AdoptBinary, CleanUp
<1>5. CASE Rollback
  BY <1>5 DEF Rollback, RemoveDist, RemoveVendor, Removed, CopyDist, CopyVendor,
              CopiedBack, CopyFails, RolledBack
<1>6. CASE UNCHANGED vars
  BY <1>6 DEF vars
<1> QED BY <1>1, <1>2, <1>3, <1>4, <1>5, <1>6 DEF Next

LEMMA ServerStep ==
  ASSUME TypeOK, NeverOrphaned, [Next]_vars
  PROVE  ServerTypes' /\ NeverOrphaned'
<1> USE DEF TypeOK, ServerTypes, NeverOrphaned, serverVars
<1>1. CASE UNCHANGED serverVars
  BY <1>1
<1>2. CASE Spawn
  <2>1. holder' = [pid |-> starts + 1, bin |-> installed.bin] /\ record' = starts + 1
    BY <1>2 DEF Spawn, Start
  <2>2. starts + 1 \in Nat /\ installed.bin \in Versions
    BY DEF CountTypes, DiskTypes, Installs
  <2>3. blind' = blind
    BY <1>2 DEF Spawn
  <2> QED BY <2>1, <2>2, <2>3 DEF Versions
<1>3. CASE EngineEnds
  BY <1>3 DEF EngineEnds
<1>4. CASE Teardown
  <2>1. ASSUME NEW at \in {"probe", "recorded", "killed"}, ClearRecord(at)
        PROVE  ServerTypes' /\ NeverOrphaned'
    BY <2>1 DEF ClearRecord, ProbedFree, Versions
  <2>2. CASE SignalRecorded \/ KillByPort \/ TeardownFails
    BY <2>2 DEF SignalRecorded, KillByPort, TeardownFails
  <2> QED BY <1>4, <2>1, <2>2 DEF Teardown
<1>5. CASE Edit \/ HostEnds \/ Build
  BY <1>5, <1>1 DEF Edit, HostEnds, Build, Begin, BuildExtension, Gate, BuildBinary,
              WriteCachedOverlayHash, BuildApp
<1>6. CASE Deploy
  BY <1>6, <1>1 DEF Deploy, CreateBackup, StageExtensionBuild, MoveOut, MoveIn,
              AdoptBinary, CleanUp
<1>7. CASE Rollback
  BY <1>7, <1>1 DEF Rollback, RemoveDist, RemoveVendor, Removed, CopyDist, CopyVendor,
              CopiedBack, CopyFails, RolledBack
<1>8. CASE UNCHANGED vars
  BY <1>8, <1>1 DEF vars
<1> QED BY <1>2, <1>3, <1>4, <1>5, <1>6, <1>7, <1>8 DEF Next

\* Where the rebuild may be, and what it may have reported.
LEMMA ControlStep ==
  ASSUME pc \in Steps, outcome \in Outcomes, [Next]_vars
  PROVE  pc' \in Steps /\ outcome' \in Outcomes
<1> USE DEF Goto, Report, Trouble
<1>1. CASE UNCHANGED <<pc, outcome>>
  BY <1>1
<1>2. ASSUME NEW at \in Steps, Goto(at)
      PROVE  pc' \in Steps /\ outcome' \in Outcomes
  BY <1>2
<1>3. ASSUME NEW result \in Outcomes, Report(result)
      PROVE  pc' \in Steps /\ outcome' \in Outcomes
  BY <1>3 DEF Steps
<1>4. CASE Edit \/ Spawn \/ EngineEnds \/ HostEnds
  BY <1>4 DEF Edit, Spawn, EngineEnds, HostEnds, Steps, Outcomes
<1>5. CASE Build
  BY <1>5 DEF Build, Begin, BuildExtension, Gate, BuildBinary,
              WriteCachedOverlayHash, BuildApp, Steps, Outcomes
<1>6. CASE Teardown
  BY <1>6 DEF Teardown, ClearRecord, SignalRecorded, KillByPort, TeardownFails,
              Steps, Outcomes
<1>7. CASE Deploy
  BY <1>7 DEF Deploy, CreateBackup, StageExtensionBuild, MoveOut, MoveIn,
              AdoptBinary, CleanUp, Steps, Outcomes
<1>8. CASE Rollback
  BY <1>8 DEF Rollback, RemoveDist, RemoveVendor, Removed, CopyDist, CopyVendor,
              CopiedBack, CopyFails, RolledBack, Steps, Outcomes
<1>9. CASE UNCHANGED vars
  BY <1>9 DEF vars
<1> QED BY <1>4, <1>5, <1>6, <1>7, <1>8, <1>9 DEF Next

LEMMA TypeStep ==
  ASSUME TypeOK, NeverOrphaned, [Next]_vars
  PROVE  TypeOK' /\ NeverOrphaned'
BY CountStep, BuildTypesStep, DiskTypesStep, ServerStep, ControlStep DEF TypeOK

-----------------------------------------------------------------------------
(* The swap and its rollback                                               *)

Swapping == {"stage", "out", "in", "adopt", "clean", "undo dist", "copy dist",
             "undo vendor", "copy vendor", "undone"}

(* Which steps are behind: the backup is what the deployment found, the    *)
(* staging directory is the build, and each step that has been taken has   *)
(* put its part in place.                                                  *)
SwapInv ==
    /\ pc \in Swapping => backup = before
    /\ pc \in {"out", "in", "adopt", "clean"} => staged = built
    /\ pc \in {"adopt", "clean"} => installed.dist = built.dist
    /\ pc = "clean" => installed.bin = built.bin
    /\ pc \in {"undo vendor", "copy vendor", "undone"} /\ before.dist # Absent
          => installed.dist = before.dist
    /\ pc = "undone" /\ before.bin # Absent => installed.bin = before.bin
    /\ RestoredTogether
    /\ DoneIsBuilt

LEMMA SwapStep ==
  ASSUME TypeOK, SwapInv, [Next]_vars
  PROVE  SwapInv'
<1> USE DEF SwapInv, RestoredTogether, DoneIsBuilt, Swapping
<1>0. /\ built \in Builds /\ staged \in Builds
      /\ installed \in Installs /\ backup \in Installs /\ before \in Installs
  BY DEF TypeOK, BuildTypes, DiskTypes
<1>1. CASE UNCHANGED <<diskVars, built, pc, outcome>>
  BY <1>1 DEF diskVars
<1>2. CASE /\ UNCHANGED diskVars
           /\ pc' \notin Swapping /\ (pc' = "idle" => outcome' \in {"none", "failed"})
  BY <1>2 DEF diskVars
<1>3. CASE Edit \/ Spawn \/ EngineEnds
  BY <1>3, <1>1 DEF Edit, Spawn, EngineEnds, buildVars
<1>4. CASE HostEnds
  BY <1>4, <1>2 DEF HostEnds, Trouble, Report
<1>5. CASE Build
  BY <1>5, <1>2 DEF Build, Begin, BuildExtension, Gate, BuildBinary,
              WriteCachedOverlayHash, BuildApp, Goto, Report, Trouble
<1>6. CASE Teardown
  BY <1>6, <1>2 DEF Teardown, ClearRecord, SignalRecorded, KillByPort, TeardownFails,
              Goto, Report
<1>7. CASE Deploy
  <2> USE <1>0 DEF buildVars, Goto, Report, Trouble, Installs, Builds
  <2>1. CASE CreateBackup BY <2>1 DEF CreateBackup
  <2>2. CASE StageExtensionBuild BY <2>2 DEF StageExtensionBuild
  <2>3. CASE MoveOut BY <2>3 DEF MoveOut
  <2>4. CASE MoveIn BY <2>4 DEF MoveIn
  <2>5. CASE AdoptBinary BY <2>5 DEF AdoptBinary
  <2>6. CASE CleanUp
    <3>1. CASE pc' = "idle"
      <4>1. installed' = [installed EXCEPT !.old = Absent]
        BY <2>6, <3>1 DEF CleanUp
      <4>2. installed' = [dist |-> built.dist, old |-> Absent, bin |-> built.bin]
        BY <4>1, <2>6 DEF CleanUp
      <4> QED BY <4>2, <2>6, <3>1 DEF CleanUp
    <3>2. CASE pc' = "undo dist"
      BY <2>6, <3>2 DEF CleanUp
    <3> QED BY <2>6, <3>1, <3>2 DEF CleanUp
  <2> QED BY <1>7, <2>1, <2>2, <2>3, <2>4, <2>5, <2>6 DEF Deploy
<1>8. CASE Rollback
  <2> USE <1>0 DEF buildVars, Goto, Report, Trouble, Installs, Builds
  <2>1. CASE RemoveDist BY <2>1 DEF RemoveDist, Removed
  <2>2. CASE CopyDist BY <2>2 DEF CopyDist, CopiedBack
  <2>3. CASE RemoveVendor BY <2>3 DEF RemoveVendor, Removed
  <2>4. CASE CopyVendor BY <2>4 DEF CopyVendor, CopiedBack
  <2>5. CASE CopyFails BY <2>5, <1>2 DEF CopyFails
  <2>6. CASE RolledBack BY <2>6 DEF RolledBack, diskVars
  <2> QED BY <1>8, <2>1, <2>2, <2>3, <2>4, <2>5, <2>6 DEF Rollback
<1>9. CASE UNCHANGED vars
  BY <1>9, <1>1 DEF vars, buildVars
<1> QED BY <1>3, <1>4, <1>5, <1>6, <1>7, <1>8, <1>9 DEF Next

-----------------------------------------------------------------------------
RebuildInv == TypeOK /\ NeverOrphaned /\ SwapInv

LEMMA Invariance == Spec => []RebuildInv
<1>1. Init => RebuildInv
  <2>1. Init => CountTypes /\ pc \in Steps /\ outcome \in Outcomes
    BY DEF Init, CountTypes, Steps, Outcomes
  <2>2. Init => BuildTypes /\ DiskTypes
    <3>1. Init => /\ built \in Builds /\ installed \in Installs
                  /\ staged \in Builds
      BY DEF Init, Versions, Builds, Installs
    <3>2. Init => hash \in Versions /\ cached \in Versions
      BY DEF Init, Versions
    <3>3. Init => skip \in BOOLEAN /\ backup = installed /\ before = installed
      BY DEF Init
    <3> QED BY <3>1, <3>2, <3>3 DEF BuildTypes, DiskTypes
  <2>4. Init => ServerTypes
    BY DEF Init, ServerTypes, Versions
  <2>3. Init => NeverOrphaned /\ SwapInv
    BY DEF Init, NeverOrphaned, SwapInv, Swapping, RestoredTogether, DoneIsBuilt
  <2> QED BY <2>1, <2>2, <2>3, <2>4 DEF RebuildInv, TypeOK
<1>2. RebuildInv /\ [Next]_vars => RebuildInv'
  BY TypeStep, SwapStep DEF RebuildInv
<1> QED BY <1>1, <1>2, PTL DEF Spec

(* rollback(), "dist and binary revert together": a rebuild that reports   *)
(* the previous version restored has restored both parts of what it found, *)
(* whatever failed and however often hosts ended before.                   *)
THEOREM RollbackRestores == Spec => []RestoredTogether
<1>1. RebuildInv => RestoredTogether
  BY DEF RebuildInv, SwapInv
<1> QED BY Invariance, <1>1, PTL

(* atomicSwap: success means this build's dist with its binary and no      *)
(* remainder of an earlier swap.                                           *)
THEOREM SuccessIsComplete == Spec => []DoneIsBuilt
<1>1. RebuildInv => DoneIsBuilt
  BY DEF RebuildInv, SwapInv
<1> QED BY Invariance, <1>1, PTL

(* stopSurvivingServer, "confirm before delete": a record is cleared only  *)
(* for a free port, or after a probe that failed.                          *)
THEOREM TeardownConfirms == Spec => []NeverOrphaned
<1>1. RebuildInv => NeverOrphaned
  BY DEF RebuildInv
<1> QED BY Invariance, <1>1, PTL
=============================================================================
