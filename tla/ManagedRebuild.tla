--------------------------- MODULE ManagedRebuild ---------------------------
(***************************************************************************)
(* A rebuild from the developer tools: the handler in chat_bridge.ts,      *)
(* which builds, the teardown of the engine that still runs                *)
(* (rebuild/server_teardown.ts), and the deployment by backup, staging and *)
(* renames (rebuild/coordinator.ts, rebuild/atomic_adoption.ts).           *)
(*                                                                         *)
(* A build's output is the version of the tree it was built from.  A       *)
(* directory that is moved or removed goes in one step, one that is copied *)
(* is absent until it is all there.  The dialog starts one rebuild at a    *)
(* time; any step of it may fail, the extension host may end between any   *)
(* two of them, and the developer edits the tree at any time.  The pending *)
(* marker of a swap is left out: nothing reads it.  No opencodeBinary      *)
(* override is configured: the engine is the installed one.                *)
(***************************************************************************)
EXTENDS Integers

CONSTANTS
    MaxEdits,    \* changes of the overlay tree
    MaxStarts,   \* rebuilds and engines started
    MaxMishaps,  \* failed steps and ended hosts
    Absent       \* no directory, file, hash or engine

VARIABLES
    overlay,   \* the version of the engine's overlay tree
    hash,      \* currentOverlayHash: the version the rebuild hashed
    cached,    \* overlay-hash.txt
    built,     \* the repository's outputs: dist and binary
    installed, \* the installed extension: dist, dist.pre-swap and binary
    backup,    \* the backup this rebuild made, the same three
    staged,    \* the staging directory: dist and binary
    holder,    \* the engine that holds the port: its pid and binary, or Absent
    record,    \* the pid in the handshake record, or Absent
    pc,        \* where the rebuild stands
    skip,      \* skipEngine
    outcome,   \* what the last rebuild reported
    edits, starts, mishaps,
    before,    \* history: what was installed when the deployment began
    blind      \* history: a probe of the port failed and was taken for free

serverVars == <<holder, record, blind>>
buildVars == <<overlay, hash, cached, built, skip, edits>>
diskVars == <<installed, backup, staged, before>>
vars == <<buildVars, diskVars, serverVars, pc, outcome, starts, mishaps>>

Versions == Nat \cup {Absent}
Installs == [dist : Versions, old : Versions, bin : Versions]
Builds   == [dist : Versions, bin : Versions]

CountTypes == /\ edits \in Nat /\ starts \in Nat /\ mishaps \in Nat
              /\ overlay \in Nat
BuildTypes == /\ hash \in Versions /\ cached \in Versions
              /\ built \in Builds /\ skip \in BOOLEAN
DiskTypes == /\ installed \in Installs /\ backup \in Installs
             /\ before \in Installs /\ staged \in Builds
ServerTypes == /\ holder \in [pid : Nat, bin : Versions] \cup {Absent}
               /\ record \in Versions /\ blind \in BOOLEAN
Steps == {"idle", "build", "gate", "binary", "cache", "app", "probe", "recorded",
          "killed", "backup", "stage", "out", "in", "adopt", "clean", "undo dist",
          "copy dist", "undo vendor", "copy vendor", "undone"}
Outcomes == {"none", "failed", "rolled-back", "done"}

TypeOK ==
    /\ CountTypes /\ BuildTypes /\ DiskTypes /\ ServerTypes
    /\ pc \in Steps /\ outcome \in Outcomes

\* The extension was installed by a rebuild of the first version, or before any.
Init ==
    /\ overlay = 0 /\ hash = Absent /\ skip = FALSE /\ edits = 0
    /\ cached \in {Absent, 0}
    /\ built = [dist |-> 0, bin |-> 0]
    /\ installed = [dist |-> 0, old |-> Absent, bin |-> 0]
    /\ backup = installed /\ before = installed
    /\ staged = [dist |-> Absent, bin |-> Absent]
    /\ holder = Absent /\ record = Absent /\ blind = FALSE
    /\ pc = "idle" /\ outcome = "none"
    /\ starts = 0 /\ mishaps = 0

Start == starts < MaxStarts /\ starts' = starts + 1
Mishap == mishaps < MaxMishaps /\ mishaps' = mishaps + 1

Goto(at) == pc' = at /\ UNCHANGED outcome
Report(result) == pc' = "idle" /\ outcome' = result
\* The step at a succeeds, or it fails and the rebuild reports that.
Smooth == UNCHANGED mishaps
Trouble(result) == Mishap /\ Report(result)

-----------------------------------------------------------------------------
(* Around the rebuild                                                      *)

\* The developer changes the overlay, also while a rebuild runs.
Edit ==
    /\ edits < MaxEdits
    /\ edits' = edits + 1
    /\ overlay' = edits + 1
    /\ UNCHANGED <<hash, cached, built, skip, diskVars, serverVars, pc, outcome,
                   starts, mishaps>>

\* A window finds nothing to adopt and starts the installed engine.
Spawn ==
    /\ Start
    /\ holder = Absent
    /\ installed.bin # Absent
    /\ holder' = [pid |-> starts', bin |-> installed.bin]
    /\ record' = starts'
    /\ UNCHANGED <<buildVars, diskVars, blind, pc, outcome, mishaps>>

\* The engine ends by itself; its record stays.
EngineEnds ==
    /\ holder # Absent
    /\ holder' = Absent
    /\ UNCHANGED <<buildVars, diskVars, record, blind, pc, outcome, starts, mishaps>>

\* The extension host of the rebuild ends.
HostEnds ==
    /\ pc # "idle"
    /\ Trouble("none")
    /\ UNCHANGED <<buildVars, diskVars, serverVars, starts>>

-----------------------------------------------------------------------------
(* Building: the handler of dev-tools-rebuild                              *)

\* The host and dependency checks, the database backup and the git sync.
Begin ==
    /\ pc = "idle"
    /\ Start
    /\ Goto("build")
    /\ UNCHANGED <<buildVars, diskVars, serverVars, mishaps>>

\* pnpm install and build.
BuildExtension ==
    /\ pc = "build"
    /\ \/ /\ Smooth /\ Goto("gate")
          /\ built' = [built EXCEPT !.dist = overlay]
       \/ Trouble("failed") /\ UNCHANGED built
    /\ UNCHANGED <<overlay, hash, cached, skip, edits, diskVars, serverVars, starts>>

(* The overlay-change gate: an unchanged overlay skips the engine's build  *)
(* and its teardown; a tree that cannot be hashed does not.                *)
Gate ==
    /\ pc = "gate"
    /\ \/ Smooth /\ hash' = overlay
       \/ Mishap /\ hash' = Absent
    /\ skip' = (hash' # Absent /\ hash' = cached)
    /\ Goto(IF skip' THEN "app" ELSE "binary")
    /\ UNCHANGED <<overlay, cached, built, edits, diskVars, serverVars, starts>>

\* build:binary.
BuildBinary ==
    /\ pc = "binary"
    /\ \/ /\ Smooth /\ Goto("cache")
          /\ built' = [built EXCEPT !.bin = overlay]
       \/ Trouble("failed") /\ UNCHANGED built
    /\ UNCHANGED <<overlay, hash, cached, skip, edits, diskVars, serverVars, starts>>

\* writeCachedOverlayHash, best effort, as soon as the binary is built.
WriteCachedOverlayHash ==
    /\ pc = "cache"
    /\ Goto("app")
    /\ \/ Smooth /\ cached' = IF hash = Absent THEN cached ELSE hash
       \/ Mishap /\ UNCHANGED cached
    /\ UNCHANGED <<overlay, hash, built, skip, edits, diskVars, serverVars, starts>>

\* build:app; then the teardown, unless the engine is kept.
BuildApp ==
    /\ pc = "app"
    /\ \/ Smooth /\ Goto(IF skip THEN "backup" ELSE "probe")
       \/ Trouble("failed")
    /\ UNCHANGED <<buildVars, diskVars, serverVars, starts>>

-----------------------------------------------------------------------------
(* The teardown: stopSurvivingServer                                       *)

(* isPortOccupied: an lsof that fails or times out reads as a free port.   *)
ProbedFree ==
    \/ holder = Absent /\ UNCHANGED <<mishaps, blind>>
    \/ holder # Absent /\ Mishap /\ blind' = TRUE

\* The port is free: the record is cleared, the rebuild goes on.
ClearRecord(at) ==
    /\ pc = at
    /\ ProbedFree
    /\ record' = Absent
    /\ Goto("backup")
    /\ UNCHANGED <<buildVars, diskVars, holder, starts>>

\* Step 1 found the port taken; step 2 signals the recorded pid.
SignalRecorded ==
    /\ pc = "probe"
    /\ holder # Absent
    /\ Goto("recorded")
    /\ IF record = holder.pid THEN holder' \in {holder, Absent}
                              ELSE UNCHANGED holder
    /\ UNCHANGED <<buildVars, diskVars, record, blind, starts, mishaps>>

\* Step 3, still taken: SIGTERM and SIGKILL to whoever holds the port.
KillByPort ==
    /\ pc = "recorded"
    /\ holder # Absent
    /\ Goto("killed")
    /\ holder' \in {holder, Absent}
    /\ UNCHANGED <<buildVars, diskVars, record, blind, starts, mishaps>>

\* Step 5: the port could not be freed, the record is kept.
TeardownFails ==
    /\ pc = "killed"
    /\ holder # Absent
    /\ Report("failed")
    /\ UNCHANGED <<buildVars, diskVars, serverVars, starts, mishaps>>

Teardown ==
    \/ \E at \in {"probe", "recorded", "killed"} : ClearRecord(at)
    \/ SignalRecorded
    \/ KillByPort
    \/ TeardownFails

-----------------------------------------------------------------------------
(* The deployment: deployBuild and atomicSwap                              *)

\* createBackup copies the whole extension; pruneBackups keeps this one.
CreateBackup ==
    /\ pc = "backup"
    /\ before' = installed
    /\ \/ Smooth /\ Goto("stage") /\ backup' = installed
       \/ Trouble("failed") /\ UNCHANGED backup
    /\ UNCHANGED <<buildVars, installed, staged, serverVars, starts>>

\* stageExtensionBuild: the build's dist and the engine it goes with.
StageExtensionBuild ==
    /\ pc = "stage"
    /\ \/ Smooth /\ Goto("out") /\ staged' = built
       \/ Trouble("failed") /\ UNCHANGED staged
    /\ UNCHANGED <<buildVars, installed, backup, before, serverVars, starts>>

\* renameSync(dist, dist.pre-swap): fails when dist.pre-swap is there.
MoveOut ==
    /\ pc = "out"
    /\ IF installed.dist = Absent
         THEN Smooth /\ Goto("in") /\ UNCHANGED installed
         ELSE \/ /\ installed.old = Absent /\ Smooth /\ Goto("in")
                 /\ installed' = [installed EXCEPT !.old = installed.dist,
                                                   !.dist = Absent]
              \/ /\ IF installed.old = Absent THEN Mishap ELSE Smooth
                 /\ Goto("undo dist") /\ UNCHANGED installed
    /\ UNCHANGED <<buildVars, backup, staged, before, serverVars, starts>>

(* renameSync(staged dist, dist); when it fails, dist.pre-swap is renamed  *)
(* back and no backup is used, unless that fails as well.                  *)
MoveIn ==
    /\ pc = "in"
    /\ \/ /\ Smooth /\ Goto("adopt")
          /\ installed' = [installed EXCEPT !.dist = staged.dist]
       \/ /\ Trouble("failed")
          /\ installed' = IF installed.old = Absent THEN installed
                          ELSE [installed EXCEPT !.dist = installed.old,
                                                 !.old = Absent]
       \/ /\ Mishap /\ installed.old # Absent
          /\ Goto("undo dist") /\ UNCHANGED installed
    /\ UNCHANGED <<buildVars, backup, staged, before, serverVars, starts>>

\* The staged binary is copied beside the installed one and renamed over it.
AdoptBinary ==
    /\ pc = "adopt"
    /\ \/ /\ Smooth /\ Goto("clean")
          /\ installed' = [installed EXCEPT !.bin = staged.bin]
       \/ /\ Mishap /\ Goto("undo dist")
          /\ installed' \in {installed, [installed EXCEPT !.dist = Absent]}
    /\ UNCHANGED <<buildVars, backup, staged, before, serverVars, starts>>

(* rmSync(dist.pre-swap), the contents and the staging directory: a        *)
(* failure rolls back.  The commit after them: a failure is only reported. *)
CleanUp ==
    /\ pc = "clean"
    /\ \/ /\ (Smooth /\ Report("done")) \/ Trouble("failed")
          /\ installed' = [installed EXCEPT !.old = Absent]
       \/ /\ Mishap /\ Goto("undo dist")
          /\ installed' \in {installed, [installed EXCEPT !.old = Absent]}
    /\ UNCHANGED <<buildVars, backup, staged, before, serverVars, starts>>

-----------------------------------------------------------------------------
(* rollback(): dist and then vendor, each removed and copied back.  What   *)
(* the backup does not have is left as it is.                              *)

Removed(part, copy, next) ==
    /\ IF backup[part] = Absent
         THEN Smooth /\ Goto(next) /\ UNCHANGED installed
         ELSE \/ /\ Smooth /\ Goto(copy)
                 /\ installed' = [installed EXCEPT ![part] = Absent]
              \/ Trouble("failed") /\ UNCHANGED installed
    /\ UNCHANGED <<buildVars, backup, staged, before, serverVars, starts>>

CopiedBack(part) ==
    /\ installed' = [installed EXCEPT ![part] = backup[part]]
    /\ UNCHANGED <<buildVars, backup, staged, before, serverVars, starts>>

RemoveDist == pc = "undo dist" /\ Removed("dist", "copy dist", "undo vendor")
RemoveVendor == pc = "undo vendor" /\ Removed("bin", "copy vendor", "undone")
CopyDist == pc = "copy dist" /\ Smooth /\ Goto("undo vendor") /\ CopiedBack("dist")
CopyVendor == pc = "copy vendor" /\ Smooth /\ Goto("undone") /\ CopiedBack("bin")

\* A copy fails: "rollback also failed".
CopyFails ==
    /\ pc \in {"copy dist", "copy vendor"}
    /\ Trouble("failed")
    /\ UNCHANGED <<buildVars, diskVars, serverVars, starts>>

RolledBack ==
    /\ pc = "undone"
    /\ Report("rolled-back")
    /\ UNCHANGED <<buildVars, diskVars, serverVars, starts, mishaps>>

Rollback == RemoveDist \/ CopyDist \/ RemoveVendor \/ CopyVendor \/ CopyFails \/ RolledBack

-----------------------------------------------------------------------------
Build == \/ Begin \/ BuildExtension \/ Gate \/ BuildBinary
         \/ WriteCachedOverlayHash \/ BuildApp
Deploy == \/ CreateBackup \/ StageExtensionBuild
          \/ MoveOut \/ MoveIn \/ AdoptBinary \/ CleanUp

Next == \/ Edit \/ Spawn \/ EngineEnds \/ HostEnds
        \/ Build \/ Teardown \/ Deploy \/ Rollback

Spec == Init /\ [][Next]_vars

-----------------------------------------------------------------------------
(* Properties                                                              *)

(* chat_bridge.ts, the teardown that is skipped: "When the overlay is      *)
(* UNCHANGED (skipEngine), the running server IS the new engine".          *)
(* Violated: the hash is recorded when the binary is built, so a rebuild   *)
(* that stops before its teardown or its swap leaves a hash that makes the *)
(* next one skip the engine, while the old engine runs on.                 *)
KeptServerIsNew ==
    pc = "idle" /\ outcome = "done" /\ skip /\ holder # Absent
        => holder.bin = installed.bin

(* rollback(), "dist and binary revert together": when the rebuild reports *)
(* that the previous version is back, both are what the deployment found,  *)
(* if it found both.                                                       *)
RestoredTogether ==
    pc = "idle" /\ outcome = "rolled-back" /\ before.dist # Absent /\ before.bin # Absent
        => installed.dist = before.dist /\ installed.bin = before.bin

(* atomicSwap: a rebuild that reports success installed this build's dist  *)
(* together with its binary and left nothing behind, whatever earlier      *)
(* rebuilds, ended hosts and failed rollbacks had left.                    *)
DoneIsBuilt ==
    pc = "idle" /\ outcome = "done"
        => installed = [dist |-> built.dist, old |-> Absent, bin |-> built.bin]

(* stopSurvivingServer, "confirm before delete": the engine on the port    *)
(* stays adoptable, unless a probe that failed was taken for a free port.  *)
NeverOrphaned == holder # Absent /\ ~blind => record = holder.pid
=============================================================================
