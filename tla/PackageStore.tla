---------------------------- MODULE PackageStore ----------------------------
(***************************************************************************)
(* One installed package of the PSMatrix home: a PowerShell runtime        *)
(* (runtime.py), an OCI runtime wrapper (oci.py) or a tool module          *)
(* (module_manager.py).  All three install alike: under a file lock they   *)
(* prepare a staging directory, remove the old directory file by file and  *)
(* rename the staging directory into its place.  Readers and removals take *)
(* no lock, any step may fail, and a process may die anywhere.             *)
(*                                                                         *)
(* A runtime is read at the path of its directory alone.  The modules of a *)
(* name are listed, and the list holds the staging directories too: their  *)
(* names begin with a dot, which glob("*") matches and which sorts first.  *)
(*                                                                         *)
(* A package is told apart by its hash alone.  Its directory is abstracted *)
(* to three files: the metadata, the entry point (pwsh or <name>.psd1) and *)
(* one file that stands for the rest of the payload.  A staging directory   *)
(* is gone with the last of them.                                          *)
(***************************************************************************)
EXTENDS Naturals, FiniteSets

CONSTANTS Packages,   \* archives of this name and version, by hash
          Users,      \* processes that install, remove or use the package
          NoUser,     \* holder of a free lock
          Gone,       \* content of a file that is not there
          MaxCalls,   \* bound: calls the processes make
          MaxPackageTroubles  \* bound: failing changes and processes that die

ASSUME StoreAssumption ==
    /\ NoUser \notin Users /\ Gone \notin Packages
    /\ MaxCalls \in Nat /\ MaxPackageTroubles \in Nat

Kinds == {"runtime", "oci", "module"}
PackageFiles == {"meta", "entry", "payload"}
Whole(p) == [f \in PackageFiles |-> p]
Empty == [f \in PackageFiles |-> Gone]

\* How a call ends.
Results == {"installed", "refused", "failed", "removed", "absent", "ready", "unavailable"}

\* Where the files of a module may be: its directory, or the staging
\* directory of a call, which has the number of the call.
StagingDirs == 1..MaxCalls
Destination == 0
PackageDirs == StagingDirs \cup {Destination}

VARIABLES kind,     \* which of the three stores this is
          there,    \* the destination directory exists
          dir,      \* its files
          staged,   \* the files of a module's staging directories, once listed
          holder,   \* who holds the lock file
          cached,   \* archives in module-packages
          used,     \* the call each process is in
          calls,    \* calls that have begun
          packageTroubles,  \* changes that failed and processes that died
          damaged,  \* a removal stopped half way, by a failure or a death (history)
          met       \* who met an install or a removal while reading (history)

disk == <<there, dir, staged, cached>>
packVars == <<kind, disk, holder, used, calls, packageTroubles, damaged, met>>

\* call: its number; pkg: the archive given or locked; force: --force; from: the
\* directory of the module a run is given; copy: what the run is given.
NoUse == [at |-> "idle", call |-> 0, job |-> "none", pkg |-> Gone, force |-> FALSE,
           from |-> Destination, listed |-> {}, copy |-> Empty]

PackageInit ==
    /\ kind \in Kinds
    /\ there = FALSE /\ dir = Empty /\ staged = [s \in StagingDirs |-> Empty]
    /\ holder = NoUser /\ cached = {}
    /\ used = [u \in Users |-> NoUse]
    /\ calls = 0
    /\ packageTroubles = 0 /\ damaged = FALSE /\ met = {}

CallAt(u, place) == used[u].at = place
Move(u, place) == used' = [used EXCEPT ![u].at = place]
End(u, result) == used' = [used EXCEPT ![u] = [NoUse EXCEPT !.at = result]]
Removing == \E u \in Users : CallAt(u, "clear")
Discarding == \E u \in Users : CallAt(u, "discard")
Complete(d) == \E p \in Packages : d = Whole(p)
HasParts(d) == d # Empty /\ ~Complete(d)
UnlockPackage(u) == holder' = IF holder = u THEN NoUser ELSE holder

\* list_installed: metadata that can be read and the entry point make an
\* item; it is the entry point that makes it healthy.
Healthy == there /\ dir["meta"] # Gone /\ dir["entry"] # Gone

\* _verify_runtime_integrity(full_payload=True)
Verified == Healthy /\ dir = Whole(dir["meta"])

BeginCall(u, job, p, force) ==
    /\ used[u].at \in Results \cup {"idle"}
    /\ calls < MaxCalls
    /\ calls' = calls + 1
    /\ used' = [used EXCEPT ![u] =
                  [NoUse EXCEPT !.call = calls + 1, !.job = job, !.pkg = p, !.force = force,
                                 !.at = CASE job = "install" -> "lock"
                                          [] job = "remove" -> "exists"
                                          [] job = "use" -> "find"]]
    /\ UNCHANGED <<kind, disk, holder, packageTroubles, damaged, met>>

\* A module has no remove.
BeginInstall(u) == \E p \in Packages, force \in BOOLEAN : BeginCall(u, "install", p, force)
BeginRemove(u) == kind # "module" /\ BeginCall(u, "remove", Gone, FALSE)
BeginUse(u) == \E p \in Packages : BeginCall(u, "use", p, FALSE)

-----------------------------------------------------------------------------
(* install, install_nupkg *)

Lock(u) ==
    /\ CallAt(u, "lock") /\ holder = NoUser
    /\ holder' = u
    /\ Move(u, "check")
    /\ UNCHANGED <<kind, disk, calls, packageTroubles, damaged, met>>

\* Where an install that found the package goes on: it returns, or gives the
\* module to the run that asked for it.
AfterInstall(u) == IF used[u].job = "use" THEN Move(u, "refind") ELSE End(u, "installed")

\* Mutant: a runtime is taken for installed without verifying its payload.
PresentHealthy == CASE kind = "module" -> there /\ dir["meta"] # Gone
                    [] OTHER -> Healthy

\* Something is installed already.  A runtime is verified whole, or repaired;
\* an OCI runtime needs its two files; a module needs its metadata, whose
\* hash must be the package's.  (install probes the OCI runtime it found, and
\* the probe may fail.)
Present == CASE kind = "runtime" -> Verified
             [] kind = "oci" -> Healthy
             [] kind = "module" -> there /\ dir["meta"] # Gone

CheckPresent(u) ==
    /\ CallAt(u, "check") /\ ~used[u].force /\ Present
    /\ kind = "module" => dir["meta"] = used[u].pkg
    /\ cached' = IF kind = "module" THEN cached \cup {used[u].pkg} ELSE cached
    /\ AfterInstall(u) \/ (kind = "oci" /\ End(u, "failed"))
    /\ UnlockPackage(u)
    /\ UNCHANGED <<kind, there, dir, staged, calls, packageTroubles, damaged, met>>

CheckConflict(u) ==
    /\ CallAt(u, "check") /\ ~used[u].force /\ Present
    /\ kind = "module" /\ dir["meta"] # used[u].pkg
    /\ End(u, "refused")
    /\ UnlockPackage(u)
    /\ UNCHANGED <<kind, disk, calls, packageTroubles, damaged, met>>

CheckAbsent(u) ==
    /\ CallAt(u, "check") /\ (used[u].force \/ ~Present)
    /\ Move(u, "stage")
    /\ UNCHANGED <<kind, disk, holder, calls, packageTroubles, damaged, met>>

\* The staging directory is extracted, probed and given its metadata, which
\* puts a module's on the list; a module's archive goes to the package cache.
\* Any of it may fail, and what was staged is removed unseen.
Stage(u) ==
    /\ CallAt(u, "stage")
    /\ \/ /\ Move(u, IF there THEN "clear" ELSE "publish")
          /\ cached' = IF kind = "module" THEN cached \cup {used[u].pkg} ELSE cached
          /\ staged' = IF kind = "module" THEN [staged EXCEPT ![used[u].call] = Whole(used[u].pkg)]
                       ELSE staged
          /\ UNCHANGED holder
       \/ End(u, "failed") /\ UnlockPackage(u) /\ UNCHANGED <<staged, cached>>
    /\ UNCHANGED <<kind, there, dir, calls, packageTroubles, damaged, met>>

\* Those who are reading while the directories change.
Disturb == met' = met \cup {u \in Users : used[u].at \in {"list", "copy", "require"}}

\* shutil.rmtree(destination), one file at a time, then the directory.
RemoveFile(u, f) ==
    /\ CallAt(u, "clear") /\ dir[f] # Gone
    /\ dir' = [dir EXCEPT ![f] = Gone]
    /\ Disturb
    /\ UNCHANGED <<kind, there, staged, cached, holder, used, calls, packageTroubles, damaged>>

RemoveDirectory(u) ==
    /\ CallAt(u, "clear") /\ there /\ dir = Empty
    /\ there' = FALSE
    /\ IF used[u].job = "remove" THEN End(u, "removed") ELSE Move(u, "publish")
    /\ Disturb
    /\ UNCHANGED <<kind, dir, staged, cached, holder, calls, packageTroubles, damaged>>

\* The rmtree of a call stops half way.
CutRemoval(u) == CallAt(u, "clear") /\ there /\ ~Complete(dir)

\* Two rmtrees of one directory: a file or the directory itself is missing
\* when its turn comes.
RemoveClash(u) ==
    /\ CallAt(u, "clear") /\ kind # "module"
    /\ ~there \/ \E v \in Users \ {u} : CallAt(v, "clear")
    /\ End(u, "failed") /\ UnlockPackage(u)
    /\ damaged' = (damaged \/ CutRemoval(u))
    /\ UNCHANGED <<kind, disk, calls, packageTroubles, met>>

\* The system refuses the rmtree or the rename.  An install goes on to remove
\* what it staged, which only a module's readers can see.
FailChange(u) ==
    /\ packageTroubles < MaxPackageTroubles
    /\ CallAt(u, "clear") \/ CallAt(u, "publish")
    /\ packageTroubles' = packageTroubles + 1
    /\ IF kind = "module" THEN Move(u, "discard") /\ UNCHANGED holder
                          ELSE End(u, "failed") /\ UnlockPackage(u)
    /\ damaged' = (damaged \/ CutRemoval(u))
    /\ UNCHANGED <<kind, disk, calls, met>>

\* os.replace(staging, destination)
Publish(u) ==
    /\ CallAt(u, "publish") /\ ~there
    /\ there' = TRUE
    /\ dir' = Whole(used[u].pkg)
    /\ staged' = IF kind = "module" THEN [staged EXCEPT ![used[u].call] = Empty] ELSE staged
    /\ AfterInstall(u)
    /\ UnlockPackage(u)
    /\ Disturb
    /\ UNCHANGED <<kind, cached, calls, packageTroubles, damaged>>

\* shutil.rmtree(staging, ignore_errors=True), which may leave any of it.
DiscardFile(u, f) ==
    /\ CallAt(u, "discard") /\ staged[used[u].call][f] # Gone
    /\ staged' = [staged EXCEPT ![used[u].call][f] = Gone]
    /\ Disturb
    /\ UNCHANGED <<kind, there, dir, cached, holder, used, calls, packageTroubles, damaged>>

DiscardDone(u) ==
    /\ CallAt(u, "discard")
    /\ End(u, "failed") /\ UnlockPackage(u)
    /\ damaged' = (damaged \/ HasParts(staged[used[u].call]))
    /\ UNCHANGED <<kind, disk, calls, packageTroubles, met>>

Install(u) == \/ Lock(u) \/ CheckPresent(u) \/ CheckConflict(u) \/ CheckAbsent(u)
              \/ Stage(u) \/ Publish(u)
Clear(u) == \/ RemoveDirectory(u) \/ RemoveClash(u) \/ FailChange(u) \/ DiscardDone(u)
            \/ \E f \in PackageFiles : RemoveFile(u, f) \/ DiscardFile(u, f)

\* RuntimeManager.remove, OciRuntimeManager.remove
RemovePackage(u) ==
    /\ CallAt(u, "exists")
    /\ IF there THEN Move(u, "clear") ELSE End(u, "absent")
    /\ UNCHANGED <<kind, disk, holder, calls, packageTroubles, damaged, met>>

-----------------------------------------------------------------------------
(* require; ensure_locked and stage_for_run *)

\* A reader that begins while a directory is being removed.
Meet(u) == met' = IF Removing \/ Discarding THEN met \cup {u} ELSE met \ {u}

\* probe: a runtime is verified whole, an OCI runtime needs its metadata.
ProbeRuntime(u) ==
    /\ CallAt(u, "find") /\ kind # "module"
    /\ IF (kind = "runtime" /\ Verified) \/ (kind = "oci" /\ there /\ dir["meta"] # Gone)
       THEN Move(u, "require") ELSE End(u, "refused")
    /\ Meet(u)
    /\ UNCHANGED <<kind, disk, holder, calls, packageTroubles, damaged>>

\* require: the entry point, and for a runtime its hash in the metadata.
Require(u) ==
    /\ CallAt(u, "require")
    /\ LET ok == CASE kind = "runtime" -> Healthy /\ dir["entry"] = dir["meta"]
                   [] kind = "oci" -> there /\ dir["entry"] # Gone
       IN  IF ok THEN used' = [used EXCEPT ![u].at = "ready", ![u].copy = dir]
                 ELSE End(u, "refused")
    /\ UNCHANGED <<kind, disk, holder, calls, packageTroubles, damaged, met>>

FilesAt(place) == IF place = Destination THEN dir ELSE staged[place]
IsThere(place) == IF place = Destination THEN there ELSE staged[place] # Empty

\* exact: the first healthy item of the list.  The staging directories, in
\* the order of their random names, come before the directory of the version.
Staged == {s \in StagingDirs : staged[s]["meta"] # Gone /\ staged[s]["entry"] # Gone}
Found == IF Staged # {} THEN Staged ELSE IF Healthy THEN {Destination} ELSE {}

\* Nothing is found, or a directory is moved or removed under the search.
Missed == Found = {} \/ \E v \in Users : used[v].at \in {"clear", "publish", "discard"}

\* Mutant: the name and the version are enough.
FindAnyModule(u) ==
    /\ (CallAt(u, "find") \/ CallAt(u, "refind")) /\ kind = "module"
    /\ \E place \in Found : used' = [used EXCEPT ![u].at = "list", ![u].from = place]
    /\ Meet(u)
    /\ UNCHANGED <<kind, disk, holder, calls, packageTroubles, damaged>>

\* ensure_locked: the module found must be the one locked.
FindModule(u) ==
    /\ (CallAt(u, "find") \/ CallAt(u, "refind")) /\ kind = "module"
    /\ \E place \in Found :
          IF FilesAt(place)["meta"] = used[u].pkg
          THEN used' = [used EXCEPT ![u].at = "list", ![u].from = place]
          ELSE End(u, "refused")
    /\ Meet(u)
    /\ UNCHANGED <<kind, disk, holder, calls, packageTroubles, damaged>>

\* No healthy module: restore it from the package cache, once.
RestoreModule(u) ==
    /\ CallAt(u, "find") /\ kind = "module" /\ Missed
    /\ IF used[u].pkg \in cached THEN Move(u, "lock") ELSE End(u, "refused")
    /\ UNCHANGED <<kind, disk, holder, calls, packageTroubles, damaged, met>>

MissModule(u) ==
    /\ CallAt(u, "refind") /\ Missed
    /\ End(u, "unavailable")
    /\ UNCHANGED <<kind, disk, holder, calls, packageTroubles, damaged, met>>

\* copytree of the directory found: it lists the files and copies them one
\* after another, by their names.
ListFiles(u) ==
    /\ CallAt(u, "list")
    /\ IF IsThere(used[u].from)
       THEN used' = [used EXCEPT ![u].at = "copy",
                         ![u].listed = {f \in PackageFiles : FilesAt(used[u].from)[f] # Gone}]
       ELSE End(u, "failed")
    /\ UNCHANGED <<kind, disk, holder, calls, packageTroubles, damaged, met>>

CopyFile(u, f) ==
    /\ CallAt(u, "copy") /\ f \in used[u].listed
    /\ IF FilesAt(used[u].from)[f] = Gone
       THEN End(u, "failed")
       ELSE used' = [used EXCEPT ![u].listed = @ \ {f},
                                 ![u].copy[f] = FilesAt(used[u].from)[f]]
    /\ UNCHANGED <<kind, disk, holder, calls, packageTroubles, damaged, met>>

CopyDone(u) ==
    /\ CallAt(u, "copy") /\ used[u].listed = {}
    /\ Move(u, "ready")
    /\ UNCHANGED <<kind, disk, holder, calls, packageTroubles, damaged, met>>

Use(u) == \/ ProbeRuntime(u) \/ Require(u) \/ FindModule(u) \/ RestoreModule(u) \/ MissModule(u)
          \/ ListFiles(u) \/ CopyDone(u)
          \/ \E f \in PackageFiles : CopyFile(u, f)

-----------------------------------------------------------------------------
\* A process dies: the lock goes with it, what it removed stays removed and
\* what it staged stays there.
PackageCrash(u) ==
    /\ packageTroubles < MaxPackageTroubles
    /\ used[u].at \in {"check", "stage", "clear", "publish", "discard"}
    /\ packageTroubles' = packageTroubles + 1
    /\ damaged' = \/ damaged
                  \/ CutRemoval(u)
                  \/ CallAt(u, "discard") /\ HasParts(staged[used[u].call])
    /\ used' = [used EXCEPT ![u] = NoUse]
    /\ UnlockPackage(u)
    /\ UNCHANGED <<kind, disk, calls, met>>

PackageNext == \E u \in Users : \/ BeginInstall(u) \/ BeginRemove(u) \/ BeginUse(u)
                         \/ Install(u) \/ Clear(u) \/ RemovePackage(u) \/ Use(u) \/ PackageCrash(u)

PackageSpec == PackageInit /\ [][PackageNext]_packVars
-----------------------------------------------------------------------------
\* Whatever installs, removals, failures and deaths interleave, a directory
\* that lacks files is being removed at the moment, or its removal stopped
\* half way; and none ever mixes two packages.  That holds of the staging
\* directories as well, which a module's readers take for modules.
OnlyCutRemovalsLeaveParts ==
    /\ there /\ ~Complete(dir) => Removing \/ damaged
    /\ \A s \in StagingDirs : HasParts(staged[s]) =>
          damaged \/ \E u \in Users : CallAt(u, "discard") /\ used[u].call = s
    /\ \A place \in PackageDirs : \A f, g \in PackageFiles :
          Gone \in {FilesAt(place)[f], FilesAt(place)[g]} \/ FilesAt(place)[f] = FilesAt(place)[g]

\* What a run is given, the runtime that require accepts or the module
\* staged for it, is whole and of one package (for a module the locked one),
\* unless the reader met a removal or an install, or damage was left behind:
\* the readers hold no lock and check the entry point and the metadata only.
OnlyRacesGiveParts ==
    \A u \in Users : CallAt(u, "ready") /\ ~damaged /\ u \notin met =>
        Complete(used[u].copy) /\ (kind = "module" => used[u].copy = Whole(used[u].pkg))

\* Both: the store under its writers, and what its readers are given.
PackagesSound == OnlyCutRemovalsLeaveParts /\ OnlyRacesGiveParts

\* An install that returns leaves the package whole.  A runtime is whole even
\* after damage, since the whole payload is verified before it is kept; the
\* other stores look at their metadata and entry point only.
InstalledIsWhole ==
    [][\A u \in Users : CallAt(u, "installed")' /\ ~CallAt(u, "installed") =>
          \/ there' /\ Complete(dir')
          \/ kind # "runtime" /\ (damaged \/ Removing)]_packVars

=============================================================================
