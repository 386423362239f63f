---------------------------- MODULE UpdatePackage ----------------------------
(***************************************************************************)
(* A signed update package from the build to an installation:              *)
(* update-packager hashes the built files, signs the manifest and copies   *)
(* the files one after the other; the package is delivered to a client;    *)
(* VerifyAndStage checks it, opens it again and copies the payload to a    *)
(* stage directory, which is then installed.  Builds, deliveries and the   *)
(* death of a process come between any two steps.  The worker remembers    *)
(* what was installed in a file of its own, beside update-state.json.      *)
(*                                                                         *)
(* A digest is the content it was made of, and a size is part of it.  An   *)
(* archive is a set of pairs <<component, content>>: a component in two    *)
(* pairs is a duplicate entry.  Stage directories are created anew for     *)
(* every run and nobody reads one that an earlier run left, so it is       *)
(* forgotten.                                                              *)
(***************************************************************************)
EXTENDS SemanticVersions, FiniteSets

CONSTANTS
    Components,    \* allowedComponents
    Greeter,       \* components whose replacement restarts LightDM
    Updater,       \* components that carry the version of the updater
    MaxBuilds,     \* bound on the contents that a built file has
    MaxPackages,   \* bound on the packages created
    Versions,      \* versions that are compared
    FirstVersions, \* versions that a client starts with
    PackageOptions,\* command lines of update-packager
    ReleaseKey,    \* the key whose public half the client has
    Architecture,  \* of the client
    Dirs           \* stage directories

(* Nothing else passes validVersion.                                       *)
ASSUME VersionsAssumption ==
    Versions \cup FirstVersions \cup {o.release : o \in PackageOptions} \subseteq Version

VARIABLES
    source,    \* source[c]: the built file
    packager,  \* the run of update-packager
    packages,  \* finished packages
    file,      \* the package on the client
    updater,   \* updater[u]: the process that stages and installs
    stage,     \* stage[d]: a stage directory
    installed, \* the release that was installed last
    binary,    \* version.Version of the programs
    target,    \* target[c]: the installed file
    record,    \* update-state.json: how the last installation ended
    floor,     \* installed-version.json: the release that the worker saved
    seen       \* history: releases a worker installed or found installed

buildVars == <<source, packager, packages>>

clientVars == <<updater, stage, installed, binary, target, record, floor, seen>>

vars == <<buildVars, file, clientVars>>

NoPackage == [entries |-> {}]

NoStage == [state |-> "absent"]

NoPackager == [pc |-> "idle"]

NoUpdater == [pc |-> "idle"]

NoRecord == [status |-> "none"]

NoFloor == [saved |-> FALSE]

Updaters == {"manual", "worker"}

Of(c, pairs) == {pair \in pairs : pair[1] = c}

Named(pairs) == {pair[1] : pair \in pairs}

-----------------------------------------------------------------------------
(* The build and update-packager *)

(* A content is named by the build that made it.                           *)
Build(c) ==
    /\ source[c] < MaxBuilds /\ source' = [source EXCEPT ![c] = @ + 1]
    /\ UNCHANGED <<packager, packages, file, clientVars>>

StartPackager(o) ==
    /\ packager = NoPackager /\ Cardinality(packages) < MaxPackages
    /\ packager' = [pc |-> "hash", options |-> o, files |-> {}, entries |-> {}]
    /\ UNCHANGED <<source, packages, file, clientVars>>

hashFile(c) ==
    /\ packager.pc = "hash" /\ c \in packager.options.components \ Named(packager.files)
    /\ LET files == packager.files \cup {<<c, source[c]>>}
       IN  packager' = [packager EXCEPT !.files = files,
                            !.pc = IF Named(files) = packager.options.components
                                     THEN "copy" ELSE "hash"]
    /\ UNCHANGED <<source, packages, file, clientVars>>

(* The manifest is signed with the digests of before; the file is read     *)
(* again.                                                                  *)
CopyComponent(c) ==
    /\ packager.pc = "copy" /\ c \in packager.options.components \ Named(packager.entries)
    /\ packager' = [packager EXCEPT !.entries = @ \cup {<<c, source[c]>>}]
    /\ UNCHANGED <<source, packages, file, clientVars>>

CreateSignedPackage ==
    /\ packager.pc = "copy" /\ Named(packager.entries) = packager.options.components
    /\ LET o == packager.options IN packages' = packages \cup
           {[key |-> o.key, entries |-> packager.entries,
             manifest |-> [release |-> o.release, minimum |-> o.minimum, channel |-> o.channel,
                           architecture |-> o.architecture, files |-> packager.files]]}
    /\ packager' = NoPackager
    /\ UNCHANGED <<source, file, clientVars>>

(* A file cannot be read, or the output not be written: it is removed.     *)
PackagerFails ==
    /\ packager # NoPackager /\ packager' = NoPackager
    /\ UNCHANGED <<source, packages, file, clientVars>>

-----------------------------------------------------------------------------
(* A package is copied to the client, where an earlier one may be in use.  *)
(* The archive may lack an entry or have one too many.                     *)
Deliver(p, entries) ==
    /\ file' = [p EXCEPT !.entries = entries]
    /\ UNCHANGED <<buildVars, clientVars>>

Delivered(p) ==
    LET pairs == Components \X (1 .. MaxBuilds)
    IN  {p.entries} \cup {p.entries \ {e} : e \in pairs} \cup {p.entries \cup {e} : e \in pairs}

-----------------------------------------------------------------------------
(* The updater *)

validateManifest(m, current) ==
    /\ m.architecture = Architecture /\ m.files # {}
    /\ compareVersions(current, m.minimum) >= 0
    /\ compareVersions(current, m.release) < 0

(* No name twice, the signature of the key, every listed file as signed,   *)
(* and no unlisted one.                                                    *)
verifyPackageEntries(p, current) ==
    /\ Cardinality(p.entries) = Cardinality(Named(p.entries))
    /\ p.key = ReleaseKey
    /\ validateManifest(p.manifest, current)
    /\ p.manifest.files \subseteq p.entries
    /\ Named(p.entries) \subseteq Named(p.manifest.files)

Newer(v, w) == IF compareVersions(w, v) > 0 THEN w ELSE v

(* What a worker of version own has saved.                                 *)
SavedVersion(own) == IF floor.saved THEN Newer(own, floor.version) ELSE own

Recorded == IF record.status = "success" THEN {record.release} ELSE {}

(* A recorded success that is later is saved.                              *)
KnownFloor(own) ==
    IF \E v \in Recorded : compareVersions(v, SavedVersion(own)) > 0
      THEN [saved |-> TRUE, version |-> record.release] ELSE floor

workerInstalledVersion(own) ==
    IF record.status = "success" THEN Newer(SavedVersion(own), record.release)
    ELSE SavedVersion(own)

(* The updater knows its own version only.                                 *)
currentVersion(u) == IF u = "worker" THEN workerInstalledVersion(binary) ELSE binary

NoteInstalled == floor' = KnownFloor(binary) /\ seen' = seen \cup Recorded

(* A run of the worker that ends before it has verified a package.         *)
WorkerRefuses ==
    /\ updater["worker"] = NoUpdater /\ file # NoPackage
    /\ NoteInstalled
    /\ UNCHANGED <<buildVars, file, updater, stage, installed, binary, target, record>>

(* The worker takes stable releases only, and holds the update lock from   *)
(* here on; the updater takes the lock when it installs.                   *)
VerifyAndStage(u, d) ==
    /\ updater[u] = NoUpdater /\ file # NoPackage
    /\ verifyPackageEntries(file, currentVersion(u))
    /\ u = "worker" => file.manifest.channel = "stable"
    /\ stage[d] = NoStage
    /\ stage' = [stage EXCEPT ![d] = [state |-> "tmp", files |-> {}]]
    /\ updater' = [updater EXCEPT ![u] =
           [pc |-> "stage", dir |-> d, manifest |-> file.manifest, own |-> binary]]
    /\ IF u = "worker" THEN NoteInstalled ELSE UNCHANGED <<floor, seen>>
    /\ UNCHANGED <<buildVars, file, installed, binary, target, record>>

Staged(u) == stage[updater[u].dir].files

Unstaged(u) ==
    IF updater[u].pc = "stage" THEN Named(updater[u].manifest.files) \ Named(Staged(u)) ELSE {}

WriteEntry(u, pair) ==
    /\ stage' = [stage EXCEPT ![updater[u].dir].files = @ \cup {pair}]
    /\ UNCHANGED updater

cleanup(u) ==
    /\ stage' = [stage EXCEPT ![updater[u].dir] = NoStage]
    /\ updater' = [updater EXCEPT ![u] = NoUpdater]

(* Faulty variant: the payload is not hashed again.                        *)
stageEntryUnchecked(u, c) ==
    /\ c \in Unstaged(u)
    /\ \/ \E pair \in Of(c, file.entries) : WriteEntry(u, pair)
       \/ Of(c, file.entries) = {} /\ cleanup(u)
    /\ UNCHANGED <<buildVars, file, installed, binary, target, record, floor, seen>>

(* The archive is read at this moment, with whatever was delivered since.  *)
stageEntry(u, c) ==
    /\ c \in Unstaged(u)
    /\ \/ \E pair \in Of(c, file.entries) \cap updater[u].manifest.files : WriteEntry(u, pair)
       \/ Of(c, file.entries) # Of(c, updater[u].manifest.files) /\ cleanup(u)
    /\ UNCHANGED <<buildVars, file, installed, binary, target, record, floor, seen>>

(* The plan is written and the directory gets its name.                    *)
RenameStage(u) ==
    /\ updater[u].pc = "stage" /\ Unstaged(u) = {}
    /\ stage' = [stage EXCEPT ![updater[u].dir] =
           [state |-> "staged", files |-> @.files, release |-> updater[u].manifest.release]]
    /\ updater' = [updater EXCEPT ![u].pc = "install"]
    /\ UNCHANGED <<buildVars, file, installed, binary, target, record, floor, seen>>

RequiresLightDMMaintenance(files) == Named(files) \cap Greeter # {}

(* No worker has the lock.  One that died after its installation left a    *)
(* journal, which a later run finishes.                                    *)
LockFree == updater["worker"].pc \in {"idle", "finish"}

(* The installation succeeds; UpdateInstaller has it in detail.  A run by  *)
(* hand that verified its package before a worker installed a later one    *)
(* may put back an older program: nothing is held against that.            *)
InstallStaged(u, allowMaintenance) ==
    /\ updater[u].pc = "install"
    /\ u = "manual" => LockFree
    /\ RequiresLightDMMaintenance(Staged(u)) => allowMaintenance
    /\ LET release == stage[updater[u].dir].release
           content(c) == (CHOOSE pair \in Of(c, Staged(u)) : TRUE)[2]
       IN  /\ target' = [c \in Components |->
                             IF c \in Named(Staged(u)) THEN content(c) ELSE target[c]]
           /\ installed' = release
           /\ binary' = IF Named(Staged(u)) \cap Updater # {} THEN release ELSE binary
           /\ record' = [status |-> "success", release |-> release]
           /\ seen' = IF u = "worker" THEN seen \cup {release}
                      ELSE IF compareVersions(binary', binary) < 0 THEN {} ELSE seen
    /\ updater' = [updater EXCEPT ![u] =
           IF u = "worker" THEN [@ EXCEPT !.pc = "finish"] ELSE NoUpdater]
    /\ stage' = [stage EXCEPT ![updater[u].dir] = NoStage]
    /\ UNCHANGED <<buildVars, file, floor>>

(* Faulty variant: update-state.json is trusted to keep the release.       *)
finishUnsaved ==
    /\ updater["worker"].pc = "finish"
    /\ seen' = seen \cup Recorded
    /\ updater' = [updater EXCEPT !["worker"] = NoUpdater]
    /\ UNCHANGED <<buildVars, file, stage, installed, binary, target, record, floor>>

(* The release of the journal is saved, by the process that installed it   *)
(* or, after a crash, by one of the version installed now.                 *)
finishWorker ==
    /\ updater["worker"].pc = "finish"
    /\ LET release == updater["worker"].manifest.release
       IN  \E own \in {updater["worker"].own, binary} :
               floor' = IF compareVersions(release, workerInstalledVersion(own)) > 0
                          THEN [saved |-> TRUE, version |-> release] ELSE KnownFloor(own)
    /\ seen' = seen \cup Recorded
    /\ updater' = [updater EXCEPT !["worker"] = NoUpdater]
    /\ UNCHANGED <<buildVars, file, stage, installed, binary, target, record>>

(* Refused or dead before the installation, or rolled back and recorded as *)
(* failed.                                                                 *)
Ends(u) ==
    /\ updater[u].pc \in {"stage", "install"}
    /\ cleanup(u)
    /\ \/ UNCHANGED record
       \/ /\ updater[u].pc = "install" /\ (u = "manual" => LockFree)
          /\ record' = [status |-> "failed", release |-> updater[u].manifest.release]
    /\ UNCHANGED <<buildVars, file, installed, binary, target, floor, seen>>

-----------------------------------------------------------------------------
(* A client of some version, before the first package.                     *)
Init ==
    /\ source = [c \in Components |-> 1] /\ packager = NoPackager /\ packages = {}
    /\ file = NoPackage /\ updater = [u \in Updaters |-> NoUpdater]
    /\ stage = [d \in Dirs |-> NoStage]
    /\ installed \in FirstVersions /\ binary = installed
    /\ target = [c \in Components |-> 0]
    /\ record = NoRecord /\ floor = NoFloor /\ seen = {}

Packager ==
    \/ \E o \in PackageOptions : StartPackager(o)
    \/ \E c \in Components : hashFile(c) \/ CopyComponent(c)
    \/ CreateSignedPackage \/ PackagerFails

Client(u) ==
    \/ \E d \in Dirs : VerifyAndStage(u, d)
    \/ \E c \in Components : stageEntry(u, c)
    \/ RenameStage(u) \/ Ends(u)
    \/ \E allow \in BOOLEAN : InstallStaged(u, allow)

Next ==
    \/ \E c \in Components : Build(c)
    \/ Packager
    \/ \E p \in packages : \E entries \in Delivered(p) : Deliver(p, entries)
    \/ \E u \in Updaters : Client(u)
    \/ WorkerRefuses \/ finishWorker

Spec == Init /\ [][Next]_vars

-----------------------------------------------------------------------------
(* The files of a client change only to one whole signed release: every    *)
(* component that its manifest lists gets the content that was hashed when *)
(* it was signed and the others stay, although the package on disk may be  *)
(* replaced between verification and staging.                              *)
InstalledAsSigned ==
    [][target' # target =>
          \E p \in packages :
              /\ p.key = ReleaseKey /\ p.manifest.release = installed'
              /\ \A c \in Components :
                     IF c \in Named(p.manifest.files)
                       THEN <<c, target'[c]>> \in p.manifest.files
                       ELSE target'[c] = target[c]]_vars

Releases == FirstVersions \cup {o.release : o \in PackageOptions}

(* The releases are ordered as semver.org says: Go reads them so, and no   *)
(* two are written differently for one number.                             *)
PlainReleases ==
    /\ \A v \in Releases : Plain(v)
    /\ \A v, w \in Releases :
           Precedes(v, w) \/ Precedes(w, v) \/ (v.core = w.core /\ v.pre = w.pre)

(* The worker installs only releases later, in the precedence of           *)
(* semver.org, than its own version, than a success that update-state.json *)
(* records, and than every release that a worker installed or found there  *)
(* before, whatever failed since and wherever a worker died; up to the     *)
(* last time a run by hand put back an older program.  A release installed *)
(* by hand that no worker has seen is held only by update-state.json,      *)
(* which the next run by hand overwrites, also one that fails              *)
(* (workerInstalledVersion).                                               *)
WorkerOnlyUpgrades ==
    [][updater["worker"].pc = "install" /\ updater'["worker"].pc = "finish" /\ PlainReleases =>
           \A v \in seen \cup Recorded \cup {binary} : Precedes(v, installed')]_vars

AgreeOn(v, w) ==
    LET shown == updateState(v, w)
        order == compareVersions(v, w)
    IN  \/ shown = "Unknown"
        \/ /\ (shown = "Update available") = (order < 0)
           /\ (shown = "Client newer") = (order > 0)
           /\ Plain(v) /\ Plain(w) => (order < 0) = Precedes(v, w)

AgreedOn ==
    [w \in Releases |-> {v \in Versions : AgreeOn(v, w) /\ AgreeOn(w, v)}]

(* For every version and the installed one, the client list of the server  *)
(* (compareSemanticVersions) and the updater (compareVersions) agree on    *)
(* which is an update of the other, unless the server shows Unknown since  *)
(* a number of MAJOR.MINOR.PATCH is beyond an int.  They agree with        *)
(* semver.org too, unless a pre-release has a numeral beyond an int, which *)
(* Go compares as text, or a hyphen and digits, which it compares as a     *)
(* number.                                                                 *)
SameVerdict == Versions \subseteq AgreedOn[installed]
=============================================================================
