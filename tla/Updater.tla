------------------------------- MODULE Updater -------------------------------
(***************************************************************************)
(* Installing a new binary (internal/update/update.go and                  *)
(* handleUpdateApply of internal/web/server.go): the detached shell script *)
(* of StartBackgroundApply, the in-process Apply with installBinary when   *)
(* the script cannot be started, and several requests at once. A file is   *)
(* abstracted to what it holds. Scripts share all their paths; set -e ends *)
(* a script at the first command that fails outside a test. A version is   *)
(* the sequence of its numbers. No release appears during a history.       *)
(***************************************************************************)
EXTENDS Naturals, Sequences, FiniteSets

CONSTANTS
  Request,      \* POSTs of /api/update/apply
  Current,      \* the version of the old binary
  Latest,       \* the version of the latest release
  Troubles      \* the sets of things that may go wrong in one history

\* "busy": the rename of the running binary may fail (ETXTBSY);
\* "nohelper": the script may fail to start; "overlap": a request may come while
\* another one installs; "kill": a script may be killed, as by a power cut.
Trouble == {"busy", "nohelper", "overlap", "kill"}

\* Two installations inside the process at once are not modelled.
ASSUME TroublesType ==
  Troubles \subseteq {T \in SUBSET Trouble : ~({"nohelper", "overlap"} \subseteq T)}

Content == {"none", "part", "old", "new"}

ASSUME VersionsType == {Current, Latest} \subseteq Seq(Nat)

VARIABLES
  dest,       \* the installed binary
  bak,        \* dest.bak
  staged,     \* the script's dest.new
  stagedBy,   \* the request whose cp has staged open and writes to it
  inproc,     \* .keenetic-mtproto.new of installBinary
  tgz,        \* the script's archive
  dir,        \* the unpacked binary
  pc,         \* where each request is
  ran,        \* the binaries the service was restarted with
  process,    \* the binary that runs
  trouble     \* what may go wrong

paths == <<dest, bak, staged, stagedBy, inproc, tgz, dir>>
vars == <<paths, pc, ran, process, trouble>>

ScriptSteps == {"start", "download", "fetching", "tar", "untar", "cp", "copying",
                "copypart", "mv1", "mv2", "cleanup", "restart"}
ApplySteps == {"fetch", "stage", "backup", "place", "last", "lastplace"}
Over == {"done", "failed"}

TypeOK ==
  /\ {dest, bak} \subseteq Content
  /\ {staged, inproc, tgz, dir} \subseteq {"none", "part", "new"}
  /\ stagedBy \subseteq Request
  /\ pc \in [Request -> {"idle"} \cup ScriptSteps \cup ApplySteps \cup Over]
  /\ ran \subseteq Content /\ process \in Content
  /\ trouble \in Troubles

Init ==
  /\ dest = "old" /\ bak = "none" /\ staged = "none" /\ stagedBy = {}
  /\ inproc = "none" /\ tgz = "none" /\ dir = "none"
  /\ pc = [r \in Request |-> "idle"]
  /\ ran = {} /\ process = "old"
  /\ trouble \in Troubles

May(t) == t \in trouble
At(r, from, to) == pc[r] = from /\ pc' = [pc EXCEPT ![r] = to] /\ UNCHANGED trouble

\* versionLess: missing numbers are 0, and a build without a version is always older.
VersionLess(current, latest) ==
  LET number(v, i) == IF i <= Len(v) THEN v[i] ELSE 0 IN
  \/ current = <<>>
  \/ \E i \in 1..(Len(current) + Len(latest)) :
       /\ number(current, i) < number(latest, i)
       /\ \A j \in 1..(i - 1) : number(current, j) = number(latest, j)

\* Check: of the panel, which is the process that runs.
Version == IF process = "new" THEN Latest ELSE Current
UpdateAvail == process \in {"old", "new"} /\ VersionLess(Version, Latest)

\* Check has found an update; the helper starts, or Apply runs in the process.
Begin(r) ==
  /\ May("overlap") \/ \A q \in Request : pc[q] \in {"idle"} \cup Over
  /\ UpdateAvail
  /\ At(r, "idle", "start") \/ (May("nohelper") /\ At(r, "idle", "fetch"))
  /\ UNCHANGED <<paths, ran, process>>

\* There is no release, none for the architecture, or no newer one.
Refuse(r) ==
  /\ At(r, "idle", "failed")
  /\ UNCHANGED <<paths, ran, process>>

-----------------------------------------------------------------------------
(* The script. *)

\* rm -rf DIR TGZ; mkdir DIR.
Clean(r) ==
  /\ At(r, "start", "download")
  /\ dir' = "none" /\ tgz' = "none"
  /\ UNCHANGED <<dest, bak, staged, stagedBy, inproc, ran, process>>

\* Each of the addresses is tried; curl truncates the archive.
StartDownload(r) ==
  /\ At(r, "download", "fetching")
  /\ tgz' = "part"
  /\ UNCHANGED <<dest, bak, staged, stagedBy, inproc, dir, ran, process>>

\* downloadCandidates: the next of the addresses.
NextAddress(r) ==
  /\ At(r, "fetching", "download")
  /\ UNCHANGED <<paths, ran, process>>

\* It writes to the file it opened, also when that was removed meanwhile.
EndDownload(r) ==
  /\ \/ /\ At(r, "fetching", "tar")
        /\ tgz' = IF tgz = "none" THEN "none" ELSE "new"
     \/ At(r, "fetching", "failed") /\ UNCHANGED tgz
  /\ UNCHANGED <<dest, bak, staged, stagedBy, inproc, dir, ran, process>>

\* tar fails without a whole archive, or on a full disk.
StartUnpack(r) ==
  /\ \/ tgz = "new" /\ At(r, "tar", "untar") /\ dir' = "part"
     \/ tgz # "new" /\ At(r, "tar", "failed") /\ UNCHANGED dir
  /\ UNCHANGED <<dest, bak, staged, stagedBy, inproc, tgz, ran, process>>

EndUnpack(r) ==
  /\ \/ At(r, "untar", "cp") /\ dir' = IF dir = "none" THEN "none" ELSE "new"
     \/ At(r, "untar", "failed") /\ UNCHANGED dir
  /\ UNCHANGED <<dest, bak, staged, stagedBy, inproc, tgz, ran, process>>

\* The unpacked binary is looked for, and cp truncates or creates dest.new.
StartCopy(r) ==
  /\ \/ /\ dir = "none" /\ At(r, "cp", "failed")
        /\ UNCHANGED <<staged, stagedBy>>
     \/ /\ \/ dir = "new" /\ At(r, "cp", "copying")
           \/ dir = "part" /\ At(r, "cp", "copypart")
        /\ staged' = "part" /\ stagedBy' = stagedBy \cup {r}
  /\ UNCHANGED <<dest, bak, inproc, tgz, dir, ran, process>>

\* Mutant: cp is not awaited.
EndCopyEarly(r) ==
  /\ At(r, "copying", "mv1") \/ At(r, "copypart", "mv1")
  /\ UNCHANGED <<paths, ran, process>>

\* Mutant: cp writes to the installed binary.
EndCopyInPlace(r) ==
  /\ At(r, "copying", "mv1") \/ At(r, "copypart", "mv1")
  /\ dest' = "new" /\ stagedBy' = stagedBy \ {r}
  /\ UNCHANGED <<bak, staged, inproc, tgz, dir, ran, process>>

\* cp writes to the file it has opened, which another script may have moved to
\* dest meanwhile. What it copies may still be growing; the disk may be full.
EndCopy(r) ==
  /\ \/ /\ At(r, "copying", "mv1") \/ At(r, "copypart", "mv1")
        /\ \E c \in IF pc[r] = "copying" THEN {"new"} ELSE {"new", "part"} :
             IF r \in stagedBy
               THEN staged' = c /\ UNCHANGED dest
               ELSE dest' = (IF dest = "part" THEN c ELSE dest) /\ UNCHANGED staged
     \/ /\ At(r, "copying", "failed") \/ At(r, "copypart", "failed")
        /\ UNCHANGED <<staged, dest>>
  /\ stagedBy' = stagedBy \ {r}
  /\ UNCHANGED <<bak, inproc, tgz, dir, ran, process>>

\* Mutant: the installed binary is removed, and not moved.
BackupIsRemove(r) ==
  /\ At(r, "mv1", "mv2")
  /\ dest' = "none"
  /\ UNCHANGED <<bak, staged, stagedBy, inproc, tgz, dir, ran, process>>

\* mv DEST DEST.bak || rm -f DEST.
Backup(r) ==
  /\ At(r, "mv1", "mv2")
  /\ dest' = "none"
  /\ \/ bak' = (IF dest = "none" THEN bak ELSE dest)
     \/ May("busy") /\ UNCHANGED bak
  /\ UNCHANGED <<staged, stagedBy, inproc, tgz, dir, ran, process>>

\* mv DEST.new DEST fails when there is no such file. A cp that has the file open
\* goes on writing to it.
Place(r) ==
  /\ \/ staged = "none" /\ At(r, "mv2", "failed") /\ UNCHANGED <<dest, staged, stagedBy>>
     \/ /\ staged # "none" /\ At(r, "mv2", "cleanup")
        /\ dest' = staged /\ staged' = "none" /\ stagedBy' = {}
  /\ UNCHANGED <<bak, inproc, tgz, dir, ran, process>>

CleanUp(r) ==
  /\ At(r, "cleanup", "restart")
  /\ dir' = "none" /\ tgz' = "none"
  /\ UNCHANGED <<dest, bak, staged, stagedBy, inproc, ran, process>>

Restart(r) ==
  /\ At(r, "restart", "done")
  /\ ran' = ran \cup {dest} /\ process' = dest
  /\ UNCHANGED paths

\* The script dies where it is; its files stay.
Die(r) ==
  /\ May("kill") /\ pc[r] \in ScriptSteps
  /\ pc' = [pc EXCEPT ![r] = "failed"]
  /\ stagedBy' = stagedBy \ {r}
  /\ UNCHANGED <<dest, bak, staged, inproc, tgz, dir, ran, process, trouble>>

-----------------------------------------------------------------------------
(* Apply: the archive is fetched and unpacked in a directory of its own. *)

Fetch(r) ==
  /\ At(r, "fetch", "stage") \/ At(r, "fetch", "failed")
  /\ UNCHANGED <<paths, ran, process>>

\* copyFile to .keenetic-mtproto.new; os.Remove of the old backup.
Stage(r) ==
  /\ \/ At(r, "stage", "backup") /\ inproc' = "new" /\ bak' = "none"
     \/ At(r, "stage", "failed") /\ inproc' = "part" /\ UNCHANGED bak
  /\ UNCHANGED <<dest, staged, stagedBy, tgz, dir, ran, process>>

\* os.Rename(dest, bak); when it fails the staged binary is removed.
RenameOld(r) ==
  /\ \/ /\ dest # "none" /\ At(r, "backup", "place")
        /\ bak' = dest /\ dest' = "none" /\ UNCHANGED inproc
     \/ /\ dest = "none" \/ May("busy")
        /\ At(r, "backup", "last")
        /\ inproc' = "none" /\ UNCHANGED <<dest, bak>>
  /\ UNCHANGED <<staged, stagedBy, tgz, dir, ran, process>>

\* Mutant: the backup is not put back.
NoRollBack(r) ==
  /\ \/ inproc # "none" /\ At(r, "place", "restart") /\ dest' = inproc /\ inproc' = "none"
     \/ At(r, "place", "failed") /\ UNCHANGED <<dest, inproc>>
  /\ UNCHANGED <<bak, staged, stagedBy, tgz, dir, ran, process>>

\* os.Rename(tmpBin, dest); when it fails the backup is put back.
PlaceNew(r) ==
  /\ \/ /\ inproc # "none" /\ At(r, "place", "restart")
        /\ dest' = inproc /\ inproc' = "none" /\ UNCHANGED bak
     \/ /\ At(r, "place", "failed")
        /\ IF bak = "none" THEN UNCHANGED <<dest, bak>> ELSE dest' = bak /\ bak' = "none"
        /\ UNCHANGED inproc
  /\ UNCHANGED <<staged, stagedBy, tgz, dir, ran, process>>

\* The last resort: os.Remove(dest), and the rename of the staged binary.
RemoveOld(r) ==
  /\ \/ dest # "none" /\ At(r, "last", "lastplace") /\ dest' = "none"
     \/ dest = "none" /\ At(r, "last", "failed") /\ UNCHANGED dest
  /\ UNCHANGED <<bak, staged, stagedBy, inproc, tgz, dir, ran, process>>

\* os.Rename of the staged binary, if it is still there; dest was removed before.
PlaceLast(r) ==
  /\ At(r, "lastplace", IF inproc = "none" THEN "failed" ELSE "restart")
  /\ dest' = inproc /\ inproc' = "none"
  /\ UNCHANGED <<bak, staged, stagedBy, tgz, dir, ran, process>>

Script(r) ==
  \/ Clean(r) \/ StartDownload(r) \/ NextAddress(r) \/ EndDownload(r) \/ StartUnpack(r) \/ EndUnpack(r)
  \/ StartCopy(r) \/ EndCopy(r)
  \/ Backup(r) \/ Place(r) \/ CleanUp(r) \/ Restart(r) \/ Die(r)
Apply(r) ==
  Fetch(r) \/ Stage(r) \/ RenameOld(r) \/ PlaceNew(r) \/ RemoveOld(r) \/ PlaceLast(r)

Next == \E r \in Request : Begin(r) \/ Refuse(r) \/ Script(r) \/ Apply(r)

Spec == Init /\ [][Next]_vars

-----------------------------------------------------------------------------
(* Properties. *)

InstallOver == \A r \in Request : pc[r] \in {"idle"} \cup Over
Between == \E r \in Request : pc[r] \in {"mv2", "place", "lastplace"}

\* When renames work and no script is killed or overtaken: a whole binary is
\* installed at all times but between the two renames of an installation, after
\* every failed download, unpacking, copy or start, and after every retry that
\* finds what the failed attempts left behind.
BinaryIntact == trouble \subseteq {"nohelper"} => Between \/ dest \in {"old", "new"}

\* Whatever goes wrong, as long as installations do not overlap, the service is
\* only ever restarted with a whole new binary.
RestartedNew == ~May("overlap") => ran \subseteq {"new"}

\* Scripts that are killed anywhere, and scripts that find what those left: a whole
\* binary is installed, or the backup is one, or the new one is staged, so that the
\* router can be repaired by hand without a download.
Recoverable == trouble = {"kill"} => {dest, bak, staged} \cap {"old", "new"} # {}

\* However scripts overlap and die, none of them touches the installed binary before
\* it was moved to the backup: a failed download, archive or copy leaves it alone.
OldKept == trouble \subseteq {"overlap", "kill"} /\ bak = "none" => dest = "old"

\* installBinary on a failed rename: "Last resort: copy over running path is often
\* ETXTBSY too, so try remove+rename". Claimed: the last resort does not lose the
\* binary.
LastResortInstalls == \A r \in Request : pc[r] = "failed" => dest # "none"

\* The panel answers "update started; service will restart shortly". Claimed: an
\* update that was carried out is not undone by another one that was started too.
InstalledStays == InstallOver /\ (\E r \in Request : pc[r] = "done") => dest = "new"
=============================================================================
