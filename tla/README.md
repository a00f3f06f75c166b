# A TLA+ verification of vaultwarden-backup

vaultwarden-backup takes one backup per invocation: a snapshot of the SQLite
database and every other file of a vaultwarden data directory go into one
`<name>-<UTC stamp>.tgz`, optionally encrypted, which is delivered to local
directories and to an S3 bucket; after a complete delivery, archives older than
a retention period are deleted. The program is short-lived and single-threaded.
What is hard about it lies between invocations (two cron jobs, two containers,
a kill, a power loss, a clock set back), between the program and a live
vaultwarden, and between its checks and its acts. That is what the modules here
are about.

Paths below are relative to the repository; line numbers are in `PROJECT.json`.

## 1. Inventory

| Component | State | Operations | What is hard | What makes it correct |
|---|---|---|---|---|
| Run orchestration (`src/lib.rs`, `run`) | stamp, target list, scratch directory, lists of delivered and failed targets | argument checks, overwrite checks, snapshot, archive, encrypt, deliver, upload, cleanup | checks and acts are far apart; one step of several fails | a refused run writes nothing; a failed run deletes nothing; the report is the truth |
| Local delivery (`src/deliver.rs`) | files in the target directories, in memory and on disk | `ensure_targets_free`, `deliver`, `deliver_one` | other runs in the same directory; kill and power loss between any two calls; any call failing | a final name holds a whole artifact; no overwrite; what is reported survives; no part is left |
| Retention (`should_delete`, two `cleanup_retention`s) | archives in all targets, two clock readings | list, filter, delete | overlapping runs, other periods, clock steps, boundary of the period | nothing young is deleted, everything old is or a message says why not, the own archive stays |
| File walk (`src/files.rs`) | stack of paths, open file | `write`, `push_children`, `file_changed` | the directory changes under the walk | headers match bodies; entries are versions the file had; quiet files are all there |
| S3 upload (`src/s3.rs`) | parts in flight, the store's multipart upload | `ensure_object_free`, `upload` | requests fail, or take effect and seem to fail | whole objects, no overwrite, bounded memory, no orphan parts but after a failed finish or abort |
| S3 client and runtime (`src/s3.rs`) | one `OnceLock` | `client`, `runtime` | nothing | nothing a model would show |
| S3 keys (`src/s3.rs`), archive names (`src/lib.rs`) | none | `join_prefix`, `retention_keys_to_delete`, `check_archive_name`, `archive_stamp` | names that are prefixes of names | a key is found again by its own cleanup and by no other's |
| Archive creation (`src/archive.rs`), encryption (`src/crypto.rs`) | files in the scratch directory | `create`, `encrypt`, `check_recipients` | failing between plaintext and ciphertext | plaintext goes nowhere else and does not linger |
| Database snapshot (`src/db.rs`) | source and destination pages | `backup_sqlite` | a writer during the backup | the snapshot is one committed state |
| Command line (`src/main.rs`) | none | `parse_retention_period`, cross-checks | boundaries of numbers | nothing is defaulted silently |

They interact through calls in one process (`run` calls all others in order),
and, between processes, only through the file system and the object store:
there is no lock. `PROJECT.json` lists each hazard at its line, with the
properties that watch it.

## 2. What is modelled

Two groups of modules. The first follows **one run from its command line to its
exit status** against a live vaultwarden; the second takes single phases of it
apart, with **several runs** that meet in the targets.

### One run

**`AtomicBackup.tla`** is what an operator is promised: the database is captured
in one instant (`Capture`), complete copies appear at declared destinations
(`Copy`), and the result is "ok" only with a copy at each (`Finish`).

**`Preflight.tla`** is everything before work begins: the cross-checks of flags
in `main`, and in `run` the checks of name, mode, recipients, source, target
directories, nesting, and the two overwrite checks, one step each and in the
code's order (`Checks`, with `at` the one that is next). `Look` passes one that
only compares, `LookFails` refuses. Target directories take several steps each
(`MakeDir` is `create_dir_all`, `Canonicalize` what follows): in between,
somebody may point a symbolic link elsewhere (`Relink`). A path is a spelling,
and `link` says to which physical directory it leads now.

**`Capture.tla`** is what happens in the scratch directory: `backup_sqlite`,
`archive::create`, `crypto::encrypt`. The database is a set of rows, a row to a
page; `BackupStep` copies some pages and starts over if the source was written
to (`stale`), as SQLite's online backup does for writes of another connection.
`scratch` has the state of each file there, parts included. `CaptureFails` is
the error path of any stage, with what it may have begun and what it removes.
`Commit`, `Lock`, `Unlock` and `ChangeFile` are vaultwarden. A file is visited
in one step; `FileWalk` opens that up.

**`BackupRun.tla`** extends both and adds the delivery of the artifact to all
destinations, the report, the removal of the scratch directory (`Leave`) and a
kill. The removal is silent about failing, so `Leave` may keep any of the files
(`Leftovers`, the mishap "tempdir"). A destination gets the artifact or does
not; `Delivery` and `S3Upload` have the details.

| Code | Model |
|---|---|
| `main`'s flags, `run`'s arguments | `request`, one of `Requests` |
| position in `run` | `at` until `Accepted`, then `stage`, then `next` |
| `source`, `targets`, `seen` | `source`, `targets` |
| `temp` (a `TempDir`) | `scratch`, emptied by `Leave` whatever the result, or left in part (`Leftovers`) |
| `delivered`, `failures`, the returned `Result` | `delivered`, `failed`, `result` |
| file system under the targets | `dirs`, `link`, `holds` |
| SQLite file and attachments | `db`, `locked`, `files` |

### Several runs

**`ArchiveStore.tla`** is the abstract specification of local delivery: an
archive appears whole and in one step (`Publish`), nothing replaces it, a target
that is reported (`Report`) keeps its archive even through `LosePower`, and one
reported with a warning (`ReportWarned`) may not.

**`Delivery.tla`** is `deliver.rs` one system call at a time, for any number of
runs. `dir`/`data` are directories and file contents in memory,
`dirDisk`/`diskData` what is on disk; `fsync` copies from the one to the other,
the kernel may do so at any time (`WritebackDir`, `WritebackChunk`), and
`PowerLoss` goes back to the disk. A file name is a pair: the final name alone,
or with the process id of the part. `OpenPart`, `WriteChunk`, `CloseCopy` are
`fs::copy` (create or truncate, then write at the descriptor's own offset, even
if the file has meanwhile been renamed); `Fsync` and `Rename` go by name, as in
the code, so that they meet whatever file has that name then. `IOError` is the
`?` of any of these calls, `UnlinkPart` the cleanup after it. `PreCheck`,
`Recheck` and `NextTarget` are the three overwrite checks. `Work` stands for
snapshot, archive and encryption, which happen in scratch.

**`Retention.tla`** has the same runs with delivery of one target as one step,
and in return a clock, stamps, several locations and cleanup: `BeginSweep` reads
the clock once, `List` computes what is to go from a listing that may be stale
by the time of each `Delete`. A listing that fails is a warning (`gaveUp`); a
directory entry whose `file_type()` fails is passed over without one
(`PassedOver`, kept in the history `skipped`). A clock tick is a fraction of a
second and a stamp is cut down to seconds, as in `stamp()`; periods are in
seconds rather than hours, which only scales. A name is a value; what its
characters do is two relations. `Dashed` has the pairs where one name is the
other and a dash: after `<name>-`, `archive_stamp` accepts a year with a sign,
so that `vw--2026-...` is read as an archive of `vw` from the year -2026 (`Ages`
seconds old). `Escaped` has the names and prefixes that object_store
percent-encodes: their keys come back from a listing in another form than
`--name`.

**`FileWalk.tla`** is `files::write`: `lstat`, `open`, `fstat`, the copy block by
block, the second `lstat`, and the stack; any of these calls may fail and end
the walk (`CallFails`). Vaultwarden's side (external) rewrites, appends,
truncates, replaces, creates and removes at any point. Each write stores a fresh value, and a history of the open file's contents (`instants`)
tells a mixture from a version the file really had. Paths are numbers in
depth-first name order, so that "sorted" is `<` and a directory's contents are an
interval (`OrderAssumption`); every path is below the source (`RootAssumption`).
`push_children` pushes the entries as the one list that is in falling order
(`Descending`).

**`S3Upload.tla`** is `upload` with the store behind object_store's client:
parts travel concurrently, arrive in any order or fail (`PartArrives`), are
reaped while the writer waits, and the object appears when the store completes
the upload (`Assemble`), whether or not the answer arrives (`AnswerLost`). The
error of an abort is ignored in the code: `Abort` may leave the upload and its
parts in the store (the fault "abort", remembered in the history `unaborted`).

A comment in front of some definitions names a bug that would be easy to make;
the definition before it (`Occupied` has `OccupiedPart`) is that bug. The
`mutants` of `PROJECT.json` put it in the place of the real one and expect the
property to fail.

The `MC*.tla` modules only give the constants values. The theorems about a
module are in modules of their own (section 4):

| Module | Theorems in |
|---|---|
| `BackupRun` with `Preflight` and `Capture` | `BackupProofs`, `BackupRefinement` (of `AtomicBackup`) |
| `Delivery` | `DeliveryProofs`, `StoreProofs`, `StoreRefinement` (of `ArchiveStore`) |
| `Retention` | `RetentionProofs` |
| `S3Upload` | `S3UploadProofs` |
| `FileWalk` | `FileWalkProofs` |

## 3. Runs

Passing runs:

| Run | Instance | Shows |
|---|---|---|
| `BackupRun_whole` | 18 command lines on a file system with the data directory, one inside it and two outside; one link is moved once; 2 pages, 1 to a step; every call may fail | Of the checks: `EarlyRefusalsWriteNothing`, `NamesFit`. Of the work: `RowsHaveFiles`, `PlaintextGone`. Of the whole: `ArchiveOutsideSource`, `ReportedOnce`, `DeliveredAsDeclared`, `BackupEnds`, and that a run implements AtomicBackup (`ActsAtomically`). The inductive invariant `BackupInv`, `TypeOK` among its parts |
| `Delivery_serial` | 2 runs one after the other, same name, same pid, 2 directories, 1 chunk, kill, power loss and failing calls | `FinalsWhole`, the inductive invariants `IInv` (with `TypeOK`) and `StoreInv`, `ReportedStays`, `ReportTruthful`, and that Delivery implements ArchiveStore (`StoreSpec`) |
| `Delivery_live` | 2 overlapping runs, same name, same pid (so that they pull parts from under each other), 2 directories, any call failing | `NoPartLeft`, `RunEnds`, and `NoLateOverwrite`: the check in `deliver`'s loop holds off a run that has not begun to copy when another archive takes the name |
| `Retention_serial` | 2 runs one after the other, 2 targets, every fault, the clock set at will | `TypeOK`, the inductive invariant `CleanupInv`, `OwnArchiveKept`, `SweepComplete` (what is old is gone, on a target warned of, or passed over), `NeverEmptied`, `DeletesOnlyAfterDelivery` |
| `Retention_overlap` | 2 overlapping runs, periods of 1 and 2 seconds, 7 ticks, every fault but the clock | `FreshArchiveKept`, `DeletedIsOld` |
| `FileWalk_live` | 5 paths (a directory with a file, a plain file, the database, a symlink), 3 changes, files of up to 3 blocks, a fine clock, any call failing | `TypeOK`, the inductive invariant `WalkInv`, `TarIntact`, `EntryWhole`, `QuietFilesArchived`, `EntriesInOrder` |
| `S3Upload_serial` | 2 runs one after the other, one key, 4 parts, 2 in flight, every fault | `TypeOK`, the inductive invariant `UploadInv`, `ObjectsWhole`, `InFlightBounded`, `LeavingsExplained` (parts that outlast an upload are those of a `finish` or an abort that failed), `NoOverwrite`, `UploadEnds` |

Runs that find a documented promise broken (the quotes are in `PROJECT.json`):

| Run | Shows |
|---|---|
| `Delivery_shared_torn` | Two runs of one name, second and pid share a part; a torn file gets the final name. Pids are equal across containers (the image's entry point is the program, process 1) and across threads. |
| `FileWalk_coarse` | A file that grows and shrinks back within one tick of the clock passes the check with a wrong size in its header. |
| `S3Upload_race` | Two overlapping runs of one key both upload; the later replaces the earlier. |
| `Retention_foreign` | In a shared target, the cleanup of `--name vw` deletes what `--name vw-` has just delivered. |
| `Retention_escaped` | Under a `--name` that object_store escapes, expired objects are never deleted. |

Overlapping runs in one directory are the matter of `Delivery_live` and
`Delivery_shared_torn`; `Delivery_serial` is about the report and the disk. That
overlapping runs keep `FinalsWhole` as long as their pids or file names differ
is a theorem of section 4, and what happens if they do not is
`Delivery_shared_torn`. `NoLateOverwrite` is as much as holds of "no
overwrites" for them: `rename` follows the copy without another look, so that two
runs of one file name that are both past the check in the loop replace each
other's archives, and both report success. `S3Upload_race` shows the same of the
bucket.

**Bounds.** Runs do not communicate, so a conflict is between two of them; two
directories are enough to tell "this target" from "the others". The `Delivery`
and `S3Upload` models are finite without further bounds. `MaxTime` (3 ticks in
`Retention_serial`, 6 in `Retention_overlap`, two to the second) allows archives
before, at and past each period. `MaxWrites` (3) lets a file change before,
during and after its copy; `MaxLen` (3) lets it grow and shrink. `Chunks`,
`Parts` and `Capacity` are smaller than in the code (an artifact has as many
parts as it has 5 MiB, and 4 may be in flight); with 4 parts and 2 in flight the
writer does wait. `MaxLive` bounds the runs alive at once; 1 means that runs do
not overlap.

In `BackupRun_whole`, two pages at one to a step make the backup stop half-way,
where a commit may hit a page already copied or one still to come. `MaxRelinks`
is 1: the link can move before, between or after `create_dir_all`,
`canonicalize`, the nesting check and delivery. The command lines are two good
ones (plain and local with two spellings of one directory; encrypted, local and
S3, with a directory still to create) and one per way of being wrong, the lengths
of `--name` at and around the limit among them. Vaultwarden's writes are not
bounded, only confined to where they matter: the database changes while the
snapshot is taken, the files until the walk is over. Nothing after reads them.

**Deadlock** is checked in every run; `Done` (and `Over` in `FileWalk`) is the
regular end.

**Fairness.** `RunEnds` and `UploadEnds` assume that a process that has begun
keeps running (weak fairness of the steps of its own code), and that the store
or the client's timeout answers a request (weak fairness of `Arrival`).
`BackupEnds` assumes weak fairness of `ProgramStep` alone. No fairness is
assumed of failures, kills, vaultwarden or other runs, nor that a run begins.
`BackupEnds` has a premise, that the database is at some time no longer written
to (`<>[][FALSE]_db`): the online backup starts over after each write, and under
a writer that never pauses it need not end. A writer that just keeps its lock
does not hold the run up: `BackupBusy` is the end of the busy timeout.

## 4. Proofs

All are for all values of the constants, under the named assumptions of the
modules (what types the constants have, and that the sentinel `Absent` is none of
the values it stands beside).

`BackupProofs.tla` and `BackupRefinement.tla`, about `BackupRun`:

- `BackupInvariant`: `Spec => []BackupInv`, and from it
- `BackupTyped`: `Spec => []TypeOK`;
- `ArchiveStaysOutside`: `Spec => []ArchiveOutsideSource`;
- `DeliveredIsDeclared`: `Spec => []DeliveredAsDeclared`;
- `EachReportedOnce`: `Spec => []ReportedOnce`;
- `PlaintextAlwaysGone`: `Spec => []PlaintextGone`;
- `RowsKeepFiles`: `Spec => []RowsHaveFiles`, with the invariant `Walked`: what
  is there from the end of the snapshot on is listed, then archived;
- `EarlyRefusalsTouchNothing`: `Spec => []EarlyRefusalsWriteNothing`, with the
  invariant `Untouched`: nothing is created before the check "dirs", and a
  refusal ends the checks;
- `NamesAlwaysFit`: `Spec => []NamesFit`;
- `BackupIsAtomic`: `Spec => ActsAtomically`, the refinement of `AtomicBackup`.

Most of these properties are not inductive. `ArchiveOutsideSource` needs that the
targets checked are those delivered to (`Vetted`, `Placed`), and that nothing
precedes the last check (`NothingYet`). `DeliveredAsDeclared` needs to know, at
each stage, which file of the scratch directory is whole (`Progress`), over a
rename, an encryption and another rename. `PlaintextGone` needs that what a stage
used up is gone and that nothing is delivered before the last stage
(`Consumed`); it holds without the removal of the scratch directory, which may
fail, and through a kill. `ReportedOnce` and the step `Copy` of
the refinement need `OneByOne`: the targets are distinct, and what has a copy
was next before. The step `Capture` needs `Snapped`: while the backup lasts, the
pages copied are the database's current ones unless it is about to start over.
Under the mapping, `captured` is the snapshot as soon as all its pages are
there, and `copies` the destinations that hold something; checks change
`declared`, and everything else stutters.

`DeliveryProofs.tla`, `StoreProofs.tla` and `StoreRefinement.tla`, about
`Delivery`, for any number of runs, directories, chunks and, but for the
hypotheses, any combination of faults:

| Theorem | Statement |
|---|---|
| `TypeCorrect` | `Spec => []TypeOK` |
| `FilesAlwaysInOrder` | `PartsApart /\ Spec => []IInv` |
| `FinalsAlwaysWhole` | `PartsApart /\ Spec => []FinalsWhole` |
| `StoreAlwaysInOrder` | `Serial /\ Spec => []StoreInv` |
| `ReportedAlwaysStays` | `Serial /\ Spec => []ReportedStays` |
| `ReportAlwaysTruthful` | `Serial /\ Spec => []ReportTruthful` |
| `LatecomersNeverOverwrite` | `PartsApart /\ "stat" \notin Faults /\ Spec => NoLateOverwrite` |
| `DeliveryIsStore` | `Serial /\ Spec => StoreSpec` |
| `NoPartStays` | `ErrorPathRuns /\ Spec => []NoPartLeft` |

- `PartsApart`: live runs differ in pid or in file name, or do not overlap. It is
  what `Delivery_shared_torn` does without. `FinalsWhole` is not inductive: a
  rename needs the part to hold a whole artifact *in memory and on disk*, a power
  loss needs what is final on disk to have its content there. `IInv` adds that
  live runs have different parts (`LiveParts`), that an inode stays in its
  directory and under its file name (`Home`), has one name there (`LinkedOnce`)
  and is not linked before it is created (`Fresh`); that what has a final name has
  the whole artifact in memory and on disk (`FinalsSealed`, of both copies of the
  directory); that what is final on disk is not somebody's part in memory
  (`DiskFinalNoPart`: a part may be truncated, and after a write-back the disk
  might still show it); and that the copy of each run is as far as its program
  counter says (`CopyProgress`).
- `Serial`: no two runs of one file name overlap (`NoRivals`), and
  `Path::exists` does not fail. Both are needed: `exists` and `rename` are two
  calls, and an `exists` that fails says "free". A file name has the second of the
  start in it, so that only runs of one `--name` begun in one second can be
  rivals. `StoreInv` adds to `IInv` that a name that
  was free at the check is free until the rename (`NameStillFree`), that the disk
  may lag behind memory under a final name but not disagree (`DiskBehind`), that
  what is reported without a warning is on disk (`Kept`), that it is the
  reporter's (`Owned`), and that each target is in one of the lists, still to do,
  or at hand (`Accounts`).
- `LatecomersNeverOverwrite` lets runs overlap as they like. A final name that
  is taken stays taken but for a power loss; a run for which it was taken before
  its copy began meets it in `NextTarget`, which leads past `OpenPart`, the only way
  to `Rename`. Without `"stat" \notin Faults` a check may take it for free.
- The refinement maps an archive to the run whose artifact the final name shows.
  `Rename` is `Publish` (or a stutter), the step after the directory's `fsync` is
  `Report` or, if it failed, `ReportWarned`, `PowerLoss` is `LosePower`; all else
  stutters.
- `ErrorPathRuns`: no kill, power loss or failing `unlink`, each of which leaves
  a part by itself. It needs no other condition: runs that share a part may pull
  it from under each other, but the last one removes it (`PartsOwned`).

`RetentionProofs.tla`, for any number of runs, targets, names and periods:

| Theorem | Statement |
|---|---|
| `TypeCorrect` | `Spec => []TypeOK` |
| `FreshAlwaysKept` | `"clock" \notin Faults /\ NoTwins /\ Spec => []FreshArchiveKept` |
| `OnlyOldDeleted` | `NoTwins /\ Spec => DeletedIsOld` |
| `OthersLeftAlone` | `NoTwins /\ Spec => ForeignKept` |
| `CleanupInOrder` | `[]Apart /\ Spec => []CleanupInv` |
| `OwnAlwaysKept` | `[]Apart /\ Spec => []OwnArchiveKept` |
| `CleanupCompletes` | `Unescaped /\ []Apart /\ Spec => []SweepComplete` |
| `LeftoversAlwaysLogged` | `"kind" \notin Faults /\ Unescaped /\ []Apart /\ Spec => []LeftoversLogged` |
| `DeliversBeforeDeleting` | `[]Apart /\ Spec => DeletesOnlyAfterDelivery` |
| `HistoryNeverEnds` | `NoTwins /\ []Apart /\ Spec => NeverEmptied` |
| `OneAtATimeKeepsApart` | `MaxLive <= 1 /\ Spec => []Apart` |

- `NoTwins`: `Dashed` is empty for the names in use. With two names a dash apart,
  `Retention_foreign` breaks it. The first four theorems allow any overlap and
  any staleness of a listing. `FreshArchiveKept` follows from `RInv`: a cleanup's
  clock reading lies in the past, and all on its list was older than its period
  at that reading; the clock only advances, so what is young now is on nobody's
  list. `DeletedIsOld` holds under a wrong clock too, and needs `Provenance`:
  what is listed was minted by a run, with its clock reading cut down to a second.
- `Apart`: runs that overlap and share a target have names of which neither could
  claim the other's archives. It is a hypothesis about the behaviour, as a second
  cleanup of the same name may take a run's archive from under it
  (`src/lib.rs:379-385` spares only one's own stamp); `OneAtATimeKeepsApart` says
  that runs started one at a time fulfil it. No condition is put on the clock.
  `CleanupInv` says of each run that before delivery it has nothing, before
  cleanup nothing on its list (`Untouched`), that its lists and its targets
  agree (`Settled`, `Held`), that its list holds no archive of its own
  (`Earmarked`), and that whatever is old is on the list, gone,
  on a target warned of or passed over (`Swept`).
- `DeletesOnlyAfterDelivery` names the run that deletes: it is in its cleanup, and
  its own archive is on each of its targets at that moment.
- `"kind" \notin Faults`: no `file_type()` fails. It is what turns
  `SweepComplete`, which excepts the entries passed over, into `LeftoversLogged`.
  Without it `LeftoversLogged` is false: such an entry is skipped with no message
  (`src/deliver.rs:152-154`), though the README has every cleanup failure logged.
- `Unescaped`: no name or bucket prefix that object_store escapes;
  `Retention_escaped` shows what happens otherwise.

`S3UploadProofs.tla`, for any number of runs, keys and parts, any `Capacity` and
`PartsPerRead`, and all faults:

| Theorem | Statement |
|---|---|
| `TypeCorrect` | `Spec => []TypeOK` |
| `BooksAlwaysKept` | `Spec => []UploadInv` |
| `ObjectsAlwaysWhole` | `Spec => []ObjectsWhole` |
| `InFlightAlwaysBounded` | `Spec => []InFlightBounded` |
| `LeavingsAlwaysExplained` | `Spec => []LeavingsExplained` |
| `NeverOverwritten` | `NoRivals /\ Spec => NoOverwrite` |

`UploadInv` keeps the books of an upload: while it goes on, what was sent is in
flight or in the store (a part that failed ends it); nothing flies any more when
complete() is asked for; the writer reads on only below capacity; no object is
made of a run under way, and no part sent of one that has not begun its upload.
`LeavingsExplained` is about what stays in the store: after a failed read, a
failed part or a task still in flight the upload is aborted, and only an abort
that fails (`src/s3.rs:242` drops its error), or a failed `finish`, whether
before `complete()` is asked for or after, leaves parts.
`NoRivals` (one run at a time, or keys of their own) is what `S3Upload_race`
violates.

`FileWalkProofs.tla`, for any tree, and any number of changes by vaultwarden:

| Theorem | Statement |
|---|---|
| `TypeCorrect` | `Spec => [](TypeOK /\ Clocked)` |
| `WalkAlwaysInOrder` | `Spec => []WalkInv` |
| `QuietAlwaysArchived` | `Spec => []QuietFilesArchived` |
| `AlwaysInOrder` | `Spec => []EntriesInOrder` |
| `ArchiveAlwaysReadable` | `FineClock /\ Spec => []TarIntact` |
| `EntriesAlwaysWhole` | `FineClock /\ Spec => []EntryWhole` |

- `FineClock`: no two changes have one mtime. `FileWalk_coarse` shows that
  `TarIntact` needs it. `Streamed` is then the inductive part: as long as a second
  look would find size and mtime of the first, the file has not changed, and the
  bytes read are those of one instant.
- That a quiet file is in the archive takes most of `WalkInv`: a path is reached
  from the stack by its directories (`Rooted`, `Reached`), the stack falls
  (`Ordered`), and a file nobody touched is archived or lies below a path that is
  still on the stack (`Archived`, `Pending`). A directory with such a file in it
  cannot be removed, so that no premise about the path to it is needed. That every
  path hangs below the source by finitely many directories is `RootAssumption`,
  which says it as a closure, for want of induction.

The assumptions on constants are named in the modules, and TLC evaluates them in
the runs: their types, that sentinels are none of the values they stand beside,
and in `FileWalk` that the paths are a finite tree.

Only model-checked: liveness (`BackupEnds`, `RunEnds`, `UploadEnds`), which is
outside what the prover handles. All other properties of the passing runs are
stated by a theorem.

## 5. Not modelled

- The S3 client and runtime hold one `OnceLock` and settings; there is nothing a
  model would show. tar, gzip, OpenPGP, SQLite and gpg are external: Capture has
  SQLite's backup and gpg as they are called.
- Modes, owners and mtimes of archive entries are copied from one `fstat`.
- `join_prefix` (trims slashes), `parse_retention_period` and the clap
  declarations: functions on strings, with unit tests of their own.
- Fingerprints are model values; trust in a key is gpg's.
- Under Preflight: a directory replaced by a symbolic link *after* it was
  canonicalized (the model moves links, not directories), and permissions beyond
  "it may fail".
- The checks in `run` for no target at all and for a second S3 target
  (`src/lib.rs:156-158`, `184-187`): the command line cannot ask for either.
- Under Capture: a temporary directory inside the source, and the removal of a
  stale snapshot by `backup_sqlite`, for which a new scratch directory gives no
  occasion.
- In `FileWalk`, a path that changes its kind between `lstat` and `open`, so that
  `open` follows a symbolic link or meets a directory: paths keep their kind. A
  walk sees a bounded number of changes; a writer that appends
  for ever is not there.

Read in the code and modelled, but with no property: a run that is killed, or
whose gpg and whose clean-up both fail, leaves plaintext in its scratch directory
if the directory's removal fails too or never happens, though the README says
"never lingers, even on failure" (`PlaintextGone` is about what stands beside
delivered ciphertext); a killed run leaves its
part for ever, since its name holds the old stamp and pid; a collision found at
the top of `deliver` leaves the other targets neither delivered nor named; a run
refused for nesting, a name in use or the bucket has already created its target
directories (`EarlyRefusalsWriteNothing` stops at the checks before them).

## 6. Plan

Done: all modules above, and a theorem for each safety property that a passing
run checks. What is left:

1. `Delivery` without `"stat" \notin Faults`: what can be said of a report when
   `Path::exists` may fail, target by target.
2. `Retention`: what overlapping runs of one name still keep (that the youngest
   archive of each target stays), as a property and a theorem.
3. Composition: that a destination of `BackupRun` is what `Delivery` and
   `S3Upload` promise of one.

Recursion is avoided in all modules proved about.
