# payload2recovery in TLA+

payload2recovery turns an Android OTA ZIP (with a `payload.bin`) into a ZIP that a custom recovery
can flash. This directory holds its model: TLA+ modules translated from the source, TLC
configurations that check them on small instances, and TLAPS proofs for all values of the constants.

## The system and its parts

| Part | Source | State it keeps | Operations | Correct when |
|---|---|---|---|---|
| Build orchestration | `pipeline.build`, `_Workspace` | workspace directory, stage timings, output ZIP | extract, classify, select, convert, stage, script, pack, clean up | only complete stages reach the ZIP; a temporary workspace goes, a user's stays |
| Partition selection | `_extractor_selected_partitions`, `_classify_extracted_partitions`, `_select_partitions`, `_selected_raw_images` | none (sets of names) | request, classify, select | what is selected was requested and extracted; no image is both converted and flashed raw; recovery is never overwritten |
| Conversion stage | `_process_partitions`, `_build_partition_artifact`, `backends.py` | thread pool, futures, brotli gate, image files | submit, convert to sparse, to `new.dat`, compress, collect | bounded compression, first failure reported, no worker left behind, right files handed on |
| Live display | `progress.py` | stage per partition, ZIP counters, the live terminal | update, fail, stage, update_package, close | tells each partition's fate, is stopped at the end |
| Installation package | `packaging.py` (`write_updater_script`, `write_dynamic_partitions_op_list`) | none here; on the device: super metadata, partitions, slots | generate the scripts; the recovery runs them | nothing is touched on a wrong device; partitions are created, resized and written in an order that works; a failure stops |
| ZIP writer | `packaging.build_flashable_zip` | archive, byte counters | write entries in chunks | every staged file is in the ZIP once, progress reaches its total |
| Super wiper | `tools/wipe-super/wipe-super.c` | geometry copies, metadata copies of all slots | wipe, flash a template | super is readable whatever happens, success means all copies |
| Sparse writer | `assets/scripts/img2simg.py` | pending run, chunk count, header | write, close | header and chunks agree; the parts of a split image fit together |
| Sparse reader | `assets/scripts/sparse_img.py` | chunks, care map, file map | load, load a block map, read ranges | every block with data is in one domain and read from its place |
| Range sets | `assets/scripts/rangelib.py` | none (values) | union, intersect, subtract, extend, ... | they are sets of integers |
| Block image diff | `blockimgdiff.py`, `img2sdat.py` | transfers, their graph and order, stashes | find transfers, order, stash, diff, write | the transfer list rebuilds the image from `new.dat`, whatever order came out, within the stash it declares |
| Command line and settings | `cli.py`, `config.py`, `models.py` | options | parse, load, resolve worker counts | options win over settings over defaults; of these the group size is modelled |
| Support | `resources.py`, `magiskboot.py`, `metrics.py`, `logging.py`, `errors.py` | none | file lookup, parsing of a tool's output, timers | not modelled |
| Vendored | `assets/scripts/common.py`, `assets/bin`, `assets/tools` | | | not modelled |

How they interact. Two chains meet on the device. Data: image, sparse image, `new.dat` and transfer list, ZIP, partition
(`Delivery`). Control: selection, conversion, scripts, ZIP, recovery, super (`Build`, `PartitionBuild`, `Install`, `SuperWipe`).

The main thread runs `build` from top to bottom inside `with _Workspace`. Only the
conversion stage is concurrent: the pool's workers share the image files of the workspace, the
brotli gate (a `BoundedSemaphore`) and the display (one lock). The main thread waits for futures in
submission order and leaves through three nested exits: the executor's (waits for all workers),
`progress.close()`, and the workspace's (deletes it). The ZIP that comes out is executed much later,
on a device, by the recovery's edify interpreter; its script runs the super wiper before it creates
the dynamic partitions.

The behaviours that are hard to test here: interleavings of workers that fail, wait or overwrite each
other's files; an exception or a ^C between two exits; a directory that is reused; the power going
off between two writes to super or two commands of the script; writes whose failure nobody looks at; transfers
that read what others write, put in an order that object addresses decide; stashes that are shared, freed and counted
in three places; walks over boundaries where ranges touch. `PROJECT.json` lists those this program can meet as
hazards, each at its line; transfers that read and stashes need a source, which it never passes (`img2sdat.py:65`), and
are checked as what the class offers.

## Modules

| Module | What it is |
|---|---|
| `BuildJob` | What a caller of the conversion stage is promised, with no threads: each partition is settled once; accepted only if all are built; the first failure in submission order is raised. |
| `PartitionBuild` | The conversion stage: main thread, workers, gate, files, display, workspace exit, interrupts. |
| `PartitionBuildProofs` | Type correctness, gate, order of collection, first failure; what the stage leaves: files handed on, workspace, display; and that it implements `BuildJob`. |
| `Selection` | The set algebra of the selection: what is extracted, classified, converted, flashed raw, refused, listed. |
| `Build` | `pipeline.build` from extraction to ZIP, several runs of several OTAs over one `--work-dir`. |
| `BuildProofs` | Type correctness, recovery kept, images used once, the ZIP is of this OTA, retries, listings. |
| `SuperWipe` | `wipe-super.c`: command lines, geometry and slot writes, failed writes, power losses, retries. |
| `SuperWipeProofs` | Type correctness; what a success means, what one accident can take, what wiping keeps. |
| `RangeSet` | `rangelib.py`: each operation as its walk over boundaries, and what it means on sets. |
| `SimgWriter` | `img2simg.py`, class `SimgWriter`: chunks, seeking back, headers. |
| `SparseImage` | `sparse_img.py`: chunks read back, care map, extended blocks, block map, groups. |
| `BlockDiff` | `blockimgdiff.py`, `BlockImageDiff.Compute`: one action per method, several for the search of the order. |
| `Delivery` | The four composed, from the raw image to the partition on the device, with updates cut off. |
| `SequenceProofs` | Induction over sets of numbers, recursive functions, folds and concatenations of sequences. |
| `RangeSetProofs` | Every operation of `RangeSet` is the one on sets of integers, for range sets of any length. |
| `DeliveryProofs` | The sparse file, written and read back, for every image; its care map; the parts of a split image. |
| `UpdateProofs` | The block diff of a build and the update on the device, for every image. |
| `GroupTable` | Sums of sizes and the computed group size. |
| `Install` | Op list, script and ZIP written on the host, executed by a recovery on a device. |
| `InstallProofs` | The computed group size has room for any partitions; all safety properties of `Install`, for every package and device. |
| `MC*` | Instances for TLC. |

### PartitionBuild

*Main thread* (`main`): `submit` (the list comprehension of `executor.submit`), `collect` (the loop over
`future.result()`), `join` (`Executor.__exit__`, that is `shutdown(wait=True)`), `close` (the `finally`),
`package` (the rest of `build`, one step here), `cleanup` (`_Workspace.__exit__`), `exit`. *Workers* (`pc`): one
call of `_build_partition_artifact` per task; each action is the code between two points where another thread can
see a difference: stat of the image, start and end of `img2simg`, start and end of `img2sdat.py`, deletion of the image
and display of `waiting-brotli`, entering the gate, end of compression (which leaves the gate), creation of `patch.dat`. Every
one of them may fail (the deletion only when there is one, without `--keep-temp`), and goes through the `except` clause (`Fail`), except the `stat` in front of the `try` block.
Files are abstracted to `missing`, `torn` (being written), `raw`, `sparse`, `nested` (sparse-encoded twice), `good` and `bad`:
what later stages can tell apart. Two tasks of the same partition (`-p system system`: line 522 keeps repeats) share these
files. `options` are drawn at `Init`: `--keep-temp`, no `--work-dir`, compression.

^C (`Interrupt`) is `KeyboardInterrupt` raised in the main thread wherever it waits or works; in the executor's exit it
leaves the workers running, in `rmtree` it leaves files. It is not modelled inside `progress.close()`, a few microseconds.

### Selection and Build

`Selection` keeps the source's name sets and the order of the tests of `_classify_extracted_partitions`; lists become sets, because
only `PartitionBuild` cares about their order. `vbmeta*` is represented by its three usual names. The extractor is external: it leaves
the images asked for that the payload has, all of them when no list is passed on. An OTA is its set of names and whether its boot image holds the
recovery (what `magiskboot` reports); a request is what `cli._options_from_args` makes of a command line. Assumed: the default list names
logical partitions only (`DefaultAssumption`, true of both lists in the repository; the code does not check a list edited by hand).

`Build` runs the stages over one directory: `Extract`/`ExtractFails` (`run_payload_extractor`), `Select`, `Convert` (`_process_partitions`
as one step with any combination of outcomes, which `PartitionBuild` details; an interrupt is a combination too), `StageRawImages`, `Pack`.
A run that raises leaves the directory as it is. `images` is `partitions/`, `package` is `package/`, each file an OTA and a state. The ZIP
takes everything in `package/`, as `rglob` does; `plan` stands for what the scripts name. Files that are not `.img` and payload.bin itself
are always replaced before they are read and are left out, as are `patch.dat` (always empty) and a temporary workspace (it is a directory used once).

### SuperWipe

The metadata area is an array of units; a blob takes one unit, `metadata_max_size` is a number of units, so that two layouts
of different slot size overlap as they do on a disk. `Launch` is everything of a run up to its first write (argument
handling, reads, validation, dry run); then one action per write: two geometry copies (results not looked at), then primary and backup copy per
slot. A write is atomic when it fits in a sector (the 368-byte blob of `wipe_super`, the 52-byte geometry), otherwise a
power loss may tear it (the template's 960 bytes): header of one blob over tables of another. The file is opened `O_SYNC`, so
writes reach the disk in order. Runs may be repeated until one reports success. The zeroed first 4096 bytes hold nothing the
model reads and are left out; SHA-256 is perfect; the slot argument is part of a command line and, as in the code, changes nothing.

### RangeSet, SimgWriter, SparseImage, BlockDiff and Delivery

A block is one of a few contents: `Fills` repeat one word (zeros are one of them), `Raws` do not. A sparse file is a sequence of
cells (a header, a block of data, a fill word), so that offsets, seeking back and headers filled in later are as in the code. A range
set is its tuple of boundaries. A file is its name reduced to what the search for a source compares: path, basename, basename without digits.
A hash is the data it is the hash of. A patch is the pair of data it was made from; whether bsdiff or imgdiff makes it is left out, as is the
pool of threads that makes them: each writes the slot of its number, and no one looks before all are joined.

`Delivery` runs one job: `WriteBlock` and `FinishImage` (`SimgWriter`, with `--split` and `--dont-care`), `LoadImages`
(`SparseImage` for the target and, if there is one, a source), `Compute` (`BlockDiff`), `CheckResult` (the build's look at the result), then the commands of the list on the device
(`RunCommand`), which may be cut off in any of them and start again (`CutOff`). `Compute` goes through its methods in order (`pc`). In
`FindVertexSequence` every vertex taken from the sets of sinks or sources, and every choice among the best scores, is a step of its own, because
sets of objects are walked in the order of their addresses. The sparse file is the one of the scripts' own `SimgWriter`. By default a build runs a
native `img2simg` (`backends.py:96-101`) and falls back to that class when it finds none; the native program is external and not modelled, so everything said
here of a build's images, the theorems of `UpdateProofs` included, is said of the fallback. Exceptions and failed assertions end in `failed`, with the place in `why`. What
depends on the Python that runs the scripts (`config.python`): `RangeSet` defines `__nonzero__` and `HeapItem` `__bool__`, so each is false or
true by itself under one of them only; and Python 3 does not compare `Transfer` objects.

The device is external. It checks what the format allows it to check (hashes from version 3 on), refuses a command it cannot
carry out, stashes by itself a source that overlaps its target, and never looks ahead. How an updater resumes an interrupted update that
reads a source is its own business; only updates without a source, which are all the build makes, are cut off.

### GroupTable and Install

`Install` starts where the artifacts and raw images are staged. `Script` is `write_updater_script` as a sequence of commands, `OpListOf` the
op list, `Files` what `rglob` finds, in order. `OpenZip` to `CloseZip` are `build_flashable_zip`: one action per entry and chunk, with the
calls of `update_package`. `Fails` is an exception or ^C in any of them: the `with` blocks close the entry and the archive, so that what is left is a
valid ZIP whose last entry is cut off (`zipfile` does so); `Killed` leaves one that cannot be opened. `Flash` starts the script in a
recovery, and each of its commands is an action that may fail; a power cut may come in any, and the package be flashed again. The recovery is external: its
functions do what the script relies on, `assert` and `abort` stop it, and results the script ignores are ignored. `superwipe` is one command here:
empty or broken; `SuperWipe` has its details. A device without slots has only the plain partitions: an image for both slots goes nowhere on it (`Reached`), the
script runs to its end all the same, and the clause of `FinishedComplete` on raw images does not speak of it. Sizes are small numbers; `MiB` is a parameter.

What is assumed of a package (`PackagesAssumption`) is what the build makes sure of: it has a dynamic partition (`_select_partitions` raises without
one), raw images have different names and a policy of the three the script writer knows (`_selected_raw_images` goes through a set of names).
Dynamic names may repeat and may be names of raw images too, since no code compares the two lists. `FileOrder` is the order in which `rglob`'s
sorted result has the names, the op list's included.

## Runs

| Run | Instance | Shows |
|---|---|---|
| `BuildSafety` | 3 different partitions, 3 workers, 2 slots, 2 interrupts | all safety properties of the stage |
| `BuildProgress` | one partition twice, 2 workers, 1 slot, 2 interrupts, fair | the stage ends (`BuildEnds`), and refines `BuildJob`, liveness included; the run that meets repeated names |
| `SuperAccidents` | 2 slots, all command lines, 2 power losses, 2 failed writes | one accident never leaves super unreadable; success is complete |
| `SuperRelayout` | device 2 slots of 2 units, template 3 slots of 1 unit | after success geometry and slots agree |
| `SuperRetry` | repeated wipes, 2 power losses, 2 failed writes, fair | retries succeed; the block device entry is never lost (its copies are written whole or not at all; a torn one is met by `SuperTableLost` only) |
| `BuildReuse` | 2 OTAs (with and without recovery in boot), 2 command lines, 2 runs, any failure | the ZIP is of the current OTA (`ZipFromThisOta`); a repeated build equals a fresh one (`RetryIsFresh`) |
| `BuildSelection` | 6 OTAs, 9 command lines, listing or not, one run | `RecoveryKept`, `ImagesUsedOnce`, `ListingIrrelevant`, `ListedIsBuilt` |
| `DeliveryIntact` | 1199 jobs, see below, one interruption | `Delivered`, `NeverRefused`, `HeadTruthful`, `FailureHasCause`, `SplitFilesFit`, `RangesAreSets` |
| `Install` | 8 packages, 3 devices, 1 power cut, 1 failed write, fair | `FinishedComplete`, `OtherDeviceUntouched`, `InactiveSlotKept`, `AbortHasCause`, `PackingTruthful`; flashing again and again finishes (`RetryFinishes`) |
| `SuperGeometryUnchecked`, `SuperTableLost`, `InstallUnfinished` | smallest instances | the three disagreements listed under findings in `PROJECT.json` |

The jobs of `DeliveryIntact`: all images of five blocks over two contents and of four over three; images with holes; images in parts of 2 to 4 cells;
block maps, three of which do not fit; and changes, each for versions 1 to 4, Python 2 and 3, no cache size and three of them: three files that stay,
swap or rotate, and keep or change what they hold; a file that moves onto itself, is renamed, or grows; two knots in which files wait for each other;
blocks that become empty. `FailureHasCause` states each cause as a condition on what was given, not on the place that
failed: of a block map, that a line names a block twice, without data, or the clobbered one (`MapFits`); of an image, that its first block has no data; of a change, that there is
no cache size (`NoCache`), transfers in a circle (`InCircle`), two patches of the same data (`SameFilesTwice`), a source that version 1 has lost (`SourceOverwritten`), or a stash
that comes to the limit exactly or is over it only until it is read (`StashAtLimit`). Two mutants break it: a block map that takes the whole extent of a file (a map that fits is
refused), and a cache planned without the device's own stashes. The constants that are large in the code are small here so that their limits are met: a read-ahead of 1 block (512),
groups of 4 boundaries (1024), 2 blocks in a zero command (1024), pieces of the whole cache (an eighth).

The models of the scripts were compared with the scripts, run under Python 3 with constants as small as these, and with the two methods and the comparison that
Python 2 would use put in place: each unsplit job was run 60 times and more, and every transfer list, `new.dat` and failure that came out is one
of those the model allows.

Disagreements that have no run of their own:

* `--slot` of `wipe-super`: the usage text (`wipe-super.c:854`) calls it the target slot; it is printed, and all slots are overwritten.
* README.md:74 says that `boot`, `init_boot` and others need `--raw-partitions`; on a device with `vendor_boot`, `boot` is flashed unasked (`pipeline.py:670`).
* README.md:65 names `--raw-partitions vendor_boot`; a name of the recovery skip set is dropped without a word (`pipeline.py:605`).

The entries on `blockimgdiff.py:210`, 585, 651, 759 and 1128 need a source, which `img2sdat.py:65`, the only user of the class here, never passes: they are about the
class, not about a build.

* `blockimgdiff.py:210`: `HeapItem.__bool__` is true of the items that were taken out. Python 2 never calls it; under Python 3 the first cycle of transfers
  ends in an `IndexError` of the empty heap (`EmptyHeap`; `InCircle` is the cause `FailureHasCause` names).
* `blockimgdiff.py:585`: before version 3 `touched_src_ranges` stays empty, so blocks are erased first that later commands read.
* `blockimgdiff.py:651` lets a stash just reach the limit, and frees it before it is read; the assertion at 559 demands less than the limit and counts it until it
  was read. A conversion may therefore fail after `ReviseStashSize` fitted it into the cache (`StashAtLimit`, a cause in `FailureHasCause`).
* `blockimgdiff.py:1128` multiplies `cache_size`, `None` by default: from version 3 on every conversion with a source needs one.
* `blockimgdiff.py:759` sorts tuples that hold transfers: two pairs of files with the same data end in a `TypeError` under Python 3.
* `blockimgdiff.py:971` speaks of a repeatable output; sinks and sources are sets, and the output depends on addresses.
* `sparse_img.py:240` speaks of 1024 blocks per group; the list that is measured has two numbers per block, so it is 512.
* `progress.py:236` logs progress of the stage `zstd`; the pipeline reports `brotli`.
* The updater's `active` slot policy and its error E1002 are never asked for: `_selected_raw_images` passes `both`.
* `wipe-super -d` with an `.img` whose geometry is damaged drops the image and wipes the device without it (see `SuperWipe!TargetsTheFile`); the
  comment at `wipe-super.c:869` calls every `.img` a template.
* `list-partitions` reports a boot image that holds the recovery as supported, as it probes nothing (the exception in `ListedIsBuilt`).

Why the bounds are enough. Three workers with two slots is the smallest case where one waits at the gate while two hold it, and
where a later partition can fail before an earlier one with a third between; two interrupts let the second come while
the first is being handled. For the wiper, two slots give every neighbourhood (primary of one next to backup of the other);
a second accident is the first case in which the guarantee may no longer hold, so two show that the guard is exact. For the reused directory, two
runs are enough because a run sees only the files earlier ones left, and one run, failing anywhere, leaves every kind of file; the proof of
`ZipIsFresh` holds for any number. The OTAs and command lines of `BuildSelection` are chosen so that every name set is met by a found, an asked and a missing name.

For the image chain, five blocks hold two runs with a gap between them and one block to spare, so that every rule for where a chunk or a group starts and
ends is met; three files are the smallest set with a cycle longer than two, and two files of two blocks the smallest with a stash that is used twice;
one interruption may fall into any command, and a second one starts from the same kind of state. `Install` has group sizes given below and above what
the partitions take, computed, and unlimited; files that are empty, read in one chunk, and in two; every slot policy; devices that are named or not, with
slots or without. One power cut and one failed write, each at any command, are enough: an update starts from the top and looks at nothing an
earlier one left but super, whose details are `SuperWipe`'s.

Fairness. `PartitionBuild!FairSpec` assumes that the operating system runs every thread and that the commands the
workers start end: none reads a terminal and each gets a finite file. Entering the gate needs only weak fairness in these
instances because all holders leave and a waiting worker then stays enabled. `SuperWipe!FairSpec` assumes that a started program goes
on and that someone starts it again until it reports success. `Install!FairSpec` assumes that the recovery goes on with a script it has
started, and that someone flashes the package again until it is finished. `Delivery` states no liveness: its next-state relation is so large
that `ENABLED` of it is beyond TLC; there, the deadlock check shows that no job stops before `Over`, and no step but `CutOff` leads back. Neither an interrupt nor a power loss nor a failure is ever assumed to come, or not
to come (their number is bounded).

Deadlock is checked in every run: `Terminated`, `Idle` and `Over` are the only states that may stop.

## Proofs

Each theorem holds for all values of the constants that satisfy the named assumptions: any number of partitions, workers, slots of super,
OTAs, packages, files, failures and power cuts. An invariant that is checked is seldom inductive; what is proved inductive is named below.

`PartitionBuildProofs` (assumptions: `Selected` is a sequence of partitions, workers and slots are positive):
* `Typing`: `TypeOK /\ GateAccounting` is inductive; the accounting is needed for `permits` to stay in range when a permit
  is given back (a holder exists, so fewer than all permits are free).
* `GateSafe`: `[]GateAccounting`.
* `OrderKept`: the inductive `Ordered` says that everything collected is done, that the culprit is the task after the collected ones, and that
  once the main thread is past the pool every submitted task has ended and none is queued (unless `join` was cut).
* `FirstFailure` and `Quiet` follow from it.

What the stage leaves, in the second half of the module: the inductive `Outputs` has one part per thing that is left behind: `Shaped` gives, for each place of
a worker, the state of its partition's files, `ShownShaped` that of its line of the display. Both need that no other worker has the same partition
(`Distinct`), as the properties do, and a workspace that is not deleted yet. `Phase` says how much of the results the main thread has read where.
* `InputsComplete`, `WorkspaceSettled`, `DisplayTells`, `DisplayStaysOff`: the properties `PackageInputs`, `WorkspaceOutcome`, `DisplayTruthful`, `DisplayStopped`.
* `RefinesBuildJob`: the safety part of the abstract specification. `JobStarts` maps initial states; `TaskStepRefines` and `MainRefines` map every action:
  a worker that ends settles its partition, the main thread's last exit answers, all else stutters. Here names may repeat.

`BuildProofs` (assumptions: three modes, `DefaultAssumption`):
* `BuildTyping`: `TypeOK` needs `PlanFound`: an image that is converted exists, so what is made of it names an OTA.
* `FlashedRawFrom`, `ConvertedFrom`, `RecoveryInBootFlashed`: where the members of the plan come from, from the name sets alone.
* `RecoverySafe` and `UsedOnce`: the plan's facts are kept because conversion consumes logical partitions only (`SafePlan`), so neither
  `vendor_boot` appears nor `boot` changes after the selection.
* `ZipIsFresh`: the invariant `Fresh` says, stage by stage, which files are known to be of this OTA; `PlanExtracted` shows that the plan asks for
  nothing of this OTA that was not extracted, and `UsedOnce`'s argument that conversion does not touch what is staged later.
* `RetriesAreFresh`: the invariant `Alone` says what a directory holds that one build had for itself, any number of times: images it extracts, and
  package entries its own plan makes. What a failed run left is then overwritten or part of the plan.
* `ListingChangesNothing`: `PlanLocal` shows that what becomes of a name depends only on whether it and `vendor_boot` were found, `UsableExtracted`
  that those a plan can use are extracted either way.
* `AllBuildsWhatIsListed`: `--all` against what `list-partitions` promises, name set by name set.

`SuperWipeProofs` (assumption: both geometries are valid and fit on the device):
* `Scaled`, `UnitsDisjoint`, `UnitsOnDevice`: the copies of different slots, primary or backup, are different units, on the device.
* `SuperTyping`: `TypeOK` with the shape of a running program.
* `SuccessIsComplete`: the inductive part says which copies are written so far; it needs `UnitsDisjoint` so that a
  later write does not undo an earlier one.
* `SuccessReadsBack`: `Consistent` follows the geometry copies; from the first slot on, the geometry a reader finds is the one the slots are laid out by.
* `SurvivesAccident`, with two more hypotheses: the template has the layout of the device (`SameLayout`), and super was whole at first
  (`WholeAtFirst`); both hold in `SuperAccidents`. `OneCopyLost` is inductive: one accident makes at most one copy unreadable, and nothing is read from it.
* `WipingKeepsDevice`, with the hypotheses that no template is flashed (`OnlyWipes`) and that the copies name their device at first
  (`NamedAtFirst`); both hold in `SuperRetry`, and `SuperTableLost` shows that the second is needed.

`SequenceProofs` (no assumptions). The library's induction theorems take an operator, which the provers cannot instantiate. `SetInduction` is
induction over a set of numbers instead, from the well-foundedness of `<`: the numbers a claim holds for are a set that has 0 and with each number the next.
`Recursion` derives that a function given by a first value and a step exists; from it come what `FoldLeft` returns (`FoldIs`: the last of a
sequence of values, each the step of the one before) and what `FlattenSeq` returns, of one sequence and of two joined (`FlattenSteps`, `FlattenJoined`).

`RangeSetProofs` (no assumptions). `RangeSetOperations`: on range sets of any length, every operation is the one on sets of blocks and its
result is in normal form. The argument counts boundaries: a block is in a set when the number of boundaries up to it is odd. `Walk`, the code's
merge of two boundary lists, keeps at each place how many boundaries of either set have gone by, so it opens and closes a range exactly where the
set it computes begins and ends. The other operations (`Extend`, `First`, `MapWithin`, `OfBlocks`, `Size`, `Overlaps`) follow range by range.

`DeliveryProofs` (assumptions: `ContentAssumption`, `GroupAssumption`, `JobsAssumption`: contents are of one kind or the other, images are
not empty, a cache has room for a block per piece). The inductive `Kept` says what each file has and what has been loaded:
* `FileOf(file, image, n)`: reading the chunks of `file` one after the other gives `n` blocks, a care map that is the set of blocks with data, and chunks that hold
  them. The writer keeps that of the chunks it closed, and what is needed to close the open one (`Saved`), through seeking back and padding.
* `CareMapIsSet` (`RangesAreSets`): the care map is in normal form, so all of `RangeSetOperations` applies to it.
* `FilesFit` (`SplitFilesFit`): of the parts of `--split`, for every limit and every set of patterns left out; `Filed` says where each part was cut.

`UpdateProofs` (the same assumptions). The theorems speak of the jobs a build makes (`OfBuild`): whole images, no source, version 4, Python 3, any
content, size and cache. `BuildKept` is inductive, with `Kept`:
* `DiffKept`: each transfer takes blocks of the image with the data it stands for and reads nothing (`Alone`), through every method of
  `Compute`; no edge joins two of them, so whichever comes next, the order that is found has them all, and so do the blocks they write.
* `ListKept`: the commands play `new.dat` (`Plays`: a command finds in it, where the ones before have left it, the image's data for its own blocks);
  they weigh what the head says (`Weighs`), stash nothing, and cover the image.
* `DeviceKept`: what the commands before the current one write is on the device and the data they take is used (`Carried`); an interruption
  begins again with nothing used, and what was written is written again with the same.
* `BuildDelivers`, `BuildNeverRefused`, `BuildHeadTruthful`: `OfBuild` implies `Delivered`, `NeverRefused`, `HeadTruthful`.
* `FailKept`: why nothing fails on the way. The groups of non-zero and zero blocks, and the copy of block 0, divide the image, which the check before
  the transfers looks at; so do the transfers made of them (splitting a large one keeps that), which the check of the sequence looks at; the
  sequence has each transfer once, through every choice of a sink or a source; and the copy of block 0 is among them, with one block of `new.dat`.
* `BuildFailureHasCause`: so a conversion fails on an incomplete block only. That excludes the causes of `FailureHasCause` that depend on a source, on
  the version or on the Python, and the build's own look at `new.dat`.
* `BuildTypeOK`: `TypeOK` follows from these invariants and `BuildTyped`; `OffsetsBounded` keeps what the device takes of `new.dat` within it.

`InstallProofs` (assumptions: those named under `Install`, `MiB` positive, bounds that are numbers):
* *The group.* `TotalIs`, `TotalSteps`: the recursive `Total` satisfies its equations for every sequence. Sums are numbers, grow with their members,
  and by one when a member does; rounding up ends at the next multiple (`Division`, `RoundedUpNext`). `GroupHasRoom`: for any sequence of sizes a
  computed group has room for all partitions, and wastes less than a fifth and a MiB.
* *The script.* Each kind of command has a rank. `ScriptSteps`: the script is a sequence in the order of ranks that consists of exactly the commands
  the package calls for and ends with the message. It is put together from its parts (`Part`), so that no proof looks at positions.
* *The files.* `FilesSteps`: the ZIP's files are a sequence that ends with one that is read in chunks, and has each image, list and data file the script names.
* *The ZIP.* `Packing` is inductive: files before the current one are in the archive completely, the current one as far as the display says.
  `DisplayMatchesZip` follows, because the last file is not an empty one.
* *The update.* `Update` is inductive: for each command that the recovery has passed, `Passed` says what is owed to it (the device is known, super laid
  out, a partition written); before super is laid out again, nothing of it is promised. Commands of lower rank are passed first, so that a
  device that is not named gets no further than the check (`OthersAreUntouched`), and super is laid out when partitions are flashed.
* `InstallTyping`, `FinishedHasAll`, `OthersAreUntouched`, `OtherSlotIsKept`, `AbortsHaveACause` follow; the last one needs `GroupHasRoom`: a group
  size that was computed is never why a device refuses the op list.

Only model-checked: everything under fairness (`BuildEnds`, the liveness of `BuildJob`, `RetrySucceeds`, `RetryFinishes`), which needs `ENABLED`; and
of `Delivery` the jobs that no build asks for: `Delivered`, `NeverRefused`, `HeadTruthful`, `FailureHasCause` and `TypeOK` of those with a source, a block map,
an older version, parts of a split image or Python 2, whose graphs have cycles, stashes and patches. `RangesAreSets` and `SplitFilesFit` are proved for every job.

## Not modelled

* `assets/scripts/common.py`: AOSP's library for releases. `img2sdat.py` and `blockimgdiff.py` take its options object from it and nothing else that runs here.
* `resources.py`, `magiskboot.py`, `metrics.py`, `logging.py`, `errors.py`: file lookup, the output of a tool parsed, timers; no state that another part depends on.
* `cli.py`, `config.py`: argument parsing and defaults. The group size, where an option, a setting and a computed value meet, is in `Install`.
* `progress.py`: which updates are logged when the output is not a terminal, and how the panel looks.
* `sparse_img.AppendFillChunk`, `TotalSha1`, `ResetFileMap` and `blockimgdiff.DataImage`: nothing in the build calls them.
* The choice between `bsdiff` and `imgdiff`, and the threads that make patches: the result is the same patch in the same slot. That the program fails in one of the
  threads is left out; only a conversion with a source makes patches.
* A native `img2simg` (see above), and the extractor's images without a suffix, which `_sorted_images` renames when there is no `.img` (`backends.py:226-236`).
* `wipe-super -d`: a file that cannot be opened or read and memory that runs out (`wipe-super.c:471-476`, 723-730), which end the run before it writes; the third try of
  `read_geometry` at offset 0 (419-424); a positional argument after `-d` (886-890). No property depends on them.
* `RangeSet!Overlaps` is stated as a nonempty intersection; the code returns from its walk at the first common block (`rangelib.py:196-202`), with the same answer.
* Compression, deflate and brotli: contents pass through; that `--no-brotli` still names its files `.br` is a hazard no property covers, because what
  follows is up to the recovery's decoder.
* How an updater resumes an update that reads a source: external, and no build makes such an update.

## What is left

1. Proofs about `Delivery` for conversions with a source: what the stash of each transfer holds, and that no edge is lost when the graph is cut.
2. The progress that is logged when the display is not live.
