------------------------------ MODULE SuperWipe ------------------------------
(***************************************************************************)
(* tools/wipe-super/wipe-super.c: the program the flashed ZIP runs to      *)
(* reset the metadata of the super partition.  It either writes an empty   *)
(* table into every slot (wipe_super) or copies a template image over      *)
(* geometry and slots (flash_super_empty).  The power may be lost between  *)
(* and in the middle of writes, a write may fail, and the user may run the *)
(* program again.                                                          *)
(*                                                                         *)
(* The metadata area (from byte 12288 on) is an array of units; a blob     *)
(* takes one unit, and metadata_max_size is a number of units.  A write is *)
(* atomic when it fits in a sector of 512 bytes: the blob of wipe_super    *)
(* (368 bytes) and the geometry struct (52 bytes) do, the template's blob  *)
(* (960 bytes) does not.                                                   *)
(***************************************************************************)
EXTENDS Integers, FiniteSets

CONSTANTS
    DeviceGeometry,      \* the geometry super has at first
    TemplateGeometry,    \* the geometry in super_empty.img
    LastUnit,            \* the metadata area is 0..LastUnit
    InitialGeometries,   \* what a geometry copy holds at first
    InitialCopies,       \* what a metadata copy holds at first
    Invocations,         \* the command lines the program is run with
    MaxCuts,             \* bound: how often the power is lost
    MaxFaults            \* bound: how many writes fail

NoGeometry == [max |-> 0, slots |-> 0]

(* parse_geometry accepts no geometry without slots. *)
IsGeometry(g) == g \in [max : Nat \ {0}, slots : Nat \ {0}]

Fits(g) == 2 * g.max * g.slots <= LastUnit + 1

ASSUME GeometryAssumption ==
    /\ IsGeometry(DeviceGeometry) /\ IsGeometry(TemplateGeometry)
    /\ LastUnit \in Nat
    /\ Fits(DeviceGeometry) /\ Fits(TemplateGeometry)
    /\ InitialGeometries \subseteq {DeviceGeometry, NoGeometry}

(* junk: no header magic.  torn: the header of one blob over the tables of *)
(* another.  factory: what super came with.  wiped, synthesized and        *)
(* laundered: an empty table that names the block device of an intact      *)
(* copy, a made-up one, or what a torn copy has in its place.              *)
Copies == {"junk", "torn", "factory", "wiped", "synthesized", "laundered", "template"}

Intact(copy) == copy \notin {"junk", "torn"}

(* A command line: the positional template image (good, with a damaged     *)
(* geometry, with damaged tables, or none), whether -d names the device,   *)
(* and the slot given with -s, if any.                                     *)
CommandLines ==
    [template : {"none", "good", "badgeometry", "badtables"},
     device : BOOLEAN, slot : {"none", "a", "b"}, dryRun : BOOLEAN]

ASSUME InvocationsAssumption ==
    Invocations \subseteq CommandLines /\ InitialCopies \subseteq Copies
ASSUME BoundsAssumption == MaxCuts \in Nat /\ MaxFaults \in Nat

VARIABLES
    geo,        \* [{"primary", "backup"} -> the geometry stored there]
    meta,       \* [0..LastUnit -> the metadata copy stored there]
    pc,         \* where the running program is, "idle" when none runs
    args,       \* the command line of the last run
    geom,       \* the geometry the run works with
    blob,       \* the metadata the run writes
    slot,       \* the next slot it writes
    status,     \* how the last run ended
    cuts,       \* power losses so far
    faults      \* failed writes so far

disk == <<geo, meta>>
process == <<args, geom, blob, slot>>
vars == <<disk, pc, process, status, cuts, faults>>

Units == 0..LastUnit

TypeOK ==
    /\ geo \in [{"primary", "backup"} -> {NoGeometry, DeviceGeometry, TemplateGeometry}]
    /\ meta \in [Units -> Copies]
    /\ pc \in {"idle", "geometry-primary", "geometry-backup", "primary", "backup"}
    /\ args \in CommandLines
    /\ geom \in {NoGeometry, DeviceGeometry, TemplateGeometry}
    /\ blob \in Copies
    /\ slot \in Nat /\ slot <= geom.slots
    /\ pc \in {"primary", "backup"} => slot < geom.slots /\ Fits(geom)
    /\ status \in {"none", "running", "ok", "error", "lost"}
    /\ cuts \in 0..MaxCuts
    /\ faults \in 0..MaxFaults

-------------------------------------------------------------------------------
(* Where things are.                                                       *)

PrimaryUnit(g, s) == g.max * s

BackupUnit_SameArea(g, s) == g.max * s

BackupUnit(g, s) == g.max * g.slots + g.max * s

Slots(g) == 0..(g.slots - 1)

(* The units that hold a copy of some slot under a geometry. *)
CopyUnits(g) == {PrimaryUnit(g, s) : s \in Slots(g)}
                    \union {BackupUnit(g, s) : s \in Slots(g)}

(* read_geometry: the primary copy, then the backup.                       *)
StoredGeometry ==
    IF geo["primary"] # NoGeometry THEN geo["primary"] ELSE geo["backup"]

Init ==
    /\ geo \in [{"primary", "backup"} -> InitialGeometries]
    /\ meta \in {m \in [Units -> InitialCopies \union {"junk"}] :
                   \A u \in Units :
                     IF u \in CopyUnits(DeviceGeometry) THEN m[u] \in InitialCopies
                                                        ELSE m[u] = "junk"}
    /\ pc = "idle"
    /\ args \in Invocations
    /\ geom = NoGeometry
    /\ blob = "junk"
    /\ slot = 0
    /\ status = "none"
    /\ cuts = 0
    /\ faults = 0

-------------------------------------------------------------------------------
(* Starting a run: everything up to the first write.                       *)

(* read_existing_metadata_header_and_tables: the slots are tried in order, *)
(* only their primary copies, on the header magic alone; the tables of a   *)
(* torn copy may or may not look like a block device entry.  The blob of   *)
(* wipe_super names the device found, or else a synthesized one.           *)
Skipped(g, s) == \A j \in 0..(s - 1) : meta[PrimaryUnit(g, j)] \in {"junk", "torn"}

BlobNaming_FactoryOnly(copy) == IF copy = "factory" THEN "wiped" ELSE "laundered"

BlobNaming(copy) ==
    CASE copy \in {"factory", "wiped", "template"} -> "wiped"
      [] copy = "synthesized" -> "synthesized"
      [] OTHER -> "laundered"

WipeBlobs(g) ==
    {BlobNaming(meta[PrimaryUnit(g, s)]) :
        s \in {r \in Slots(g) : Skipped(g, r) /\ meta[PrimaryUnit(g, r)] # "junk"}}
    \union (IF Skipped(g, g.slots) THEN {"synthesized"} ELSE {})

Exit(how) == pc' = "idle" /\ status' = how

(* main: a positional file is a template only when its geometry is valid;  *)
(* otherwise it is the target, unless -d named one before.                 *)
IsTemplate(a) == a.template \in {"good", "badtables"}

TargetsTheFile(a) == a.template = "badgeometry" /\ ~a.device

(* Without -d the device is looked for, which may fail. *)
LaunchNowhere(a) ==
    /\ ~a.device /\ ~TargetsTheFile(a)
    /\ Exit("error")
    /\ UNCHANGED <<geom, blob>>

LaunchFlash(a) ==
    /\ IsTemplate(a)
    /\ geom' = TemplateGeometry
    /\ blob' = "template"
    /\ IF a.template = "badtables"
       THEN Exit("error")
       ELSE IF a.dryRun THEN Exit("ok")
       ELSE pc' = "geometry-primary" /\ status' = "running"

LaunchWipe(a) ==
    /\ ~IsTemplate(a)
    /\ IF TargetsTheFile(a) \/ StoredGeometry = NoGeometry
       THEN /\ geom' = NoGeometry /\ blob' = "junk"
            /\ Exit("error")
       ELSE /\ geom' = StoredGeometry
            /\ blob' \in WipeBlobs(StoredGeometry)
            /\ IF a.dryRun THEN Exit("ok") ELSE pc' = "primary" /\ status' = "running"

(* The user, or the updater script, runs the program, until it succeeds. *)
Launch(a) ==
    /\ pc = "idle"
    /\ status # "ok"
    /\ args' = a
    /\ slot' = 0
    /\ LaunchNowhere(a) \/ LaunchFlash(a) \/ LaunchWipe(a)
    /\ UNCHANGED <<disk, cuts, faults>>

-------------------------------------------------------------------------------
(* Writing.                                                                *)

WritesCopy(unit, content) == meta' = [meta EXCEPT ![unit] = content]

WritesGeometry(copy, content) == geo' = [geo EXCEPT ![copy] = content]

NextAfterGeometry_SkipsBackup == "primary"

NextAfterGeometry == IF pc = "geometry-primary" THEN "geometry-backup" ELSE "primary"

CopyOf == IF pc = "geometry-primary" THEN "primary" ELSE "backup"

(* The results of the writes of the geometry copies are not looked at. *)
FlashGeometry ==
    /\ pc \in {"geometry-primary", "geometry-backup"}
    /\ \/ /\ WritesGeometry(CopyOf, geom)
          /\ UNCHANGED faults
       \/ /\ faults < MaxFaults
          /\ faults' = faults + 1
          /\ \E left \in {geo[CopyOf], NoGeometry} : WritesGeometry(CopyOf, left)
    /\ pc' = NextAfterGeometry
    /\ UNCHANGED <<meta, process, status, cuts>>

UnitWritten ==
    IF pc = "primary" THEN PrimaryUnit(geom, slot) ELSE BackupUnit(geom, slot)

AfterWrite_PastTheEnd ==
    IF pc = "primary"
    THEN pc' = "backup" /\ UNCHANGED <<slot, status>>
    ELSE /\ slot' = slot + 1
         /\ IF slot < geom.slots THEN pc' = "primary" /\ UNCHANGED status
                                 ELSE Exit("ok")

AfterWrite_MissesLast ==
    IF pc = "primary"
    THEN pc' = "backup" /\ UNCHANGED <<slot, status>>
    ELSE /\ slot' = slot + 1
         /\ IF slot + 2 < geom.slots THEN pc' = "primary" /\ UNCHANGED status
                                     ELSE Exit("ok")

AfterWrite_NeverAdvances ==
    IF pc = "primary"
    THEN pc' = "backup" /\ UNCHANGED <<slot, status>>
    ELSE pc' = "primary" /\ UNCHANGED <<slot, status>>

(* The primary copy of a slot is written before its backup. *)
AfterWrite ==
    IF pc = "primary"
    THEN pc' = "backup" /\ UNCHANGED <<slot, status>>
    ELSE /\ slot' = slot + 1
         /\ IF slot + 1 < geom.slots THEN pc' = "primary" /\ UNCHANGED status
                                     ELSE Exit("ok")

WriteSlot ==
    /\ pc \in {"primary", "backup"}
    /\ WritesCopy(UnitWritten, blob)
    /\ AfterWrite
    /\ UNCHANGED <<geo, args, geom, blob, cuts, faults>>

(* lseek or write fails: the unit keeps what it had or becomes unreadable. *)
WriteSlotFails ==
    /\ pc \in {"primary", "backup"}
    /\ faults < MaxFaults
    /\ faults' = faults + 1
    /\ \E left \in {meta[UnitWritten], "junk"} : WritesCopy(UnitWritten, left)
    /\ Exit("error")
    /\ UNCHANGED <<geo, process, cuts>>

(* What a write that was cut off leaves of the unit. *)
CutOff(old) ==
    {old, blob} \union (IF blob = "template" /\ old # blob THEN {"torn"} ELSE {})

PowerLoss ==
    /\ pc # "idle"
    /\ cuts < MaxCuts
    /\ cuts' = cuts + 1
    /\ IF pc \in {"primary", "backup"}
       THEN /\ \E left \in CutOff(meta[UnitWritten]) : WritesCopy(UnitWritten, left)
            /\ UNCHANGED geo
       ELSE /\ \E left \in {geo[CopyOf], geom} : WritesGeometry(CopyOf, left)
            /\ UNCHANGED meta
    /\ Exit("lost")
    /\ UNCHANGED <<process, faults>>

Idle == pc = "idle" /\ status = "ok" /\ UNCHANGED vars

ProgramStep == FlashGeometry \/ WriteSlot \/ WriteSlotFails

Next ==
    \/ \E a \in Invocations : Launch(a)
    \/ ProgramStep
    \/ PowerLoss
    \/ Idle

Spec == Init /\ [][Next]_vars

(* The program, once started, goes on, and someone runs it again until it  *)
(* reports success.                                                        *)
FairSpec ==
    Spec /\ WF_vars(ProgramStep) /\ WF_vars(\E a \in Invocations : Launch(a))

-------------------------------------------------------------------------------
(* What the program guarantees.                                            *)

Readable(g) ==
    \A s \in Slots(g) : Intact(meta[PrimaryUnit(g, s)]) \/ Intact(meta[BackupUnit(g, s)])

Bootable == StoredGeometry # NoGeometry /\ Readable(StoredGeometry)

(* Written to one copy after the other, super stays readable through any   *)
(* single accident, at whatever moment and with whatever runs before and   *)
(* after it, as long as the template has the device's layout: a geometry   *)
(* copy and one copy of every slot are intact.                             *)
SurvivesOneAccident == cuts + faults <= 1 => Bootable

(* Exit status 0 means that every slot, primary and backup, holds the new  *)
(* metadata, whatever was cut off or failed in earlier runs.               *)
SuccessComplete ==
    (status = "ok" /\ ~args.dryRun) =>
        \A s \in Slots(geom) :
            meta[PrimaryUnit(geom, s)] = blob /\ meta[BackupUnit(geom, s)] = blob

(* When no write failed, exit status 0 also means that what a reader finds *)
(* is consistent: the geometry is the one the slots were laid out by, even *)
(* when the device had another layout before, and a flash leaves no other  *)
(* geometry in the backup copy.                                            *)
SuccessConsistent ==
    (status = "ok" /\ ~args.dryRun /\ faults = 0) =>
        /\ StoredGeometry = geom /\ Readable(geom)
        /\ args.template = "good" => geo["primary"] = geo["backup"]

(* Wiping keeps the block device entry: power losses and repeated runs     *)
(* never make it synthesize one or copy one from a damaged table.          *)
DeviceKept ==
    faults = 0 => \A u \in Units : meta[u] \notin {"synthesized", "laundered"}

(* Whoever repeats the wipe until it reports success gets there: earlier   *)
(* runs cut off or failed at any point never leave super in a state the    *)
(* next run cannot start from.                                             *)
RetrySucceeds ==
    <>[](status = "ok" /\ \A u \in CopyUnits(DeviceGeometry) : Intact(meta[u]))

-------------------------------------------------------------------------------
(* What its comments, messages and tests say and the code does not do.     *)

(* "Successfully flashed super_empty template onto %s": the geometry is    *)
(* on the device, where the test verifies it.                              *)
GeometryFlashed ==
    (status = "ok" /\ args.template = "good" /\ ~args.dryRun) =>
        \A copy \in {"primary", "backup"} : geo[copy] = TemplateGeometry

(* "Read existing header to preserve block_devices table if present": a    *)
(* table that an intact copy still has is in what a wipe writes.           *)
TablePreserved ==
    (pc = "primary" /\ slot = 0 /\ ~IsTemplate(args)
        /\ \E u \in CopyUnits(geom) : meta[u] = "factory") => blob = "wiped"
===============================================================================
