-------------------------------- MODULE Install --------------------------------
(***************************************************************************)
(* The package and what becomes of it: pipeline.build writes the op list   *)
(* and the updater script, build_flashable_zip writes the ZIP under its    *)
(* final name, and a recovery carries the script out on a device.          *)
(*                                                                         *)
(* Both sides may stop anywhere.  An exception or ^C while the ZIP is      *)
(* written passes through the with blocks, which finish the entry and the  *)
(* archive: what is there is a ZIP like any other, with its last entry cut *)
(* off.  Only a killed process leaves a file no one can open.              *)
(*                                                                         *)
(* The recovery is not part of this code: its functions are modelled by    *)
(* what the script relies on.  A function whose result the script does not *)
(* look at may fail without consequence.                                   *)
(***************************************************************************)
EXTENDS GroupTable, SequencesExt, FiniteSets, Functions

CONSTANTS
    Packages,     \* what is packaged, see PackagesAssumption
    FileOrder,    \* the names of partitions and the op list, sorted
    Phones,       \* [name, slot]: devices and their slot suffixes
    Capacity,     \* the size of super
    MaxCuts,      \* bound: how often the power is cut
    MaxFaults     \* bound: how often a write on the device fails

OpList == "dynamic_partitions_op_list"

NoSize == -1      \* a group size that is not given

(* dynamic: the artifacts in the order of the selection, a repeated name   *)
(* twice.  raw: the raw images with their slot policies, no name twice.    *)
(* devices: the names of the device assertion, none if there is none.      *)
ASSUME PackagesAssumption ==
    \A p \in Packages :
        /\ p.dynamic \in Seq(ToSet(FileOrder)) /\ p.dynamic # <<>>
        /\ p.size \in [ToSet(p.dynamic) -> Nat \ {0}]
        /\ p.raw \in Seq([name : ToSet(FileOrder), policy : {"active", "both", "none"}])
        /\ \A i, j \in DOMAIN p.raw : p.raw[i].name = p.raw[j].name => i = j
        /\ p.option \in Nat \union {NoSize} /\ p.setting \in Nat \union {NoSize}
ASSUME FileOrderAssumption == FileOrder \in Seq(ToSet(FileOrder)) /\ OpList \in ToSet(FileOrder)
ASSUME InstallBoundsAssumption == MaxCuts \in Nat /\ MaxFaults \in Nat

VARIABLES
    job,      \* what is packaged
    pc,       \* where the build is
    out,      \* the file under the final name
    entry,    \* the entry that is written
    shown,    \* what the progress display says of the ZIP
    phone,    \* the device the package is flashed on
    dev,      \* what is on it
    status,   \* how its last update ended, or that it runs
    step,     \* the next command
    cuts, faults

host == <<job, pc, out, entry, shown>>
device == <<dev, status, step, cuts, faults>>
vars == <<host, phone, device>>

-------------------------------------------------------------------------------
(* The raw images and the script.                                          *)

(* _raw_image_spec_for_path, as _selected_raw_images calls it. *)
RawSpec(name) == [name |-> name, policy |-> IF name = "logo" THEN "none" ELSE "both"]

Command(op, name, slot) == [op |-> op, name |-> name, slot |-> slot]

Plain(op) == Command(op, "", "")

RawCommands_OneSlot(image) ==
    IF image.policy = "active" THEN <<Command("raw", image.name, "active")>>
    ELSE <<Command("raw", image.name, IF image.policy = "both" THEN "_a" ELSE "")>>

RawCommands_ActiveAsBoth(image) ==
    IF image.policy = "none" THEN <<Command("raw", image.name, "")>>
    ELSE <<Command("raw", image.name, "_a"), Command("raw", image.name, "_b")>>

(* Flashed to the slot that is active, to both, or to the one there is.    *)
RawCommands(image) ==
    CASE image.policy = "active" -> <<Command("raw", image.name, "active")>>
      [] image.policy = "both" -> <<Command("raw", image.name, "_a"), Command("raw", image.name, "_b")>>
      [] OTHER -> <<Command("raw", image.name, "")>>

SlotChecked(raw) == \E i \in DOMAIN raw : raw[i].policy = "active"

When(condition, commands) == IF condition THEN commands ELSE <<>>

Script_WipesFirst(p) ==
    <<Plain("avb"), Plain("wipe")>>
      \o When(p.devices # {}, <<Plain("device")>>)
      \o When(SlotChecked(p.raw), <<Plain("slot")>>)
      \o FlattenSeq([i \in DOMAIN p.raw |-> RawCommands(p.raw[i])])
      \o <<Plain("unmap"), Plain("tables")>>
      \o [i \in DOMAIN p.dynamic |-> Command("flash", p.dynamic[i], "")]
      \o <<Plain("end")>>

Script_FlashesFirst(p) ==
    When(p.devices # {}, <<Plain("device")>>)
      \o <<Plain("avb"), Plain("wipe")>>
      \o When(SlotChecked(p.raw), <<Plain("slot")>>)
      \o FlattenSeq([i \in DOMAIN p.raw |-> RawCommands(p.raw[i])])
      \o [i \in DOMAIN p.dynamic |-> Command("flash", p.dynamic[i], "")]
      \o <<Plain("unmap"), Plain("tables"), Plain("end")>>

(* write_updater_script: the device is checked before anything is changed, *)
(* the slot only after super has been wiped.                               *)
Script(p) ==
    When(p.devices # {}, <<Plain("device")>>)
      \o <<Plain("avb"), Plain("wipe")>>
      \o When(SlotChecked(p.raw), <<Plain("slot")>>)
      \o FlattenSeq([i \in DOMAIN p.raw |-> RawCommands(p.raw[i])])
      \o <<Plain("unmap"), Plain("tables")>>
      \o [i \in DOMAIN p.dynamic |-> Command("flash", p.dynamic[i], "")]
      \o <<Plain("end")>>

Sizes(p) == [i \in DOMAIN p.dynamic |-> p.size[p.dynamic[i]]]

(* A size that was given, 0 only in the settings, is not looked at.        *)
GroupSize(p) ==
    IF p.option \notin {NoSize, 0} THEN p.option
    ELSE IF p.setting # NoSize THEN p.setting
    ELSE Padded(Total(Sizes(p)))

(* write_dynamic_partitions_op_list *)
OpListOf(p) == [limit |-> GroupSize(p), adds |-> p.dynamic, sizes |-> Sizes(p)]

-------------------------------------------------------------------------------
(* The files of the package in the order of sorted(rglob("*")), upper case *)
(* first.                                                                  *)

File(name, kind) == [name |-> name, kind |-> kind]

ToolFiles ==
    <<File("update-binary", "tool"), File("updater-script", "script"), File("avbctl", "tool"),
      File("super_empty", "tool"), File("superwipe", "tool")>>

(* A name is both in a template that lists a raw partition. *)
FilesOf(p, name) ==
    When(name = OpList, <<File(name, "ops")>>)
      \o When(\E i \in DOMAIN p.raw : p.raw[i].name = name, <<File(name, "raw")>>)
      \o When(name \in ToSet(p.dynamic), <<File(name, "data"), File(name, "patch"), File(name, "list")>>)

Files(p) == ToolFiles \o FlattenSeq([i \in DOMAIN FileOrder |-> FilesOf(p, FileOrder[i])])

(* A file is read in chunks; patch.dat has nothing in it. *)
Chunks(file) ==
    CASE file.kind = "patch" -> 0
      [] file.kind \in {"data", "raw"} -> 2
      [] OTHER -> 1

TotalChunks(p) == Total([i \in DOMAIN Files(p) |-> Chunks(Files(p)[i])])

(* An archive: closed when it ends like one; build: whose files it has.    *)
Archive(build, entries, closed) == [build |-> build, entries |-> entries, closed |-> closed]

NoArchive == Archive("none", <<>>, FALSE)

Complete(p, build) ==
    Archive(build, [i \in DOMAIN Files(p) |-> [file |-> Files(p)[i], chunks |-> Chunks(Files(p)[i])]],
            TRUE)

Fresh == [super |-> "old", limit |-> 0, lps |-> {}, avb |-> "on",
          raw |-> [f \in ToSet(FileOrder) \X {"_a", "_b", ""} |-> "old"],
          part |-> [n \in ToSet(FileOrder) |-> "old"]]

Init ==
    /\ job \in Packages
    /\ pc = "zip"
    /\ out \in {NoArchive, Complete(job, "earlier")}
    /\ entry = 0
    /\ shown = [files |-> 0, bytes |-> 0]
    /\ phone \in Phones
    /\ dev = Fresh /\ status = "idle" /\ step = 1
    /\ cuts = 0 /\ faults = 0

TypeOK ==
    /\ pc \in {"zip", "next", "write", "built", "failed", "killed"}
    /\ entry \in 0..(Len(Files(job)) + 1)
    /\ Len(out.entries) <= Len(Files(job)) /\ out.build \in {"none", "this", "earlier"}
    /\ \A i \in DOMAIN out.entries : out.entries[i].chunks \in 0..Chunks(out.entries[i].file)
    /\ shown.files \in 0..Len(Files(job)) /\ shown.bytes \in 0..TotalChunks(job)
    /\ dev.super \in {"old", "broken", "empty", "laid out"} /\ dev.avb \in {"on", "off"}
    /\ \A c \in Range(dev.raw) \union Range(dev.part) : c \in {"old", "junk", "cut off", "this", "earlier"}
    /\ status \in {"idle", "running", "lost", "aborted", "finished"}
    /\ cuts \in 0..MaxCuts /\ faults \in 0..MaxFaults

-------------------------------------------------------------------------------
(* build_flashable_zip.  What it packs is there: the scripts are written.  *)

OnHost == UNCHANGED <<job, phone, device>>

(* ZipFile(output_path, "w"): the ZIP of an earlier build is gone. *)
OpenZip ==
    /\ pc = "zip"
    /\ pc' = "next"
    /\ out' = Archive("this", <<>>, FALSE)
    /\ entry' = 1
    /\ OnHost /\ UNCHANGED shown

(* Before a file the display counts those before it. *)
BeginEntry ==
    /\ pc = "next"
    /\ entry <= Len(Files(job))
    /\ pc' = "write"
    /\ out' = [out EXCEPT !.entries = Append(@, [file |-> Files(job)[entry], chunks |-> 0])]
    /\ shown' = [shown EXCEPT !.files = entry - 1]
    /\ OnHost /\ UNCHANGED entry

Written == out.entries[Len(out.entries)]

BytesDone_CountsTwice == shown.bytes + 2

BytesDone_ThisFile == Written.chunks + 1

(* bytes_done goes on over the files. *)
BytesDone == shown.bytes + 1

WriteChunk ==
    /\ pc = "write"
    /\ Written.chunks < Chunks(Written.file)
    /\ out' = [out EXCEPT !.entries[Len(out.entries)].chunks = @ + 1]
    /\ shown' = [files |-> entry, bytes |-> BytesDone]
    /\ OnHost /\ UNCHANGED <<pc, entry>>

EndEntry ==
    /\ pc = "write"
    /\ Written.chunks = Chunks(Written.file)
    /\ pc' = "next"
    /\ entry' = entry + 1
    /\ OnHost /\ UNCHANGED <<out, shown>>

CloseZip ==
    /\ pc = "next"
    /\ entry > Len(Files(job))
    /\ pc' = "built"
    /\ out' = [out EXCEPT !.closed = TRUE]
    /\ OnHost /\ UNCHANGED <<entry, shown>>

Opened == pc \in {"next", "write"}

(* An exception or ^C.  The with blocks close what was opened. *)
Fails ==
    /\ pc = "zip" \/ Opened
    /\ pc' = "failed"
    /\ out' = IF Opened THEN [out EXCEPT !.closed = TRUE] ELSE out
    /\ OnHost /\ UNCHANGED <<entry, shown>>

Killed ==
    /\ pc = "zip" \/ Opened
    /\ pc' = "killed"
    /\ OnHost /\ UNCHANGED <<out, entry, shown>>

Build ==
    OpenZip \/ BeginEntry \/ WriteChunk \/ EndEntry \/ CloseZip \/ Fails \/ Killed

-------------------------------------------------------------------------------
(* The recovery.  An earlier package differs in its contents only.         *)

Ended == pc \in {"built", "failed", "killed"}

Packed(file) == {e \in ToSet(out.entries) : e.file = file}

Has(file) == Packed(file) # {}

Whole(file) == \E e \in Packed(file) : e.chunks = Chunks(file)

Runnable ==
    out.closed /\ Whole(File("update-binary", "tool")) /\ Whole(File("updater-script", "script"))

(* A package that cannot be opened or has no script changes nothing. *)
Flash ==
    /\ Ended
    /\ status \in {"idle", "lost", "aborted"}
    /\ Runnable
    /\ status' = "running"
    /\ step' = 1
    /\ UNCHANGED <<host, phone, dev, cuts, faults>>

Now == Script(job)[step]

Abort == status' = "aborted" /\ UNCHANGED <<dev, step>>

GoOn == status' = "running" /\ step' = step + 1

Running(op) == status = "running" /\ Now.op = op /\ UNCHANGED <<host, phone, cuts>>

Does(change) == GoOn /\ dev' = change /\ UNCHANGED faults

(* A write fails; what it leaves is one of outcomes. *)
Faulty(outcomes) ==
    /\ faults < MaxFaults
    /\ faults' = faults + 1
    /\ dev' \in outcomes

KnownDevice == phone.name \in job.devices

(* E1000 *)
CheckDevice ==
    /\ Running("device")
    /\ UNCHANGED faults
    /\ IF KnownDevice THEN GoOn /\ UNCHANGED dev ELSE Abort

(* The results of avbctl and superwipe are not looked at. *)
DisableAvb ==
    /\ Running("avb")
    /\ \/ Does(IF Whole(File("avbctl", "tool")) THEN [dev EXCEPT !.avb = "off"] ELSE dev)
       \/ GoOn /\ Faulty({dev})

Gone == [n \in DOMAIN dev.part |-> "junk"]

Wiped == [dev EXCEPT !.super = "empty", !.lps = {}, !.part = Gone]

Broken == [dev EXCEPT !.super = "broken", !.lps = {}, !.part = Gone]

Superwipe ==
    /\ Running("wipe")
    /\ \/ Does(IF Whole(File("superwipe", "tool")) /\ Whole(File("super_empty", "tool"))
               THEN Wiped ELSE dev)
       \/ GoOn /\ Faulty({dev, Broken})

(* E1002 *)
CheckSlot ==
    /\ Running("slot")
    /\ UNCHANGED faults
    /\ IF phone.slot \in {"_a", "_b"} THEN GoOn /\ UNCHANGED dev ELSE Abort

RawTarget(c) == <<c.name, IF c.slot = "active" THEN phone.slot ELSE c.slot>>

(* A device without slots has the plain partition only. *)
Reached(c) == phone.slot # "" \/ RawTarget(c)[2] = ""

RawContent(name) == IF Whole(File(name, "raw")) THEN out.build ELSE "cut off"

(* What a write that fails or is cut off leaves, if it began. *)
RawJunk == IF Reached(Now) THEN {[dev EXCEPT !.raw[RawTarget(Now)] = "junk"]} ELSE {}

(* A raw image that is not in the package, that the device has no          *)
(* partition for or that cannot be written is passed over.                 *)
FlashRaw ==
    /\ Running("raw")
    /\ \/ Does(IF Has(File(Now.name, "raw")) /\ Reached(Now)
               THEN [dev EXCEPT !.raw[RawTarget(Now)] = RawContent(Now.name)] ELSE dev)
       \/ GoOn /\ Faulty({dev} \union RawJunk)

Unmap == Running("unmap") /\ Does(dev)

AddedOnce(o) == IsInjective(o.adds)

(* The partitions fit in their group, and the group's fit in super. *)
Fits(o) == (o.limit = 0 \/ Total(o.sizes) <= o.limit) /\ Total(o.sizes) <= Capacity

LaidOut ==
    [dev EXCEPT !.super = "laid out", !.limit = OpListOf(job).limit, !.lps = ToSet(job.dynamic),
                !.part = Gone]

UpdateTables ==
    /\ Running("tables")
    /\ \/ /\ UNCHANGED faults
          /\ IF /\ Whole(File(OpList, "ops")) /\ dev.super # "broken"
                /\ AddedOnce(OpListOf(job)) /\ Fits(OpListOf(job))
             THEN GoOn /\ dev' = LaidOut ELSE Abort
       \/ status' = "aborted" /\ UNCHANGED step /\ Faulty({dev})

Transfer(name) == Whole(File(name, "data")) /\ Has(File(name, "patch")) /\ Whole(File(name, "list"))

(* E1001 *)
FlashDynamic ==
    /\ Running("flash")
    /\ IF Now.name \in dev.lps /\ Transfer(Now.name)
       THEN \/ Does([dev EXCEPT !.part[Now.name] = out.build])
            \/ /\ status' = "aborted" /\ UNCHANGED step
               /\ Faulty({[dev EXCEPT !.part[Now.name] = "junk"]})
       ELSE Abort /\ UNCHANGED faults

Finish ==
    /\ Running("end")
    /\ status' = "finished"
    /\ UNCHANGED <<dev, step, faults>>

(* What a command that was cut off leaves. *)
CutOff ==
    CASE Now.op = "avb" -> {dev, [dev EXCEPT !.avb = "off"]}
      [] Now.op = "wipe" -> {dev, Wiped}
      [] Now.op = "raw" -> {dev} \union RawJunk
      [] Now.op = "tables" -> {dev} \union (IF AddedOnce(OpListOf(job)) /\ Fits(OpListOf(job))
                                           THEN {LaidOut} ELSE {})
      [] Now.op = "flash" -> {dev, [dev EXCEPT !.part[Now.name] = "junk"]}
      [] OTHER -> {dev}

PowerCut ==
    /\ status = "running"
    /\ cuts < MaxCuts
    /\ cuts' = cuts + 1
    /\ status' = "lost"
    /\ dev' \in CutOff
    /\ UNCHANGED <<host, phone, step, faults>>

RunScript ==
    CheckDevice \/ DisableAvb \/ Superwipe \/ CheckSlot \/ FlashRaw \/ Unmap \/ UpdateTables
      \/ FlashDynamic \/ Finish

Over == Ended /\ (~Runnable \/ status = "finished") /\ UNCHANGED vars

Next == Build \/ Flash \/ RunScript \/ PowerCut \/ Over

Spec == Init /\ [][Next]_vars

(* The recovery carries the script out, and someone flashes the package    *)
(* again until it says that it is finished.                                *)
FairSpec == Spec /\ WF_vars(Flash) /\ WF_vars(RunScript)

-------------------------------------------------------------------------------
(* What is guaranteed.                                                     *)

ZipWhole == out = Complete(job, out.build)

(* Where the raw images belong.  A device without slots has none of the    *)
(* partitions that an image for both slots is written to: it stays as it   *)
(* was, and the script goes on.                                            *)
SlotsOf(policy) ==
    CASE policy = "active" -> {phone.slot}
      [] policy = "both" -> IF phone.slot = "" THEN {} ELSE {"_a", "_b"}
      [] OTHER -> {""}

RawTargets ==
    UNION {{<<job.raw[i].name, s>> : s \in SlotsOf(job.raw[i].policy)} : i \in DOMAIN job.raw}

(* The script comes to its end only when super is laid out and every       *)
(* dynamic partition holds what the package has for it, whatever was cut   *)
(* off before and whatever a failed build left of the ZIP.  The raw images *)
(* are there too, if the ZIP is whole and no write failed, except those    *)
(* for both slots on a device without slots, which go nowhere.             *)
FinishedComplete ==
    status = "finished" =>
        /\ dev.super = "laid out"
        /\ \A n \in ToSet(job.dynamic) : n \in dev.lps /\ dev.part[n] = out.build
        /\ (ZipWhole /\ faults = 0) => /\ dev.avb = "off"
                                       /\ \A t \in RawTargets : dev.raw[t] = out.build

(* On a device the package is not for nothing is changed: neither super    *)
(* nor AVB nor a raw partition.                                            *)
OtherDeviceUntouched == (job.devices # {} /\ ~KnownDevice) => dev = Fresh

(* A raw image that goes to the active slot leaves the other slot as it    *)
(* was, and a device whose slot is not known as well.                      *)
InactiveSlotKept ==
    \A i \in DOMAIN job.raw :
        job.raw[i].policy = "active" =>
            \A s \in {"_a", "_b", ""} :
                dev.raw[<<job.raw[i].name, s>>] # "old" => s = phone.slot /\ s # ""

(* The update of a device the package is for ends early only if a write    *)
(* failed, the ZIP is not whole, the partitions are too large for super or *)
(* for a group size that was given, or one is there twice.  A group size   *)
(* that was computed is never the cause.                                   *)
SizeGiven == job.option \notin {NoSize, 0} \/ job.setting # NoSize

Installable ==
    /\ job.devices = {} \/ KnownDevice
    /\ SlotChecked(job.raw) => phone.slot \in {"_a", "_b"}
    /\ AddedOnce(OpListOf(job))
    /\ Total(Sizes(job)) <= Capacity
    /\ SizeGiven => GroupSize(job) = 0 \/ Total(Sizes(job)) <= GroupSize(job)

AbortHasCause == status = "aborted" => faults > 0 \/ ~ZipWhole \/ ~Installable

(* The display is never ahead of the file and says so when the ZIP is done.*)
PackedChunks == Total([i \in DOMAIN out.entries |-> out.entries[i].chunks])

PackingTruthful ==
    /\ Opened => shown.bytes = PackedChunks
    /\ pc = "built" => shown = [files |-> Len(Files(job)), bytes |-> TotalChunks(job)]

(* Whoever flashes the package again after each interruption gets to the   *)
(* end: no command leaves the device in a state the script cannot start    *)
(* from.                                                                   *)
RetryFinishes == (pc = "built" /\ Installable) ~> status = "finished"

-------------------------------------------------------------------------------
(* "Flashing into slot ... is finished!": the device has what the package  *)
(* was made to bring.                                                      *)
FinishedIsFlashed ==
    status = "finished" => \A t \in RawTargets : dev.raw[t] = out.build
===============================================================================
