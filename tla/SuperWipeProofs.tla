--------------------------- MODULE SuperWipeProofs ---------------------------
(***************************************************************************)
(* Proofs about SuperWipe for every geometry: the copies of the slots do   *)
(* not overlap, and exit status 0 means that all of them were written.     *)
(***************************************************************************)
EXTENDS SuperWipe, TLAPS

LEMMA Scaled ==
  ASSUME NEW m \in Nat \ {0}, NEW a \in Nat, NEW b \in Nat, a < b
  PROVE  m * a + m <= m * b /\ m * a \in Nat /\ m * b \in Nat
  <1>1. PICK d \in Nat : b = a + 1 + d
    <2>1. b - a - 1 \in Nat /\ b = a + 1 + (b - a - 1)
      OBVIOUS
    <2> QED BY <2>1
  <1>2. m * b = m * a + m + m * d
    BY <1>1
  <1>3. m * a \in Nat /\ m * b \in Nat /\ m * d \in Nat
    OBVIOUS
  <1> QED BY <1>2, <1>3

(* get_primary_metadata_offset and get_backup_metadata_offset give every   *)
(* copy of every slot a unit of its own.                                   *)
LEMMA UnitsDisjoint ==
  ASSUME NEW g, IsGeometry(g), NEW s \in Slots(g), NEW t \in Slots(g)
  PROVE  /\ PrimaryUnit(g, s) \in Nat /\ BackupUnit(g, s) \in Nat
         /\ PrimaryUnit(g, s) # BackupUnit(g, t)
         /\ s # t => /\ PrimaryUnit(g, s) # PrimaryUnit(g, t)
                     /\ BackupUnit(g, s) # BackupUnit(g, t)
  <1>1. g.max \in Nat \ {0} /\ g.slots \in Nat \ {0}
    BY DEF IsGeometry
  <1>2. s \in Nat /\ t \in Nat /\ s < g.slots /\ t < g.slots
    BY <1>1 DEF Slots
  <1>3. g.max * s + g.max <= g.max * g.slots /\ g.max * s \in Nat
        /\ g.max * g.slots \in Nat /\ g.max * t \in Nat
    BY <1>1, <1>2, Scaled
  <1>4. s < t => g.max * s + g.max <= g.max * t
    BY <1>1, <1>2, Scaled
  <1>5. t < s => g.max * t + g.max <= g.max * s
    BY <1>1, <1>2, Scaled
  <1> DEFINE ms == g.max * s
             mt == g.max * t
             mn == g.max * g.slots
  <1>6. /\ ms \in Nat /\ mt \in Nat /\ mn \in Nat /\ g.max \in Nat \ {0}
        /\ ms + g.max <= mn
        /\ s < t => ms + g.max <= mt
        /\ t < s => mt + g.max <= ms
        /\ PrimaryUnit(g, s) = ms /\ PrimaryUnit(g, t) = mt
        /\ BackupUnit(g, s) = mn + ms /\ BackupUnit(g, t) = mn + mt
    BY <1>1, <1>3, <1>4, <1>5 DEF PrimaryUnit, BackupUnit
  <1> HIDE DEF ms, mt, mn
  <1> QED BY <1>2, <1>6

(* A geometry that fits the device has all its copies on it. *)
LEMMA UnitsOnDevice ==
  ASSUME NEW g, IsGeometry(g), Fits(g), NEW s \in Slots(g)
  PROVE  PrimaryUnit(g, s) \in Units /\ BackupUnit(g, s) \in Units
  <1>1. g.max \in Nat \ {0} /\ g.slots \in Nat \ {0} /\ LastUnit \in Nat
    BY GeometryAssumption DEF IsGeometry
  <1>2. s \in Nat /\ s < g.slots
    BY <1>1 DEF Slots
  <1>3. g.max * s + g.max <= g.max * g.slots /\ g.max * s \in Nat
        /\ g.max * g.slots \in Nat
    BY <1>1, <1>2, Scaled
  <1> DEFINE ms == g.max * s
             mn == g.max * g.slots
  <1>4. 2 * mn <= LastUnit + 1
    BY <1>1, <1>3 DEF Fits
  <1>5. /\ ms \in Nat /\ mn \in Nat /\ g.max \in Nat \ {0} /\ LastUnit \in Nat
        /\ ms + g.max <= mn
        /\ PrimaryUnit(g, s) = ms /\ BackupUnit(g, s) = mn + ms
    BY <1>1, <1>3 DEF PrimaryUnit, BackupUnit
  <1> HIDE DEF ms, mn
  <1> QED BY <1>4, <1>5 DEF Units

-------------------------------------------------------------------------------
(* Typing.                                                                 *)

Geometries == {NoGeometry, DeviceGeometry, TemplateGeometry}

(* A running program has a real geometry, and starts the slots at 0 after  *)
(* the geometry copies.                                                    *)
Running ==
    /\ pc # "idle" => geom \in {DeviceGeometry, TemplateGeometry}
    /\ pc \in {"geometry-primary", "geometry-backup"} => slot = 0

LEMMA GeometriesFit ==
  ASSUME NEW g \in {DeviceGeometry, TemplateGeometry}
  PROVE  /\ IsGeometry(g) /\ Fits(g) /\ g # NoGeometry
         /\ g.slots \in Nat \ {0}
  BY GeometryAssumption DEF IsGeometry, NoGeometry

LEMMA InitTyped == Init => TypeOK /\ Running
  <1> SUFFICES ASSUME Init PROVE TypeOK /\ Running
    OBVIOUS
  <1>1. geo \in [{"primary", "backup"} -> Geometries]
    BY GeometryAssumption DEF Init, Geometries
  <1>2. meta \in [Units -> Copies]
    BY InvocationsAssumption DEF Init, Copies
  <1>3. geom.slots = 0
    BY DEF Init, NoGeometry
  <1> QED
    BY <1>1, <1>2, <1>3, InvocationsAssumption, BoundsAssumption
    DEF Init, TypeOK, Running, Copies, Geometries

(* The units a running program writes are on the device. *)
LEMMA UnitWrittenTyped ==
  ASSUME TypeOK, Running, pc \in {"primary", "backup"}
  PROVE  /\ UnitWritten \in Units
         /\ geom.slots \in Nat \ {0} /\ IsGeometry(geom)
         /\ slot \in Slots(geom)
  <1>1. IsGeometry(geom) /\ Fits(geom) /\ geom.slots \in Nat \ {0}
    BY GeometriesFit DEF Running
  <1>2. slot \in Slots(geom)
    BY <1>1 DEF TypeOK, Slots
  <1> QED BY <1>1, <1>2, UnitsOnDevice DEF UnitWritten

LEMMA LaunchTyped ==
  ASSUME TypeOK, Running, NEW a \in Invocations, Launch(a)
  PROVE  TypeOK' /\ Running'
  <1>a. a \in CommandLines
    BY InvocationsAssumption
  <1>b. UNCHANGED <<disk, cuts, faults>> /\ args' = a /\ slot' = 0
    BY DEF Launch
  <1>1. CASE LaunchNowhere(a)
    <2>1. geom'.slots \in Nat
      BY <1>1, GeometriesFit DEF LaunchNowhere, TypeOK, NoGeometry
    <2> QED BY <1>1, <1>a, <1>b, <2>1 DEF LaunchNowhere, Exit, TypeOK, Running, disk
  <1>2. CASE LaunchFlash(a)
    <2>1. geom' = TemplateGeometry /\ blob' = "template"
      BY <1>2 DEF LaunchFlash
    <2>2. /\ pc' \in {"idle", "geometry-primary"}
          /\ status' \in {"ok", "error", "running"}
      BY <1>2 DEF LaunchFlash, Exit
    <2> QED BY <1>a, <1>b, <2>1, <2>2, GeometriesFit DEF TypeOK, Running, Copies, disk
  <1>3. CASE LaunchWipe(a)
    <2>1. CASE TargetsTheFile(a) \/ StoredGeometry = NoGeometry
      <3>1. geom' = NoGeometry /\ blob' = "junk" /\ pc' = "idle" /\ status' = "error"
        BY <1>3, <2>1 DEF LaunchWipe, Exit
      <3> QED BY <1>a, <1>b, <3>1 DEF TypeOK, Running, Copies, NoGeometry, disk
    <2>2. CASE ~(TargetsTheFile(a) \/ StoredGeometry = NoGeometry)
      <3>1. geom' = StoredGeometry /\ StoredGeometry \in {DeviceGeometry, TemplateGeometry}
        BY <1>3, <2>2 DEF LaunchWipe, StoredGeometry, TypeOK
      <3>2. blob' \in Copies
        <4>1. \A c : BlobNaming(c) \in Copies
          BY DEF BlobNaming, Copies
        <4>2. WipeBlobs(StoredGeometry) \subseteq Copies
          BY <4>1 DEF WipeBlobs, Copies
        <4> QED BY <1>3, <2>2, <4>2 DEF LaunchWipe
      <3>3. \/ pc' = "idle" /\ status' = "ok"
            \/ pc' = "primary" /\ status' = "running"
        BY <1>3, <2>2 DEF LaunchWipe, Exit
      <3> QED BY <1>a, <1>b, <3>1, <3>2, <3>3, GeometriesFit DEF TypeOK, Running, disk
    <2> QED BY <2>1, <2>2
  <1> QED BY <1>1, <1>2, <1>3 DEF Launch

LEMMA WritesTyped ==
  ASSUME TypeOK, Running, ProgramStep \/ PowerLoss
  PROVE  TypeOK' /\ Running'
  <1>1. CASE FlashGeometry
    <2>1. geom \in {DeviceGeometry, TemplateGeometry} /\ slot = 0
      BY <1>1 DEF FlashGeometry, Running
    <2>2. geo' \in [{"primary", "backup"} -> Geometries] /\ faults' \in 0..MaxFaults
      BY <1>1, <2>1, BoundsAssumption
      DEF FlashGeometry, WritesGeometry, CopyOf, TypeOK, Geometries
    <2>3. pc' \in {"geometry-backup", "primary"}
      BY <1>1 DEF FlashGeometry, NextAfterGeometry
    <2> QED
      BY <1>1, <2>1, <2>2, <2>3, GeometriesFit
      DEF FlashGeometry, TypeOK, Running, Geometries, process
  <1>2. CASE WriteSlot
    <2>1. /\ UnitWritten \in Units /\ geom.slots \in Nat \ {0}
          /\ slot \in Nat /\ slot < geom.slots
      BY <1>2, UnitWrittenTyped DEF WriteSlot, Slots
    <2>2. meta' \in [Units -> Copies]
      BY <1>2, <2>1 DEF WriteSlot, WritesCopy, TypeOK
    <2>3. CASE pc = "primary"
      BY <1>2, <2>1, <2>2, <2>3 DEF WriteSlot, AfterWrite, TypeOK, Running
    <2>4. CASE pc = "backup"
      BY <1>2, <2>1, <2>2, <2>4 DEF WriteSlot, AfterWrite, Exit, TypeOK, Running
    <2> QED BY <1>2, <2>3, <2>4 DEF WriteSlot
  <1>3. CASE WriteSlotFails
    <2>1. UnitWritten \in Units
      BY <1>3, UnitWrittenTyped DEF WriteSlotFails
    <2>2. meta' \in [Units -> Copies] /\ faults' \in 0..MaxFaults
      BY <1>3, <2>1, BoundsAssumption DEF WriteSlotFails, WritesCopy, TypeOK, Copies
    <2> QED BY <1>3, <2>2 DEF WriteSlotFails, Exit, TypeOK, Running, process
  <1>4. CASE PowerLoss
    <2>1. geom \in Geometries
      BY DEF TypeOK, Geometries
    <2>2. geo' \in [{"primary", "backup"} -> Geometries] /\ cuts' \in 0..MaxCuts
      BY <1>4, <2>1, BoundsAssumption
      DEF PowerLoss, WritesGeometry, CopyOf, TypeOK, Geometries
    <2>3. meta' \in [Units -> Copies]
      <3>1. CASE pc \in {"primary", "backup"}
        <4>1. UnitWritten \in Units
          BY <3>1, UnitWrittenTyped
        <4>2. CutOff(meta[UnitWritten]) \subseteq Copies
          BY <4>1 DEF CutOff, TypeOK, Copies
        <4> QED BY <1>4, <3>1, <4>1, <4>2 DEF PowerLoss, WritesCopy, TypeOK
      <3> QED BY <1>4, <3>1 DEF PowerLoss, TypeOK
    <2> QED
      BY <1>4, <2>2, <2>3 DEF PowerLoss, Exit, TypeOK, Running, Geometries, process
  <1> QED BY <1>1, <1>2, <1>3, <1>4 DEF ProgramStep

(* Every state is well typed; in particular the program never writes past  *)
(* the last slot of its geometry, nor with a geometry that does not fit.   *)
THEOREM SuperTyping == Spec => [](TypeOK /\ Running)
  <1>1. TypeOK /\ Running /\ [Next]_vars => TypeOK' /\ Running'
    <2> SUFFICES ASSUME TypeOK, Running, [Next]_vars PROVE TypeOK' /\ Running'
      OBVIOUS
    <2>1. CASE UNCHANGED vars
      BY <2>1 DEF vars, disk, process, TypeOK, Running
    <2> QED BY <2>1, LaunchTyped, WritesTyped DEF Next, Idle
  <1> QED BY <1>1, InitTyped, PTL DEF Spec

-------------------------------------------------------------------------------
(* Exit status 0.                                                          *)

Both(s) == meta[PrimaryUnit(geom, s)] = blob /\ meta[BackupUnit(geom, s)] = blob

(* While the slots are written: all before the next one are complete, and  *)
(* of the next one the primary copy when the backup's turn has come.       *)
Progress ==
    /\ pc \in {"primary", "backup"} => \A s \in 0..(slot - 1) : Both(s)
    /\ pc = "backup" => meta[PrimaryUnit(geom, slot)] = blob
    /\ status = "ok" => pc = "idle"

LEMMA WriteSlotProgress ==
  ASSUME TypeOK, Running, Progress, WriteSlot
  PROVE  Progress' /\ SuccessComplete'
  <1>a. /\ UnitWritten \in Units /\ geom.slots \in Nat \ {0} /\ IsGeometry(geom)
        /\ slot \in Slots(geom) /\ slot \in Nat /\ slot < geom.slots
    BY UnitWrittenTyped DEF WriteSlot, Slots
  <1>b. UNCHANGED <<geom, blob>>
    BY DEF WriteSlot
  <1>c. meta'[UnitWritten] = blob /\ \A u \in Units \ {UnitWritten} : meta'[u] = meta[u]
    BY <1>a DEF WriteSlot, WritesCopy, TypeOK
  <1>d. pc \in {"primary", "backup"} /\ status # "ok"
    BY DEF WriteSlot, Progress
  <1>e. ASSUME NEW s \in 0..(slot - 1)
        PROVE  /\ s \in Slots(geom)
               /\ PrimaryUnit(geom, s) \in Units /\ BackupUnit(geom, s) \in Units
               /\ UnitWritten \notin {PrimaryUnit(geom, s), BackupUnit(geom, s)}
    <2>1. s \in Slots(geom) /\ s # slot
      BY <1>a DEF Slots
    <2>2. PrimaryUnit(geom, s) \in Units /\ BackupUnit(geom, s) \in Units
      BY <1>a, <1>d, <2>1, UnitsOnDevice, GeometriesFit DEF Running
    <2>3. UnitWritten \notin {PrimaryUnit(geom, s), BackupUnit(geom, s)}
      BY <1>a, <2>1, UnitsDisjoint DEF UnitWritten
    <2> QED BY <2>1, <2>2, <2>3
  <1>f. \A s \in 0..(slot - 1) : Both(s)'
    <2> SUFFICES ASSUME NEW s \in 0..(slot - 1) PROVE Both(s)'
      OBVIOUS
    <2>1. meta[PrimaryUnit(geom, s)] = blob /\ meta[BackupUnit(geom, s)] = blob
      BY <1>d DEF Progress, Both
    <2>2. /\ meta'[PrimaryUnit(geom, s)] = blob
          /\ meta'[BackupUnit(geom, s)] = blob
      BY <2>1, <1>c, <1>e
    <2> QED BY <2>2, <1>b DEF Both, PrimaryUnit, BackupUnit
  <1>1. CASE pc = "primary"
    <2>1. /\ pc' = "backup" /\ UNCHANGED <<slot, status>>
          /\ meta'[PrimaryUnit(geom, slot)] = blob
      BY <1>1, <1>c DEF WriteSlot, AfterWrite, UnitWritten
    <2> QED
      BY <2>1, <1>b, <1>d, <1>f
      DEF Progress, SuccessComplete, Both, PrimaryUnit, BackupUnit
  <1>2. CASE pc = "backup"
    <2>1. /\ meta'[BackupUnit(geom, slot)] = blob
          /\ meta'[PrimaryUnit(geom, slot)] = blob
      <3>1. UnitWritten = BackupUnit(geom, slot)
        BY <1>2 DEF UnitWritten
      <3>2. PrimaryUnit(geom, slot) # BackupUnit(geom, slot)
        BY <1>a, UnitsDisjoint
      <3>3. PrimaryUnit(geom, slot) \in Units
        BY <1>a, <1>d, UnitsOnDevice, GeometriesFit DEF Running
      <3> QED BY <3>1, <3>2, <3>3, <1>2, <1>c DEF Progress
    <2>2. \A s \in {slot} : Both(s)'
      BY <2>1, <1>b DEF Both, PrimaryUnit, BackupUnit
    <2>3. slot' = slot + 1 /\ \A s \in 0..slot : Both(s)'
      <3>1. slot' = slot + 1
        BY <1>2 DEF WriteSlot, AfterWrite
      <3>2. 0..slot = (0..(slot - 1)) \union {slot}
        BY <1>a
      <3> QED BY <3>1, <3>2, <1>f, <2>2
    <2>4. CASE slot + 1 < geom.slots
      <3>1. pc' = "primary" /\ status' = status
        BY <1>2, <2>4 DEF WriteSlot, AfterWrite
      <3>2. \A s \in 0..(slot' - 1) : Both(s)'
        BY <2>3, <1>a
      <3> QED BY <3>1, <3>2, <1>d DEF Progress, SuccessComplete
    <2>5. CASE ~(slot + 1 < geom.slots)
      <3>1. pc' = "idle"
        BY <1>2, <2>5 DEF WriteSlot, AfterWrite, Exit
      <3>2. Slots(geom') = 0..slot
        BY <2>5, <1>a, <1>b DEF Slots
      <3> QED BY <3>1, <3>2, <2>3 DEF Progress, SuccessComplete, Both
    <2> QED BY <2>4, <2>5
  <1> QED BY <1>1, <1>2, <1>d

LEMMA LaunchProgress ==
  ASSUME TypeOK, Progress, NEW a \in Invocations, Launch(a)
  PROVE  Progress' /\ SuccessComplete'
  <1>1. slot' = 0 /\ args' = a /\ pc' # "backup"
    BY DEF Launch, LaunchNowhere, LaunchFlash, LaunchWipe, Exit
  <1>2. status' = "ok" => pc' = "idle" /\ a.dryRun
    BY DEF Launch, LaunchNowhere, LaunchFlash, LaunchWipe, Exit
  <1> QED BY <1>1, <1>2 DEF Progress, SuccessComplete

LEMMA OtherProgress ==
  ASSUME TypeOK, Running, Progress, SuccessComplete,
         FlashGeometry \/ WriteSlotFails \/ PowerLoss
  PROVE  Progress' /\ SuccessComplete'
  <1>1. CASE FlashGeometry
    <2>1. slot' = 0 /\ pc' \in {"geometry-backup", "primary"} /\ status' # "ok"
      BY <1>1 DEF FlashGeometry, NextAfterGeometry, Running, Progress, process
    <2> QED BY <2>1 DEF Progress, SuccessComplete
  <1>2. CASE WriteSlotFails \/ PowerLoss
    BY <1>2 DEF WriteSlotFails, PowerLoss, Exit, Progress, SuccessComplete
  <1> QED BY <1>1, <1>2

(* Exit status 0 means that every copy of every slot holds the metadata of *)
(* this run, for every geometry and whatever was cut off or failed before. *)
THEOREM SuccessIsComplete == Spec => []SuccessComplete
  <1>1. Init => Progress /\ SuccessComplete
    BY DEF Init, Progress, SuccessComplete
  <1>2. TypeOK /\ Running /\ Progress /\ SuccessComplete /\ [Next]_vars
          => Progress' /\ SuccessComplete'
    <2> SUFFICES ASSUME TypeOK, Running, Progress, SuccessComplete, [Next]_vars
                 PROVE  Progress' /\ SuccessComplete'
      OBVIOUS
    <2>1. CASE UNCHANGED vars
      BY <2>1
      DEF vars, disk, process, Progress, SuccessComplete, Both, PrimaryUnit, BackupUnit
    <2> QED
      BY <2>1, WriteSlotProgress, LaunchProgress, OtherProgress
      DEF Next, ProgramStep, Idle
  <1> QED BY <1>1, <1>2, SuperTyping, PTL DEF Spec
-------------------------------------------------------------------------------
(* What a reader finds after a success.                                    *)

Done == status = "ok" /\ ~args.dryRun

(* While no write failed: the geometry copies follow the program, primary  *)
(* first, and from the first slot on a reader finds the geometry the slots *)
(* are laid out by.                                                        *)
Consistent ==
    /\ pc # "idle" => status = "running"
    /\ (pc # "idle" \/ Done) => Intact(blob)
    /\ (faults = 0 /\ pc = "geometry-backup") => geo["primary"] = geom
    /\ (faults = 0 /\ (pc \in {"primary", "backup"} \/ Done)) =>
          /\ StoredGeometry = geom
          /\ args.template = "good" => geo["primary"] = geom /\ geo["backup"] = geom

(* No program starts with metadata that is not intact. *)
LEMMA LaunchBlob ==
  ASSUME NEW a \in Invocations, Launch(a), pc' # "idle" \/ Done'
  PROVE  Intact(blob') /\ status' = "running"
  <1>1. Intact("template") /\ \A g : \A b \in WipeBlobs(g) : Intact(b)
    BY DEF WipeBlobs, BlobNaming, Intact
  <1>2. args' = a
    BY DEF Launch
  <1>3. CASE LaunchNowhere(a)
    BY <1>3 DEF LaunchNowhere, Exit, Done
  <1>4. CASE LaunchFlash(a)
    BY <1>1, <1>2, <1>4 DEF LaunchFlash, Exit, Done
  <1>5. CASE LaunchWipe(a)
    BY <1>1, <1>2, <1>5 DEF LaunchWipe, Exit, Done
  <1> QED BY <1>3, <1>4, <1>5 DEF Launch

LEMMA LaunchConsistent ==
  ASSUME TypeOK, NEW a \in Invocations, Launch(a)
  PROVE  Consistent'
  <1>a. UNCHANGED geo /\ args' = a
    BY DEF Launch, disk
  <1>1. pc' # "idle" => status' = "running"
    BY LaunchBlob
  <1>2. (pc' # "idle" \/ Done') => Intact(blob')
    BY LaunchBlob
  <1>3. pc' # "geometry-backup"
    BY DEF Launch, LaunchNowhere, LaunchFlash, LaunchWipe, Exit
  <1>4. ASSUME pc' \in {"primary", "backup"} \/ Done'
        PROVE  geom' = StoredGeometry /\ a.template # "good"
    BY <1>4, <1>a
    DEF Launch, LaunchNowhere, LaunchFlash, LaunchWipe, Exit, IsTemplate, Done
  <1>5. StoredGeometry' = StoredGeometry
    BY <1>a DEF StoredGeometry
  <1> QED BY <1>a, <1>1, <1>2, <1>3, <1>4, <1>5 DEF Consistent

LEMMA FlashGeometryConsistent ==
  ASSUME TypeOK, Running, Consistent, FlashGeometry
  PROVE  Consistent'
  <1>a. /\ status = "running" /\ Intact(blob) /\ geom # NoGeometry
        /\ UNCHANGED <<geom, blob, status, args>>
        /\ pc' \in {"geometry-backup", "primary"}
    BY GeometriesFit
    DEF FlashGeometry, Consistent, Running, process, NextAfterGeometry
  <1>b. ASSUME faults' = 0
        PROVE  faults = 0 /\ geo' = [geo EXCEPT ![CopyOf] = geom]
    BY <1>b DEF FlashGeometry, WritesGeometry, TypeOK
  <1>1. CASE pc = "geometry-primary"
    <2>1. pc' = "geometry-backup" /\ CopyOf = "primary"
      BY <1>1 DEF FlashGeometry, NextAfterGeometry, CopyOf
    <2>2. faults' = 0 => geo'["primary"] = geom
      BY <1>b, <2>1 DEF TypeOK
    <2> QED BY <1>a, <2>1, <2>2 DEF Consistent, Done
  <1>2. CASE pc = "geometry-backup"
    <2>1. pc' = "primary" /\ CopyOf = "backup"
      BY <1>2 DEF FlashGeometry, NextAfterGeometry, CopyOf
    <2>2. faults' = 0 => geo'["primary"] = geom /\ geo'["backup"] = geom
      BY <1>2, <1>b, <2>1 DEF Consistent, TypeOK
    <2> QED BY <1>a, <2>1, <2>2 DEF Consistent, Done, StoredGeometry
  <1> QED BY <1>1, <1>2 DEF FlashGeometry

LEMMA WriteSlotConsistent ==
  ASSUME TypeOK, Consistent, WriteSlot
  PROVE  Consistent'
  <1>a. UNCHANGED <<geo, args, geom, blob, faults>> /\ pc \in {"primary", "backup"}
    BY DEF WriteSlot
  <1>b. Intact(blob) /\ status = "running" /\ StoredGeometry' = StoredGeometry
    BY <1>a DEF Consistent, StoredGeometry
  <1>c. \/ pc' \in {"primary", "backup"} /\ status' = status
        \/ pc' = "idle" /\ status' = "ok"
    BY DEF WriteSlot, AfterWrite, Exit
  <1>1. Intact(blob')
    BY <1>a, <1>b
  <1>2. faults' = 0 =>
          /\ StoredGeometry' = geom'
          /\ args'.template = "good" => geo'["primary"] = geom' /\ geo'["backup"] = geom'
    BY <1>a, <1>b DEF Consistent
  <1> QED BY <1>1, <1>2, <1>b, <1>c DEF Consistent

LEMMA AccidentConsistent ==
  ASSUME TypeOK, Consistent, WriteSlotFails \/ PowerLoss
  PROVE  Consistent'
  <1>1. pc' = "idle" /\ status' \in {"error", "lost"}
    BY DEF WriteSlotFails, PowerLoss, Exit
  <1> QED BY <1>1 DEF Consistent, Done

(* When no write failed, exit status 0 means that a reader finds the       *)
(* geometry the slots were written by, and every slot of it readable, for  *)
(* all geometries of device and template that fit, after any power losses. *)
THEOREM SuccessReadsBack == Spec => []SuccessConsistent
  <1>1. Init => Consistent
    BY DEF Init, Consistent, Done
  <1>2. TypeOK /\ Running /\ Consistent /\ [Next]_vars => Consistent'
    <2> SUFFICES ASSUME TypeOK, Running, Consistent, [Next]_vars PROVE Consistent'
      OBVIOUS
    <2>1. CASE UNCHANGED vars
      BY <2>1 DEF vars, disk, process, Consistent, Done, StoredGeometry
    <2> QED
      BY <2>1, LaunchConsistent, FlashGeometryConsistent, WriteSlotConsistent,
         AccidentConsistent
      DEF Next, ProgramStep, Idle
  <1>3. TypeOK /\ Consistent /\ SuccessComplete => SuccessConsistent
    <2> SUFFICES ASSUME TypeOK, Consistent, SuccessComplete, Done, faults = 0
                 PROVE  /\ StoredGeometry = geom /\ Readable(geom)
                        /\ args.template = "good" => geo["primary"] = geo["backup"]
      BY DEF SuccessConsistent, Done
    <2>1. Readable(geom)
      BY DEF Consistent, SuccessComplete, Readable, Done
    <2> QED BY <2>1 DEF Consistent
  <1> QED BY <1>1, <1>2, <1>3, SuperTyping, SuccessIsComplete, PTL DEF Spec
-------------------------------------------------------------------------------
(* One accident.                                                           *)

(* The template was made for the layout the device has, and super came     *)
(* whole from the factory.                                                 *)
SameLayout == TemplateGeometry = DeviceGeometry

WholeAtFirst ==
    InitialGeometries \subseteq {DeviceGeometry} /\ \A c \in InitialCopies : Intact(c)

DeviceUnits == CopyUnits(DeviceGeometry)

(* An accident takes one copy at most: without one everything is intact,   *)
(* after one a geometry copy and all but one of the metadata copies are.   *)
OneCopyLost ==
    /\ cuts + faults = 0 =>
         /\ geo["primary"] # NoGeometry /\ geo["backup"] # NoGeometry
         /\ \A u \in DeviceUnits : Intact(meta[u])
    /\ cuts + faults <= 1 =>
         /\ geo["primary"] # NoGeometry \/ geo["backup"] # NoGeometry
         /\ \A u, v \in DeviceUnits : ~Intact(meta[u]) /\ ~Intact(meta[v]) => u = v
    /\ pc # "idle" => Intact(blob)

LEMMA DeviceUnitsTyped == DeviceUnits \subseteq Units
  <1>1. IsGeometry(DeviceGeometry) /\ Fits(DeviceGeometry)
    BY GeometryAssumption
  <1> QED BY <1>1, UnitsOnDevice DEF DeviceUnits, CopyUnits

LEMMA InitOneCopyLost == ASSUME WholeAtFirst, Init PROVE OneCopyLost
  <1>1. geo["primary"] = DeviceGeometry /\ geo["backup"] = DeviceGeometry
    BY DEF Init, WholeAtFirst
  <1>2. \A u \in DeviceUnits : meta[u] \in InitialCopies
    BY DeviceUnitsTyped DEF Init, DeviceUnits
  <1>3. DeviceGeometry # NoGeometry /\ pc = "idle"
    BY GeometriesFit DEF Init
  <1> QED BY <1>1, <1>2, <1>3 DEF OneCopyLost, WholeAtFirst

(* The geometry written is real, and no write of it without a fault loses  *)
(* a copy; a fault loses the one that is written.                          *)
LEMMA FlashGeometryLoses ==
  ASSUME TypeOK, Running, OneCopyLost, FlashGeometry
  PROVE  OneCopyLost'
  <1>a. /\ geom # NoGeometry /\ UNCHANGED <<meta, cuts, blob>> /\ pc # "idle"
        /\ CopyOf \in {"primary", "backup"}
    BY GeometriesFit DEF FlashGeometry, Running, process, CopyOf
  <1>b. cuts \in Nat /\ faults \in Nat
    BY BoundsAssumption DEF TypeOK
  <1>1. CASE geo' = [geo EXCEPT ![CopyOf] = geom] /\ faults' = faults
    BY <1>1, <1>a DEF OneCopyLost, TypeOK
  <1>2. CASE faults' = faults + 1 /\ \E g : geo' = [geo EXCEPT ![CopyOf] = g]
    <2>1. cuts' + faults' <= 1 => cuts + faults = 0
      BY <1>2, <1>a, <1>b
    <2>2. cuts' + faults' # 0
      BY <1>2, <1>a, <1>b
    <2>3. cuts + faults = 0 => geo'["primary"] # NoGeometry \/ geo'["backup"] # NoGeometry
      BY <1>2, <1>a DEF OneCopyLost, TypeOK
    <2> QED BY <1>a, <2>1, <2>2, <2>3 DEF OneCopyLost
  <1> QED BY <1>1, <1>2 DEF FlashGeometry, WritesGeometry

(* A unit that is written over in an accident is the only one that may be  *)
(* lost by it.                                                             *)
LEMMA UnitLost ==
  ASSUME TypeOK, OneCopyLost, UNCHANGED geo, cuts' + faults' = cuts + faults + 1,
         NEW unit \in Units, NEW left, WritesCopy(unit, left), pc' = "idle"
  PROVE  OneCopyLost'
  <1>a. cuts + faults \in Nat
    BY BoundsAssumption DEF TypeOK
  <1>1. cuts' + faults' # 0 /\ (cuts' + faults' <= 1 => cuts + faults = 0)
    BY <1>a
  <1>2. \A u \in DeviceUnits \ {unit} : meta'[u] = meta[u]
    BY DeviceUnitsTyped DEF WritesCopy, TypeOK
  <1> QED BY <1>1, <1>2 DEF OneCopyLost

LEMMA StepLoses ==
  ASSUME SameLayout, TypeOK, Running, OneCopyLost, [Next]_vars
  PROVE  OneCopyLost'
  <1>1. ASSUME NEW a \in Invocations, Launch(a) PROVE OneCopyLost'
    <2>1. UNCHANGED <<geo, meta, cuts, faults>>
      BY <1>1 DEF Launch, disk
    <2>2. pc' # "idle" => Intact(blob')
      BY <1>1, LaunchBlob
    <2> QED BY <2>1, <2>2 DEF OneCopyLost
  <1>2. CASE FlashGeometry
    BY <1>2, FlashGeometryLoses
  <1>3. CASE WriteSlot
    <2>1. UnitWritten \in Units /\ Intact(blob) /\ UNCHANGED <<geo, blob, cuts, faults>>
      BY <1>3, UnitWrittenTyped DEF WriteSlot, OneCopyLost
    <2>2. \A u \in DeviceUnits : meta'[u] = meta[u] \/ Intact(meta'[u])
      BY <1>3, <2>1, DeviceUnitsTyped DEF WriteSlot, WritesCopy, TypeOK
    <2> QED BY <2>1, <2>2 DEF OneCopyLost
  <1>4. CASE WriteSlotFails
    <2>1. UnitWritten \in Units
      BY <1>4, UnitWrittenTyped DEF WriteSlotFails
    <2>2. cuts' + faults' = cuts + faults + 1
      BY <1>4, BoundsAssumption DEF WriteSlotFails, TypeOK
    <2> QED BY <1>4, <2>1, <2>2, UnitLost DEF WriteSlotFails, Exit
  <1>5. CASE PowerLoss
    <2>1. cuts' + faults' = cuts + faults + 1
      BY <1>5, BoundsAssumption DEF PowerLoss, TypeOK
    <2>2. CASE pc \in {"primary", "backup"}
      <3>1. UnitWritten \in Units
        BY <2>2, UnitWrittenTyped
      <3> QED BY <1>5, <2>1, <2>2, <3>1, UnitLost DEF PowerLoss, Exit
    <2>3. CASE pc \notin {"primary", "backup"}
      <3>1. geom # NoGeometry
        BY <1>5, GeometriesFit DEF PowerLoss, Running
      <3>2. CopyOf \in {"primary", "backup"} /\ UNCHANGED meta /\ pc' = "idle"
        BY <1>5, <2>3 DEF PowerLoss, CopyOf, Exit
      <3>3. \A c \in {"primary", "backup"} : geo'[c] \in {geo[c], geom}
        BY <1>5, <2>3, <3>2 DEF PowerLoss, WritesGeometry, TypeOK
      <3>4. cuts' + faults' # 0 /\ (cuts' + faults' <= 1 => cuts + faults = 0)
        BY <2>1, BoundsAssumption DEF TypeOK
      <3> QED BY <3>1, <3>2, <3>3, <3>4 DEF OneCopyLost
    <2> QED BY <2>2, <2>3
  <1>6. CASE UNCHANGED vars
    BY <1>6 DEF vars, disk, process, OneCopyLost
  <1> QED BY <1>1, <1>2, <1>3, <1>4, <1>5, <1>6 DEF Next, ProgramStep, Idle

(* Super stays readable through any single power loss or failed write, for *)
(* every number and size of slots, whatever runs before and after it, as   *)
(* long as the template has the device's layout and super was whole.       *)
THEOREM SurvivesAccident ==
  ASSUME SameLayout, WholeAtFirst
  PROVE  Spec => []SurvivesOneAccident
  <1>1. TypeOK /\ OneCopyLost => SurvivesOneAccident
    <2> SUFFICES ASSUME TypeOK, OneCopyLost, cuts + faults <= 1
                 PROVE  StoredGeometry # NoGeometry /\ Readable(StoredGeometry)
      BY DEF SurvivesOneAccident, Bootable
    <2>1. StoredGeometry = DeviceGeometry /\ DeviceGeometry # NoGeometry
      BY GeometriesFit DEF OneCopyLost, TypeOK, StoredGeometry, SameLayout
    <2>2. Readable(DeviceGeometry)
      <3> SUFFICES ASSUME NEW s \in Slots(DeviceGeometry)
                   PROVE  \/ Intact(meta[PrimaryUnit(DeviceGeometry, s)])
                          \/ Intact(meta[BackupUnit(DeviceGeometry, s)])
        BY DEF Readable
      <3>1. PrimaryUnit(DeviceGeometry, s) # BackupUnit(DeviceGeometry, s)
        BY GeometryAssumption, UnitsDisjoint
      <3>2. /\ PrimaryUnit(DeviceGeometry, s) \in DeviceUnits
            /\ BackupUnit(DeviceGeometry, s) \in DeviceUnits
        BY DEF DeviceUnits, CopyUnits
      <3> QED BY <3>1, <3>2 DEF OneCopyLost
    <2> QED BY <2>1, <2>2
  <1>2. Init => OneCopyLost
    BY InitOneCopyLost
  <1>3. TypeOK /\ Running /\ OneCopyLost /\ [Next]_vars => OneCopyLost'
    BY StepLoses
  <1> QED BY <1>1, <1>2, <1>3, SuperTyping, PTL DEF Spec

-------------------------------------------------------------------------------
(* The block device entry.                                                 *)

(* Only wipes write, and every table super came with names its device.     *)
OnlyWipes == \A a \in Invocations : a.template = "good" => a.dryRun

NamedAtFirst == InitialCopies \subseteq {"factory", "wiped", "template"}

(* Until a write fails every copy names the device, and so does what a run *)
(* writes.                                                                 *)
DeviceNamed ==
    /\ pc \notin {"geometry-primary", "geometry-backup"}
    /\ \A c \in {"primary", "backup"} : geo[c] \in {NoGeometry, DeviceGeometry}
    /\ faults = 0 =>
         /\ \A u \in DeviceUnits : meta[u] \in {"factory", "wiped", "template"}
         /\ \A u \in Units : meta[u] \in {"factory", "wiped", "template", "junk"}
         /\ pc # "idle" => blob = "wiped"

LEMMA InitNamed == ASSUME NamedAtFirst, Init PROVE DeviceNamed
  <1>1. \A c \in {"primary", "backup"} : geo[c] \in {NoGeometry, DeviceGeometry}
    BY GeometryAssumption DEF Init
  <1>2. \A u \in DeviceUnits : meta[u] \in InitialCopies
    BY DeviceUnitsTyped DEF Init, DeviceUnits
  <1>3. \A u \in Units : meta[u] \in InitialCopies \union {"junk"}
    BY DEF Init
  <1> QED BY <1>1, <1>2, <1>3 DEF DeviceNamed, NamedAtFirst, Init

(* The first slot's primary copy is found, and its device goes on. *)
LEMMA WipeNames ==
  ASSUME \A u \in DeviceUnits : meta[u] \in {"factory", "wiped", "template"}
  PROVE  WipeBlobs(DeviceGeometry) = {"wiped"}
  <1> DEFINE g == DeviceGeometry
  <1>1. g.slots \in Nat \ {0} /\ 0 \in Slots(g)
    BY GeometriesFit DEF Slots
  <1>2. \A s \in Slots(g) : meta[PrimaryUnit(g, s)] \in {"factory", "wiped", "template"}
    BY DEF DeviceUnits, CopyUnits
  <1>3. ~Skipped(g, g.slots)
    BY <1>1, <1>2 DEF Skipped, Slots
  <1>4. Skipped(g, 0)
    BY DEF Skipped
  <1> QED BY <1>1, <1>2, <1>3, <1>4 DEF WipeBlobs, BlobNaming

LEMMA StepNames ==
  ASSUME OnlyWipes, TypeOK, Running, DeviceNamed, [Next]_vars
  PROVE  DeviceNamed'
  <1>a. faults \in Nat
    BY BoundsAssumption DEF TypeOK
  <1>1. ASSUME NEW a \in Invocations, Launch(a) PROVE DeviceNamed'
    <2>1. UNCHANGED <<geo, meta, faults>>
      BY <1>1 DEF Launch, disk
    <2>2. CASE pc' = "idle"
      BY <2>1, <2>2 DEF DeviceNamed
    <2>3. CASE pc' # "idle"
      <3>1. LaunchWipe(a)
        BY <1>1, <2>3
        DEF Launch, LaunchNowhere, LaunchFlash, Exit, IsTemplate, OnlyWipes
      <3>2. /\ pc' = "primary" /\ StoredGeometry # NoGeometry
            /\ blob' \in WipeBlobs(StoredGeometry)
        BY <2>3, <3>1 DEF LaunchWipe, Exit
      <3>3. StoredGeometry = DeviceGeometry
        BY <3>2 DEF StoredGeometry, DeviceNamed
      <3>4. faults = 0 => blob' = "wiped"
        BY <3>2, <3>3, WipeNames DEF DeviceNamed
      <3> QED BY <2>1, <3>2, <3>4 DEF DeviceNamed
    <2> QED BY <2>2, <2>3
  <1>2. CASE WriteSlot
    <2>1. UNCHANGED <<geo, blob, faults>> /\ pc' \in {"primary", "backup", "idle"}
      BY <1>2 DEF WriteSlot, AfterWrite, Exit
    <2>2. UnitWritten \in Units /\ pc # "idle"
      BY <1>2, UnitWrittenTyped DEF WriteSlot
    <2>3. \A u \in Units : meta'[u] \in {meta[u], blob}
      BY <1>2, <2>2 DEF WriteSlot, WritesCopy, TypeOK
    <2> QED BY <2>1, <2>2, <2>3, DeviceUnitsTyped DEF DeviceNamed
  <1>3. CASE WriteSlotFails
    <2>1. faults' # 0 /\ UNCHANGED geo /\ pc' = "idle"
      BY <1>3, <1>a DEF WriteSlotFails, Exit
    <2> QED BY <2>1 DEF DeviceNamed
  <1>4. CASE PowerLoss
    <2>1. pc \in {"primary", "backup"} /\ UnitWritten \in Units
      BY <1>4, UnitWrittenTyped DEF PowerLoss, DeviceNamed, TypeOK
    <2>2. UNCHANGED <<geo, faults>> /\ pc' = "idle"
      BY <1>4, <2>1 DEF PowerLoss, Exit
    <2>3. faults = 0 => \A u \in Units : meta'[u] \in {meta[u], "wiped"}
      BY <1>4, <2>1 DEF PowerLoss, CutOff, WritesCopy, TypeOK, DeviceNamed
    <2> QED BY <2>2, <2>3, DeviceUnitsTyped DEF DeviceNamed
  <1>5. CASE UNCHANGED vars
    BY <1>5 DEF vars, disk, process, DeviceNamed
  <1>6. ~FlashGeometry
    BY DEF FlashGeometry, DeviceNamed
  <1> QED BY <1>1, <1>2, <1>3, <1>4, <1>5, <1>6 DEF Next, ProgramStep, Idle

(* Wiping keeps the block device entry through any number of power losses  *)
(* and repeated runs, for every geometry, as long as no write fails and no *)
(* template was being flashed.                                             *)
THEOREM WipingKeepsDevice ==
  ASSUME OnlyWipes, NamedAtFirst
  PROVE  Spec => []DeviceKept
  <1>1. Init => DeviceNamed
    BY InitNamed
  <1>2. TypeOK /\ Running /\ DeviceNamed /\ [Next]_vars => DeviceNamed'
    BY StepNames
  <1>3. DeviceNamed => DeviceKept
    BY DEF DeviceNamed, DeviceKept
  <1> QED BY <1>1, <1>2, <1>3, SuperTyping, PTL DEF Spec
==============================================================================
