------------------------------ MODULE BuildProofs ------------------------------
(***************************************************************************)
(* Proofs about Build and Selection, for all OTAs, all command lines, all  *)
(* default lists of logical partitions and any number of runs over one     *)
(* directory.                                                              *)
(***************************************************************************)
EXTENDS Build, TLAPS

-------------------------------------------------------------------------------
(* What the plan takes of the images that were found.                      *)

(* A default raw image is a candidate of every extraction. *)
LEMMA DefaultRaw ==
  ASSUME NEW n, NEW found, IsDefaultRaw(n, found)
  PROVE  /\ n \in AlwaysDefaultRaw \union DefaultRawProbes
         /\ n \notin KnownLogical
  BY DEF IsDefaultRaw, AlwaysDefaultRaw, ConditionalDefaultRaw, DefaultRawProbes, KnownLogical

LEMMA ExplicitNotLogical == ExplicitRaw \intersect KnownLogical = {}
  BY DEF ExplicitRaw, KnownLogical

(* Where the images flashed raw come from. *)
LEMMA FlashedRawFrom ==
  ASSUME NEW found, NEW request, NEW recovery,
         NEW n \in FlashedRaw(request, Classified(found, recovery))
  PROVE  /\ n \in found
         /\ n \notin RecoverySkip \union KnownLogical
         /\ n \in RawCandidates(request) \union Firmware(found)
  <1> DEFINE class == Classified(found, recovery)
  <1>1. CASE n \in class.default
    BY <1>1, DefaultRaw DEF Classified, RawCandidates
  <1>2. CASE n \in class.explicit
    <2>1. n \in request.raw
      BY <1>2, DefaultRaw, ExplicitNotLogical DEF FlashedRaw, Classified
    <2> QED BY <1>2, <2>1, ExplicitNotLogical DEF Classified, RawCandidates
  <1>3. CASE n \in class.auto
    BY <1>3 DEF Classified, Firmware
  <1> QED BY <1>1, <1>2, <1>3 DEF FlashedRaw

(* A boot image that holds the recovery is flashed only on request, and    *)
(* only where no vendor_boot was found.                                    *)
LEMMA RecoveryInBootFlashed ==
  ASSUME NEW found, NEW request,
         "boot" \in FlashedRaw(request, Classified(found, TRUE))
  PROVE  "boot" \in request.raw /\ "vendor_boot" \notin found
  <1> DEFINE class == Classified(found, TRUE)
  <1>1. "boot" \notin class.default /\ "boot" \notin class.auto
    BY DEF Classified, HoldsRecovery, ExplicitRaw
  <1>2. "boot" \in request.raw /\ "boot" \in class.explicit
    BY <1>1 DEF FlashedRaw
  <1>3. ~IsDefaultRaw("boot", found)
    BY <1>2 DEF Classified, Unsupported, RecoverySkip
  <1> QED BY <1>2, <1>3 DEF IsDefaultRaw, ConditionalDefaultRaw

(* Where the converted images come from. *)
LEMMA ConvertedFrom ==
  ASSUME NEW found, NEW recovery, NEW request,
         request.mode \in {"manual", "all", "template"},
         NEW n \in Converted(request, found, Classified(found, recovery))
  PROVE  n \in found /\ n \in KnownLogical /\ n \in Wanted(request)
  <1>1. CASE request.mode = "manual"
    BY <1>1 DEF Converted, Classified, Wanted
  <1>2. CASE request.mode = "all"
    BY <1>2 DEF Converted, Classified, Wanted
  <1>3. CASE request.mode = "template"
    BY <1>3, DefaultAssumption DEF Converted, Wanted
  <1> QED BY <1>1, <1>2, <1>3

(* What the plan uses of the current OTA was asked of the extractor, as    *)
(* long as the payload was listed or -p was not used.                      *)
LEMMA PlanExtracted ==
  ASSUME NEW ota, NEW found, NEW recovery, NEW listed \in BOOLEAN, NEW request,
         request.mode \in {"manual", "all", "template"},
         listed \/ request.mode # "manual",
         NEW n \in ota.names,
         \/ n \in Plan(found, request, recovery).convert
         \/ n \in Plan(found, request, recovery).raw
  PROVE  n \in Extracted(ota, request, listed)
  <1>1. n \in Wanted(request) \union RawCandidates(request) \union Firmware(ota.names)
    <2>1. CASE n \in Plan(found, request, recovery).convert
      BY <2>1, ConvertedFrom DEF Plan
    <2>2. CASE n \in Plan(found, request, recovery).raw
      BY <2>2, FlashedRawFrom DEF Plan, Firmware
    <2> QED BY <2>1, <2>2
  <1> QED BY <1>1 DEF Extracted

-------------------------------------------------------------------------------
(* Type correctness.  The state of an image that is converted names its    *)
(* OTA only because the plan took it from the images that were there.      *)

PlanFound == stage = "convert" => plan.convert \subseteq Found

(* The extractor leaves images of the current OTA. *)
LEMMA RunType ==
  ASSUME run \in Runs
  PROVE  /\ run.ota \in Otas /\ run.request \in Requests /\ run.listed \in BOOLEAN
         /\ run.ota.names \subseteq Names
         /\ run.request.mode \in {"manual", "all", "template"}
  BY RequestsAssumption DEF Runs, Names

LEMMA ItemType ==
  ASSUME NEW ota \in Otas, NEW state \in {"torn", "raw", "sparse", "nested", "good", "bad"}
  PROVE  Item(ota, state) \in Items
  BY DEF Item, Items

LEMMA EntryType ==
  ASSUME NEW image \in Items, image # None, NEW entry \in Entries, NEW outcome \in Outcomes
  PROVE  ImageAfter(image, outcome) \in Items /\ EntryAfter(entry, image, outcome) \in Entries
  <1>1. image.ota \in Otas
    BY DEF Items, None
  <1>2. /\ Encoded(image) \in Items
        /\ Item(image.ota, Made(image)) \in Items
        /\ Item(image.ota, "torn") \in Items
        /\ None \in Items
    BY <1>1 DEF Encoded, Made, Item, Items
  <1>3. ImageAfter(image, outcome) \in Items
    BY <1>2 DEF ImageAfter
  <1>4. EntryAfter(entry, image, outcome) \in Entries
    BY <1>2 DEF EntryAfter, Entries, Outcomes
  <1> QED BY <1>3, <1>4

LEMMA PlanType ==
  ASSUME NEW recovery, run \in Runs
  PROVE  /\ Plan(Found, run.request, recovery) \in Plans
         /\ Plan(Found, run.request, recovery).convert \subseteq Found
         /\ Plan(Found, run.request, recovery).raw \subseteq Found
  <1>1. Converted(run.request, Found, Classified(Found, recovery)) \subseteq Found
    BY RunType, ConvertedFrom
  <1>2. FlashedRaw(run.request, Classified(Found, recovery)) \subseteq Found
    BY FlashedRawFrom
  <1>3. Found \subseteq Names
    BY DEF Found
  <1> QED BY <1>1, <1>2, <1>3 DEF Plan, Plans

LEMMA TypeInit == Init => TypeOK /\ PlanFound
  <1> SUFFICES ASSUME Init PROVE TypeOK /\ PlanFound
    OBVIOUS
  <1>1. None \in Items /\ NoEntry \in Entries /\ NoPlan \in Plans
    BY DEF Items, NoEntry, Entries, NoPlan, Plans
  <1> QED BY <1>1, MaxRunsAssumption DEF Init, TypeOK, PlanFound

LEMMA TypeStep == TypeOK /\ PlanFound /\ [Next]_vars => TypeOK' /\ PlanFound'
  <1> SUFFICES ASSUME TypeOK, PlanFound, [Next]_vars PROVE TypeOK' /\ PlanFound'
    OBVIOUS
  <1>r. /\ run \in Runs /\ run.ota \in Otas
        /\ \A state \in {"torn", "raw", "sparse", "nested", "good", "bad"} :
             Item(run.ota, state) \in Items
    BY RunType, ItemType DEF TypeOK
  <1>1. ASSUME NEW r \in Runs, Begin(r) PROVE TypeOK' /\ PlanFound'
    <2>1. None \in Items /\ NoEntry \in Entries /\ NoPlan \in Plans
      BY DEF Items, NoEntry, Entries, NoPlan, Plans
    <2>2. runs' \in 0..MaxRuns
      BY <1>1, MaxRunsAssumption DEF Begin, TypeOK
    <2> QED BY <1>1, <2>1, <2>2 DEF Begin, TypeOK, PlanFound
  <1>2. CASE Extract
    BY <1>2, <1>r DEF Extract, Raise, TypeOK, PlanFound
  <1>3. CASE ExtractFails
    <2>1. PICK done \in SUBSET Extracts : \E cut \in SUBSET (Extracts \ done) :
             images' = [n \in Names |-> IF n \in done THEN Item(run.ota, "raw")
                                        ELSE IF n \in cut THEN Item(run.ota, "torn")
                                        ELSE images[n]]
      BY <1>3 DEF ExtractFails
    <2>2. images' \in [Names -> Items]
      BY <2>1, <1>r DEF TypeOK
    <2> QED BY <1>3, <2>2 DEF ExtractFails, Raise, TypeOK, PlanFound
  <1>4. CASE Select
    <2>1. plan' \in Plans /\ plan'.convert \subseteq Found
      BY <1>4, <1>r, PlanType DEF Select
    <2>2. Found' = Found
      BY <1>4 DEF Select, Found
    <2> QED BY <1>4, <2>1, <2>2 DEF Select, Raise, TypeOK, PlanFound
  <1>5. CASE Convert
    <2>1. PICK outcome \in [plan.convert -> Outcomes] :
            /\ images' = [n \in Names |-> IF n \in plan.convert
                                           THEN ImageAfter(images[n], outcome[n]) ELSE images[n]]
            /\ package' = [n \in Names |-> IF n \in plan.convert
                                            THEN EntryAfter(package[n], images[n], outcome[n])
                                            ELSE package[n]]
      BY <1>5 DEF Convert
    <2>2. ASSUME NEW n \in Names, n \in plan.convert
          PROVE  /\ ImageAfter(images[n], outcome[n]) \in Items
                 /\ EntryAfter(package[n], images[n], outcome[n]) \in Entries
      <3>1. images[n] \in Items /\ images[n] # None /\ package[n] \in Entries
        BY <1>5, <2>2 DEF Convert, TypeOK, PlanFound, Found
      <3>2. outcome[n] \in Outcomes
        BY <2>2
      <3> QED BY <3>1, <3>2, EntryType
    <2>3. images' \in [Names -> Items] /\ package' \in [Names -> Entries]
      BY <2>1, <2>2 DEF TypeOK
    <2> QED BY <1>5, <2>3 DEF Convert, Raise, TypeOK, PlanFound
  <1>6. CASE StageRawImages
    <2>1. PICK done \in SUBSET plan.raw : \E cut : Staged(done, cut)
      BY <1>6 DEF StageRawImages
    <2>0. PICK cut : Staged(done, cut)
      BY <2>1
    <2>2. ASSUME NEW n \in Names
          PROVE  /\ [package[n] EXCEPT !.image = images[n]] \in Entries
                 /\ n \in cut => [package[n] EXCEPT !.image = Item(images[n].ota, "torn")] \in Entries
      <3>1. images[n] \in Items /\ package[n] \in Entries
        BY DEF TypeOK
      <3>2. n \in cut => Item(images[n].ota, "torn") \in Items
        BY <2>0, <3>1 DEF Staged, Found, Items, None, Item
      <3> QED BY <3>1, <3>2 DEF Entries
    <2>3. package' \in [Names -> Entries]
      BY <2>0, <2>2 DEF Staged, TypeOK
    <2> QED BY <1>6, <2>3 DEF StageRawImages, Raise, TypeOK, PlanFound
  <1>7. CASE Pack
    BY <1>7 DEF Pack, Raise, TypeOK, PlanFound
  <1>8. CASE Idle \/ UNCHANGED vars
    BY <1>8 DEF Idle, vars, TypeOK, PlanFound, Found
  <1> QED BY <1>1, <1>2, <1>3, <1>4, <1>5, <1>6, <1>7, <1>8 DEF Next

(* Type correctness of the build, with any number of runs, OTAs and        *)
(* command lines.                                                          *)
THEOREM BuildTyping == Spec => []TypeOK
  <1>1. Spec => [](TypeOK /\ PlanFound)
    BY TypeInit, TypeStep, PTL DEF Spec
  <1> QED BY <1>1, PTL

-------------------------------------------------------------------------------
(* Selection: nothing is used twice and the recovery is kept.  Both hold   *)
(* of the plan when it is made; a conversion may only make images go, or   *)
(* turn them into something that is no raw boot image any more.            *)

SafePlan ==
    Selected =>
        /\ \A n \in plan.convert : n \in KnownLogical
        /\ \A n \in plan.raw : n \notin RecoverySkip \union KnownLogical

LEMMA LogicalIsNotRecovery == KnownLogical \intersect RecoverySkip = {}
  BY DEF KnownLogical, RecoverySkip

LEMMA PlanMade ==
  ASSUME TypeOK, Select
  PROVE  SafePlan' /\ RecoveryKept'
  <1>1. plan' = Plan(Found, run.request, RecoveryInBoot) /\ run' = run /\ images' = images
    BY DEF Select
  <1>2. Found' = Found /\ RecoveryInBoot' = RecoveryInBoot
    BY <1>1 DEF Found, RecoveryInBoot
  <1>3. run.request.mode \in {"manual", "all", "template"}
    BY RunType DEF TypeOK
  <1>4. /\ \A n \in plan'.convert : n \in KnownLogical
        /\ \A n \in plan'.raw : n \notin RecoverySkip \union KnownLogical
    BY <1>1, <1>3, ConvertedFrom, FlashedRawFrom DEF Plan
  <1>5. ASSUME "boot" \in plan'.raw, RecoveryInBoot
        PROVE  "boot" \in run.request.raw /\ "vendor_boot" \notin Found
    <2>1. RecoveryInBoot = TRUE
      BY <1>5 DEF RecoveryInBoot
    <2>2. "boot" \in FlashedRaw(run.request, Classified(Found, TRUE))
      BY <1>1, <1>5, <2>1 DEF Plan
    <2> QED BY <2>2, RecoveryInBootFlashed
  <1> QED BY <1>1, <1>2, <1>4, <1>5, LogicalIsNotRecovery DEF SafePlan, RecoveryKept

(* What a conversion leaves of the images. *)
LEMMA ImagesAfterConvert ==
  ASSUME TypeOK, SafePlan, Convert
  PROVE  /\ RecoveryInBoot' => RecoveryInBoot
         /\ "vendor_boot" \notin Found => "vendor_boot" \notin Found'
  <1>1. PICK outcome \in [plan.convert -> Outcomes] :
          images' = [n \in Names |-> IF n \in plan.convert
                                     THEN ImageAfter(images[n], outcome[n]) ELSE images[n]]
    BY DEF Convert
  <1>2. "boot" \notin KnownLogical /\ "vendor_boot" \notin KnownLogical
    BY DEF KnownLogical
  <1>3. "boot" \notin plan.convert /\ "vendor_boot" \notin plan.convert
    BY <1>2 DEF SafePlan, Selected, Convert
  <1> QED BY <1>1, <1>3 DEF RecoveryInBoot, Found

LEMMA PlanStep ==
  ASSUME TypeOK, SafePlan, RecoveryKept, [Next]_vars
  PROVE  SafePlan' /\ RecoveryKept'
  <1>1. ASSUME NEW r \in Runs, Begin(r) PROVE SafePlan' /\ RecoveryKept'
    BY <1>1 DEF Begin, SafePlan, RecoveryKept, Selected
  <1>2. CASE Extract \/ ExtractFails
    BY <1>2 DEF Extract, ExtractFails, Raise, SafePlan, RecoveryKept, Selected
  <1>3. CASE Select
    BY <1>3, PlanMade
  <1>4. CASE Convert
    <2>1. Selected /\ plan' = plan /\ run' = run
      BY <1>4 DEF Convert, Selected
    <2> QED BY <1>4, <2>1, ImagesAfterConvert DEF SafePlan, RecoveryKept
  <1>5. CASE StageRawImages \/ Pack \/ Idle \/ UNCHANGED vars
    <2>1. /\ plan' = plan /\ run' = run /\ images' = images
          /\ Selected' => Selected
      BY <1>5 DEF StageRawImages, Pack, Idle, vars, Raise, Selected
    <2> QED BY <2>1 DEF SafePlan, RecoveryKept, RecoveryInBoot, Found
  <1> QED BY <1>1, <1>2, <1>3, <1>4, <1>5 DEF Next

LEMMA PlanInvariant == Spec => [](TypeOK /\ PlanFound /\ SafePlan /\ RecoveryKept)
  <1>1. Init => TypeOK /\ PlanFound /\ SafePlan /\ RecoveryKept
    BY TypeInit DEF Init, SafePlan, RecoveryKept, Selected
  <1>2. TypeOK /\ PlanFound /\ SafePlan /\ RecoveryKept /\ [Next]_vars
          => (TypeOK /\ PlanFound /\ SafePlan /\ RecoveryKept)'
    BY TypeStep, PlanStep
  <1> QED BY <1>1, <1>2, PTL DEF Spec

(* No build overwrites a recovery, whatever is asked for and whatever an   *)
(* OTA holds.                                                              *)
THEOREM RecoverySafe == Spec => []RecoveryKept
  BY PlanInvariant, PTL

(* No image is converted and flashed raw. *)
THEOREM UsedOnce == Spec => []ImagesUsedOnce
  <1>1. SafePlan => ImagesUsedOnce
    BY DEF SafePlan, ImagesUsedOnce
  <1> QED BY <1>1, PlanInvariant, PTL

-------------------------------------------------------------------------------
(* What the ZIP holds.  From the extraction on, each stage knows of the    *)
(* current OTA's part of the plan that its files are of that OTA.          *)

Sure == run.listed \/ run.request.mode # "manual"

FreshRaw(n) == images[n] = Item(run.ota, "raw")
FreshData(n) == package[n].data = Item(run.ota, "good")

Fresh ==
    /\ Selected => /\ \A n \in plan.convert : n \in KnownLogical /\ n \in Names
                   /\ \A n \in plan.raw : n \notin KnownLogical /\ n \in Names
                   /\ Sure => \A n \in (plan.convert \union plan.raw) \intersect run.ota.names :
                                 n \in Extracts
    /\ stage \in {"select", "convert"} => \A n \in Extracts : FreshRaw(n)
    /\ stage \in {"stage", "pack"} => \A n \in plan.convert \intersect Extracts : FreshData(n)
    /\ stage = "stage" => \A n \in plan.raw \intersect Extracts : FreshRaw(n)
    /\ stage = "pack" => \A n \in plan.raw \intersect Extracts :
                           package[n].image = Item(run.ota, "raw")
    /\ stage = "built" => ZipFromThisOta

LEMMA ExtractsType ==
  ASSUME run \in Runs
  PROVE  Extracts \subseteq run.ota.names /\ Extracts \subseteq Names
  BY RunType DEF Extracts, Extracted

LEMMA FreshExtract ==
  ASSUME TypeOK, Fresh, Extract
  PROVE  Fresh'
  <1>1. Extracts \subseteq Names
    BY ExtractsType DEF TypeOK
  <1>2. Extracts' = Extracts
    BY DEF Extract, Extracts
  <1>3. \A n \in Extracts : images'[n] = Item(run.ota, "raw")
    BY <1>1 DEF Extract, Overwrites
  <1>4. run' = run /\ stage' \in {"idle", "select"}
    BY DEF Extract, Raise
  <1> QED BY <1>2, <1>3, <1>4 DEF Fresh, FreshRaw, Selected

LEMMA FreshSelect ==
  ASSUME TypeOK, Fresh, Select
  PROVE  Fresh'
  <1>1. /\ plan' = Plan(Found, run.request, RecoveryInBoot)
        /\ run' = run /\ images' = images /\ stage' \in {"idle", "convert"}
        /\ Extracts' = Extracts
    BY DEF Select, Raise, Extracts
  <1>2. /\ run.request.mode \in {"manual", "all", "template"}
        /\ run.listed \in BOOLEAN
    BY RunType DEF TypeOK
  <1>3. plan'.convert \subseteq Names /\ plan'.raw \subseteq Names
    BY <1>1, PlanType DEF TypeOK, Plans
  <1>4. /\ \A n \in plan'.convert : n \in KnownLogical
        /\ \A n \in plan'.raw : n \notin KnownLogical
    BY <1>1, <1>2, ConvertedFrom, FlashedRawFrom DEF Plan
  <1>5. Sure => \A n \in (plan'.convert \union plan'.raw) \intersect run.ota.names : n \in Extracts
    BY <1>1, <1>2, PlanExtracted DEF Sure, Extracts
  <1>6. \A n \in Extracts : FreshRaw(n)
    BY DEF Fresh, Select
  <1> QED BY <1>1, <1>3, <1>4, <1>5, <1>6 DEF Fresh, FreshRaw, Sure

LEMMA FreshConvert ==
  ASSUME TypeOK, Fresh, Convert
  PROVE  Fresh'
  <1>1. /\ plan' = plan /\ run' = run /\ stage' \in {"idle", "stage"} /\ stage = "convert"
        /\ Extracts' = Extracts
    BY DEF Convert, Raise, Extracts
  <1>2. CASE stage' = "stage"
    <2>1. PICK outcome \in [plan.convert -> Outcomes] :
            /\ images' = [n \in Names |-> IF n \in plan.convert
                                           THEN ImageAfter(images[n], outcome[n]) ELSE images[n]]
            /\ package' = [n \in Names |-> IF n \in plan.convert
                                            THEN EntryAfter(package[n], images[n], outcome[n])
                                            ELSE package[n]]
            /\ \A n \in plan.convert : outcome[n] = "built"
      BY <1>2 DEF Convert, Raise
    <2>2. ASSUME NEW n \in plan.convert \intersect Extracts
          PROVE  package'[n].data = Item(run.ota, "good")
      <3>1. n \in Names /\ images[n] = Item(run.ota, "raw") /\ outcome[n] = "built"
        BY <1>1, <2>1 DEF Fresh, Selected, FreshRaw
      <3>2. package'[n] = EntryAfter(package[n], images[n], "built")
        BY <2>1, <3>1
      <3>3. EntryAfter(package[n], images[n], "built")
              = [package[n] EXCEPT !.data = Item(images[n].ota, Made(images[n])), !.rest = None]
        BY DEF EntryAfter
      <3>4. Item(images[n].ota, Made(images[n])) = Item(run.ota, "good")
        BY <3>1 DEF Item, Made
      <3>5. package[n] \in Entries
        BY <3>1 DEF TypeOK
      <3> QED BY <3>2, <3>3, <3>4, <3>5 DEF Entries
    <2>3. ASSUME NEW n \in plan.raw \intersect Extracts
          PROVE  images'[n] = Item(run.ota, "raw")
      <3>1. n \in Names /\ n \notin plan.convert /\ images[n] = Item(run.ota, "raw")
        BY <1>1 DEF Fresh, Selected, FreshRaw
      <3> QED BY <2>1, <3>1
    <2> QED BY <1>1, <1>2, <2>2, <2>3 DEF Fresh, FreshRaw, FreshData, Selected, Sure
  <1>3. CASE stage' = "idle"
    BY <1>3 DEF Fresh, Selected
  <1> QED BY <1>1, <1>2, <1>3

LEMMA FreshStage ==
  ASSUME TypeOK, Fresh, StageRawImages
  PROVE  Fresh'
  <1>1. /\ plan' = plan /\ run' = run /\ stage' \in {"idle", "pack"} /\ stage = "stage"
        /\ Extracts' = Extracts
    BY DEF StageRawImages, Raise, Extracts
  <1>2. CASE stage' = "pack"
    <2>1. PICK cut : Staged(plan.raw, cut)
      BY <1>2 DEF StageRawImages, Raise
    <2>2. ASSUME NEW n \in plan.convert \intersect Extracts
          PROVE  package'[n].data = Item(run.ota, "good")
      <3>1. n \in Names /\ package[n] \in Entries /\ package[n].data = Item(run.ota, "good")
        BY <1>1 DEF Fresh, Selected, FreshData, TypeOK
      <3> QED BY <2>1, <3>1 DEF Staged, Entries
    <2>3. ASSUME NEW n \in plan.raw \intersect Extracts
          PROVE  package'[n].image = Item(run.ota, "raw")
      <3>1. n \in Names /\ package[n] \in Entries /\ images[n] = Item(run.ota, "raw")
        BY <1>1 DEF Fresh, Selected, FreshRaw, TypeOK
      <3> QED BY <2>1, <3>1 DEF Staged, Entries
    <2> QED BY <1>1, <1>2, <2>2, <2>3 DEF Fresh, FreshData, Selected, Sure
  <1>3. CASE stage' = "idle"
    BY <1>3 DEF Fresh, Selected
  <1> QED BY <1>1, <1>2, <1>3

LEMMA FreshPack ==
  ASSUME TypeOK, Fresh, Pack
  PROVE  Fresh'
  <1>1. /\ plan' = plan /\ run' = run /\ stage' \in {"idle", "built"} /\ stage = "pack"
        /\ Extracts' = Extracts
    BY DEF Pack, Raise, Extracts
  <1>2. CASE stage' = "built"
    <2>1. zip' = package
      BY <1>2 DEF Pack, Raise
    <2>2. ZipFromThisOta'
      BY <1>1, <2>1 DEF Fresh, Selected, Sure, FreshData, ZipFromThisOta
    <2> QED BY <1>1, <1>2, <2>2 DEF Fresh, Selected, Sure
  <1>3. CASE stage' = "idle"
    BY <1>3 DEF Fresh, Selected
  <1> QED BY <1>1, <1>2, <1>3

LEMMA FreshStep == TypeOK /\ Fresh /\ [Next]_vars => Fresh'
  <1> SUFFICES ASSUME TypeOK, Fresh, [Next]_vars PROVE Fresh'
    OBVIOUS
  <1>1. ASSUME NEW r \in Runs, Begin(r) PROVE Fresh'
    BY <1>1 DEF Begin, Fresh, Selected
  <1>2. CASE ExtractFails
    BY <1>2 DEF ExtractFails, Raise, Fresh, Selected
  <1>3. CASE Idle \/ UNCHANGED vars
    <2>1. UNCHANGED vars
      BY <1>3 DEF Idle
    <2> QED BY <2>1 DEF vars, Fresh, Selected, Sure, Extracts, FreshRaw, FreshData, ZipFromThisOta
  <1> QED BY <1>1, <1>2, <1>3, FreshExtract, FreshSelect, FreshConvert, FreshStage, FreshPack DEF Next

(* Whatever earlier runs left behind, the parts of the current OTA that    *)
(* the plan uses are in the ZIP and are of that OTA.                       *)
THEOREM ZipIsFresh == Spec => []ZipFromThisOta
  <1>1. Init => Fresh
    BY DEF Init, Fresh, Selected
  <1>2. Fresh => ZipFromThisOta
    BY DEF Fresh, ZipFromThisOta
  <1> QED BY <1>1, <1>2, FreshStep, BuildTyping, PTL DEF Spec

-------------------------------------------------------------------------------
(* A directory used for one build only, any number of times.  A run that   *)
(* fails leaves parts of its own images and of its own package, and the    *)
(* next run of that build extracts the same images and makes the same plan *)
(* of them.                                                                *)

(* run is the last of the runs there were. *)
Last ==
    /\ history # {} => run \in history
    /\ runs = 0 => history = {}
    /\ runs = 1 => history = {run}
    /\ stage # "idle" => history # {} /\ runs # 0

Empty == \A n \in Names : images[n] = None /\ package[n] = NoEntry

Own ==
    /\ \A n \in Names : images[n] # None => n \in Extracts
    /\ \A n \in Names : n \notin FreshPlan.convert =>
                          package[n].data = None /\ package[n].rest = None
    /\ \A n \in Names : n \notin FreshPlan.raw => package[n].image = None
    /\ Selected => plan = FreshPlan
    /\ stage \in {"stage", "pack"} => \A n \in plan.convert : package[n].rest = None
    /\ stage = "built" => /\ zip = package
                          /\ \A n \in plan.convert : package[n].rest = None

Alone ==
    /\ Last
    /\ history = {} => Empty
    /\ history = {run} => Own

(* An empty directory is anyone's own. *)
LEMMA AloneBegin ==
  ASSUME TypeOK, Alone, NEW r \in Runs, Begin(r)
  PROVE  Alone'
  <1>1. /\ stage' = "extract" /\ run' = r /\ runs' = runs + 1
        /\ history' = history \union {r}
        /\ images' = images /\ package' = package /\ runs \in Nat
    BY MaxRunsAssumption DEF Begin, TypeOK
  <1>2. Last'
    BY <1>1 DEF Alone, Last
  <1>3. CASE history = {}
    <2>1. \A n \in Names : /\ images'[n] = None
                           /\ package'[n].data = None
                           /\ package'[n].rest = None
                           /\ package'[n].image = None
      BY <1>1, <1>3 DEF Alone, Empty, NoEntry
    <2> QED BY <1>1, <1>2, <2>1 DEF Alone, Own, Selected
  <1>4. CASE history # {} /\ history' = {run'}
    <2>1. run' = run /\ history = {run}
      BY <1>1, <1>4 DEF Alone, Last
    <2>2. Extracts' = Extracts /\ FreshPlan' = FreshPlan
      BY <2>1 DEF FreshPlan, Extracts
    <2> QED BY <1>1, <1>2, <1>4, <2>1, <2>2 DEF Alone, Own, Selected
  <1>5. CASE history # {} /\ history' # {run'}
    BY <1>1, <1>2, <1>5 DEF Alone
  <1> QED BY <1>3, <1>4, <1>5

LEMMA AloneExtract ==
  ASSUME TypeOK, Alone, Extract \/ ExtractFails
  PROVE  Alone'
  <1>1. /\ stage = "extract" /\ stage' \in {"idle", "select"}
        /\ run' = run /\ runs' = runs /\ history' = history /\ package' = package
        /\ Extracts' = Extracts /\ FreshPlan' = FreshPlan
    BY DEF Extract, ExtractFails, Raise, Extracts, FreshPlan
  <1>2. \A n \in Names : images'[n] # None => images[n] # None \/ n \in Extracts
    <2>1. CASE Extract
      BY <2>1 DEF Extract
    <2>2. CASE ExtractFails
      BY <2>2 DEF ExtractFails
    <2> QED BY <2>1, <2>2
  <1>3. Last' /\ history # {}
    BY <1>1 DEF Alone, Last
  <1>4. history = {run} => Own'
    BY <1>1, <1>2 DEF Alone, Own, Selected
  <1> QED BY <1>1, <1>3, <1>4 DEF Alone

(* Once the extractor is through, the images in such a directory are those *)
(* it was asked for, and the plan is the one made of them alone.           *)
LEMMA FoundOwn ==
  ASSUME TypeOK, Fresh, Alone, history = {run}, stage = "select"
  PROVE  Found = Extracts
  <1>1. Extracts \subseteq Names
    BY ExtractsType DEF TypeOK
  <1>2. \A n \in Extracts : images[n] # None
    BY DEF Fresh, FreshRaw, Item, None
  <1> QED BY <1>1, <1>2 DEF Alone, Own, Found

(* The probe for a recovery matters only for a boot image that is there. *)
LEMMA ProbeOfBoot ==
  ASSUME NEW found, NEW request, NEW one, NEW other,
         "boot" \in found => (one <=> other)
  PROVE  Plan(found, request, one) = Plan(found, request, other)
  <1>1. Classified(found, one) = Classified(found, other)
    BY DEF Classified, HoldsRecovery
  <1> QED BY <1>1 DEF Plan

LEMMA AloneSelect ==
  ASSUME TypeOK, Fresh, Alone, Select
  PROVE  Alone'
  <1>1. /\ stage = "select" /\ stage' \in {"idle", "convert"}
        /\ plan' = Plan(Found, run.request, RecoveryInBoot)
        /\ run' = run /\ runs' = runs /\ history' = history
        /\ images' = images /\ package' = package
        /\ Extracts' = Extracts /\ FreshPlan' = FreshPlan
    BY DEF Select, Raise, Extracts, FreshPlan
  <1>2. ASSUME history = {run} PROVE plan' = FreshPlan
    <2>1. Found = Extracts
      BY <1>1, <1>2, FoundOwn
    <2>2. "boot" \in Found => images["boot"] = Item(run.ota, "raw")
      BY <1>1, <2>1 DEF Fresh, FreshRaw
    <2>3. "boot" \in Found => (RecoveryInBoot <=> run.ota.recoveryInBoot)
      BY <2>2 DEF RecoveryInBoot, Item
    <2> QED BY <1>1, <2>1, <2>3, ProbeOfBoot DEF FreshPlan
  <1>3. Last' /\ history # {}
    BY <1>1 DEF Alone, Last
  <1>4. history = {run} => Own'
    BY <1>1, <1>2 DEF Alone, Own, Selected
  <1> QED BY <1>1, <1>3, <1>4 DEF Alone

LEMMA AloneConvert ==
  ASSUME TypeOK, PlanFound, Alone, Convert
  PROVE  Alone'
  <1>1. /\ stage = "convert" /\ stage' \in {"idle", "stage"}
        /\ run' = run /\ runs' = runs /\ history' = history /\ plan' = plan
        /\ Extracts' = Extracts /\ FreshPlan' = FreshPlan
    BY DEF Convert, Raise, Extracts, FreshPlan
  <1>2. PICK outcome \in [plan.convert -> Outcomes] :
          /\ images' = [n \in Names |-> IF n \in plan.convert
                                         THEN ImageAfter(images[n], outcome[n]) ELSE images[n]]
          /\ package' = [n \in Names |-> IF n \in plan.convert
                                          THEN EntryAfter(package[n], images[n], outcome[n])
                                          ELSE package[n]]
          /\ stage' = "stage" => \A n \in plan.convert : outcome[n] = "built"
    BY DEF Convert, Raise
  <1>3. ASSUME NEW n \in plan.convert
        PROVE  n \in Names /\ images[n] # None
    BY <1>1 DEF PlanFound, Found
  <1>4. ASSUME NEW n \in plan.convert
        PROVE  /\ package'[n].image = package[n].image
               /\ outcome[n] = "built" => package'[n].rest = None
    <2>1. package[n] \in Entries /\ outcome[n] \in Outcomes
      BY <1>3 DEF TypeOK
    <2>2. package'[n] = EntryAfter(package[n], images[n], outcome[n])
      BY <1>2, <1>3
    <2> QED BY <2>1, <2>2 DEF EntryAfter, Entries, Outcomes
  <1>5. Last' /\ history # {}
    BY <1>1 DEF Alone, Last
  <1>6. ASSUME history = {run} PROVE Own'
    <2>1. plan = FreshPlan /\ Own
      BY <1>1, <1>6 DEF Alone, Own, Selected
    <2>2. \A n \in Names : images'[n] # None => n \in Extracts
      BY <1>2, <1>3, <2>1 DEF Own
    <2>3. \A n \in Names : n \notin FreshPlan.convert =>
                             package'[n].data = None /\ package'[n].rest = None
      BY <1>2, <2>1 DEF Own
    <2>4. \A n \in Names : n \notin FreshPlan.raw => package'[n].image = None
      BY <1>2, <1>4, <2>1 DEF Own
    <2>5. stage' = "stage" => \A n \in plan.convert : package'[n].rest = None
      BY <1>2, <1>4
    <2> QED BY <1>1, <2>1, <2>2, <2>3, <2>4, <2>5 DEF Own
  <1> QED BY <1>1, <1>5, <1>6 DEF Alone

LEMMA AloneStage ==
  ASSUME TypeOK, Alone, StageRawImages
  PROVE  Alone'
  <1>1. /\ stage = "stage" /\ stage' \in {"idle", "pack"}
        /\ run' = run /\ runs' = runs /\ history' = history /\ plan' = plan /\ images' = images
        /\ Extracts' = Extracts /\ FreshPlan' = FreshPlan
    BY DEF StageRawImages, Raise, Extracts, FreshPlan
  <1>2. PICK done \in SUBSET plan.raw : \E cut \in {{}} \union {{n} : n \in plan.raw \ done} :
          Staged(done, cut)
    BY DEF StageRawImages
  <1>3. PICK cut \in SUBSET plan.raw : Staged(done, cut)
    BY <1>2
  <1>4. ASSUME NEW n \in Names
        PROVE  /\ package'[n].data = package[n].data
               /\ package'[n].rest = package[n].rest
               /\ n \notin plan.raw => package'[n].image = package[n].image
    <2>1. package[n] \in Entries
      BY DEF TypeOK
    <2> QED BY <1>3, <2>1 DEF Staged, Entries
  <1>5. Last' /\ history # {}
    BY <1>1 DEF Alone, Last
  <1>6. ASSUME history = {run} PROVE Own'
    <2>1. plan = FreshPlan /\ Own
      BY <1>1, <1>6 DEF Alone, Own, Selected
    <2>2. plan.convert \subseteq Names \/ \A n \in plan.convert : n \in Names
      BY DEF TypeOK, Plans
    <2> QED BY <1>1, <1>4, <2>1, <2>2 DEF Own
  <1> QED BY <1>1, <1>5, <1>6 DEF Alone

LEMMA AlonePack ==
  ASSUME TypeOK, Alone, Pack
  PROVE  Alone'
  <1>1. /\ stage = "pack" /\ stage' \in {"idle", "built"}
        /\ run' = run /\ runs' = runs /\ history' = history /\ plan' = plan /\ images' = images
        /\ package' = package
        /\ stage' = "built" => zip' = package
        /\ Extracts' = Extracts /\ FreshPlan' = FreshPlan
    BY DEF Pack, Raise, Extracts, FreshPlan
  <1>2. Last' /\ history # {}
    BY <1>1 DEF Alone, Last
  <1>3. history = {run} => Own'
    BY <1>1 DEF Alone, Own, Selected
  <1> QED BY <1>1, <1>2, <1>3 DEF Alone

LEMMA AloneStep == TypeOK /\ PlanFound /\ Fresh /\ Alone /\ [Next]_vars => Alone'
  <1> SUFFICES ASSUME TypeOK, PlanFound, Fresh, Alone, [Next]_vars PROVE Alone'
    OBVIOUS
  <1>1. CASE Idle \/ UNCHANGED vars
    <2>1. UNCHANGED vars
      BY <1>1 DEF Idle
    <2> QED BY <2>1 DEF vars, Alone, Last, Empty, Own, Selected, Extracts, FreshPlan
  <1> QED BY <1>1, AloneBegin, AloneExtract, AloneSelect, AloneConvert, AloneStage, AlonePack
          DEF Next

LEMMA AloneInvariant == Spec => [](TypeOK /\ PlanFound /\ Fresh /\ Alone)
  <1>1. Init => TypeOK /\ PlanFound /\ Fresh /\ Alone
    <2>1. Init => Alone
      BY DEF Init, Alone, Last, Empty
    <2>2. Init => Fresh
      BY DEF Init, Fresh, Selected
    <2> QED BY <2>1, <2>2, TypeInit
  <1>2. TypeOK /\ PlanFound /\ Fresh /\ Alone /\ [Next]_vars
          => (TypeOK /\ PlanFound /\ Fresh /\ Alone)'
    BY TypeStep, FreshStep, AloneStep
  <1> QED BY <1>1, <1>2, PTL DEF Spec

(* A build repeated until it succeeds, wherever it failed before, makes    *)
(* the plan and the ZIP of a build in an empty directory: no torn file, no *)
(* leftover of a conversion, no image that is not flashed.                 *)
THEOREM RetriesAreFresh == Spec => []RetryIsFresh
  <1>1. Alone => RetryIsFresh
    BY DEF Alone, Own, RetryIsFresh, Selected
  <1> QED BY <1>1, AloneInvariant, PTL

-------------------------------------------------------------------------------
(* What the list of the payload's partitions changes.                      *)

(* The plan's treatment of a name depends on whether it was found, and on  *)
(* whether vendor_boot was.                                                *)
LEMMA PlanLocal ==
  ASSUME NEW found, NEW other, NEW request, NEW recovery, NEW n,
         request.mode \in {"manual", "all", "template"},
         n \in found <=> n \in other,
         "vendor_boot" \in found <=> "vendor_boot" \in other
  PROVE  /\ n \in Plan(found, request, recovery).convert
              <=> n \in Plan(other, request, recovery).convert
         /\ n \in Plan(found, request, recovery).raw
              <=> n \in Plan(other, request, recovery).raw
  <1> DEFINE mine == Classified(found, recovery)
             theirs == Classified(other, recovery)
  <1>1. /\ n \in mine.default <=> n \in theirs.default
        /\ n \in mine.explicit <=> n \in theirs.explicit
        /\ n \in mine.logical <=> n \in theirs.logical
        /\ n \in mine.auto <=> n \in theirs.auto
        /\ n \in mine.skipped <=> n \in theirs.skipped
    BY DEF Classified, IsDefaultRaw
  <1>2. n \in Converted(request, found, mine) <=> n \in Converted(request, other, theirs)
    BY <1>1 DEF Converted
  <1>3. n \in FlashedRaw(request, mine) <=> n \in FlashedRaw(request, theirs)
    BY <1>1 DEF FlashedRaw
  <1> QED BY <1>2, <1>3 DEF Plan

(* The names a plan can use are extracted if the payload has them, listed  *)
(* or not, but for the firmware of a build with -p.                        *)
LEMMA UsableExtracted ==
  ASSUME NEW ota, NEW request, NEW listed \in BOOLEAN,
         request.mode \in {"manual", "all", "template"},
         NEW n \in Wanted(request) \union RawCandidates(request) \union Firmware(ota.names),
         request.mode = "manual" => n \notin Firmware(ota.names)
  PROVE  n \in Extracted(ota, request, listed) <=> n \in ota.names
  BY DEF Extracted, Wanted

(* Two sets of images that differ in nothing a plan uses but ignored ones. *)
Alike(one, other, ota, request, ignored) ==
    /\ one \subseteq ota.names /\ other \subseteq ota.names
    /\ \A n \in (Wanted(request) \union RawCandidates(request) \union Firmware(ota.names)) \ ignored :
         n \in one <=> n \in other
    /\ "vendor_boot" \in one <=> "vendor_boot" \in other

LEMMA PlansAgree ==
  ASSUME NEW ota, NEW request, NEW recovery, NEW ignored, NEW one, NEW other,
         request.mode \in {"manual", "all", "template"},
         Alike(one, other, ota, request, ignored),
         NEW n, n \notin ignored
  PROVE  /\ n \in Plan(one, request, recovery).convert <=> n \in Plan(other, request, recovery).convert
         /\ n \in Plan(one, request, recovery).raw <=> n \in Plan(other, request, recovery).raw
  <1> DEFINE usable == Wanted(request) \union RawCandidates(request) \union Firmware(ota.names)
  <1>1. CASE n \in usable
    <2>1. (n \in one <=> n \in other) /\ ("vendor_boot" \in one <=> "vendor_boot" \in other)
      BY <1>1 DEF Alike
    <2>2. n \in Plan(one, request, recovery).convert <=> n \in Plan(other, request, recovery).convert
      BY <2>1, PlanLocal
    <2>3. n \in Plan(one, request, recovery).raw <=> n \in Plan(other, request, recovery).raw
      BY <2>1, PlanLocal
    <2> QED BY <2>2, <2>3
  <1>2. CASE n \notin usable
    <2>1. ASSUME NEW found, found \subseteq ota.names
          PROVE  /\ n \notin Plan(found, request, recovery).convert
                 /\ n \notin Plan(found, request, recovery).raw
      <3>1. Firmware(found) \subseteq Firmware(ota.names)
        BY <2>1 DEF Firmware
      <3> QED BY <1>2, <3>1, ConvertedFrom, FlashedRawFrom DEF Plan
    <2> QED BY <2>1 DEF Alike
  <1> QED BY <1>1, <1>2

LEMMA PlanLogical ==
  ASSUME NEW found, NEW request, NEW recovery,
         request.mode \in {"manual", "all", "template"}
  PROVE  Plan(found, request, recovery).convert \subseteq KnownLogical
  <1>1. Converted(request, found, Classified(found, recovery)) \subseteq KnownLogical
    BY ConvertedFrom
  <1> QED BY <1>1 DEF Plan

LEMMA SamePlans ==
  ASSUME NEW ota, NEW request, NEW recovery, NEW ignored, NEW one, NEW other,
         request.mode \in {"manual", "all", "template"},
         Alike(one, other, ota, request, ignored),
         ignored \intersect KnownLogical = {}
  PROVE  /\ Plan(one, request, recovery).convert = Plan(other, request, recovery).convert
         /\ Plan(one, request, recovery).raw \ ignored = Plan(other, request, recovery).raw \ ignored
  <1>1. \A n : n \notin ignored =>
          /\ n \in Plan(one, request, recovery).convert <=> n \in Plan(other, request, recovery).convert
          /\ n \in Plan(one, request, recovery).raw <=> n \in Plan(other, request, recovery).raw
    BY PlansAgree
  <1>2. /\ Plan(one, request, recovery).convert \subseteq KnownLogical
        /\ Plan(other, request, recovery).convert \subseteq KnownLogical
    BY PlanLogical
  <1> QED BY <1>1, <1>2

LEMMA ExtractedAlike ==
  ASSUME NEW ota, NEW request, NEW ignored, NEW listed \in BOOLEAN,
         request.mode \in {"manual", "all", "template"},
         ignored = IF request.mode = "manual" THEN Firmware(ota.names) ELSE {}
  PROVE  /\ Alike(Extracted(ota, request, listed), Extracted(ota, request, ~listed),
                  ota, request, ignored)
         /\ ignored \intersect KnownLogical = {}
  <1>1. "vendor_boot" \in RawCandidates(request) /\ "vendor_boot" \notin Firmware(ota.names)
    BY DEF RawCandidates, DefaultRawProbes, Firmware, RecoverySkip
  <1>2. ASSUME NEW b \in BOOLEAN
        PROVE  /\ "vendor_boot" \in Extracted(ota, request, b) <=> "vendor_boot" \in ota.names
               /\ Extracted(ota, request, b) \subseteq ota.names
               /\ \A n \in (Wanted(request) \union RawCandidates(request) \union Firmware(ota.names))
                             \ ignored :
                    n \in Extracted(ota, request, b) <=> n \in ota.names
    <2>1. Extracted(ota, request, b) \subseteq ota.names
      BY DEF Extracted
    <2> QED BY <1>1, <2>1, UsableExtracted
  <1>3. Alike(Extracted(ota, request, listed), Extracted(ota, request, ~listed),
              ota, request, ignored)
    BY <1>2 DEF Alike
  <1>4. ignored \intersect KnownLogical = {}
    BY DEF Firmware
  <1> QED BY <1>3, <1>4

(* An OTA whose payload cannot be listed is built like one that can, but   *)
(* for the firmware of a build with -p.                                    *)
THEOREM ListingChangesNothing == Spec => []ListingIrrelevant
  <1>1. ASSUME TypeOK, PlanFound, Fresh, Alone, stage = "select", runs = 1
        PROVE  ListingIrrelevant
    <2> DEFINE other == Extracted(run.ota, run.request, ~run.listed)
               firmware == IF run.request.mode = "manual" THEN Firmware(run.ota.names) ELSE {}
    <2>1. Found = Extracted(run.ota, run.request, run.listed)
      BY <1>1, FoundOwn DEF Alone, Last, Extracts
    <2>2. run.request.mode \in {"manual", "all", "template"} /\ run.listed \in BOOLEAN
      BY <1>1, RunType DEF TypeOK
    <2>3. /\ Alike(Found, other, run.ota, run.request, firmware)
          /\ firmware \intersect KnownLogical = {}
      BY <2>1, <2>2, ExtractedAlike
    <2> HIDE DEF other, firmware
    <2>4. /\ Plan(Found, run.request, run.ota.recoveryInBoot).convert
               = Plan(other, run.request, run.ota.recoveryInBoot).convert
          /\ Plan(Found, run.request, run.ota.recoveryInBoot).raw \ firmware
               = Plan(other, run.request, run.ota.recoveryInBoot).raw \ firmware
      BY <2>2, <2>3, SamePlans
    <2> QED BY <2>4 DEF ListingIrrelevant, other, firmware
  <1>2. TypeOK /\ PlanFound /\ Fresh /\ Alone => ListingIrrelevant
    BY <1>1 DEF ListingIrrelevant
  <1> QED BY <1>2, AloneInvariant, PTL

(* What list-partitions calls supported, name by name. *)
LEMMA AllBuildsListed ==
  ASSUME NEW ota, NEW request, NEW listed \in BOOLEAN, request.mode = "all", NEW n
  PROVE  LET plan_ == Plan(Extracted(ota, request, listed), request, ota.recoveryInBoot)
             inBoot == n = "boot" /\ ota.recoveryInBoot
         IN  /\ n \in ListedSupported(ota) /\ ~inBoot => n \in plan_.convert \union plan_.raw
             /\ n \in plan_.convert \union plan_.raw
                  => n \in request.raw \/ (n \in ListedSupported(ota) /\ ~inBoot)
  <1> DEFINE found == Extracted(ota, request, listed)
             all == Classified(ota.names, FALSE)
             class == Classified(found, ota.recoveryInBoot)
             usable == KnownLogical \union RawCandidates(request) \union Firmware(ota.names)
  <1>1. \A m \in usable : m \in found <=> m \in ota.names
    BY UsableExtracted DEF Wanted
  <1>2. "vendor_boot" \in found <=> "vendor_boot" \in ota.names
    BY <1>1 DEF RawCandidates, DefaultRawProbes
  <1>3. found \subseteq ota.names
    BY DEF Extracted
  <1>4. n \in all.logical <=> n \in class.logical
    <2>1. n \in KnownLogical => (n \in found <=> n \in ota.names)
      BY <1>1
    <2> QED BY <1>2, <2>1 DEF Classified, IsDefaultRaw
  <1>5. n \in all.auto <=> n \in class.auto
    <2>1. n \in all.auto \/ n \in class.auto => n \in Firmware(ota.names)
      BY <1>3 DEF Classified, Firmware
    <2>2. n \in Firmware(ota.names) => (n \in found <=> n \in ota.names)
      BY <1>1
    <2> QED BY <1>2, <2>1, <2>2 DEF Classified, IsDefaultRaw
  <1>6. n \in all.default /\ ~(n = "boot" /\ ota.recoveryInBoot) <=> n \in class.default
    <2>1. n \in AlwaysDefaultRaw \union ConditionalDefaultRaw => (n \in found <=> n \in ota.names)
      BY <1>1 DEF RawCandidates, DefaultRawProbes, ConditionalDefaultRaw
    <2> QED BY <1>2, <2>1 DEF Classified, IsDefaultRaw, HoldsRecovery
  <1>7. n \in class.auto \union class.default => n \notin class.skipped
    BY DEF Classified, HoldsRecovery, ExplicitRaw
  <1>8. n = "boot" => n \notin all.auto /\ n \notin all.logical
    BY DEF Classified, ExplicitRaw, KnownLogical
  <1>9. FlashedRaw(request, class) \subseteq class.default \union class.auto \union request.raw
    BY DEF FlashedRaw
  <1>10. class.default \ class.skipped \subseteq FlashedRaw(request, class)
         /\ class.auto \ class.skipped \subseteq FlashedRaw(request, class)
    BY DEF FlashedRaw
  <1>11. Converted(request, found, class) = class.logical
    BY DEF Converted
  <1> QED BY <1>4, <1>5, <1>6, <1>7, <1>8, <1>9, <1>10, <1>11 DEF Plan, ListedSupported

(* What list-partitions promises for an OTA is what --all builds of it,    *)
(* for every OTA and whatever is flashed besides.                          *)
THEOREM AllBuildsWhatIsListed == Spec => []ListedIsBuilt
  <1>1. ASSUME TypeOK, Alone, Selected, runs = 1, run.request.mode = "all"
        PROVE  ListedIsBuilt
    <2>1. plan = Plan(Extracted(run.ota, run.request, run.listed), run.request,
                      run.ota.recoveryInBoot)
      BY <1>1 DEF Alone, Last, Own, FreshPlan, Extracts
    <2>2. run.listed \in BOOLEAN
      BY <1>1, RunType DEF TypeOK
    <2>3. \A n : LET inBoot == n = "boot" /\ run.ota.recoveryInBoot
                 IN  /\ n \in ListedSupported(run.ota) /\ ~inBoot
                          => n \in plan.convert \union plan.raw
                     /\ n \in plan.convert \union plan.raw
                          => n \in run.request.raw \/ (n \in ListedSupported(run.ota) /\ ~inBoot)
      BY <1>1, <2>1, <2>2, AllBuildsListed
    <2> QED BY <2>3 DEF ListedIsBuilt
  <1>2. TypeOK /\ Alone => ListedIsBuilt
    BY <1>1 DEF ListedIsBuilt
  <1> QED BY <1>2, AloneInvariant, PTL
===============================================================================
