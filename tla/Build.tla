--------------------------------- MODULE Build ---------------------------------
(***************************************************************************)
(* pipeline.build from end to end, run several times over one directory    *)
(* given with --work-dir: extraction, selection, conversion, staging of    *)
(* the raw images, scripts, ZIP.  Nothing is ever removed from that        *)
(* directory but the images and data files a conversion consumes, so each  *)
(* run finds what earlier ones, finished or failed at any stage, left in   *)
(* it; the first run finds it empty, as a temporary workspace is.          *)
(*                                                                         *)
(* The conversion stage is one step here, with the outcomes PartitionBuild *)
(* gives it: each selected image is built or fails somewhere on its way.   *)
(***************************************************************************)
EXTENDS Selection, Naturals

CONSTANTS
    Otas,          \* the OTA archives
    Requests,      \* the command lines: [mode, custom, raw, keepTemp]
    MaxRuns        \* bound: how many runs use the directory

(* cli._options_from_args knows three modes. *)
ASSUME RequestsAssumption == \A r \in Requests : r.mode \in {"manual", "all", "template"}

ASSUME MaxRunsAssumption == MaxRuns \in Nat

VARIABLES
    stage,         \* the stage the run is in, "idle" between runs
    run,           \* [ota, request, listed]: the current or last run
    runs,          \* how many runs there were
    history,       \* the different runs among them
    images,        \* partitions/: [name -> image]
    package,       \* package/: [name -> [data, rest, image]]
    plan,          \* what the run converts and what it flashes raw
    zip            \* what the run put into its ZIP

vars == <<stage, run, runs, history, images, package, plan, zip>>

Names == UNION {o.names : o \in Otas}

Runs == [ota : Otas, request : Requests, listed : BOOLEAN]

(* What a file holds: which OTA it was made from, and in which state it is *)
(* left.  nested: sparse-encoded twice; bad: made of anything but the raw  *)
(* image.                                                                  *)
None == [ota |-> [names |-> {}, recoveryInBoot |-> FALSE], state |-> "missing"]

Item(ota, state) == [ota |-> ota, state |-> state]

Items == {None} \union [ota : Otas, state : {"torn", "raw", "sparse", "nested", "good", "bad"}]

(* Per partition: the transfer list with new.dat.br and patch.dat, new.dat *)
(* as img2sdat leaves it, the staged raw image.                            *)
Entries == [data : Items, rest : Items, image : Items]
NoEntry == [data |-> None, rest |-> None, image |-> None]

Plans == [convert : SUBSET Names, raw : SUBSET Names]
NoPlan == [convert |-> {}, raw |-> {}]

Found == {n \in Names : images[n] # None}

TypeOK ==
    /\ stage \in {"idle", "extract", "select", "convert", "stage", "pack", "built"}
    /\ run \in Runs
    /\ runs \in 0..MaxRuns
    /\ history \subseteq Runs
    /\ images \in [Names -> Items]
    /\ package \in [Names -> Entries]
    /\ plan \in Plans
    /\ zip \in [Names -> Entries]

Init ==
    /\ stage = "idle"
    /\ run \in Runs
    /\ runs = 0
    /\ history = {}
    /\ images = [n \in Names |-> None]
    /\ package = [n \in Names |-> NoEntry]
    /\ plan = NoPlan
    /\ zip = [n \in Names |-> NoEntry]

-------------------------------------------------------------------------------
(* A run begins, in the directory as it is; the payload may turn out not   *)
(* to be listable.                                                         *)
Begin(r) ==
    /\ stage \in {"idle", "built"}
    /\ runs < MaxRuns
    /\ stage' = "extract"
    /\ run' = r
    /\ runs' = runs + 1
    /\ history' = history \union {r}
    /\ plan' = NoPlan
    /\ zip' = [n \in Names |-> NoEntry]
    /\ UNCHANGED <<images, package>>

(* An exception ends the run; the directory stays as it is. *)
Raise == stage' = "idle"

Extracts == Extracted(run.ota, run.request, run.listed)

Overwrites_KeepsOld(n) == images[n] = None

(* The extractor overwrites an image of that name. *)
Overwrites(n) == TRUE

Extract ==
    /\ stage = "extract"
    /\ images' = [n \in Names |-> IF n \in Extracts /\ Overwrites(n)
                                  THEN Item(run.ota, "raw") ELSE images[n]]
    /\ IF Found' = {} THEN Raise ELSE stage' = "select"
    /\ UNCHANGED <<run, runs, history, package, plan, zip>>

(* The extractor fails with some images done and another cut off. *)
ExtractFails ==
    /\ stage = "extract"
    /\ \E done \in SUBSET Extracts : \E cut \in SUBSET (Extracts \ done) :
         images' = [n \in Names |-> IF n \in done THEN Item(run.ota, "raw")
                                    ELSE IF n \in cut THEN Item(run.ota, "torn")
                                    ELSE images[n]]
    /\ Raise
    /\ UNCHANGED <<run, runs, history, package, plan, zip>>

(* magiskboot looks at the boot image that is there. *)
RecoveryInBoot ==
    "boot" \in Found /\ images["boot"].state = "raw" /\ images["boot"].ota.recoveryInBoot

Select ==
    /\ stage = "select"
    /\ plan' = Plan(Found, run.request, RecoveryInBoot)
    /\ IF Refused(plan') THEN Raise ELSE stage' = "convert"
    /\ UNCHANGED <<run, runs, history, images, package, zip>>

-------------------------------------------------------------------------------
(* The conversion stage.                                                   *)

(* How the conversion of an image may end: not even sparse, sparse without *)
(* img2sdat having started, no complete new.dat, not compressed, no        *)
(* patch.dat, built.                                                       *)
Outcomes == {"raw", "sparse", "no-dat", "no-br", "no-patch", "built"}

Encoded(image) ==
    Item(image.ota, IF image.state = "raw" THEN "sparse" ELSE "nested")

ImageAfter(image, outcome) ==
    IF outcome = "raw" THEN image
    ELSE IF run.request.keepTemp \/ outcome \in {"sparse", "no-dat"} THEN Encoded(image)
    ELSE None

Made(image) == IF image.state = "raw" THEN "good" ELSE "bad"

EntryAfter_KeepsNewDat(entry, image, outcome) ==
    CASE outcome \in {"raw", "sparse"} -> entry
      [] outcome = "built" -> [entry EXCEPT !.data = Item(image.ota, Made(image))]
      [] OTHER -> [entry EXCEPT !.data = Item(image.ota, "torn"), !.rest = Item(image.ota, "torn")]

(* A compression consumes new.dat; a conversion that fails before leaves   *)
(* it, with a transfer list that has no data.                              *)
EntryAfter(entry, image, outcome) ==
    CASE outcome \in {"raw", "sparse"} -> entry
      [] outcome = "no-dat" ->
            [entry EXCEPT !.data = Item(image.ota, "torn"), !.rest = Item(image.ota, "torn")]
      [] outcome = "no-br" ->
            [entry EXCEPT !.data = Item(image.ota, "torn"), !.rest = Item(image.ota, Made(image))]
      [] outcome = "no-patch" ->
            [entry EXCEPT !.data = Item(image.ota, "torn"), !.rest = None]
      [] outcome = "built" ->
            [entry EXCEPT !.data = Item(image.ota, Made(image)), !.rest = None]

Convert ==
    /\ stage = "convert"
    /\ \E outcome \in [plan.convert -> Outcomes] :
         /\ images' = [n \in Names |-> IF n \in plan.convert
                                       THEN ImageAfter(images[n], outcome[n]) ELSE images[n]]
         /\ package' = [n \in Names |-> IF n \in plan.convert
                                        THEN EntryAfter(package[n], images[n], outcome[n])
                                        ELSE package[n]]
         /\ IF \A n \in plan.convert : outcome[n] = "built" THEN stage' = "stage" ELSE Raise
    /\ UNCHANGED <<run, runs, history, plan, zip>>

-------------------------------------------------------------------------------
(* Staging, scripts and ZIP.                                               *)

(* done: the images copied, in whatever order; cut: the one whose copy     *)
(* failed halfway, if any.                                                 *)
Staged(done, cut) ==
    /\ done \union cut \subseteq Found
    /\ package' = [n \in Names |->
                     IF n \in done THEN [package[n] EXCEPT !.image = images[n]]
                     ELSE IF n \in cut
                          THEN [package[n] EXCEPT !.image = Item(images[n].ota, "torn")]
                     ELSE package[n]]

(* A missing image, or an error while one is copied, ends the run. *)
StageRawImages ==
    /\ stage = "stage"
    /\ \E done \in SUBSET plan.raw : \E cut \in {{}} \union {{n} : n \in plan.raw \ done} :
         /\ Staged(done, cut)
         /\ IF done = plan.raw THEN stage' = "pack" ELSE Raise
    /\ UNCHANGED <<run, runs, history, images, plan, zip>>

(* The op list and the updater script are written for the plan, and        *)
(* everything in package/ goes into the ZIP; an error before its end       *)
(* leaves no ZIP that counts.                                              *)
Pack ==
    /\ stage = "pack"
    /\ \/ stage' = "built" /\ zip' = package
       \/ Raise /\ UNCHANGED zip
    /\ UNCHANGED <<run, runs, history, images, package, plan>>

Idle == stage \in {"idle", "built"} /\ runs = MaxRuns /\ UNCHANGED vars

Next ==
    \/ \E r \in Runs : Begin(r)
    \/ Extract \/ ExtractFails \/ Select \/ Convert \/ StageRawImages \/ Pack
    \/ Idle

Spec == Init /\ [][Next]_vars

-------------------------------------------------------------------------------
(* What is guaranteed.                                                     *)

Selected == stage \in {"convert", "stage", "pack", "built"}

(* Whatever earlier runs left in the directory, and wherever they failed:  *)
(* what the script flashes of the partitions the current OTA has is in the *)
(* ZIP, complete, made from the raw image of the current OTA and not of an *)
(* older one, as long as the payload was listed or -p was not used.        *)
ZipFromThisOta ==
    (stage = "built" /\ (run.listed \/ run.request.mode # "manual")) =>
        /\ \A n \in plan.convert \intersect run.ota.names : zip[n].data = Item(run.ota, "good")
        /\ \A n \in plan.raw \intersect run.ota.names : zip[n].image = Item(run.ota, "raw")

(* Repeating a build that failed, wherever it failed, gives what a build   *)
(* in an empty directory gives: the same plan, and nothing else in the ZIP.*)
FreshPlan == Plan(Extracts, run.request, run.ota.recoveryInBoot)

RetryIsFresh ==
    (stage = "built" /\ history = {run}) =>
        /\ plan = FreshPlan
        /\ \A n \in Names :
             /\ zip[n].rest = None
             /\ n \notin plan.convert => zip[n].data = None
             /\ n \notin plan.raw => zip[n].image = None

(* No build overwrites the recovery: its own partitions never, even when   *)
(* they are asked for, and boot, when it holds it, only on request and on  *)
(* a device without vendor_boot.                                           *)
RecoveryKept ==
    Selected =>
        /\ RecoverySkip \intersect (plan.convert \union plan.raw) = {}
        /\ ("boot" \in plan.raw /\ RecoveryInBoot) =>
               "boot" \in run.request.raw /\ "vendor_boot" \notin Found

(* No image is both converted, which consumes it, and flashed raw, which   *)
(* happens later: what was named in several places gets one treatment.     *)
ImagesUsedOnce == Selected => plan.convert \intersect plan.raw = {}

(* Without the list of the payload's partitions the same images are        *)
(* converted and flashed, but for the firmware of a build with -p.         *)
ListingIrrelevant ==
    (stage = "select" /\ runs = 1) =>
        LET other == Extracted(run.ota, run.request, ~run.listed)
            mine == Plan(Found, run.request, run.ota.recoveryInBoot)
            theirs == Plan(other, run.request, run.ota.recoveryInBoot)
            firmware == IF run.request.mode = "manual" THEN Firmware(run.ota.names) ELSE {}
        IN  /\ mine.convert = theirs.convert
            /\ mine.raw \ firmware = theirs.raw \ firmware

(* A build with --all, in an empty directory, holds what list-partitions   *)
(* calls supported, but for a boot image that turns out to hold the        *)
(* recovery, and nothing else unasked.                                     *)
ListedIsBuilt ==
    (Selected /\ runs = 1 /\ run.request.mode = "all") =>
        LET listed == ListedSupported(run.ota)
                          \ {n \in {"boot"} : run.ota.recoveryInBoot}
            built == plan.convert \union plan.raw
        IN  listed \subseteq built /\ built \subseteq listed \union run.request.raw
===============================================================================
