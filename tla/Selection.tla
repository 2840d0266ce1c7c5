------------------------------- MODULE Selection -------------------------------
(***************************************************************************)
(* Which images a build extracts, converts and flashes raw: the set        *)
(* algebra of pipeline._extractor_selected_partitions,                     *)
(* _classify_extracted_partitions, _select_partitions and                  *)
(* _selected_raw_images, and what list_partitions reports.  Order and      *)
(* repetition of the converted images are left to PartitionBuild.          *)
(*                                                                         *)
(* A request is [mode, custom, raw], after cli._options_from_args: the     *)
(* names given with -p and with --raw-partitions.  An OTA is [names,       *)
(* recoveryInBoot]: the partitions of its payload, and whether its boot    *)
(* image carries a recovery DTBO, as magiskboot tells.                     *)
(***************************************************************************)

CONSTANT DefaultPartitions    \* the names in default_partitions.txt

AlwaysDefaultRaw == {"logo", "lk"}
ConditionalDefaultRaw == {"boot"}
ExplicitRaw == {"boot", "init_boot", "vendor_boot", "dtbo", "recovery",
                "vbmeta", "vbmeta_system", "vbmeta_vendor"}
KnownLogical == {"system", "system_ext", "product", "vendor", "odm", "odm_dlkm",
                 "vendor_dlkm", "system_dlkm"}
DefaultRawProbes == {"boot", "vendor_boot"}
RecoverySkip == {"recovery", "vendor_boot"}
Unsupported == {"super", "userdata", "metadata"}

(* True of both default_partitions.txt of the repository; a list edited by *)
(* hand is not checked for it.                                             *)
ASSUME DefaultAssumption == DefaultPartitions \subseteq KnownLogical

-------------------------------------------------------------------------------
(* What the extractor is asked for.                                        *)

(* Names that belong to none of the lists: images flashed to both slots.   *)
Firmware(names) == names \ (Unsupported \union RecoverySkip \union KnownLogical \union ExplicitRaw)

Wanted(request) ==
    CASE request.mode = "manual" -> request.custom
      [] request.mode = "all" -> KnownLogical
      [] request.mode = "template" -> DefaultPartitions

RawCandidates_WithoutProbes(request) == AlwaysDefaultRaw \union request.raw

RawCandidates(request) == AlwaysDefaultRaw \union DefaultRawProbes \union request.raw

(* The images payload-dumper-go leaves: those asked for, or all of them    *)
(* when no list is passed on; it passes over names the payload lacks.      *)
(* When the payload cannot be listed, only -p makes for a list.            *)
Extracted(ota, request, listed) ==
    LET needed == (Wanted(request) \union RawCandidates(request) \union Firmware(ota.names))
                      \intersect ota.names
        all == IF listed THEN needed = {} ELSE request.mode # "manual"
    IN  IF all THEN ota.names
        ELSE IF listed THEN needed
        ELSE (request.custom \union RawCandidates(request)) \intersect ota.names

-------------------------------------------------------------------------------
(* How the images that were found are classified.                          *)

IsDefaultRaw(name, found) ==
    \/ name \in AlwaysDefaultRaw
    \/ name \in ConditionalDefaultRaw /\ "vendor_boot" \in found

HoldsRecovery(name, recoveryInBoot) == name = "boot" /\ recoveryInBoot

(* The tests in their order: what an earlier one takes no later one sees.  *)
Classified(found, recoveryInBoot) ==
    LET unsupported == found \intersect Unsupported
        recovery == (found \intersect RecoverySkip) \ unsupported
        default == {n \in found : IsDefaultRaw(n, found)} \ (unsupported \union recovery)
        inBoot == {n \in default : HoldsRecovery(n, recoveryInBoot)}
        explicit == (found \intersect ExplicitRaw) \ (unsupported \union recovery \union default)
        logical == (found \intersect KnownLogical)
                       \ (unsupported \union recovery \union default \union explicit)
    IN  [unsupported |-> unsupported,
         skipped |-> recovery \union inBoot,
         default |-> default \ inBoot,
         explicit |-> explicit,
         logical |-> logical,
         auto |-> found \ (unsupported \union recovery \union default \union explicit \union logical)]

-------------------------------------------------------------------------------
(* What is converted and what is flashed raw.                              *)

Converted_AnyFound(request, found, class) == Wanted(request) \intersect found

(* The template list is not compared with the supported partitions. *)
Converted(request, found, class) ==
    CASE request.mode = "manual" -> request.custom \intersect class.logical
      [] request.mode = "all" -> class.logical
      [] request.mode = "template" -> DefaultPartitions \intersect found

FlashedRaw_SkipIgnored(request, class) ==
    class.default \union class.auto
        \union (request.raw \intersect (class.default \union class.explicit \union class.auto
                                          \union class.skipped))

FlashedRaw_Unavailable(request, class) ==
    class.default \union class.auto \union (request.raw \ class.skipped)

FlashedRaw(request, class) ==
    LET byDefault == (class.default \union class.auto) \ class.skipped
        asked == (request.raw \ class.skipped) \intersect (byDefault \union class.explicit)
    IN  byDefault \union asked

Plan(found, request, recoveryInBoot) ==
    LET class == Classified(found, recoveryInBoot)
    IN  [convert |-> Converted(request, found, class), raw |-> FlashedRaw(request, class)]

(* No image to convert, or one that cannot be: the build is refused. *)
Refused(plan) == plan.convert = {} \/ plan.convert \intersect Unsupported # {}

(* The partitions list_partitions calls supported: it classifies the names *)
(* of the payload (all of them are listed) and probes no image.            *)
ListedSupported(ota) ==
    LET class == Classified(ota.names, FALSE)
    IN  class.logical \union class.default \union class.auto
===============================================================================
