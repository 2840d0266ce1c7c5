-------------------------------- MODULE MCBuild --------------------------------
(* Instances of Build for TLC: OTAs with and without vendor_boot, with and  *)
(* without a recovery in boot, and command lines like those of the README.  *)
EXTENDS Build

MCDefault == {"system", "product"}

Ota(names, recoveryInBoot) == [names |-> names, recoveryInBoot |-> recoveryInBoot]

NewDevice == Ota({"system", "product", "boot", "vendor_boot", "dtbo", "modem"}, TRUE)
OlderBuild == Ota({"system", "boot", "vendor_boot", "modem", "logo"}, FALSE)
RecoveryDevice == Ota({"system", "odm", "boot", "recovery", "vbmeta", "super"}, TRUE)
NoBootDevice == Ota({"system", "product", "init_boot", "vendor_boot", "lk"}, FALSE)
FirmwareOnly == Ota({"modem", "super", "userdata"}, FALSE)

NothingToFlash == Ota({"super", "userdata"}, FALSE)

MCTwoOtas == {NewDevice, OlderBuild}
MCManyOtas == {NewDevice, OlderBuild, RecoveryDevice, NoBootDevice, FirmwareOnly, NothingToFlash}

Request(mode, custom, raw) == [mode |-> mode, custom |-> custom, raw |-> raw, keepTemp |-> FALSE]

Manual == Request("manual", {"system"}, {})
ManualRaw == Request("manual", {"system", "product", "boot"}, {"dtbo", "vendor_boot", "vbmeta"})
All == Request("all", {}, {})
Template == Request("template", {}, {"boot"})

MCReuse == {ManualRaw, [Template EXCEPT !.keepTemp = TRUE]}
MCEvery ==
    {Manual, ManualRaw, All, Template,
     Request("manual", {"super", "userdata"}, {}),
     Request("manual", {"modem", "odm"}, {"boot", "recovery"}),
     Request("all", {}, {"boot", "vbmeta", "super"}),
     Request("template", {}, {"modem", "init_boot"}),
     Request("template", {}, {})}
===============================================================================
