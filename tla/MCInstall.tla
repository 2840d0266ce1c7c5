------------------------------ MODULE MCInstall ------------------------------
(* Instances of Install for TLC. *)
EXTENDS Install

MCFileOrder == <<"boot", OpList, "lk", "logo", "system", "vbmeta", "vendor">>

MCPhones == {[name |-> "alioth", slot |-> "_a"], [name |-> "other", slot |-> "_b"],
             [name |-> "alioth", slot |-> ""]}

Size(names) == [n \in names |-> IF n = "system" THEN 7 ELSE 4]

Single ==
    [dynamic |-> <<"system">>, size |-> Size({"system"}), devices |-> {"alioth"},
     raw |-> <<RawSpec("boot"), RawSpec("logo"), RawSpec("vbmeta")>>,
     option |-> NoSize, setting |-> NoSize]

Both == [Single EXCEPT !.dynamic = <<"system", "vendor">>, !.size = Size({"system", "vendor"}),
                       !.raw = <<RawSpec("vbmeta")>>, !.devices = {}]

(* The slot policies of the tests, a name that was selected twice, a raw   *)
(* partition that is listed, and group sizes that were given: too small,   *)
(* without limit, large enough.                                            *)
MCPackages ==
    {Single, Both,
     [Single EXCEPT !.raw = <<RawSpec("logo"), [name |-> "lk", policy |-> "active"]>>],
     [Both EXCEPT !.dynamic = <<"system", "system">>, !.size = Size({"system"}), !.raw = <<>>],
     [Both EXCEPT !.dynamic = <<"vbmeta">>, !.size = Size({"vbmeta"})],
     [Both EXCEPT !.option = 0, !.setting = 10, !.raw = <<>>],
     [Both EXCEPT !.setting = 0, !.raw = <<>>],
     [Both EXCEPT !.option = 12, !.setting = 1, !.raw = <<>>]}

MCTorn == {Single}
===============================================================================
