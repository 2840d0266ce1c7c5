----------------------------- MODULE MCSuperWipe -----------------------------
(* Instances of SuperWipe for TLC: geometries of two and three slots, and   *)
(* the command lines of the updater script, the tests and the usage text.   *)
EXTENDS SuperWipe

MCTwoSlots == [max |-> 1, slots |-> 2]
MCThreeSlots == [max |-> 1, slots |-> 3]
MCTwoBigSlots == [max |-> 2, slots |-> 2]

MCOnlyDevice == {DeviceGeometry}
MCFactory == {"factory"}
MCDamaged == {"factory", "junk", "torn"}

Wipe == [template |-> "none", device |-> TRUE, slot |-> "none", dryRun |-> FALSE]
Flash == [Wipe EXCEPT !.template = "good"]
BadGeometry == [Wipe EXCEPT !.template = "badgeometry"]

MCWipe == {Wipe}
MCFlash == {Flash}
MCAll == {Wipe, Flash, BadGeometry,
          [Flash EXCEPT !.template = "badtables"],
          [Flash EXCEPT !.device = FALSE],    \* as in the updater script
          [BadGeometry EXCEPT !.device = FALSE],
          [Flash EXCEPT !.dryRun = TRUE], [Wipe EXCEPT !.dryRun = TRUE]}
===============================================================================
