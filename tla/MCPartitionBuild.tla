--------------------------- MODULE MCPartitionBuild ---------------------------
(* Instances of PartitionBuild for TLC. *)
EXTENDS PartitionBuild

MCPartitions == {"odm", "system", "vendor"}

(* Three partitions in the order of sorted(supported). *)
MCThree == <<"odm", "system", "vendor">>


(* -p system system: the repeated name is kept. *)
MCRepeated == <<"system", "system">>
===============================================================================
