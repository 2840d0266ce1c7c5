------------------------------ MODULE GroupTable ------------------------------
(***************************************************************************)
(* packaging.calculate_group_table_size: the size of the partition group,  *)
(* a fifth more than the partitions, rounded up to MiB.                    *)
(***************************************************************************)
EXTENDS Integers, Sequences

CONSTANT MiB    \* 1024 * 1024

ASSUME MiBAssumption == MiB \in Nat \ {0}

Total(sizes) ==
    LET sum[n \in 1..(Len(sizes) + 1)] == IF n = 1 THEN 0 ELSE sum[n - 1] + sizes[n - 1]
    IN  sum[Len(sizes) + 1]

RoundedUp_Down(n) == n - (n % MiB)

RoundedUp(n) == IF n % MiB = 0 THEN n ELSE n + (MiB - (n % MiB))

Padded(total) == RoundedUp(total + (total \div 5))
===============================================================================
