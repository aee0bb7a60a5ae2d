------------------------------ MODULE PackedSizes ------------------------------
(***************************************************************************)
(* Numbers of bytes: of some of the entries of a function, each of which    *)
(* has a size.  A sum is the number of its parts, so that it needs neither *)
(* an order of the entries nor recursion.                                  *)
(***************************************************************************)
EXTENDS Integers, FiniteSets

PackedBytes(entries, K) == UNION {{k} \X (1 .. entries[k].size) : k \in K}
SizeOf(entries, K)      == Cardinality(PackedBytes(entries, K))
================================================================================
