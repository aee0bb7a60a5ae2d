--------------------------- MODULE MCVmmWeightStore ---------------------------
EXTENDS VmmWeightStore

CONSTANTS a, big, c1, c2, s1, s2

Sizes      == (a :> 1) @@ (big :> 2)
OneStream  == (c1 :> s1) @@ (c2 :> s1)
TwoStreams == (c1 :> s1) @@ (c2 :> s2)
==============================================================================
