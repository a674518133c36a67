--------------------------- MODULE MCProfileStore ---------------------------
(***************************************************************************)
(* ProfileStore for TLC: bytes of four bits, slots of six bytes, a page of *)
(* two slots.                                                              *)
(***************************************************************************)
EXTENDS ProfileStore

\* Of the first, but not of the others, what is left without the last half word has
\* the right sum.
ThreeProfiles == {<<0, 0, 0, 0, 0>>, <<1, 2, 3, 4, 5>>, <<7, 0, 0, 8, 1>>}
TwoBlocks == {<<1, 2, 3, 4, 5, 6>>, <<0, 9, 8, 7, 6, 5>>}
=============================================================================
