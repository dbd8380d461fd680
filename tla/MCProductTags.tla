---------------------------- MODULE MCProductTags ----------------------------
(* Instances of ProductTags for TLC: all trees of MaxObjs instances.         *)
EXTENDS ProductTags
=============================================================================
