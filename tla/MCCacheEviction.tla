-------------------------- MODULE MCCacheEviction --------------------------
(* Three models, for TLC: any two of them leave too little room for the    *)
(* third.                                                                  *)
EXTENDS CacheEviction

CONSTANTS big, small, other

ModelSize == big :> 2 @@ other :> 2 @@ small :> 1
=============================================================================
