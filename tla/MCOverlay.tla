------------------------------ MODULE MCOverlay ------------------------------
(***************************************************************************)
(* Instances of Overlay for TLC: four names in two buckets, two of them    *)
(* with the same hash, one too long to be found, headers of two sizes.     *)
(***************************************************************************)
EXTENDS Overlay, TLC

CONSTANTS foo, bar, baz, long

MCNames == {foo, bar, baz, long}
MCHash == foo :> 1 @@ bar :> 1 @@ baz :> 2 @@ long :> 3
MCBucket == 1 :> 0 @@ 2 :> 0 @@ 3 :> 1
MCHeaderSize == foo :> 2 @@ bar :> 3 @@ baz :> 2 @@ long :> 4
=============================================================================
