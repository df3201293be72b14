--------------------------- MODULE MCAssetLoading ---------------------------
(* Instances of AssetLoading for TLC: an object is an asset, and a path may
   get a second one after it was invalidated. *)
EXTENDS AssetLoading

CONSTANTS model, texture, a, b

TwoPaths == {model, texture}
OnePath == {model}
TwoObjects == {a, b}
=============================================================================
