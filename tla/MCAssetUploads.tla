---------------------------- MODULE MCAssetUploads ----------------------------
(* Small instances of AssetUploads.  Requests and uploads are alike.       *)
EXTENDS AssetUploads, TLC

Alike == Permutations(Slots) \cup Permutations(Ups)

===============================================================================
