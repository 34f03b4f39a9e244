----------------------------- MODULE MCImportStore -----------------------------
(* Small instances of ImportStore: two runs, the second of which may       *)
(* replace what the first stored, and two messages whose files may be      *)
(* shared.                                                                 *)
EXTENDS ImportStore, TLC

CONSTANTS r1, r2, g1, g2, x1, x2, c1, c2, s1

MCRunMode == r1 :> "append" @@ r2 :> "replace"
MCRunSource == r1 :> s1 @@ r2 :> s1

(* One source; each message in its own conversation, each with its file. *)
MCSourceOf == [g \in Guids |-> s1]
MCConvOf == [g \in Guids |-> IF g = g1 THEN c1 ELSE c2]
MCAssetOf == [g \in Guids |-> IF g = g1 THEN x1 ELSE x2]

(* Both messages carry the same file. *)
MCSharedAssetOf == [g \in Guids |-> x1]

SmallSymmetry == Permutations(Batches) \cup Permutations(ConvDeletes)
================================================================================
