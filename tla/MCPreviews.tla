------------------------------- MODULE MCPreviews -------------------------------
(* Previews on a small instance: see Previews_passes.cfg.  Two rows share  *)
(* a blob, and another blob converts to the same Preview.                  *)
EXTENDS Previews, TLC

CONSTANTS r1, r2, r3, b1, b2, f1

MCBlobOf == (r1 :> b1) @@ (r2 :> b1) @@ (r3 :> b2)
MCMakesOf == (b1 :> f1) @@ (b2 :> f1)

(* Passes are alike, and so are the two rows of one blob.                  *)
Alike == Permutations(Passes) \cup Permutations({r1, r2})

================================================================================
