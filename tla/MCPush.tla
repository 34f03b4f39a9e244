-------------------------------- MODULE MCPush --------------------------------
(***************************************************************************)
(* Small folders for TLC.  The first file has three messages, so that with *)
(* two to a request it takes two, and each other file has one.  Files 1    *)
(* and 2 share attachment 1, files 1 and 3 share attachment 2.             *)
(***************************************************************************)
EXTENDS Push

MCFileOf == [g \in Guids |-> IF g <= 3 THEN 1 ELSE g - 2]
MCAssetOf == [g \in Guids |-> CASE g \in {1, 4} -> 1 [] g \in {2, 5} -> 2 [] OTHER -> NoAsset]

(* The third file is of another backup than the first two.                 *)
MCSourceOf == [f \in Files |-> IF f <= 2 THEN "imessage" ELSE "whatsapp"]

(* One message to a file, none with an attachment.                         *)
OneEach == [g \in Guids |-> g]
NoMedia == [g \in Guids |-> NoAsset]

(* Two messages to a file: each file names both attachments, the second in *)
(* the order that waits for the first.                                     *)
CrossedFileOf == [g \in Guids |-> IF g <= 2 THEN 1 ELSE 2]
CrossedAssetOf == [g \in Guids |-> IF g \in {1, 4} THEN 1 ELSE 2]
=============================================================================
