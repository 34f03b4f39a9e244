--------------------------------- MODULE MCPull ---------------------------------
(* Pull on a small instance: see Pull_folder.cfg.                          *)
EXTENDS Pull, TLC

CONSTANTS c1, c2, s1, s2, p1, p2, p3

(* Message 2 is imported later, message 5 is in the Trash at first.        *)
(* Messages 1 and 4 name one attachment by two paths.                      *)
MCConvOf == 1 :> c1 @@ 2 :> c2 @@ 3 :> c1 @@ 4 :> c2 @@ 5 :> c1
MCShaOf == 1 :> s1 @@ 2 :> NoSha @@ 3 :> s2 @@ 4 :> s1 @@ 5 :> NoSha
MCSentPath == 1 :> p1 @@ 2 :> NoPath @@ 3 :> NoPath @@ 4 :> p3 @@ 5 :> NoPath
MCOwnPath == s1 :> p1 @@ s2 :> p2

(* Every path has a temporary name of its own.                             *)
Apart == p1 :> "1.part" @@ p2 :> "2.part" @@ p3 :> "3.part"

(* Two paths differ in their extensions only.                              *)
SameStem == p1 :> "1.part" @@ p2 :> "1.part" @@ p3 :> "3.part"

================================================================================
