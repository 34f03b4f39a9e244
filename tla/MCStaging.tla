------------------------------- MODULE MCStaging -------------------------------
(***************************************************************************)
(* Two conversations that share one attachment, which may turn out too     *)
(* large, and another that the media step may decline.                     *)
(***************************************************************************)
EXTENDS Staging
CONSTANTS o1, o2

MCVerdictsOf == [o \in Originals |-> IF o = o1 THEN {"small", "large"} ELSE {"small", "declined"}]
MCAttsOf == [d \in Docs |-> IF d = 1 THEN {o1, o2} ELSE {o1}]
================================================================================
