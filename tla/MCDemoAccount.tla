----------------------------- MODULE MCDemoAccount -----------------------------
(* The Demo Account's builds on a small instance: see DemoAccount_*.cfg.   *)
EXTENDS DemoAccount

================================================================================
