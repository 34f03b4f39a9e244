------------------------------ MODULE KeyedMutex ------------------------------
(***************************************************************************)
(* What the server's keyed locks promise their users: one mutex per key.   *)
(* A batch and a delete of all messages lock their account's key, and the  *)
(* completion of a multipart upload the key of its account and             *)
(* fingerprint; a request that goes away stops waiting.                    *)
(***************************************************************************)
CONSTANTS Tasks, Keys, NoKey

VARIABLES wants, has   \* the key each task waits for, and the key it holds

vars == <<wants, has>>

Free(k) == \A u \in Tasks : has[u] # k

Init ==
  /\ wants = [t \in Tasks |-> NoKey]
  /\ has = [t \in Tasks |-> NoKey]

Ask(t, k) ==
  /\ wants[t] = NoKey /\ has[t] = NoKey
  /\ wants' = [wants EXCEPT ![t] = k]
  /\ UNCHANGED has

Take(t) ==
  /\ wants[t] # NoKey /\ Free(wants[t])
  /\ has' = [has EXCEPT ![t] = wants[t]]
  /\ wants' = [wants EXCEPT ![t] = NoKey]

Give(t) ==
  /\ has[t] # NoKey
  /\ has' = [has EXCEPT ![t] = NoKey]
  /\ UNCHANGED wants

GiveUp(t) ==
  /\ wants[t] # NoKey
  /\ wants' = [wants EXCEPT ![t] = NoKey]
  /\ UNCHANGED has

Next == \E t \in Tasks : (\E k \in Keys : Ask(t, k)) \/ Take(t) \/ Give(t) \/ GiveUp(t)

Spec == Init /\ [][Next]_vars

===============================================================================
