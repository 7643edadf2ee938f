----------------------------- MODULE AtMostOnce -----------------------------
(***************************************************************************)
(* What client and server together promise of the rpcs of a program,       *)
(* whatever the connection does: the function registered for the rpc runs  *)
(* at most once, and the future of the call gets one answer, a value only  *)
(* if it ran.  After an error nobody knows: it may have run, or may yet.   *)
(***************************************************************************)
CONSTANT Rpc

VARIABLES
  handled,  \* handled[r]: how often the registered function ran for rpc r
  outcome   \* outcome[r]: "none" until the future of r is ready

rpcVars == <<handled, outcome>>

Init == handled = [r \in Rpc |-> 0] /\ outcome = [r \in Rpc |-> "none"]

Handle(r) ==
  /\ handled[r] = 0 /\ outcome[r] # "value"
  /\ handled' = [handled EXCEPT ![r] = 1]
  /\ UNCHANGED outcome

Answer(r) ==
  /\ outcome[r] = "none" /\ handled[r] = 1
  /\ outcome' = [outcome EXCEPT ![r] = "value"]
  /\ UNCHANGED handled

Fail(r) ==
  /\ outcome[r] = "none"
  /\ outcome' = [outcome EXCEPT ![r] = "error"]
  /\ UNCHANGED handled

Next == \E r \in Rpc : Handle(r) \/ Answer(r) \/ Fail(r)

Spec == Init /\ [][Next]_rpcVars
=============================================================================
