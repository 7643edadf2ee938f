----------------------------- MODULE UnaryCalls -----------------------------
(***************************************************************************)
(* What AsyncClient promises of unary calls, whatever threads do it: a     *)
(* call that was issued is answered once, with what the rpc came to; its   *)
(* response callback, if it has one, is then invoked once with that        *)
(* answer; and only then does the client forget the call.                  *)
(***************************************************************************)
CONSTANTS Call, HasCallback

VARIABLES
  issued,     \* the calls made
  answer,     \* answer[c]: "none" until the future of c is ready
  notified,   \* the calls whose response callback was invoked
  forgotten   \* the calls the client let go

callVars == <<issued, answer, notified, forgotten>>

Init ==
  /\ issued = {} /\ notified = {} /\ forgotten = {}
  /\ answer = [c \in Call |-> "none"]

Issue(c) ==
  /\ c \notin issued
  /\ issued' = issued \cup {c}
  /\ UNCHANGED <<answer, notified, forgotten>>

Answer(c) ==
  /\ c \in issued /\ answer[c] = "none"
  /\ \E r \in {"value", "error"} : answer' = [answer EXCEPT ![c] = r]
  /\ UNCHANGED <<issued, notified, forgotten>>

Notify(c) ==
  /\ c \in HasCallback \ notified
  /\ answer[c] # "none"
  /\ notified' = notified \cup {c}
  /\ UNCHANGED <<issued, answer, forgotten>>

Forget(c) ==
  /\ c \notin forgotten
  /\ answer[c] # "none" /\ (c \in HasCallback => c \in notified)
  /\ forgotten' = forgotten \cup {c}
  /\ UNCHANGED <<issued, answer, notified>>

Next == \E c \in Call : Issue(c) \/ Answer(c) \/ Notify(c) \/ Forget(c)

Spec == Init /\ [][Next]_callVars
=============================================================================
