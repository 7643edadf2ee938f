---------------------------- MODULE UnaryService ----------------------------
(***************************************************************************)
(* What AsyncServer promises of the unary rpcs it accepts: handleFunc runs *)
(* at most once for each, an rpc is answered at most once and only after   *)
(* that, and it ends without an answer only if its client cancels it.      *)
(***************************************************************************)
CONSTANT Rpc

VARIABLES
  accepted,   \* the rpcs the server took
  handled,    \* handled[r]: how often handleFunc ran for r
  answered,   \* those that got their answer
  cancelled   \* those their client gave up before

rpcVars == <<accepted, handled, answered, cancelled>>

Init ==
  /\ accepted = {} /\ answered = {} /\ cancelled = {}
  /\ handled = [r \in Rpc |-> 0]

Accept(r) ==
  /\ r \notin accepted
  /\ accepted' = accepted \cup {r}
  /\ UNCHANGED <<handled, answered, cancelled>>

Handle(r) ==
  /\ r \in accepted /\ handled[r] = 0
  /\ handled' = [handled EXCEPT ![r] = 1]
  /\ UNCHANGED <<accepted, answered, cancelled>>

Answer(r) ==
  /\ handled[r] = 1 /\ r \notin answered \cup cancelled
  /\ answered' = answered \cup {r}
  /\ UNCHANGED <<accepted, handled, cancelled>>

Cancel(r) ==
  /\ r \in accepted \ (answered \cup cancelled)
  /\ cancelled' = cancelled \cup {r}
  /\ UNCHANGED <<accepted, handled, answered>>

Next == \E r \in Rpc : Accept(r) \/ Handle(r) \/ Answer(r) \/ Cancel(r)

Spec == Init /\ [][Next]_rpcVars
=============================================================================
