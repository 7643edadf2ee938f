------------------------- MODULE ActionQueueProofs -------------------------
(***************************************************************************)
(* What TLAPS proves of ActionQueue, for every set of actions and for both *)
(* ways of polling.                                                        *)
(***************************************************************************)
EXTENDS ActionQueue, TLAPS

\* Every step of the queue keeps the types.
LEMMA QueueTypeStep == QueueTypeOK /\ [QueueNext]_queueVars => QueueTypeOK'
<1> USE ActionQueueAssumption DEF NextStatus
<1> SUFFICES ASSUME QueueTypeOK, [QueueNext]_queueVars PROVE QueueTypeOK'
  OBVIOUS
<1>1. ASSUME NEW a \in Tag, BeginOne(a) PROVE QueueTypeOK'
  BY <1>1 DEF BeginOne, Begin, QueueTypeOK, pollVars
<1>2. ASSUME NEW a \in Tag, NEW ok \in BOOLEAN, Complete({a}, ok) PROVE QueueTypeOK'
  <2>1. events' \subseteq [tag : Tag, ok : BOOLEAN]
    BY <1>2 DEF Complete, QueueTypeOK
  <2> QED BY <1>2, <2>1 DEF Complete, QueueTypeOK, pollVars
<1>3. CASE StartPolling BY <1>3 DEF StartPolling, QueueTypeOK, grpcVars
<1>4. CASE GotEvent BY <1>4 DEF GotEvent, QueueTypeOK
<1>5. CASE FinalizeOne
  BY <1>5 DEF FinalizeOne, FinalizeResult, DeleteAction, QueueTypeOK, grpcVars
<1>6. CASE TimedOut BY <1>6 DEF TimedOut, QueueTypeOK, grpcVars
<1>7. CASE SawShutdown BY <1>7 DEF SawShutdown, QueueTypeOK, grpcVars
<1>8. CASE Store BY <1>8 DEF Store, StoreStatus, QueueTypeOK, grpcVars
<1>9. CASE OwnerNext
  BY <1>9 DEF OwnerNext, Shutdown, Joined, Destroyed, QueueTypeOK, grpcVars, pollVars
<1>10. CASE UNCHANGED queueVars
  BY <1>10 DEF QueueTypeOK, queueVars, grpcVars, pollVars
<1> QED
  BY <1>1, <1>2, <1>3, <1>4, <1>5, <1>6, <1>7, <1>8, <1>9, <1>10
     DEF QueueNext, PollNext, QueueStopped

\* Every step passes an action from one holder to the next.
LEMMA OneHolderStep ==
  QueueTypeOK /\ OneHolder /\ [QueueNext]_queueVars => OneHolder'
<1> USE ActionQueueAssumption
<1> SUFFICES ASSUME QueueTypeOK, OneHolder, [QueueNext]_queueVars PROVE OneHolder'
  OBVIOUS
<1>1. ASSUME NEW a \in Tag, BeginOne(a) PROVE OneHolder'
  BY <1>1 DEF BeginOne, Begin, Begun, QueueTypeOK, OneHolder, pollVars
<1>2. ASSUME NEW a \in Tag, NEW ok \in BOOLEAN, Complete({a}, ok) PROVE OneHolder'
  <2>1. /\ a \in pending /\ pending' = pending \ {a}
        /\ events' = events \cup {[tag |-> a, ok |-> ok]}
        /\ UNCHANGED <<current, finalized>>
    BY <1>2 DEF Complete, pollVars
  <2> QED BY <2>1 DEF QueueTypeOK, OneHolder
<1>3. CASE GotEvent
  <2> PICK e \in events : events' = events \ {e} /\ current' = e.tag
    BY <1>3 DEF GotEvent
  <2> QED BY <1>3 DEF GotEvent, QueueTypeOK, OneHolder
<1>4. CASE FinalizeOne
  <2>1. current \in Tag BY <1>4 DEF FinalizeOne, FinalizeResult, QueueTypeOK
  <2> QED
    BY <1>4, <2>1 DEF FinalizeOne, FinalizeResult, DeleteAction, QueueTypeOK,
                      OneHolder, grpcVars
<1>5. CASE StartPolling \/ TimedOut \/ SawShutdown \/ Store
  BY <1>5 DEF StartPolling, TimedOut, SawShutdown, Store, OneHolder, grpcVars
<1>6. CASE OwnerNext
  BY <1>6 DEF OwnerNext, Shutdown, Joined, Destroyed, OneHolder, grpcVars, pollVars
<1>7. CASE UNCHANGED queueVars
  BY <1>7 DEF OneHolder, queueVars, grpcVars, pollVars
<1> QED
  BY <1>1, <1>2, <1>3, <1>4, <1>5, <1>6, <1>7 DEF QueueNext, PollNext, QueueStopped

\* The owner goes one way, and begins nothing once it has shut the queue down; so
\* what asyncNext saw as drained stays drained.
LEMMA ShutdownStep ==
  QueueTypeOK /\ OwnerInv /\ StatusInv /\ [QueueNext]_queueVars
    => OwnerInv' /\ StatusInv'
<1> USE ActionQueueAssumption DEF Drained, ThreadEnded
<1> SUFFICES ASSUME QueueTypeOK, OwnerInv, StatusInv, [QueueNext]_queueVars
             PROVE  OwnerInv' /\ StatusInv'
  OBVIOUS
<1>1. ASSUME NEW a \in Tag, BeginOne(a) PROVE OwnerInv' /\ StatusInv'
  BY <1>1 DEF BeginOne, Begin, OwnerInv, StatusInv, pollVars
<1>2. ASSUME NEW a \in Tag, NEW ok \in BOOLEAN, Complete({a}, ok)
      PROVE OwnerInv' /\ StatusInv'
  BY <1>2 DEF Complete, OwnerInv, StatusInv, pollVars
<1>3. CASE StartPolling BY <1>3 DEF StartPolling, OwnerInv, StatusInv, grpcVars
<1>4. CASE GotEvent BY <1>4 DEF GotEvent, OwnerInv, StatusInv
<1>5. CASE FinalizeOne
  BY <1>5 DEF FinalizeOne, FinalizeResult, OwnerInv, StatusInv, grpcVars
<1>6. CASE TimedOut BY <1>6 DEF TimedOut, OwnerInv, StatusInv, grpcVars
<1>7. CASE SawShutdown BY <1>7 DEF SawShutdown, OwnerInv, StatusInv, grpcVars
<1>8. CASE Store BY <1>8 DEF Store, StoreStatus, OwnerInv, StatusInv, grpcVars
<1>9. CASE OwnerNext
  BY <1>9 DEF OwnerNext, Shutdown, Joined, Destroyed, OwnerInv, StatusInv,
              grpcVars, pollVars
<1>10. CASE UNCHANGED queueVars
  BY <1>10 DEF OwnerInv, StatusInv, queueVars, grpcVars, pollVars
<1> QED
  BY <1>1, <1>2, <1>3, <1>4, <1>5, <1>6, <1>7, <1>8, <1>9, <1>10
     DEF QueueNext, PollNext, QueueStopped

LEMMA QueueIInvInit == QueueInit => QueueIInv
BY ActionQueueAssumption
   DEF QueueInit, QueueIInv, QueueTypeOK, OneHolder, OwnerInv, StatusInv, ThreadEnded,
       NextStatus

\* The owner of a thread cannot forget shutdown() or the join.
LEMMA OwnerOfThread ==
  ASSUME ~Inline, QueueTypeOK, OwnerInv
  PROVE  /\ down <=> owner # "running"
         /\ owner \in {"destroying", "destroyed"} => down /\ polling = "stopped"
BY DEF QueueTypeOK, OwnerInv, ThreadEnded

\* What a queue in QueueIInv was destroyed with.
LEMMA QueueIInvDrained == QueueIInv => DestroyedWhenDrained
BY DEF QueueIInv, QueueTypeOK, OwnerInv, StatusInv, Drained, ThreadEnded,
       DestroyedWhenDrained

\* The inductive invariant of the queue holds in every reachable state.
THEOREM QueueInvariance == QueueSpec => []QueueIInv
<1>1. QueueIInv /\ [QueueNext]_queueVars => QueueIInv'
  BY QueueTypeStep, OneHolderStep, ShutdownStep DEF QueueIInv
<1> QED BY QueueIInvInit, <1>1, PTL DEF QueueSpec

\* Every variable of the queue keeps its type.
THEOREM QueueTypeCorrect == QueueSpec => []QueueTypeOK
<1>1. QueueIInv => QueueTypeOK BY DEF QueueIInv
<1> QED BY QueueInvariance, <1>1, PTL

\* An action is in one place at a time, whatever the interleaving of the owner, the
\* thread and gRPC, so no action is finalised twice, nor used after its deletion.
THEOREM OneHolderHolds == QueueSpec => []OneHolder
<1>1. QueueIInv => OneHolder BY DEF QueueIInv
<1> QED BY QueueInvariance, <1>1, PTL

\* ~AsyncActionQueue returns only when nothing is outstanding and nobody polls, or, in
\* an owner that never called asyncNext, because of the value _nextStatus happens to have.
THEOREM DestroyedDrained == QueueSpec => []DestroyedWhenDrained
BY QueueInvariance, QueueIInvDrained, PTL
=============================================================================
