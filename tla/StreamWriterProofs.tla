------------------------ MODULE StreamWriterProofs ------------------------
(***************************************************************************)
(* What TLAPS proves of StreamWriter, for every set of threads, every mix  *)
(* of operations, every number of calls and both kinds of build.           *)
(***************************************************************************)
EXTENDS StreamWriter, SequenceTheorems, FiniteSetTheorems, TLAPS

-----------------------------------------------------------------------------
(* Lemmas about the pieces the actions are made of.                        *)

\* The queue loses its oldest element.
LEMMA TailOfQueue ==
  ASSUME NEW S, NEW s \in Seq(S), s # <<>>
  PROVE  /\ Head(s) \in S
         /\ Head(s) = s[1]
         /\ Tail(s) \in Seq(S)
         /\ Len(Tail(s)) = Len(s) - 1
         /\ Len(s) >= 1
         /\ \A i \in 1 .. Len(Tail(s)) : Tail(s)[i] = s[i + 1]
BY HeadTailProperties

\* Removing the oldest element keeps an increasing queue increasing, and what
\* remains is younger than what was removed.
LEMMA TailIncreasing ==
  ASSUME NEW s \in Seq(Nat), s # <<>>,
         \A i, j \in 1 .. Len(s) : i < j => s[i] < s[j]
  PROVE  /\ \A i, j \in 1 .. Len(Tail(s)) : i < j => Tail(s)[i] < Tail(s)[j]
         /\ \A j \in 1 .. Len(Tail(s)) :
              /\ Head(s) < Tail(s)[j]
              /\ \E i \in 1 .. Len(s) : Tail(s)[j] = s[i]
<1>1. /\ Len(Tail(s)) = Len(s) - 1
      /\ Len(s) \in Nat /\ Len(s) >= 1
      /\ Head(s) = s[1]
      /\ \A j \in 1 .. Len(Tail(s)) : Tail(s)[j] = s[j + 1]
  BY TailOfQueue
<1>2. \A j \in 1 .. Len(Tail(s)) : j + 1 \in 1 .. Len(s) /\ 1 < j + 1
  BY <1>1
<1>3. \A j \in 1 .. Len(Tail(s)) : Head(s) < Tail(s)[j]
  BY <1>1, <1>2
<1>4. \A i, j \in 1 .. Len(Tail(s)) : i < j => Tail(s)[i] < Tail(s)[j]
  BY <1>1, <1>2
<1> QED
  BY <1>1, <1>2, <1>3, <1>4

\* newAction adds one operation, numbered after the others, and its future.
LEMMA NewActionType ==
  ASSUME TypeOK, NEW k \in Kind, NewAction(k)
  PROVE  /\ kind' \in Seq(Kind)
         /\ Len(kind') = Len(kind) + 1
         /\ Operation \subseteq Operation'
         /\ future' \in Seq({"unset", "ok", "failed", "exception"})
         /\ Len(future') = Len(kind')
         /\ actions' \in Seq(Operation')
         /\ started \in Seq(Operation')
<1>1. kind' \in Seq(Kind) /\ Len(kind') = Len(kind) + 1
  BY DEF TypeOK, NewAction
<1>2. Operation \subseteq Operation' /\ Len(kind) + 1 \in Operation'
  BY <1>1 DEF TypeOK, Operation
<1>3. actions \in Seq(Operation') /\ started \in Seq(Operation')
  BY <1>2, SeqMonotonic DEF TypeOK
<1>4. actions' \in Seq(Operation')
  BY <1>2, <1>3, AppendProperties DEF NewAction
<1>5. /\ future' \in Seq({"unset", "ok", "failed", "exception"})
      /\ Len(future') = Len(kind')
  BY <1>1 DEF TypeOK, NewAction
<1> QED
  BY <1>1, <1>2, <1>3, <1>4, <1>5

\* Only an assertion or the stream itself stops the process in perform().
LEMMA PerformType ==
  ASSUME TypeOK, NEW a \in Operation, PerformAction(a)
  PROVE  /\ started' \in Seq(Operation)
         /\ inflight' \subseteq Operation
         /\ state' \in {"Ready", "Processing"}
         /\ aborted' \in {"no", "assert", "misuse"}
<1>1. CASE Asserts /\ state # "Ready"
  BY <1>1 DEF TypeOK, PerformAction, streamVars
<1>2. CASE ~(Asserts /\ state # "Ready")
  <2>1. state' = "Processing" /\ GiveToStream(a)
    BY <1>2 DEF PerformAction
  <2>2. aborted' \in {"misuse", aborted}
    BY <2>1 DEF GiveToStream
  <2>3. started' \in Seq(Operation) /\ inflight' \subseteq Operation
    BY <2>1, AppendProperties DEF TypeOK, GiveToStream
  <2> QED
    BY <2>1, <2>2, <2>3 DEF TypeOK
<1> QED
  BY <1>1, <1>2

-----------------------------------------------------------------------------
(* The type invariant.                                                     *)

\* Every variable keeps its type; in particular _state is never Finished and the
\* process dies only of an assertion or of gRPC's own check.  MutexInv is what the
\* type of the popped operation in Perform rests on.
LEMMA TypeInit == Init => TypeOK /\ MutexInv
<1> SUFFICES ASSUME Init PROVE TypeOK /\ MutexInv
  OBVIOUS
<1>1. /\ kind \in Seq(Kind)
      /\ future \in Seq({"unset", "ok", "failed", "exception"})
      /\ Len(future) = Len(kind)
      /\ actions \in Seq(Operation) /\ started \in Seq(Operation)
  BY EmptySeq DEF Init
<1>2. /\ pc \in [Proc -> {"idle"}]
      /\ \A p \in Proc : pc[p] = "idle"
  BY DEF Init
<1> QED
  BY <1>1, <1>2 DEF Init, TypeOK, MutexInv, Proc

LEMMA TypeStep == TypeOK /\ MutexInv /\ [Next]_vars => TypeOK'
<1> SUFFICES ASSUME TypeOK, MutexInv, [Next]_vars PROVE TypeOK'
  OBVIOUS
<1> USE StreamWriterAssumption
<1>1. ASSUME NEW t \in Thread, NEW k \in AppKind, Call(t, k) PROVE TypeOK'
  <2>1. k \in Kind
    OBVIOUS
  <2> QED
    BY <1>1, <2>1, NewActionType
    DEF TypeOK, Call, Goto, AfterNewAction, Proc, streamVars, finalVars
<1>2. ASSUME NEW p \in Proc, TryEmpty(p) PROVE TypeOK'
  BY <1>2 DEF TypeOK, TryEmpty, Goto, Operation, queueVars, streamVars, finalVars
<1>3. ASSUME NEW p \in Proc, TryReady(p) PROVE TypeOK'
  BY <1>3, TailOfQueue
  DEF TypeOK, TryReady, PopAction, Goto, Operation, streamVars, finalVars
<1>4. ASSUME NEW p \in Proc, TryRefuse(p) PROVE TypeOK'
  BY <1>4, TailOfQueue
  DEF TypeOK, TryRefuse, PopAction, Goto, Operation, streamVars, finalVars
<1>5. ASSUME NEW p \in Proc, Perform(p) PROVE TypeOK'
  <2>1. hand \in Operation
    BY <1>5 DEF TypeOK, MutexInv, Perform
  <2> QED
    BY <1>5, <2>1, PerformType
    DEF TypeOK, Perform, UnlockActions, Goto, Operation, finalVars
<1>6. ASSUME NEW a \in inflight, NEW ok \in BOOLEAN, SetResult(a, ok) PROVE TypeOK'
  <2>1. /\ future' \in Seq({"unset", "ok", "failed", "exception"})
        /\ Len(future') = Len(future)
    BY <1>6, ExceptSeq DEF TypeOK, SetResult, Result, Operation
  <2> QED
    BY <1>6, <2>1
    DEF TypeOK, SetResult, Goto, Operation, Proc, queueVars
<1>7. CASE Release
  BY <1>7 DEF TypeOK, Release, ReleasedState, FinalizeResultImpl, Goto, Operation,
              Proc, queueVars, streamVars, finalVars
<1>8. CASE Respond
  BY <1>8 DEF TypeOK, Respond, Goto, Operation, Proc, queueVars, streamVars
<1>9. CASE AutoFinish
  <2>1. "auto" \in Kind
    BY DEF Kind
  <2> QED
    BY <1>9, <2>1, NewActionType
    DEF TypeOK, AutoFinish, Goto, AfterNewAction, Proc, streamVars, finalVars
<1>10. CASE DrainStart
  BY <1>10 DEF TypeOK, DrainStart, Goto, Operation, Proc, queueVars, streamVars
<1>11. CASE DrainRefuse
  <2> PICK a \in Operation : PopAction(a) /\ SetException(a)
    BY <1>11 DEF DrainRefuse
  <2>1. /\ future' \in Seq({"unset", "ok", "failed", "exception"})
        /\ Len(future') = Len(future)
    BY ExceptSeq DEF TypeOK, SetException, Operation
  <2> QED
    BY <1>11, <2>1, TailOfQueue
    DEF TypeOK, DrainRefuse, PopAction, Operation, streamVars, finalVars
<1>12. CASE DrainPerform
  <2> PICK a \in Operation :
        /\ PopAction(a)
        /\ PerformAction(a)
        /\ finishPerformed' = (finishPerformed \/ ~IsWrite(a))
    BY <1>12 DEF DrainPerform
  <2>1. finishPerformed' \in BOOLEAN
    OBVIOUS
  <2> QED
    BY <1>12, <2>1, TailOfQueue, PerformType
    DEF TypeOK, DrainPerform, PopAction, Operation
<1>13. CASE DrainDone
  BY <1>13 DEF TypeOK, DrainDone, UnlockActions, Goto, Operation, Proc, queueVars,
               streamVars, finalVars
<1>14. CASE UNCHANGED vars
  BY <1>14 DEF TypeOK, vars, Operation, queueVars, streamVars, finalVars
<1> QED
  BY <1>1, <1>2, <1>3, <1>4, <1>5, <1>6, <1>7, <1>8, <1>9, <1>10, <1>11, <1>12,
     <1>13, <1>14
  DEF Next, Try, Finalize, Quiescent, Dead

-----------------------------------------------------------------------------
(* The mutexes.                                                            *)

\* Only the holder of _actionsMutex has an operation in hand or is in the loop of
\* finalizeWrite.
LEMMA MutexStep == TypeOK /\ MutexInv /\ [Next]_vars => MutexInv'
<1> SUFFICES ASSUME TypeOK, MutexInv, [Next]_vars PROVE MutexInv'
  OBVIOUS
<1> USE StreamWriterAssumption DEF MutexInv, TypeOK, Proc
<1>1. ASSUME NEW t \in Thread, NEW k \in AppKind, Call(t, k) PROVE MutexInv'
  BY <1>1 DEF Call, Goto, AfterNewAction
<1>2. ASSUME NEW p \in Proc, TryEmpty(p) PROVE MutexInv'
  BY <1>2 DEF TryEmpty, Goto, queueVars
<1>3. ASSUME NEW p \in Proc, TryReady(p) PROVE MutexInv'
  <2> PICK a \in Operation : hand' = a
    BY <1>3 DEF TryReady
  <2>1. a # 0
    BY DEF Operation
  <2> QED
    BY <1>3, <2>1 DEF TryReady, Goto
<1>4. ASSUME NEW p \in Proc, TryRefuse(p) PROVE MutexInv'
  BY <1>4 DEF TryRefuse, Goto
<1>5. ASSUME NEW p \in Proc, Perform(p) PROVE MutexInv'
  BY <1>5 DEF Perform, UnlockActions, Goto
<1>6. ASSUME NEW a \in inflight, NEW ok \in BOOLEAN, SetResult(a, ok) PROVE MutexInv'
  BY <1>6 DEF SetResult, Goto, queueVars
<1>7. CASE Release
  BY <1>7 DEF Release, FinalizeResultImpl, Goto, queueVars
<1>8. CASE Respond
  BY <1>8 DEF Respond, Goto, queueVars
<1>9. CASE AutoFinish
  BY <1>9 DEF AutoFinish, Goto, AfterNewAction
<1>10. CASE DrainStart
  BY <1>10 DEF DrainStart, Goto, queueVars
<1>11. CASE DrainRefuse
  BY <1>11 DEF DrainRefuse
<1>12. CASE DrainPerform
  BY <1>12 DEF DrainPerform
<1>13. CASE DrainDone
  BY <1>13 DEF DrainDone, UnlockActions, Goto, queueVars
<1>14. CASE UNCHANGED vars
  BY <1>14 DEF vars, queueVars
<1> QED
  BY <1>1, <1>2, <1>3, <1>4, <1>5, <1>6, <1>7, <1>8, <1>9, <1>10, <1>11, <1>12,
     <1>13, <1>14
  DEF Next, Try, Finalize, Quiescent, Dead

\* While the loop of finalizeWrite runs nobody has an operation in hand.
LEMMA DrainHandEmpty ==
  ASSUME TypeOK, MutexInv, pc[CQ] = "draining"
  PROVE  hand = 0
BY DEF TypeOK, MutexInv

-----------------------------------------------------------------------------
(* The order of the operations.                                            *)

\* The queue is an increasing sequence of numbers.
LEMMA QueueIncreasing ==
  ASSUME TypeOK, OrderInv
  PROVE  /\ actions \in Seq(Nat)
         /\ \A i, j \in 1 .. Len(actions) : i < j => actions[i] < actions[j]
<1>1. Operation \subseteq Nat
  BY DEF Operation
<1> QED
  BY <1>1, SeqMonotonic DEF TypeOK, OrderInv

\* A new operation at the back of the queue is younger than all others.
LEMMA OrderNewAction ==
  ASSUME TypeOK, OrderInv, NEW k \in Kind, NewAction(k),
         UNCHANGED <<hand, started>>
  PROVE  OrderInv'
<1>1. \A j \in 1 .. Len(actions') :
         \/ j \in 1 .. Len(actions) /\ actions'[j] = actions[j]
         \/ j = Len(actions) + 1 /\ actions'[j] = Len(kind) + 1
  <2>1. /\ actions \in Seq(Nat) /\ Len(kind) + 1 \in Nat
        /\ actions' = Append(actions, Len(kind) + 1)
    BY QueueIncreasing DEF NewAction, TypeOK
  <2> QED
    BY <2>1, AppendProperties
<1>2. \A i \in 1 .. Len(started) : started[i] < Len(kind) + 1
  BY DEF TypeOK, Operation
<1>3. \A i \in 1 .. Len(actions) : actions[i] < Len(kind) + 1
  BY DEF TypeOK, Operation
<1>4. hand < Len(kind) + 1
  BY DEF TypeOK, Operation
<1>5. \A i, j \in 1 .. Len(actions') : i < j => actions'[i] < actions'[j]
  <2> SUFFICES ASSUME NEW i \in 1 .. Len(actions'), NEW j \in 1 .. Len(actions'), i < j
               PROVE  actions'[i] < actions'[j]
    OBVIOUS
  <2>1. Len(actions) \in Nat
    BY DEF TypeOK
  <2>2. i \in 1 .. Len(actions) /\ actions'[i] = actions[i]
    BY <1>1, <2>1
  <2> QED
    BY <1>1, <1>3, <2>2 DEF OrderInv
<1>6. \A i \in 1 .. Len(started), j \in 1 .. Len(actions') : started[i] < actions'[j]
  BY <1>1, <1>2 DEF OrderInv
<1>7. hand # 0 => \A j \in 1 .. Len(actions') : hand < actions'[j]
  BY <1>1, <1>4 DEF OrderInv
<1> QED
  BY <1>5, <1>6, <1>7 DEF OrderInv, PushOrder

LEMMA OrderPop ==
  ASSUME TypeOK, OrderInv, actions # <<>>, actions' = Tail(actions),
         UNCHANGED <<hand, started>>
  PROVE  OrderInv'
<1>1. /\ \A i, j \in 1 .. Len(actions') : i < j => actions'[i] < actions'[j]
      /\ \A j \in 1 .. Len(actions') :
           \E i \in 1 .. Len(actions) : actions'[j] = actions[i]
  BY QueueIncreasing, TailIncreasing
<1>2. \A i \in 1 .. Len(started), j \in 1 .. Len(actions') : started[i] < actions'[j]
  BY <1>1 DEF OrderInv
<1>3. hand # 0 => \A j \in 1 .. Len(actions') : hand < actions'[j]
  BY <1>1 DEF OrderInv
<1>4. hand' = hand /\ started' = started /\ PushOrder
  BY DEF OrderInv
<1>5. PushOrder'
  BY <1>4 DEF PushOrder
<1> QED
  BY <1>1, <1>2, <1>3, <1>4, <1>5 DEF OrderInv

\* An operation older than the queue and younger than the stream's goes to the
\* stream.
LEMMA OrderAppend ==
  ASSUME TypeOK, OrderInv, NEW a \in Operation, PerformAction(a),
         \A i \in 1 .. Len(started) : started[i] < a
  PROVE  /\ \A i, j \in 1 .. Len(started') : i < j => started'[i] < started'[j]
         /\ \A i \in 1 .. Len(started') :
             \/ started'[i] = a
             \/ i \in 1 .. Len(started) /\ started'[i] = started[i]
<1>1. CASE UNCHANGED started
  BY <1>1 DEF OrderInv, PushOrder
<1>2. CASE started' = Append(started, a)
  <2>1. /\ Len(started') = Len(started) + 1
        /\ \A j \in 1 .. Len(started) : started'[j] = started[j]
        /\ started'[Len(started) + 1] = a
        /\ Len(started) \in Nat
    BY <1>2, AppendProperties DEF TypeOK
  <2> QED
    BY <2>1 DEF OrderInv, PushOrder
<1> QED
  BY <1>1, <1>2 DEF PerformAction, GiveToStream, streamVars

LEMMA OrderStep == TypeOK /\ MutexInv /\ OrderInv /\ [Next]_vars => OrderInv'
<1> SUFFICES ASSUME TypeOK, MutexInv, OrderInv, [Next]_vars PROVE OrderInv'
  OBVIOUS
<1>1. ASSUME NEW t \in Thread, NEW k \in AppKind, Call(t, k) PROVE OrderInv'
  <2>1. k \in Kind
    BY StreamWriterAssumption
  <2> QED
    BY <1>1, <2>1, OrderNewAction DEF Call, streamVars
<1>2. ASSUME NEW p \in Proc, TryReady(p) PROVE OrderInv'
  <2>1. /\ \A i, j \in 1 .. Len(actions') : i < j => actions'[i] < actions'[j]
        /\ \A j \in 1 .. Len(actions') :
             /\ hand' < actions'[j]
             /\ \E i \in 1 .. Len(actions) : actions'[j] = actions[i]
    BY <1>2, QueueIncreasing, TailIncreasing DEF TryReady, PopAction
  <2>2. hand' = actions[1] /\ 1 \in 1 .. Len(actions)
    BY <1>2, TailOfQueue DEF TryReady, PopAction, TypeOK
  <2>3. UNCHANGED started
    BY <1>2 DEF TryReady, streamVars
  <2> QED
    BY <2>1, <2>2, <2>3 DEF OrderInv, PushOrder, TypeOK
<1>3. ASSUME NEW p \in Proc, TryRefuse(p) PROVE OrderInv'
  BY <1>3, OrderPop DEF TryRefuse, PopAction, streamVars
<1>4. ASSUME NEW p \in Proc, Perform(p) PROVE OrderInv'
  <2>1. hand \in Operation /\ hand # 0
    BY <1>4 DEF Perform, MutexInv, TypeOK
  <2>2. /\ \A i, j \in 1 .. Len(started') : i < j => started'[i] < started'[j]
        /\ \A i \in 1 .. Len(started') :
             \/ started'[i] = hand
             \/ i \in 1 .. Len(started) /\ started'[i] = started[i]
    BY <1>4, <2>1, OrderAppend DEF Perform, OrderInv
  <2>3. UNCHANGED actions /\ hand' = 0
    BY <1>4 DEF Perform
  <2> QED
    BY <2>1, <2>2, <2>3 DEF OrderInv, PushOrder
<1>5. CASE AutoFinish
  BY <1>5, OrderNewAction DEF AutoFinish, streamVars, Kind
<1>6. CASE DrainRefuse
  BY <1>6, OrderPop DEF DrainRefuse, PopAction, streamVars
<1>7. CASE DrainPerform
  <2> PICK a \in Operation : PopAction(a) /\ PerformAction(a)
    BY <1>7 DEF DrainPerform
  <2>1. /\ \A i, j \in 1 .. Len(actions') : i < j => actions'[i] < actions'[j]
        /\ \A j \in 1 .. Len(actions') :
             /\ a < actions'[j]
             /\ \E i \in 1 .. Len(actions) : actions'[j] = actions[i]
    BY <1>7, QueueIncreasing, TailIncreasing DEF DrainPerform, PopAction
  <2>2. a = actions[1] /\ 1 \in 1 .. Len(actions)
    BY <1>7, TailOfQueue DEF DrainPerform, PopAction, TypeOK
  <2>3. /\ \A i, j \in 1 .. Len(started') : i < j => started'[i] < started'[j]
        /\ \A i \in 1 .. Len(started') :
             \/ started'[i] = a
             \/ i \in 1 .. Len(started) /\ started'[i] = started[i]
    BY <2>2, OrderAppend DEF OrderInv
  <2>4. hand' = 0
    BY <1>7, DrainHandEmpty DEF DrainPerform
  <2> QED
    BY <2>1, <2>2, <2>3, <2>4 DEF OrderInv, PushOrder
<1>8. CASE UNCHANGED <<actions, hand, started>>
  BY <1>8 DEF OrderInv, PushOrder
<1> QED
  BY <1>1, <1>2, <1>3, <1>4, <1>5, <1>6, <1>7, <1>8
  DEF Next, Try, Finalize, Quiescent, Dead, vars, queueVars, streamVars,
      TryEmpty, SetResult, Release, Respond, DrainStart, DrainDone

LEMMA OrderInit == Init => OrderInv
BY DEF Init, OrderInv, PushOrder

-----------------------------------------------------------------------------
(* Refinement: the writer is a lossy first-in first-out channel.           *)

\* An operation put before a sequence.
LEMMA Prepend ==
  ASSUME NEW S, NEW s \in Seq(S), NEW x \in S, NEW y \in S
  PROVE  /\ <<x>> \o s # <<>>
         /\ Head(<<x>> \o s) = x
         /\ Tail(<<x>> \o s) = s
         /\ Append(<<x>> \o s, y) = <<x>> \o Append(s, y)
<1>1. /\ <<x>> \o s \in Seq(S)
      /\ Len(<<x>> \o s) = 1 + Len(s)
      /\ \A i \in 1 .. Len(s) + 1 :
           (<<x>> \o s)[i] = IF i = 1 THEN x ELSE s[i - 1]
  BY ConcatProperties
<1>2. <<x>> \o s # <<>> /\ Head(<<x>> \o s) = x
  BY <1>1, TailOfQueue
<1>3. Tail(<<x>> \o s) = s
  <2>1. /\ Tail(<<x>> \o s) \in Seq(S)
        /\ Len(Tail(<<x>> \o s)) = Len(s)
        /\ \A i \in 1 .. Len(s) : Tail(<<x>> \o s)[i] = s[i]
    BY <1>1, <1>2, HeadTailProperties
  <2> QED
    BY <2>1, SeqEqual
<1>4. Append(<<x>> \o s, y) = <<x>> \o Append(s, y)
  BY <1>1, AppendIsConcat, ConcatAssociative
<1> QED
  BY <1>2, <1>3, <1>4

\* Taking the oldest operation in hand leaves the order of what is pending.
LEMMA HeadThenTail ==
  ASSUME NEW S, NEW s \in Seq(S), s # <<>>
  PROVE  <<Head(s)>> \o Tail(s) = s
<1> DEFINE t == <<Head(s)>> \o Tail(s)
<1>1. Head(s) \in S /\ Tail(s) \in Seq(S) /\ Len(Tail(s)) = Len(s) - 1
  BY TailOfQueue
<1>2. /\ t \in Seq(S)
      /\ Len(t) = Len(s)
      /\ \A i \in 1 .. Len(s) : t[i] = s[i]
  BY <1>1, TailOfQueue, ConcatProperties
<1> QED
  BY <1>2, SeqEqual

\* With _actionsMutex free nobody has an operation in hand.
LEMMA FreeHandEmpty ==
  ASSUME TypeOK, MutexInv, actionsMutex = NoThread
  PROVE  hand = 0
BY StreamWriterAssumption DEF MutexInv, Proc

LEMMA RefinementStep ==
  TypeOK /\ MutexInv /\ [Next]_vars => [Fifo!Next]_Fifo!vars
<1> SUFFICES ASSUME TypeOK, MutexInv, [Next]_vars PROVE [Fifo!Next]_Fifo!vars
  OBVIOUS
<1> DEFINE pending == IF hand = 0 THEN actions ELSE <<hand>> \o actions
<1> USE DEF Fifo!Next, Fifo!vars
<1>1. ASSUME NEW k \in Kind, NewAction(k), UNCHANGED <<hand, started>>
      PROVE  Fifo!Submit
  <2>1. Len(kind') = Len(kind) + 1 /\ Len(kind) + 1 \in Nat
    BY <1>1, NewActionType DEF TypeOK
  <2>2. hand = 0
    BY <1>1, FreeHandEmpty DEF NewAction
  <2> QED
    BY <1>1, <2>1, <2>2 DEF Fifo!Submit, NewAction
<1>2. ASSUME NEW a, a = Head(actions), actions # <<>>, hand = 0, hand' = 0,
             actions' = Tail(actions), UNCHANGED kind
      PROVE  /\ UNCHANGED started => Fifo!Discard
             /\ started' = Append(started, a) => Fifo!Deliver
  BY <1>2 DEF Fifo!Discard, Fifo!Deliver
<1>3. ASSUME NEW t \in Thread, NEW k \in AppKind, Call(t, k) PROVE Fifo!Next
  <2>1. k \in Kind
    BY StreamWriterAssumption
  <2> QED
    BY <1>1, <1>3, <2>1 DEF Call, streamVars
<1>4. ASSUME NEW p \in Proc, TryReady(p) PROVE UNCHANGED Fifo!vars
  <2>1. hand = 0
    BY <1>4, FreeHandEmpty DEF TryReady
  <2>2. hand' = Head(actions) /\ hand' # 0 /\ actions' = Tail(actions)
    BY <1>4 DEF TryReady, PopAction, Operation
  <2>3. <<hand'>> \o actions' = actions
    BY <1>4, <2>2, HeadThenTail DEF TypeOK, TryReady
  <2> QED
    BY <1>4, <2>1, <2>2, <2>3 DEF TryReady, streamVars
<1>5. ASSUME NEW p \in Proc, TryRefuse(p) PROVE Fifo!Next
  <2>1. hand = 0
    BY <1>5, FreeHandEmpty DEF TryRefuse
  <2> QED
    BY <1>2, <1>5, <2>1 DEF TryRefuse, PopAction, streamVars
<1>6. ASSUME NEW p \in Proc, Perform(p) PROVE Fifo!Next
  <2>1. hand \in Operation /\ hand # 0
    BY <1>6 DEF Perform, MutexInv, TypeOK
  <2>2. pending # <<>> /\ Head(pending) = hand /\ Tail(pending) = actions
    BY <2>1, Prepend DEF TypeOK
  <2>3. hand' = 0 /\ UNCHANGED <<kind, actions>>
    BY <1>6 DEF Perform
  <2>4. started' \in {started, Append(started, hand)}
    BY <1>6 DEF Perform, PerformAction, GiveToStream, streamVars
  <2> QED
    BY <2>1, <2>2, <2>3, <2>4 DEF Fifo!Deliver, Fifo!Discard
<1>7. CASE AutoFinish
  BY <1>1, <1>7 DEF AutoFinish, streamVars, Kind
<1>8. CASE DrainRefuse
  BY <1>2, <1>8, DrainHandEmpty DEF DrainRefuse, PopAction, streamVars
<1>9. CASE DrainPerform
  <2> PICK a \in Operation : PopAction(a) /\ PerformAction(a)
    BY <1>9 DEF DrainPerform
  <2>1. hand = 0
    BY <1>9, DrainHandEmpty DEF DrainPerform
  <2>2. started' \in {started, Append(started, a)}
    BY DEF PerformAction, GiveToStream, streamVars
  <2> QED
    BY <1>2, <1>9, <2>1, <2>2 DEF DrainPerform, PopAction
<1>10. CASE UNCHANGED <<kind, actions, hand, started>>
  BY <1>10
<1> QED
  BY <1>3, <1>4, <1>5, <1>6, <1>7, <1>8, <1>9, <1>10
  DEF Next, Try, Finalize, Quiescent, Dead, vars, queueVars, streamVars,
      TryEmpty, SetResult, Release, Respond, DrainStart, DrainDone

-----------------------------------------------------------------------------
(* No operation is stranded on the queue.                                  *)

\* There are finitely many threads, so those about to try can be counted.
LEMMA TryingFinite ==
  ASSUME NEW T \in SUBSET Proc
  PROVE  IsFiniteSet(T) /\ Cardinality(T) \in Nat
<1>1. IsFiniteSet(Proc)
  BY StreamWriterAssumption, FS_AddElement DEF Proc
<1> QED
  BY <1>1, FS_Subset, FS_CardinalityType

\* A thread that pushed is counted, one that takes an operation no longer is.
LEMMA CoverMove ==
  ASSUME TypeOK, NEW p \in Proc
  PROVE  /\ pc[p] # "try" /\ Goto(p, "try")
              => Cardinality(Trying') = Cardinality(Trying) + 1
         /\ pc[p] = "try" /\ Goto(p, "idle")
              => Cardinality(Trying') = Cardinality(Trying) - 1
         /\ pc[p] = "try" /\ Goto(p, "perform")
              => Cardinality(Trying') = Cardinality(Trying) - 1
<1>1. IsFiniteSet(Trying) /\ Cardinality(Trying) \in Nat
  BY TryingFinite DEF Trying
<1>2. ASSUME pc[p] # "try", Goto(p, "try")
      PROVE  Cardinality(Trying') = Cardinality(Trying) + 1
  <2>1. p \notin Trying /\ Trying' = Trying \cup {p}
    BY <1>2 DEF TypeOK, Trying, Goto
  <2> QED
    BY <1>1, <2>1, FS_AddElement
<1>3. ASSUME NEW l \in {"idle", "perform"}, pc[p] = "try", Goto(p, l)
      PROVE  Cardinality(Trying') = Cardinality(Trying) - 1
  <2>1. p \in Trying /\ Trying' = Trying \ {p}
    BY <1>3 DEF TypeOK, Trying, Goto
  <2> QED
    BY <1>1, <2>1, FS_RemoveElement
<1> QED
  BY <1>2, <1>3

LEMMA CoverStep == TypeOK /\ QueueCovered /\ [Next]_vars => QueueCovered'
<1> SUFFICES ASSUME TypeOK, QueueCovered, [Next]_vars PROVE QueueCovered'
  OBVIOUS
<1>1. Len(actions) \in Nat /\ Cardinality(Trying) \in Nat
  BY TryingFinite DEF TypeOK, Trying
<1>2. ASSUME NEW p \in Proc, NEW k, NewAction(k), pc[p] # "try", Goto(p, "try")
      PROVE  QueueCovered'
  <2>1. Len(actions') = Len(actions) + 1
    BY <1>2 DEF NewAction, TypeOK
  <2> QED
    BY <1>1, <1>2, <2>1, CoverMove DEF QueueCovered
<1>3. ASSUME actions # <<>>, actions' = Tail(actions)
      PROVE  Len(actions') = Len(actions) - 1
  BY <1>3, TailOfQueue DEF TypeOK
<1>4. ASSUME NEW t \in Thread, NEW k \in AppKind, Call(t, k) PROVE QueueCovered'
  BY <1>2, <1>4 DEF Call, AfterNewAction, Proc
<1>5. ASSUME NEW p \in Proc, TryEmpty(p) PROVE QueueCovered'
  <2>1. Len(actions') = 0
    BY <1>5 DEF TryEmpty, queueVars
  <2>2. Cardinality(Trying') \in Nat
    BY TryingFinite DEF Trying
  <2> QED
    BY <2>1, <2>2 DEF QueueCovered
<1>6. ASSUME NEW p \in Proc, TryReady(p) PROVE QueueCovered'
  BY <1>1, <1>3, <1>6, CoverMove DEF TryReady, PopAction, QueueCovered
<1>7. ASSUME NEW p \in Proc, TryRefuse(p) PROVE QueueCovered'
  BY <1>1, <1>3, <1>7, CoverMove DEF TryRefuse, PopAction, QueueCovered
<1>8. CASE AutoFinish
  BY <1>2, <1>8 DEF AutoFinish, AfterNewAction, Proc
<1>9. ASSUME UNCHANGED pc, actions # <<>>, actions' = Tail(actions)
      PROVE  QueueCovered'
  BY <1>1, <1>3, <1>9 DEF QueueCovered, Trying
<1>10. CASE DrainRefuse \/ DrainPerform
  BY <1>9, <1>10 DEF DrainRefuse, DrainPerform, PopAction
<1>11. ASSUME UNCHANGED actions, NEW p \in Proc, pc[p] # "try",
              NEW l, l # "try", Goto(p, l)
       PROVE  QueueCovered'
  <2>1. Trying' = Trying
    BY <1>11 DEF TypeOK, Trying, Goto
  <2> QED
    BY <1>11, <2>1 DEF QueueCovered
<1>12. ASSUME NEW p \in Proc, Perform(p) PROVE QueueCovered'
  BY <1>11, <1>12 DEF Perform
<1>13. ASSUME NEW a \in inflight, NEW ok \in BOOLEAN, SetResult(a, ok)
       PROVE  QueueCovered'
  BY <1>11, <1>13 DEF SetResult, queueVars, Proc
<1>14. CASE Release \/ Respond \/ DrainStart \/ DrainDone
  <2>1. FinalizeResultImpl # "try"
    BY DEF FinalizeResultImpl
  <2> QED
    BY <1>11, <1>14, <2>1
    DEF Release, Respond, DrainStart, DrainDone, queueVars, Proc
<1>15. CASE UNCHANGED vars
  BY <1>15 DEF vars, queueVars, QueueCovered, Trying
<1> QED
  BY <1>4, <1>5, <1>6, <1>7, <1>8, <1>10, <1>12, <1>13, <1>14, <1>15
  DEF Next, Try, Finalize, Quiescent, Dead

LEMMA CoverInit == Init => QueueCovered
<1> SUFFICES ASSUME Init PROVE QueueCovered
  OBVIOUS
<1>1. Len(actions) = 0
  BY DEF Init
<1> QED
  BY <1>1, TryingFinite DEF QueueCovered, Trying

-----------------------------------------------------------------------------
(* What became of each operation.                                          *)

\* A thread's operation is new: unknown to the stream, its future unset.
LEMMA FateNewAction ==
  ASSUME TypeOK, FateInv, NEW k \in Kind, NewAction(k), UNCHANGED <<hand, streamVars>>
  PROVE  FateInv'
<1>1. /\ Operation' = Operation \cup {Len(kind) + 1}
      /\ Len(kind) + 1 \notin Operation
      /\ Len(kind) \in Nat
  BY NewActionType DEF Operation, TypeOK
<1>2. /\ \A a \in Operation : future'[a] = future[a]
      /\ future'[Len(kind) + 1] = "unset"
  BY DEF NewAction, TypeOK, Operation
<1>3. StartedSet' = StartedSet /\ StartedSet \subseteq Operation
  BY DEF StartedSet, TypeOK, streamVars
<1>4. QueuedSet' \subseteq QueuedSet \cup {Len(kind) + 1}
  <2>1. actions \in Seq(Nat) /\ Len(kind) + 1 \in Nat
    BY <1>1, SeqMonotonic DEF TypeOK, Operation
  <2> QED
    BY <2>1, AppendProperties DEF NewAction, QueuedSet
<1>5. hand' = hand /\ inflight' = inflight
  BY DEF streamVars
<1> QED
  BY <1>1, <1>2, <1>3, <1>4, <1>5 DEF FateInv, FutureTellsFate

\* What the queue holds once its oldest operation is taken.
LEMMA QueuedAfterPop ==
  ASSUME TypeOK, OrderInv, actions # <<>>, actions' = Tail(actions)
  PROVE  /\ QueuedSet' \subseteq QueuedSet \ {Head(actions)}
         /\ Head(actions) \in QueuedSet
         /\ Head(actions) \in Operation
<1>1. /\ \A j \in 1 .. Len(actions') : Head(actions) < actions'[j]
      /\ \A j \in 1 .. Len(actions') :
           \E i \in 1 .. Len(actions) : actions'[j] = actions[i]
  BY QueueIncreasing, TailIncreasing
<1>2. /\ Head(actions) = actions[1] /\ 1 \in 1 .. Len(actions)
      /\ Head(actions) \in Operation
  BY TailOfQueue DEF TypeOK
<1> QED
  BY <1>1, <1>2 DEF QueuedSet, Operation

\* An operation leaves the queue, or the hand, for the stream or for nowhere.
LEMMA FatePerform ==
  ASSUME TypeOK, FateInv, NEW a \in Operation, PerformAction(a),
         a \in QueuedSet \cup {hand}, UNCHANGED <<kind, future>>,
         (QueuedSet \cup {hand})' \subseteq (QueuedSet \cup {hand, 0}) \ {a}
  PROVE  FateInv'
<1>1. Operation' = Operation /\ 0 \notin Operation
  BY DEF Operation
<1>2. future[a] = "unset" /\ a \notin StartedSet
  BY DEF FateInv, FutureTellsFate
<1>3. CASE UNCHANGED <<started, inflight>>
  <2>1. StartedSet' = StartedSet
    BY <1>3 DEF StartedSet
  <2> QED
    BY <1>1, <1>3, <2>1 DEF FateInv, FutureTellsFate
<1>4. CASE started' = Append(started, a) /\ inflight' = inflight \cup {a}
  <2>1. StartedSet' = StartedSet \cup {a}
    BY <1>4, AppendProperties DEF StartedSet, TypeOK
  <2> QED
    BY <1>1, <1>2, <1>4, <2>1 DEF FateInv, FutureTellsFate
<1> QED
  BY <1>3, <1>4 DEF PerformAction, GiveToStream, streamVars

LEMMA FateStep ==
  TypeOK /\ MutexInv /\ OrderInv /\ FateInv /\ [Next]_vars => FateInv'
<1> SUFFICES ASSUME TypeOK, MutexInv, OrderInv, FateInv, [Next]_vars PROVE FateInv'
  OBVIOUS
<1>1. ASSUME NEW t \in Thread, NEW k \in AppKind, Call(t, k) PROVE FateInv'
  <2>1. k \in Kind
    BY StreamWriterAssumption
  <2> QED
    BY <1>1, <2>1, FateNewAction DEF Call
<1>2. ASSUME NEW p \in Proc, TryReady(p) PROVE FateInv'
  <2>1. hand' = Head(actions) /\ actions # <<>> /\ actions' = Tail(actions)
    BY <1>2 DEF TryReady, PopAction
  <2>2. (QueuedSet \cup {hand})' \subseteq QueuedSet
    BY <2>1, QueuedAfterPop
  <2>3. UNCHANGED <<kind, future, started, inflight>>
    BY <1>2 DEF TryReady, streamVars
  <2> QED
    BY <2>2, <2>3 DEF FateInv, FutureTellsFate, Operation, StartedSet
<1>3. ASSUME NEW p \in Proc, TryRefuse(p) PROVE FateInv'
  <2>1. (QueuedSet \cup {hand})' \subseteq QueuedSet \cup {hand}
    BY <1>3, QueuedAfterPop DEF TryRefuse, PopAction
  <2>2. UNCHANGED <<kind, future, started, inflight>>
    BY <1>3 DEF TryRefuse, streamVars, TypeOK
  <2> QED
    BY <2>1, <2>2 DEF FateInv, FutureTellsFate, Operation, StartedSet
<1>4. ASSUME NEW p \in Proc, Perform(p) PROVE FateInv'
  <2>1. hand \in Operation /\ hand # 0
    BY <1>4 DEF Perform, MutexInv, TypeOK
  <2>2. hand' = 0 /\ UNCHANGED <<kind, actions, future>>
    BY <1>4 DEF Perform
  <2>3. hand \notin QueuedSet /\ QueuedSet' = QueuedSet
    BY <2>1, <2>2 DEF QueuedSet, OrderInv, Operation
  <2> QED
    BY <1>4, <2>1, <2>2, <2>3, FatePerform DEF Perform
<1>5. ASSUME NEW a \in inflight, NEW ok \in BOOLEAN, SetResult(a, ok) PROVE FateInv'
  <2>1. /\ inflight' = inflight \ {a}
        /\ future' = [future EXCEPT ![a] = Result(ok)]
        /\ UNCHANGED <<kind, actions, hand, started>>
    BY <1>5 DEF SetResult, queueVars
  <2>2. a \in StartedSet /\ a \in Operation
    BY DEF FateInv, TypeOK
  <2>3. Result(ok) \in {"ok", "failed"}
    BY DEF Result
  <2>4. /\ future'[a] \in {"ok", "failed"}
        /\ \A b \in Operation : b # a => future'[b] = future[b]
    BY <2>1, <2>2, <2>3, ExceptSeq DEF TypeOK, Operation
  <2>5. /\ Operation' = Operation /\ StartedSet' = StartedSet
        /\ QueuedSet' = QueuedSet
    BY <2>1 DEF Operation, StartedSet, QueuedSet
  <2> QED
    BY <2>1, <2>2, <2>4, <2>5 DEF FateInv, FutureTellsFate
<1>6. CASE AutoFinish
  BY <1>6, FateNewAction DEF AutoFinish, Kind
<1>7. CASE DrainRefuse
  <2> PICK a \in Operation : PopAction(a) /\ SetException(a)
    BY <1>7 DEF DrainRefuse
  <2>1. a \in QueuedSet /\ QueuedSet' \subseteq QueuedSet \ {a}
    BY <1>7, QueuedAfterPop DEF DrainRefuse, PopAction
  <2>2. hand = 0 /\ UNCHANGED <<kind, hand, started, inflight>>
    BY <1>7, DrainHandEmpty DEF DrainRefuse, streamVars
  <2>3. /\ future'[a] = "exception"
        /\ \A b \in Operation : b # a => future'[b] = future[b]
    BY ExceptSeq DEF SetException, TypeOK, Operation
  <2>4. Operation' = Operation /\ StartedSet' = StartedSet /\ 0 \notin Operation
    BY <2>2 DEF Operation, StartedSet
  <2> QED
    BY <2>1, <2>2, <2>3, <2>4 DEF FateInv, FutureTellsFate
<1>8. CASE DrainPerform
  <2> PICK a \in Operation : PopAction(a) /\ PerformAction(a)
    BY <1>8 DEF DrainPerform
  <2>1. a \in QueuedSet /\ QueuedSet' \subseteq QueuedSet \ {a}
    BY <1>8, QueuedAfterPop DEF DrainPerform, PopAction
  <2>2. hand = 0 /\ UNCHANGED <<kind, hand, future>>
    BY <1>8, DrainHandEmpty DEF DrainPerform
  <2>3. a # 0
    BY DEF Operation
  <2> QED
    BY <2>1, <2>2, <2>3, FatePerform
<1>9. CASE UNCHANGED <<queueVars, future, streamVars>>
  BY <1>9 DEF FateInv, FutureTellsFate, Operation, StartedSet, QueuedSet,
              queueVars, streamVars
<1> QED
  BY <1>1, <1>2, <1>3, <1>4, <1>5, <1>6, <1>7, <1>8, <1>9
  DEF Next, Try, Finalize, Quiescent, Dead, vars, TryEmpty, Release, Respond,
      DrainStart, DrainDone

LEMMA FateInit == Init => FateInv
BY DEF Init, FateInv, FutureTellsFate, Operation, StartedSet, QueuedSet

-----------------------------------------------------------------------------
(* Why an operation is refused.                                            *)

\* A step that keeps what the stream has and what an operation is, refuses nothing
\* and enters the loop of finalizeWrite no further.
LEMMA LoopKept ==
  ASSUME TypeOK, LoopInv, StartedSet \subseteq StartedSet',
         \A a \in Operation : kind'[a] = kind[a],
         \A b \in Operation' : future'[b] = "exception" =>
           b \in Operation /\ future[b] = "exception",
         pc'[CQ] \in {"release", "drain", "draining"} => pc'[CQ] = pc[CQ] /\ fin' = fin,
         pc'[CQ] = "draining" => finishPerformed' = finishPerformed,
         Alive' => Alive
  PROVE  LoopInv'
<1>1. StartedSet \subseteq Operation
  BY DEF StartedSet, TypeOK
<1>2. \A a \in Operation : IsWrite(a)' <=> IsWrite(a)
  BY DEF IsWrite
<1>3. RefusedWithReason'
  BY <1>1, <1>2 DEF LoopInv, RefusedWithReason
<1> QED
  BY <1>1, <1>2, <1>3 DEF LoopInv

LEMMA LoopNewAction ==
  ASSUME TypeOK, LoopInv, NEW k \in Kind, NewAction(k), NEW p \in Proc,
         Goto(p, "try"), UNCHANGED <<streamVars, finalVars, aborted>>
  PROVE  LoopInv'
<1>1. /\ \A a \in Operation : kind'[a] = kind[a] /\ future'[a] = future[a]
      /\ Operation' = Operation \cup {Len(kind) + 1}
      /\ future'[Len(kind) + 1] = "unset"
  BY NewActionType DEF NewAction, TypeOK, Operation
<1>2. StartedSet' = StartedSet
  BY DEF StartedSet, streamVars
<1>3. pc'[CQ] \in {"try", pc[CQ]}
  BY DEF Goto, TypeOK, Proc
<1> QED
  BY <1>1, <1>2, <1>3, LoopKept DEF finalVars, Alive

\* perform() gives the operation to the stream or stops the process.
LEMMA LoopPerform ==
  ASSUME TypeOK, NEW a \in Operation, PerformAction(a)
  PROVE  /\ StartedSet \subseteq StartedSet'
         /\ Alive' => a \in StartedSet' /\ Alive
<1>1. CASE UNCHANGED <<started, inflight>> /\ aborted' = "assert"
  BY <1>1 DEF StartedSet, Alive
<1>2. CASE GiveToStream(a)
  <2>1. StartedSet' = StartedSet \cup {a}
    BY <1>2, AppendProperties DEF GiveToStream, StartedSet, TypeOK
  <2> QED
    BY <1>2, <2>1 DEF GiveToStream, Alive
<1> QED
  BY <1>1, <1>2 DEF PerformAction, streamVars

LEMMA LoopStep ==
  TypeOK /\ MutexInv /\ OrderInv /\ FateInv /\ LoopInv /\ [Next]_vars => LoopInv'
<1> SUFFICES ASSUME TypeOK, MutexInv, OrderInv, FateInv, LoopInv, [Next]_vars
             PROVE  LoopInv'
  OBVIOUS
<1>1. ASSUME NEW t \in Thread, NEW k \in AppKind, Call(t, k) PROVE LoopInv'
  <2>1. k \in Kind /\ t \in Proc
    BY StreamWriterAssumption DEF Proc
  <2> QED
    BY <1>1, <2>1, LoopNewAction DEF Call, AfterNewAction
<1>2. ASSUME NEW p \in Proc, TryEmpty(p) \/ TryReady(p) \/ TryRefuse(p)
      PROVE  LoopInv'
  <2>1. UNCHANGED <<kind, future, started, finalVars, aborted>>
    BY <1>2 DEF TryEmpty, TryReady, TryRefuse, queueVars, streamVars, TypeOK
  <2>2. pc'[CQ] \in {pc[CQ], "idle", "perform"}
    BY <1>2 DEF TryEmpty, TryReady, TryRefuse, Goto, TypeOK, Proc
  <2> QED
    BY <2>1, <2>2, LoopKept DEF StartedSet, Operation, Alive, finalVars
<1>3. ASSUME NEW p \in Proc, Perform(p) PROVE LoopInv'
  <2>1. hand \in Operation
    BY <1>3 DEF Perform, MutexInv, TypeOK
  <2>2. StartedSet \subseteq StartedSet' /\ (Alive' => Alive)
    BY <1>3, <2>1, LoopPerform DEF Perform
  <2>3. pc'[CQ] \in {pc[CQ], "idle"}
    BY <1>3 DEF Perform, Goto, TypeOK, Proc
  <2> QED
    BY <1>3, <2>2, <2>3, LoopKept DEF Perform, Operation, finalVars
<1>4. ASSUME NEW a \in inflight, NEW ok \in BOOLEAN, SetResult(a, ok) PROVE LoopInv'
  <2>1. /\ fin' = a /\ a \in StartedSet /\ a \in Operation
        /\ UNCHANGED <<kind, started>> /\ pc'[CQ] = "release"
    BY <1>4 DEF SetResult, queueVars, FateInv, TypeOK, Goto, Proc
  <2>2. \A b \in Operation : future'[b] = "exception" => future[b] = "exception"
    BY <1>4, <2>1 DEF SetResult, Result, TypeOK, Operation
  <2> QED
    BY <2>1, <2>2 DEF LoopInv, RefusedWithReason, StartedSet, Operation, IsWrite
<1>5. CASE AutoFinish
  BY <1>5, LoopNewAction DEF AutoFinish, AfterNewAction, Kind, Proc
<1>6. CASE Release \/ Respond \/ DrainStart \/ DrainDone
  <2>1. UNCHANGED <<kind, future, started, fin, aborted>>
    BY <1>6 DEF Release, Respond, DrainStart, DrainDone, queueVars, streamVars, finalVars
  <2>2. pc'[CQ] = "drain" => pc[CQ] = "release"
    BY <1>6 DEF Release, Respond, DrainStart, DrainDone, Goto, TypeOK, Proc
  <2>3. /\ pc'[CQ] # "release"
        /\ pc'[CQ] = "draining" => pc[CQ] = "drain" /\ ~finishPerformed'
    BY <1>6 DEF Release, FinalizeResultImpl, Respond, DrainStart, DrainDone, Goto,
                TypeOK, Proc
  <2> QED
    BY <2>1, <2>2, <2>3 DEF LoopInv, RefusedWithReason, StartedSet, Operation, IsWrite
<1>7. CASE DrainRefuse
  <2> PICK b \in Operation : PopAction(b) /\ DrainRefuses(b) /\ SetException(b)
    BY <1>7 DEF DrainRefuse
  <2>1. Alive /\ pc[CQ] = "draining" /\ UNCHANGED <<kind, started, pc, finalVars, aborted>>
    BY <1>7 DEF DrainRefuse, streamVars
  <2>2. \A a \in StartedSet : a < b
    BY <1>7, TailOfQueue DEF DrainRefuse, PopAction, OrderInv, StartedSet, TypeOK
  <2>3. \E a \in StartedSet : ~IsWrite(a) \/ (IsWrite(b) /\ kind[a] = "last")
    BY <2>1 DEF DrainRefuses, LoopInv
  <2>4. \A c \in Operation : c # b => future'[c] = future[c]
    BY DEF SetException, TypeOK, Operation
  <2>5. RefusedWithReason'
    BY <2>1, <2>2, <2>3, <2>4
       DEF LoopInv, RefusedWithReason, Operation, StartedSet, IsWrite
  <2> QED
    BY <2>1, <2>5 DEF LoopInv, StartedSet, IsWrite, finalVars, Alive
<1>8. CASE DrainPerform
  <2> PICK a \in Operation : /\ PerformAction(a)
                             /\ finishPerformed' = (finishPerformed \/ ~IsWrite(a))
    BY <1>8 DEF DrainPerform
  <2>1. /\ Alive /\ pc[CQ] = "draining" /\ UNCHANGED <<kind, future, pc, fin>>
        /\ StartedSet \subseteq StartedSet' /\ (Alive' => a \in StartedSet')
    BY <1>8, LoopPerform DEF DrainPerform
  <2> QED
    BY <2>1 DEF LoopInv, RefusedWithReason, Operation, IsWrite
<1>9. CASE UNCHANGED vars
  BY <1>9 DEF vars, queueVars, streamVars, finalVars, LoopInv, RefusedWithReason,
              StartedSet, Operation, IsWrite, Alive
<1> QED
  BY <1>1, <1>2, <1>3, <1>4, <1>5, <1>6, <1>7, <1>8, <1>9
  DEF Next, Try, Finalize, Quiescent, Dead

LEMMA LoopInit == Init => LoopInv
BY StreamWriterAssumption DEF Init, LoopInv, RefusedWithReason, Operation, Proc

-----------------------------------------------------------------------------
(* One operation at a time: in a debug build, or with callers that wait.   *)

\* What has to be shown of perform() in either case: it stops the process, or it finds
\* the stream idle.
LEMMA OneInFlightStep ==
  ASSUME TypeOK, MutexInv, OneInFlight, [Next]_vars,
         Asserts \/ ((\E p \in Proc : Perform(p)) \/ DrainPerform => state = "Ready")
  PROVE  OneInFlight'
<1> USE DEF OneInFlight, StateTracksStream
<1>1. ASSUME NEW a, PerformAction(a), pc[CQ] # "release", pc'[CQ] # "release",
             Asserts \/ state = "Ready"
      PROVE  OneInFlight'
  <2>1. CASE state # "Ready"
    BY <1>1, <2>1 DEF PerformAction, streamVars
  <2>2. CASE state = "Ready"
    BY <1>1, <2>2 DEF PerformAction, GiveToStream
  <2> QED
    BY <2>1, <2>2
<1>2. ASSUME NEW p \in Proc, NEW l, l # "release", pc[p] # "release", Goto(p, l),
             UNCHANGED <<inflight, state>>
      PROVE  OneInFlight'
  BY <1>2 DEF Goto, TypeOK, Proc
<1>3. ASSUME NEW t \in Thread, NEW k \in AppKind, Call(t, k) PROVE OneInFlight'
  BY <1>2, <1>3 DEF Call, AfterNewAction, streamVars, Proc
<1>4. ASSUME NEW p \in Proc, TryEmpty(p) \/ TryReady(p) \/ TryRefuse(p)
      PROVE  OneInFlight'
  BY <1>2, <1>4 DEF TryEmpty, TryReady, TryRefuse, streamVars
<1>5. ASSUME NEW p \in Proc, Perform(p) PROVE OneInFlight'
  <2>1. pc[CQ] # "release"
    BY <1>5, StreamWriterAssumption DEF Perform, MutexInv, Proc
  <2> QED
    BY <1>1, <1>5, <2>1 DEF Perform, Goto, TypeOK, Proc
<1>6. ASSUME NEW a \in inflight, NEW ok \in BOOLEAN, SetResult(a, ok) PROVE OneInFlight'
  BY <1>6 DEF SetResult, Goto, TypeOK, Proc
<1>7. CASE Release
  <2>1. inflight' = {} /\ state' = "Ready" /\ pc'[CQ] # "release"
    BY <1>7 DEF Release, ReleasedState, FinalizeResultImpl, Goto, TypeOK, Proc, streamVars
  <2> QED
    BY <2>1
<1>8. CASE Respond \/ AutoFinish \/ DrainStart \/ DrainDone
  BY <1>2, <1>8 DEF Respond, AutoFinish, AfterNewAction, DrainStart, DrainDone,
                    streamVars, Proc
<1>9. CASE DrainRefuse
  BY <1>9 DEF DrainRefuse, streamVars
<1>10. CASE DrainPerform
  <2> PICK a \in Operation : PerformAction(a)
    BY <1>10 DEF DrainPerform
  <2> QED
    BY <1>1, <1>10 DEF DrainPerform
<1>11. CASE UNCHANGED vars
  BY <1>11 DEF vars, streamVars
<1> QED
  BY <1>3, <1>4, <1>5, <1>6, <1>7, <1>8, <1>9, <1>10, <1>11
  DEF Next, Try, Finalize, Quiescent, Dead

LEMMA OneInFlightInit == Init => OneInFlight
BY StreamWriterAssumption DEF Init, OneInFlight, StateTracksStream, Proc

-----------------------------------------------------------------------------
(* Callers that wait for every future.                                     *)

\* An operation that the stream has, or that is still to be performed, has no result.
LEMMA UnsetUntilReturned ==
  ASSUME TypeOK, FateInv
  PROVE  /\ \A a \in inflight : a \in Operation /\ future[a] = "unset"
         /\ \A a \in Operation : a \in QueuedSet \cup {hand} =>
              future[a] = "unset" /\ a \notin inflight
BY DEF TypeOK, FateInv, FutureTellsFate, Operation

\* perform() finds the stream idle: what the loop performs is not a finish of the
\* writer's, and neither is what is in flight, so they would be two of the callers'.
LEMMA ReadyToPerform ==
  ASSUME TypeOK, MutexInv, OrderInv, FateInv, OneInFlight, WaitingInv,
         (\E p \in Proc : Perform(p)) \/ DrainPerform
  PROVE  state = "Ready" /\ inflight = {}
<1>1. CASE \E p \in Proc : Perform(p)
  BY <1>1 DEF Perform, WaitingInv, OneInFlight, StateTracksStream
<1>2. CASE DrainPerform
  <2> PICK b \in Operation : PopAction(b)
    BY <1>2 DEF DrainPerform
  <2>0. pc[CQ] = "draining" /\ actions # <<>> /\ actions' = Tail(actions)
    BY <1>2 DEF DrainPerform, PopAction
  <2>1. ~WriteFailed /\ Head(actions) \in QueuedSet /\ Head(actions) \in Operation
    BY <2>0, QueuedAfterPop DEF WaitingInv
  <2>2. \A a \in Operation : future[a] = "unset" => Awaited(a)
    BY <2>1 DEF WaitingInv, Awaited
  <2>3. inflight = {}
    BY <2>1, <2>2, UnsetUntilReturned DEF WaitingInv
  <2> QED
    BY <2>0, <2>3 DEF OneInFlight, StateTracksStream, TypeOK
<1> QED
  BY <1>1, <1>2

\* Then only the stream's own check of a second finish stops the process.
LEMMA WaitingAborts ==
  ASSUME TypeOK, OnlySecondEndAborts, NEW a \in Operation, PerformAction(a),
         state = "Ready", inflight = {}, \A i \in 1 .. Len(started) : started[i] < a,
         UNCHANGED kind
  PROVE  OnlySecondEndAborts'
<1>1. Operation' = Operation /\ \A b : IsWrite(b)' <=> IsWrite(b)
  BY DEF Operation, IsWrite
<1>2. CASE StreamMisuse(a)
  <2>1. \E i \in 1 .. Len(started) :
          \/ kind[a] = "last" /\ kind[started[i]] = "last"
          \/ ~IsWrite(a) /\ ~IsWrite(started[i])
    BY <1>2 DEF StreamMisuse, LastGiven, TypeOK
  <2>2. \E b \in Operation :
          /\ b < a
          /\ \/ kind[b] = "last" /\ kind[a] = "last"
             \/ ~IsWrite(b) /\ ~IsWrite(a)
    BY <2>1 DEF TypeOK
  <2> QED
    BY <1>1, <2>1, <2>2 DEF OnlySecondEndAborts
<1>3. CASE ~StreamMisuse(a)
  BY <1>1, <1>3 DEF PerformAction, GiveToStream, OnlySecondEndAborts
<1> QED
  BY <1>2, <1>3

\* A step that asks for nothing and settles nothing.
LEMMA WaitingKept ==
  ASSUME TypeOK, WaitingInv, UNCHANGED <<kind, future>>, OnlySecondEndAborts',
         pc'[CQ] = "fail" => pc[CQ] = "fail",
         pc'[CQ] = "release" => pc[CQ] = "release" /\ fin' = fin,
         pc'[CQ] \in {"drain", "draining"} => pc[CQ] \in {"drain", "draining"},
         \A p \in Proc : pc'[p] = "perform" => state' = "Ready"
  PROVE  WaitingInv'
<1>1. Operation' = Operation /\ \A a : IsWrite(a)' <=> IsWrite(a)
  BY DEF Operation, IsWrite
<1> QED
  BY <1>1 DEF WaitingInv, WriteFailed, Awaited

\* The application asks for one more operation, having the results of all before; or
\* the writer for its finish, a write having failed.
LEMMA WaitingNewAction ==
  ASSUME TypeOK, LoopInv, WaitingInv, NEW k \in Kind, NewAction(k),
         NEW p \in Proc, Goto(p, "try"), UNCHANGED <<state, finalVars, aborted>>,
         IF k = "auto" THEN WriteFailed ELSE \A a \in Operation : ~Awaited(a)
  PROVE  WaitingInv'
<1>1. /\ \A a \in Operation : kind'[a] = kind[a] /\ future'[a] = future[a]
      /\ Operation' = Operation \cup {Len(kind) + 1}
      /\ future'[Len(kind) + 1] = "unset" /\ kind'[Len(kind) + 1] = k
  BY NewActionType DEF NewAction, TypeOK, Operation
<1>2. /\ \A q \in Proc : pc'[q] \in {"try", pc[q]}
      /\ CQ \in Proc
  BY DEF Goto, TypeOK, Proc
<1>3. WriteFailed' <=> WriteFailed
  BY <1>1 DEF WriteFailed
<1>4. OnlySecondEndAborts'
  BY <1>1 DEF WaitingInv, OnlySecondEndAborts, IsWrite
<1>5. \A a, b \in Operation' : Awaited(a)' /\ Awaited(b)' => a = b
  BY <1>1 DEF WaitingInv, Awaited
<1>6. (\E a \in Operation' : kind'[a] = "auto") => WriteFailed
  BY <1>1 DEF WaitingInv
<1>7. pc[CQ] = "release" => fin \in Operation /\ (IsWrite(fin)' <=> IsWrite(fin))
  BY <1>1 DEF LoopInv, StartedSet, TypeOK, IsWrite, finalVars
<1> QED
  BY <1>1, <1>2, <1>3, <1>4, <1>5, <1>6, <1>7 DEF WaitingInv, finalVars

\* An operation is settled for the first time, and the one that nobody waits for any
\* more makes room for none.
LEMMA AwaitedLess ==
  ASSUME TypeOK, WaitingInv, NEW a \in Operation, NEW r \in {"ok", "failed", "exception"},
         future[a] = "unset", future' = [future EXCEPT ![a] = r], UNCHANGED kind
  PROVE  /\ Operation' = Operation
         /\ future'[a] = r /\ \A b \in Operation : b # a => future'[b] = future[b]
         /\ \A b, c \in Operation' : Awaited(b)' /\ Awaited(c)' => b = c
         /\ WriteFailed => WriteFailed'
         /\ r # "failed" => (WriteFailed' <=> WriteFailed)
         /\ OnlySecondEndAborts /\ aborted' = aborted => OnlySecondEndAborts'
<1>1. /\ Operation' = Operation
      /\ future'[a] = r /\ \A b \in Operation : b # a => future'[b] = future[b]
  BY DEF TypeOK, Operation
<1>2. \A b, c \in Operation' : Awaited(b)' /\ Awaited(c)' => b = c
  BY <1>1 DEF WaitingInv, Awaited
<1> QED
  BY <1>1, <1>2 DEF WriteFailed, OnlySecondEndAborts, IsWrite

LEMMA WaitingStep ==
  ASSUME Sequential
  PROVE  /\ TypeOK /\ MutexInv /\ OrderInv /\ FateInv /\ LoopInv /\ OneInFlight
         /\ WaitingInv /\ [Next]_vars
         => WaitingInv'
<1> SUFFICES ASSUME TypeOK, MutexInv, OrderInv, FateInv, LoopInv, OneInFlight, WaitingInv,
                    [Next]_vars
             PROVE  WaitingInv'
  OBVIOUS
<1>1. ASSUME NEW t \in Thread, NEW k \in AppKind, Call(t, k) PROVE WaitingInv'
  <2>1. k \in Kind /\ k # "auto" /\ t \in Proc
    BY StreamWriterAssumption DEF Proc
  <2>2. \A a \in Operation : ~Awaited(a)
    BY <1>1 DEF Call, Awaited
  <2> QED
    BY <1>1, <2>1, <2>2, WaitingNewAction DEF Call, AfterNewAction
<1>2. ASSUME NEW p \in Proc, TryEmpty(p) \/ TryReady(p) \/ TryRefuse(p)
      PROVE  WaitingInv'
  <2>1. UNCHANGED <<kind, future, fin, aborted, state>>
    BY <1>2 DEF TryEmpty, TryReady, TryRefuse, queueVars, finalVars, TypeOK
  <2>2. /\ pc'[CQ] \in {pc[CQ], "idle", "perform"}
        /\ \A q \in Proc : pc'[q] = "perform" => pc[q] = "perform" \/ state = "Ready"
    BY <1>2 DEF TryEmpty, TryReady, TryRefuse, ReadsReady, Goto, TypeOK, Proc
  <2>3. OnlySecondEndAborts'
    BY <2>1 DEF WaitingInv, OnlySecondEndAborts, Operation, IsWrite
  <2> QED
    BY <2>1, <2>2, <2>3, WaitingKept DEF WaitingInv
<1>3. ASSUME NEW p \in Proc, Perform(p) PROVE WaitingInv'
  <2>1. /\ hand \in Operation /\ actionsMutex = p
        /\ \A i \in 1 .. Len(started) : started[i] < hand
    BY <1>3 DEF Perform, MutexInv, TypeOK, OrderInv
  <2>2. OnlySecondEndAborts'
    BY <1>3, <2>1, ReadyToPerform, WaitingAborts DEF Perform, WaitingInv
  <2>3. \A q \in Proc : pc'[q] # "perform" /\ pc'[q] \in {pc[q], "idle"}
    BY <1>3, <2>1 DEF Perform, Goto, TypeOK, MutexInv
  <2>4. UNCHANGED <<kind, future, fin>> /\ CQ \in Proc
    BY <1>3 DEF Perform, finalVars, Proc
  <2> QED
    BY <2>2, <2>3, <2>4, WaitingKept
<1>4. ASSUME NEW a \in inflight, NEW ok \in BOOLEAN, SetResult(a, ok) PROVE WaitingInv'
  <2>1. /\ a \in Operation /\ future[a] = "unset" /\ Result(ok) \in {"ok", "failed"}
        /\ future' = [future EXCEPT ![a] = Result(ok)] /\ fin' = a
        /\ UNCHANGED <<kind, state, aborted>>
    BY <1>4, UnsetUntilReturned DEF SetResult, Result, queueVars
  <2>2. /\ pc'[CQ] = "release"
        /\ \A p \in Proc : pc'[p] = "perform" => pc[p] = "perform"
    BY <1>4 DEF SetResult, Goto, TypeOK, Proc
  <2>3. IsWrite(a) /\ Result(ok) = "ok" => ~WriteFailed
    BY <1>4 DEF SetResult, OkOf, Result, WriteFailed
  <2>4. IsWrite(a)' <=> IsWrite(a)
    BY <2>1 DEF IsWrite
  <2> QED
    BY <2>1, <2>2, <2>3, <2>4, AwaitedLess DEF WaitingInv
<1>5. CASE AutoFinish
  BY <1>5, WaitingNewAction DEF AutoFinish, AfterNewAction, Kind, Proc, WaitingInv
<1>6. CASE Release
  <2>1. UNCHANGED <<kind, future, fin, aborted>> /\ state' = "Ready"
    BY <1>6 DEF Release, ReleasedState, queueVars, finalVars
  <2>2. fin \in Operation /\ future[fin] \in {"ok", "failed"}
    BY <1>6 DEF Release, LoopInv, StartedSet, TypeOK, WaitingInv
  <2>3. CASE ~IsWrite(fin)
    <3>1. pc'[CQ] = "respond"
      BY <1>6, <2>3 DEF Release, FinalizeResultImpl, Goto, TypeOK, Proc
    <3> QED
      BY <2>1, <3>1 DEF WaitingInv, Operation, OnlySecondEndAborts, IsWrite, Awaited,
                        WriteFailed
  <2>4. CASE IsWrite(fin)
    <3>1. pc'[CQ] = IF future[fin] = "ok" THEN "drain" ELSE "fail"
      BY <1>6, <2>4 DEF Release, FinalizeResultImpl, Goto, TypeOK, Proc
    <3>2. IF future[fin] = "ok" THEN ~WriteFailed ELSE WriteFailed
      BY <1>6, <2>2, <2>4 DEF Release, WaitingInv, WriteFailed
    <3> QED
      BY <2>1, <3>1, <3>2 DEF WaitingInv, Operation, OnlySecondEndAborts, IsWrite,
                              Awaited, WriteFailed
  <2> QED
    BY <2>3, <2>4
<1>7. CASE Respond \/ DrainStart \/ DrainDone
  <2>1. UNCHANGED <<kind, future, fin, aborted, state>>
    BY <1>7 DEF Respond, DrainStart, DrainDone, queueVars, finalVars
  <2>2. /\ pc'[CQ] = "idle" \/ (pc'[CQ] = "draining" /\ pc[CQ] = "drain")
        /\ \A p \in Proc : pc'[p] = "perform" => pc[p] = "perform"
    BY <1>7 DEF Respond, DrainStart, DrainDone, Goto, TypeOK, Proc
  <2>3. OnlySecondEndAborts'
    BY <2>1 DEF WaitingInv, OnlySecondEndAborts, Operation, IsWrite
  <2> QED
    BY <2>1, <2>2, <2>3, WaitingKept DEF WaitingInv
<1>8. CASE DrainRefuse
  <2> PICK a \in Operation : PopAction(a) /\ SetException(a)
    BY <1>8 DEF DrainRefuse
  <2>1. future[a] = "unset" /\ future' = [future EXCEPT ![a] = "exception"]
    BY <1>8, QueuedAfterPop, UnsetUntilReturned DEF DrainRefuse, PopAction, SetException
  <2>2. pc[CQ] = "draining" /\ UNCHANGED <<kind, fin, pc, aborted, state>>
    BY <1>8 DEF DrainRefuse, finalVars
  <2> QED
    BY <2>1, <2>2, AwaitedLess DEF WaitingInv
<1>9. CASE DrainPerform
  <2> PICK a \in Operation : PopAction(a) /\ PerformAction(a)
    BY <1>9 DEF DrainPerform
  <2>1. /\ pc[CQ] = "draining" /\ actionsMutex = CQ
        /\ UNCHANGED <<kind, future, fin, pc>>
    BY <1>9 DEF DrainPerform, MutexInv
  <2>2. \A i \in 1 .. Len(started) : started[i] < a
    BY <1>9, TailOfQueue DEF DrainPerform, PopAction, OrderInv, TypeOK
  <2>3. OnlySecondEndAborts'
    BY <1>9, <2>1, <2>2, ReadyToPerform, WaitingAborts DEF WaitingInv
  <2>4. \A p \in Proc : pc[p] # "perform"
    BY <2>1 DEF MutexInv
  <2> QED
    BY <2>1, <2>3, <2>4, WaitingKept
<1>10. CASE UNCHANGED vars
  <2>1. UNCHANGED <<kind, future, fin, pc, aborted, state>>
    BY <1>10 DEF vars, queueVars, finalVars
  <2>2. OnlySecondEndAborts'
    BY <2>1 DEF WaitingInv, OnlySecondEndAborts, Operation, IsWrite
  <2> QED
    BY <2>1, <2>2, WaitingKept DEF WaitingInv
<1> QED
  BY <1>1, <1>2, <1>3, <1>4, <1>5, <1>6, <1>7, <1>8, <1>9, <1>10
  DEF Next, Try, Finalize, Quiescent, Dead

LEMMA WaitingInit == Init => WaitingInv
BY StreamWriterAssumption
   DEF Init, WaitingInv, OnlySecondEndAborts, Awaited, WriteFailed, Operation, Proc

-----------------------------------------------------------------------------
(* The theorems.                                                           *)

\* The inductive invariant: each part is preserved given the parts before it.
THEOREM Invariance == Spec => []IInv
<1>1. Init => IInv
  BY TypeInit, OrderInit, CoverInit, FateInit, LoopInit, OneInFlightInit, WaitingInit
  DEF IInv
<1>2. IInv /\ [Next]_vars => IInv'
  <2> SUFFICES ASSUME IInv, [Next]_vars PROVE IInv'
    OBVIOUS
  <2>1. (TypeOK /\ MutexInv /\ OrderInv /\ QueueCovered /\ FateInv /\ LoopInv)'
    BY TypeStep, MutexStep, OrderStep, CoverStep, FateStep, LoopStep DEF IInv
  <2>2. Asserts \/ Sequential => OneInFlight'
    BY OneInFlightStep, ReadyToPerform DEF IInv
  <2>3. Sequential => WaitingInv'
    BY WaitingStep DEF IInv
  <2> QED
    BY <2>1, <2>2, <2>3 DEF IInv
<1> QED
  BY <1>1, <1>2, PTL DEF Spec

\* The values of the variables, for every interleaving of the callers with the
\* thread of the completion queue; _state is never Finished.
THEOREM TypeCorrect == Spec => []TypeOK
<1>1. IInv => TypeOK
  BY DEF IInv
<1> QED
  BY <1>1, Invariance, PTL

\* Operations reach the stream in the order they were pushed and none twice,
\* whatever the callers do and whether the build has assertions or not.
THEOREM PushOrderHolds == Spec => []PushOrder
<1>1. IInv => PushOrder
  BY DEF IInv, OrderInv
<1> QED
  BY <1>1, Invariance, PTL

\* An operation on the queue always has a thread that is about to look at it.
THEOREM NothingStranded == Spec => []NoStrandedAction
<1>1. IInv => NoStrandedAction
  <2> SUFFICES ASSUME TypeOK, QueueCovered, actions # <<>>
               PROVE  \E p \in Proc : pc[p] = "try"
    BY DEF IInv, NoStrandedAction
  <2>1. Len(actions) >= 1
    BY TailOfQueue DEF TypeOK
  <2>2. Trying # {}
    BY <2>1, FS_EmptySet DEF QueueCovered
  <2> QED
    BY <2>2 DEF Trying
<1> QED
  BY <1>1, Invariance, PTL

\* A future has a result exactly when the stream returned its operation, and an
\* exception only if the stream never saw it.
THEOREM FutureTellsFateHolds == Spec => []FutureTellsFate
<1>1. IInv => FutureTellsFate
  BY DEF IInv, FateInv
<1> QED
  BY <1>1, Invariance, PTL

\* An operation is refused only because of an earlier one that the stream was given.
THEOREM RefusedWithReasonHolds == Spec => []RefusedWithReason
<1>1. IInv => RefusedWithReason
  BY DEF IInv, LoopInv
<1> QED
  BY <1>1, Invariance, PTL

\* In a debug build the stream never has two operations in flight: the assertion
\* in perform() stops the process first.  And neither has it, in any build, if callers
\* wait for every future.
THEOREM OneAtATimeHolds == (Asserts \/ Sequential) /\ Spec => []OneAtATime
<1>1. (Asserts \/ Sequential) /\ IInv => OneAtATime
  <2> SUFFICES ASSUME OneInFlight PROVE Cardinality(inflight) <= 1
    BY DEF IInv, OneAtATime
  <2>1. CASE inflight = {}
    BY <2>1, FS_EmptySet
  <2>2. CASE inflight # {}
    <3> PICK a : inflight = {a}
      BY <2>2 DEF OneInFlight
    <3>1. Cardinality({a}) = 1
      BY FS_Singleton
    <3> QED
      BY <3>1
  <2> QED
    BY <2>1, <2>2
<1>2. SUFFICES ASSUME Asserts \/ Sequential PROVE Spec => []OneAtATime
  OBVIOUS
<1> QED
  BY <1>1, <1>2, Invariance, PTL

\* In these two cases _state also says whether the stream is busy, although callers see
\* their futures before _state changes.
THEOREM StateTracksStreamHolds == (Asserts \/ Sequential) /\ Spec => []StateTracksStream
<1>1. (Asserts \/ Sequential) /\ IInv => StateTracksStream
  BY DEF IInv, OneInFlight
<1>2. SUFFICES ASSUME Asserts \/ Sequential PROVE Spec => []StateTracksStream
  OBVIOUS
<1> QED
  BY <1>1, <1>2, Invariance, PTL

\* Callers that wait for every future never make the process abort, be it by an
\* assertion or in gRPC, unless there are two finishes or two last messages.
THEOREM OnlySecondEndAbortsHolds == Sequential /\ Spec => []OnlySecondEndAborts
<1>1. Sequential /\ IInv => OnlySecondEndAborts
  BY DEF IInv, WaitingInv
<1>2. SUFFICES ASSUME Sequential PROVE Spec => []OnlySecondEndAborts
  OBVIOUS
<1> QED
  BY <1>1, <1>2, Invariance, PTL

\* The writer implements LossyFifo: every step of every thread is a submission, a
\* delivery or a loss of the oldest request, or changes none of them.
THEOREM Refinement == Spec => ImplementsLossyFifo
<1>1. Init => Fifo!Init
  BY DEF Init, Fifo!Init
<1>2. IInv /\ [Next]_vars => [Fifo!Next]_Fifo!vars
  BY RefinementStep DEF IInv
<1> QED
  BY <1>1, <1>2, Invariance, PTL DEF Spec, ImplementsLossyFifo, Fifo!Spec

=============================================================================
