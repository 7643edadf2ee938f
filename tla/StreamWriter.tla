---------------------------- MODULE StreamWriter ----------------------------
(***************************************************************************)
(* Client::AsyncClientStreamWriter: the object through which application   *)
(* threads send the requests of one client-streaming call.  write() and    *)
(* finish() push an action on a queue and try to perform the oldest one;   *)
(* the thread of the call's completion queue finalises each performed      *)
(* action and then performs whatever is still queued.                      *)
(*                                                                         *)
(* Actions of the program are numbered in the order they were pushed; an   *)
(* "operation" below is such a number.  A step is what the code does in    *)
(* one critical section, or between two points where another thread can    *)
(* see a difference.  The two mutexes are modelled, and so is the read of  *)
(* _state that takes neither (tryPerformAction, line 161).                 *)
(***************************************************************************)
EXTENDS Naturals, Sequences, FiniteSets

CONSTANTS
  Thread,      \* the application threads that call write() and finish()
  CQ,          \* the thread that polls the completion queue of the call
  NoThread,    \* "nobody holds the mutex"
  AppKind,     \* the operations the application asks for
  MaxCalls,    \* bound: how many operations are asked for before calls stop
  Sequential,  \* TRUE: the application waits for its futures before each call
  CallMayDie,  \* TRUE: the call may be cancelled, expire or be dropped
  Asserts      \* TRUE: assert() is compiled in (a debug build)

\* write(), write() with WriteOptions::set_last_message(), finish(), and the
\* finish() the writer calls by itself.
Kind == {"write", "last", "finish", "auto"}

ASSUME StreamWriterAssumption ==
  /\ IsFiniteSet(Thread)
  /\ CQ \notin Thread
  /\ NoThread \notin Thread \cup {CQ}
  /\ AppKind \subseteq Kind \ {"auto"}
  /\ MaxCalls \in Nat
  /\ Sequential \in BOOLEAN
  /\ CallMayDie \in BOOLEAN
  /\ Asserts \in BOOLEAN

Proc == Thread \cup {CQ}

VARIABLES
  kind,            \* kind[a]: what operation a asks for
  future,          \* future[a]: the result the caller of operation a sees
  actions,         \* _actions, the queue of operations not yet popped
  hand,            \* the operation tryPerformAction has popped, or 0
  started,         \* the operations given to the stream so far, in order
  inflight,        \* those the completion queue has not returned yet
  state,           \* _state
  actionsMutex,    \* who holds _actionsMutex across a step
  stateMutex,      \* who holds _stateMutex across a step
  pc,              \* where each thread is
  fin,             \* the operation the completion queue's thread finalises
  finishPerformed, \* the local variable of finalizeWrite
  responded,       \* the promise of the response is satisfied
  aborted          \* why the process died, "no" while it runs

queueVars == <<kind, actions, hand>>
streamVars == <<started, inflight>>
finalVars == <<fin, finishPerformed, responded>>

vars == <<queueVars, future, streamVars, state, actionsMutex, stateMutex, pc,
          finalVars, aborted>>

Operation == 1 .. Len(kind)

IsWrite(a) == kind[a] \in {"write", "last"}

Alive == aborted = "no"

Init ==
  /\ kind = <<>> /\ future = <<>>
  /\ actions = <<>> /\ hand = 0
  /\ started = <<>> /\ inflight = {}
  /\ state = "Ready"
  /\ actionsMutex = NoThread /\ stateMutex = NoThread
  /\ pc = [p \in Proc |-> "idle"]
  /\ fin = 0 /\ finishPerformed = FALSE
  /\ responded = FALSE
  /\ aborted = "no"

-----------------------------------------------------------------------------
(* Pieces of the handlers, each after the mutants of it that the README     *)
(* lists (plausible slips, used only to show that a property can fail).     *)

Goto(p, label) == pc' = [pc EXCEPT ![p] = label]

\* newAction: a new operation at the back of the queue, under _actionsMutex.
NewAction(k) ==
  /\ actionsMutex = NoThread
  /\ kind' = Append(kind, k)
  /\ actions' = Append(actions, Len(kind) + 1)
  /\ future' = Append(future, "unset")

AfterNewActionReturn == "idle"

\* write() and finish() call tryPerformAction after newAction.
AfterNewAction == "try"

PopNewest(a) ==
  /\ a = actions[Len(actions)]
  /\ actions' = SubSeq(actions, 1, Len(actions) - 1)

PeekAction(a) == a = Head(actions) /\ UNCHANGED actions

\* popAction: front() and pop().
PopAction(a) == a = Head(actions) /\ actions' = Tail(actions)

AlwaysReady == TRUE

\* What tryPerformAction makes of its unlocked read of _state.
ReadsReady == state = "Ready"

KeepActionsMutex == UNCHANGED actionsMutex

\* The lock_guard of _actionsMutex goes out of scope.
UnlockActions == actionsMutex' = NoThread

\* setException<InvalidStreamingAction>: the caller's future throws.
SetException(a) == future' = [future EXCEPT ![a] = "exception"]

\* The stream was given the last message: the client's side of the rpc is closed.
LastGiven == \E i \in DOMAIN started : kind[started[i]] = "last"

\* The stream (gRPC's ClientAsyncWriter) takes an operation and will put it on
\* the completion queue when it is done.  One write at a time, and one last message
\* and one Finish in all: gRPC checks this itself and aborts the process.
StreamMisuse(a) ==
  \/ IsWrite(a) /\ \E b \in inflight : IsWrite(b)
  \/ kind[a] = "last" /\ LastGiven
  \/ ~IsWrite(a) /\ \E i \in DOMAIN started : ~IsWrite(started[i])

GiveToStream(a) ==
  /\ started' = Append(started, a)
  /\ inflight' = inflight \cup {a}
  /\ aborted' = IF StreamMisuse(a) THEN "misuse" ELSE aborted

PerformKeepsState(a) ==
  IF Asserts /\ state # "Ready"
    THEN aborted' = "assert" /\ UNCHANGED <<state, streamVars>>
    ELSE UNCHANGED state /\ GiveToStream(a)

\* StreamAction::perform, under _stateMutex.  A debug build stops at its
\* assert(_state == Ready).
PerformAction(a) ==
  IF Asserts /\ state # "Ready"
    THEN aborted' = "assert" /\ UNCHANGED <<state, streamVars>>
    ELSE state' = "Processing" /\ GiveToStream(a)

-----------------------------------------------------------------------------
(* write() and finish(): push, then tryPerformAction.                      *)

\* A thread calls write(request), write(request, last_message) or finish().
Call(t, k) ==
  /\ Alive
  /\ pc[t] = "idle"
  /\ Len(kind) < MaxCalls
  /\ Sequential => \A a \in Operation : kind[a] # "auto" => future[a] # "unset"
  /\ NewAction(k)
  /\ Goto(t, AfterNewAction)
  /\ UNCHANGED <<hand, streamVars, state, actionsMutex, stateMutex, finalVars,
                 aborted>>

\* tryPerformAction: another thread has already taken what this one pushed.
TryEmpty(p) ==
  /\ Alive
  /\ pc[p] = "try"
  /\ actionsMutex = NoThread
  /\ actions = <<>>
  /\ Goto(p, "idle")
  /\ UNCHANGED <<queueVars, future, streamVars, state, actionsMutex, stateMutex,
                 finalVars, aborted>>

\* tryPerformAction: the oldest operation is popped and _state, read without
\* _stateMutex, is Ready.  perform() comes next, still under _actionsMutex.
TryReady(p) ==
  /\ Alive
  /\ pc[p] = "try"
  /\ actionsMutex = NoThread
  /\ actions # <<>>
  /\ ReadsReady
  /\ \E a \in Operation : PopAction(a) /\ hand' = a
  /\ actionsMutex' = p
  /\ Goto(p, "perform")
  /\ UNCHANGED <<kind, future, streamVars, state, stateMutex, finalVars, aborted>>

\* tryPerformAction: the oldest operation is popped and _state is not Ready.
\* If it is Finished the operation gets an exception; if it is Processing the
\* function just returns, and nothing refers to the operation any more.
TryRefuse(p) ==
  /\ Alive
  /\ pc[p] = "try"
  /\ actionsMutex = NoThread
  /\ actions # <<>>
  /\ ~ReadsReady
  /\ \E a \in Operation :
       /\ PopAction(a)
       /\ IF state = "Finished" THEN SetException(a) ELSE UNCHANGED future
  /\ Goto(p, "idle")
  /\ UNCHANGED <<kind, hand, streamVars, state, actionsMutex, stateMutex,
                 finalVars, aborted>>

\* StreamAction::perform called by tryPerformAction, which then returns.
Perform(p) ==
  /\ Alive
  /\ pc[p] = "perform"
  /\ stateMutex = NoThread
  /\ PerformAction(hand)
  /\ hand' = 0
  /\ UnlockActions
  /\ Goto(p, "idle")
  /\ UNCHANGED <<kind, actions, future, stateMutex, finalVars>>

Try(p) == TryEmpty(p) \/ TryReady(p) \/ TryRefuse(p) \/ Perform(p)

-----------------------------------------------------------------------------
(* The completion queue's thread: finalizeResult of a returned operation.  *)

\* The stream was given a before the last message, or it is the last message.
InTime(a) ==
  \A i, j \in DOMAIN started :
    started[j] = a /\ kind[started[i]] = "last" => j <= i

WriteFailed == \E a \in Operation : future[a] = "failed"

\* A Finish came back: the rpc is over.
Finished == \E a \in Operation : ~IsWrite(a) /\ future[a] = "ok"

\* What the stream may answer.  A Finish is always ok.  A write that comes after the
\* last message never is, though the rpc be alive; nor is any after one that did not
\* go to the wire because the rpc is dead.
OkOf(a) ==
  IF ~IsWrite(a) THEN {TRUE}
  ELSE IF WriteFailed \/ ~InTime(a) THEN {FALSE}
  ELSE IF CallMayDie \/ Finished THEN BOOLEAN ELSE {TRUE}

ResultIfOk(ok) == IF ok THEN "ok" ELSE "unset"

\* setResult: what the caller reads from its future, true or false.
Result(ok) == IF ok THEN "ok" ELSE "failed"

\* StreamAction::finalizeResult, first half: under _stateMutex the caller's
\* future becomes ready, and only then, in Release, does _state change.
\* (assert(_state == Processing) blocks the model: it would be a deadlock.)
SetResult(a, ok) ==
  /\ Alive
  /\ pc[CQ] = "idle"
  /\ a \in inflight
  /\ ok \in OkOf(a)
  /\ stateMutex = NoThread
  /\ ~(Asserts /\ state # "Processing")
  /\ inflight' = inflight \ {a}
  /\ future' = [future EXCEPT ![a] = Result(ok)]
  /\ fin' = a
  /\ stateMutex' = CQ
  /\ Goto(CQ, "release")
  /\ UNCHANGED <<queueVars, started, state, actionsMutex, finishPerformed,
                 responded, aborted>>

ReadyIfOk == IF future[fin] = "ok" THEN "Ready" ELSE state

\* The state a returned operation leaves, whatever it was and whatever it gave.
ReleasedState == "Ready"

FinalizeAsWrite == IF future[fin] = "ok" THEN "drain" ELSE "fail"

\* The virtual finalizeResultImpl: finalizeFinish, or finalizeWrite(ok).
FinalizeResultImpl ==
  IF ~IsWrite(fin) THEN "respond"
  ELSE IF future[fin] = "ok" THEN "drain" ELSE "fail"

\* StreamAction::finalizeResult, second half, and the virtual call that follows.
Release ==
  /\ Alive
  /\ pc[CQ] = "release"
  /\ state' = ReleasedState
  /\ stateMutex' = NoThread
  /\ Goto(CQ, FinalizeResultImpl)
  /\ UNCHANGED <<queueVars, future, streamVars, actionsMutex, finalVars, aborted>>

\* finalizeFinish: _onFinished() sets the promise of the call's response.
Respond ==
  /\ Alive
  /\ pc[CQ] = "respond"
  /\ responded' = TRUE
  /\ Goto(CQ, "idle")
  /\ UNCHANGED <<queueVars, future, streamVars, state, actionsMutex, stateMutex,
                 fin, finishPerformed, aborted>>

\* finalizeWrite(ok = false): the writer finishes the call itself.
AutoFinish ==
  /\ Alive
  /\ pc[CQ] = "fail"
  /\ NewAction("auto")
  /\ Goto(CQ, AfterNewAction)
  /\ UNCHANGED <<hand, streamVars, state, actionsMutex, stateMutex, finalVars,
                 aborted>>

\* finalizeWrite(ok = true): take _actionsMutex and go through the queue.
DrainStart ==
  /\ Alive
  /\ pc[CQ] = "drain"
  /\ actionsMutex = NoThread
  /\ actionsMutex' = CQ
  /\ finishPerformed' = FALSE
  /\ Goto(CQ, "draining")
  /\ UNCHANGED <<queueVars, future, streamVars, state, stateMutex, fin,
                 responded, aborted>>

RefusesAfterLast(a) == kind[fin] = "last" \/ finishPerformed

\* The loop refuses a write once the last message is written or this loop has
\* performed a finish, and a finish once this loop has performed one.
DrainRefuses(a) ==
  \/ IsWrite(a) /\ kind[fin] = "last"
  \/ finishPerformed

\* One turn of the loop: the operation gets an InvalidStreamingAction.
DrainRefuse ==
  /\ Alive
  /\ pc[CQ] = "draining"
  /\ actions # <<>>
  /\ \E a \in Operation : PopAction(a) /\ DrainRefuses(a) /\ SetException(a)
  /\ UNCHANGED <<kind, hand, streamVars, state, actionsMutex, stateMutex, pc,
                 finalVars, aborted>>

\* One turn of the loop: the operation is performed, whatever _state says (an
\* earlier turn, or a caller since Release, may have made it Processing).
DrainPerform ==
  /\ Alive
  /\ pc[CQ] = "draining"
  /\ actions # <<>>
  /\ \E a \in Operation :
       /\ PopAction(a)
       /\ ~DrainRefuses(a)
       /\ PerformAction(a)
       /\ finishPerformed' = (finishPerformed \/ ~IsWrite(a))
  /\ UNCHANGED <<kind, hand, future, actionsMutex, stateMutex, pc, fin, responded>>

\* The queue is empty.
DrainDone ==
  /\ Alive
  /\ pc[CQ] = "draining"
  /\ actions = <<>>
  /\ UnlockActions
  /\ Goto(CQ, "idle")
  /\ UNCHANGED <<queueVars, future, streamVars, state, stateMutex, finalVars,
                 aborted>>

Finalize ==
  \/ Release \/ Respond \/ AutoFinish
  \/ DrainStart \/ DrainRefuse \/ DrainPerform \/ DrainDone

-----------------------------------------------------------------------------
\* Nothing more to do: every thread is out of the writer and the stream is idle.
\* A thread stuck at a mutex is not quiescent, so TLC reports it as a deadlock.
Quiescent ==
  /\ \A p \in Proc : pc[p] = "idle"
  /\ inflight = {}
  /\ UNCHANGED vars

\* The process is dead.
Dead == ~Alive /\ UNCHANGED vars

Next ==
  \/ \E t \in Thread, k \in AppKind : Call(t, k)
  \/ \E p \in Proc : Try(p)
  \/ \E a \in inflight, ok \in BOOLEAN : SetResult(a, ok)
  \/ Finalize
  \/ Quiescent
  \/ Dead

Spec == Init /\ [][Next]_vars

\* A Finish comes back when the server ends the rpc: it does so once it has the last
\* message, and need not before.  An rpc that a write failed on is over.
FinishReturns == LastGiven \/ WriteFailed

\* Threads keep running, and a write that was given to the stream comes back (the
\* server reads, or the rpc dies); a Finish does when it must.  Nothing obliges the
\* application to call.
Fairness ==
  /\ \A p \in Proc : WF_vars(Try(p))
  /\ \A a \in 1 .. 2 * MaxCalls :
       WF_vars(\E ok \in BOOLEAN : SetResult(a, ok) /\ (IsWrite(a) \/ FinishReturns))
  /\ WF_vars(Finalize)

FairSpec == Spec /\ Fairness

-----------------------------------------------------------------------------
(* Properties.                                                             *)

StartedSet == {started[i] : i \in 1 .. Len(started)}
QueuedSet  == {actions[i] : i \in 1 .. Len(actions)}

\* The values the variables can have.  A future exists for every operation.
TypeOK ==
  /\ kind \in Seq(Kind)
  /\ future \in Seq({"unset", "ok", "failed", "exception"})
  /\ Len(future) = Len(kind)
  /\ actions \in Seq(Operation)
  /\ hand \in {0} \cup Operation
  /\ started \in Seq(Operation)
  /\ inflight \subseteq Operation
  /\ state \in {"Ready", "Processing"}
  /\ actionsMutex \in Proc \cup {NoThread}
  /\ stateMutex \in {CQ, NoThread}
  /\ pc \in [Proc -> {"idle", "try", "perform", "release", "respond", "fail",
                      "drain", "draining"}]
  /\ fin \in {0} \cup Operation
  /\ finishPerformed \in BOOLEAN
  /\ responded \in BOOLEAN
  /\ aborted \in {"no", "assert", "misuse"}

\* "Performing order of actions have to keep the same as it pushes" (line 149):
\* whatever threads call and whoever performs for whom, the stream is given the
\* operations in the order they were pushed, and none of them twice.
PushOrder ==
  \A i, j \in 1 .. Len(started) : i < j => started[i] < started[j]

\* No operation is left on the queue with nobody about to look at it: some thread
\* is between its push and its tryPerformAction.  (The writer has no thread of its
\* own: an operation nobody comes back for would stay for ever.)
NoStrandedAction ==
  actions # <<>> => \E p \in Proc : pc[p] = "try"

\* What a caller's future says is what became of its operation: a result exactly
\* when the stream returned it, an exception only if the stream never saw it, and
\* nothing while it is queued or in somebody's hand.
FutureTellsFate ==
  \A a \in Operation :
    /\ future[a] \in {"ok", "failed"} <=> a \in StartedSet \ inflight
    /\ future[a] = "exception" => a \notin StartedSet
    /\ a \in QueuedSet \cup {hand} => future[a] = "unset" /\ a \notin StartedSet

\* Who gets an InvalidStreamingAction is told the truth: an earlier operation that the
\* stream was given is a finish, or, if a write is refused, the last message.  (An
\* operation that comes after them need not be refused: see the hazards.)
RefusedWithReason ==
  \A b \in Operation : future[b] = "exception" =>
    \E a \in StartedSet : a < b /\ (~IsWrite(a) \/ (IsWrite(b) /\ kind[a] = "last"))

\* "Only one action is allowed to perform at the same time" (line 148): the stream
\* never has two operations in flight.
OneAtATime == Cardinality(inflight) <= 1

\* _state says whether the stream is busy, except between the two halves of
\* finalizeResult.
StateTracksStream ==
  state = "Processing" <=> inflight # {} \/ pc[CQ] = "release"

\* Operation a was popped, and neither performed nor refused.
Lost(a) ==
  /\ a \notin QueuedSet \cup StartedSet \cup {hand}
  /\ future[a] # "exception"

\* "Process in finalizeXxx function" (line 171): an operation that finds the
\* stream busy is performed, or refused with an exception, later.
NothingLost == \A a \in Operation : ~Lost(a)

\* A caller that waits for each future before its next call never makes the
\* process abort, unless somebody (the writer itself included) finishes twice, or
\* writes a last message twice.
OnlySecondEndAborts ==
  aborted # "no" => \E a, b \in Operation :
    /\ a < b
    /\ \/ kind[a] = "last" /\ kind[b] = "last"
       \/ ~IsWrite(a) /\ ~IsWrite(b)

\* write() and finish() return, and so does the queue's thread: nobody is stuck
\* at a mutex for ever.
CallReturns ==
  \A p \in Proc : pc[p] # "idle" ~> pc[p] = "idle" \/ aborted # "no"

\* Operation a is a Finish that waits for a server that was not sent the last message.
Waits(a) == a \in inflight /\ ~IsWrite(a) /\ ~FinishReturns

\* Every operation asked for, wherever it has to queue, settles its future in the end;
\* unless it is lost, waits for the server, or the process dies.
CallSettles ==
  \A a \in 1 .. 2 * MaxCalls :
    a \in Operation ~>
      \/ a \in Operation /\ (future[a] # "unset" \/ Lost(a) \/ Waits(a))
      \/ aborted # "no"

\* Once a Finish is with the stream that must come back, whoever waits for the response
\* of the call gets it.
FinishAnswered ==
  (\E a \in inflight : ~IsWrite(a)) /\ FinishReturns ~> responded \/ aborted # "no"

\* The writer is a lossy first-in first-out channel, whatever its callers do.
Fifo == INSTANCE LossyFifo WITH
  submitted <- Len(kind),
  pending <- IF hand = 0 THEN actions ELSE <<hand>> \o actions,
  delivered <- started

ImplementsLossyFifo == Fifo!Spec

-----------------------------------------------------------------------------
(* The inductive invariant behind PushOrder, FutureTellsFate, NoStrandedAction *)
(* and ImplementsLossyFifo (StreamWriterProofs.tla).                           *)

\* _actionsMutex is held by whoever has popped an operation to perform it, and by
\* the loop of finalizeWrite; an operation in hand belongs to its holder.  The two
\* halves of finalizeResult are one critical section of _stateMutex.
MutexInv ==
  /\ \A p \in Proc : pc[p] = "perform" => actionsMutex = p /\ hand # 0
  /\ pc[CQ] = "draining" => actionsMutex = CQ
  /\ hand # 0 => \E p \in Proc : pc[p] = "perform"
  /\ pc[CQ] = "release" => stateMutex = CQ

\* Along started, the operation in hand and the queue, numbers only increase.
OrderInv ==
  /\ PushOrder
  /\ \A i, j \in 1 .. Len(actions) : i < j => actions[i] < actions[j]
  /\ \A i \in 1 .. Len(started), j \in 1 .. Len(actions) : started[i] < actions[j]
  /\ hand # 0 => /\ \A i \in 1 .. Len(started) : started[i] < hand
                 /\ \A j \in 1 .. Len(actions) : hand < actions[j]

\* The threads between a push and their tryPerformAction.
Trying == {p \in Proc : pc[p] = "try"}

\* Each of them can take one operation, and none is left over.
QueueCovered == Len(actions) <= Cardinality(Trying)

FateInv ==
  /\ FutureTellsFate
  /\ inflight \subseteq StartedSet

\* The loop of finalizeWrite goes by the write it finalises and by a finish it has
\* performed: both are with the stream.
LoopInv ==
  /\ RefusedWithReason
  /\ pc[CQ] \in {"release", "drain", "draining"} => fin \in StartedSet
  /\ Alive /\ pc[CQ] = "draining" /\ finishPerformed =>
       \E a \in StartedSet : ~IsWrite(a)

\* In a debug build, where perform() stops the process rather than overlap, or with
\* callers that wait: the stream holds at most one operation, and none while one is
\* being finalised.
OneInFlight ==
  /\ StateTracksStream
  /\ \A a, b \in inflight : a = b
  /\ pc[CQ] = "release" => inflight = {}

\* Somebody waits, or could wait, for the future of this operation.
Awaited(a) == kind[a] # "auto" /\ future[a] = "unset"

\* With callers that wait for every future: they have one operation under way, and the
\* writer finishes by itself only when a write failed, and then every later one does.
\* So a loop that found its write delivered finds no finish of the writer's, and what it
\* performs is all there is.
WaitingInv ==
  /\ OnlySecondEndAborts
  /\ \A a, b \in Operation : Awaited(a) /\ Awaited(b) => a = b
  /\ pc[CQ] = "fail" \/ (\E a \in Operation : kind[a] = "auto") => WriteFailed
  /\ pc[CQ] = "release" => future[fin] \in {"ok", "failed"}
  /\ WriteFailed => /\ pc[CQ] \notin {"drain", "draining"}
                    /\ pc[CQ] = "release" /\ IsWrite(fin) => future[fin] = "failed"
  /\ \A p \in Proc : pc[p] = "perform" => state = "Ready"

IInv ==
  /\ TypeOK /\ MutexInv /\ OrderInv /\ QueueCovered /\ FateInv /\ LoopInv
  /\ Asserts \/ Sequential => OneInFlight
  /\ Sequential => WaitingInv

=============================================================================
