---------------------------- MODULE ActionQueue ----------------------------
(***************************************************************************)
(* AsyncActionQueue: a grpc::CompletionQueue whose tags are actions (heap  *)
(* objects), the asyncNext() that finalises and deletes them one at a      *)
(* time, and a destructor that waits until asyncNext() has seen the queue  *)
(* shut down.                                                              *)
(*                                                                         *)
(* The completion queue itself is gRPC's: an operation that was begun      *)
(* completes as an event, events come out of AsyncNext in any order, and   *)
(* AsyncNext says SHUTDOWN once Shutdown was called and nothing is left.   *)
(*                                                                         *)
(* AsyncClient and UnaryServer extend this module: they say which actions  *)
(* are begun, when, and what their finalizeResult does.                    *)
(***************************************************************************)
EXTENDS Naturals, FiniteSets

CONSTANTS
  Tag,      \* the actions that may be begun, each of them once
  NoTag,    \* "no action"
  Inline    \* TRUE: the owner itself calls asyncNext, with a deadline
            \* FALSE: a thread of its own loops until asyncNext says SHUTDOWN

ASSUME ActionQueueAssumption == NoTag \notin Tag /\ Inline \in BOOLEAN

NextStatus == {"SHUTDOWN", "GOT_EVENT", "TIMEOUT"}

VARIABLES
  pending,     \* the actions begun whose operation gRPC has not completed
  events,      \* the completed ones, with their ok, that AsyncNext will return
  down,        \* the completion queue was shut down
  misused,     \* an operation was begun after that (gRPC aborts the process)
  polling,     \* where the thread that calls asyncNext is
  current,     \* the action it finalises
  currentOk,   \* the ok of that action
  status,      \* the local variable of asyncNext
  nextStatus,  \* _nextStatus
  finalized,   \* the actions finalised and deleted
  owner        \* where the owner of the queue is

grpcVars == <<pending, events, down, misused>>
pollVars == <<polling, current, currentOk, status, nextStatus, finalized>>
queueVars == <<grpcVars, pollVars, owner>>

\* _nextStatus has no initialiser: before the first store it holds anything.
QueueInit ==
  /\ pending = {} /\ events = {}
  /\ down = FALSE /\ misused = FALSE
  /\ polling = "none"
  /\ current = NoTag /\ currentOk = FALSE
  /\ status = "TIMEOUT" /\ nextStatus \in NextStatus
  /\ finalized = {}
  /\ owner = "running"

Begun(a) == a \in pending \cup finalized \cup {current} \cup {e.tag : e \in events}

-----------------------------------------------------------------------------
(* gRPC.                                                                   *)

\* Operations whose tags are the actions in A start.
Begin(A) ==
  /\ pending' = pending \cup A
  /\ misused' = (misused \/ (down /\ A # {}))

\* Operations of A complete, all with the same ok.
Complete(A, ok) ==
  /\ A # {} /\ A \subseteq pending
  /\ pending' = pending \ A
  /\ events' = events \cup {[tag |-> a, ok |-> ok] : a \in A}
  /\ UNCHANGED <<down, misused, pollVars, owner>>

-----------------------------------------------------------------------------
(* asyncNext, and the loop around it.                                      *)

\* The thread starts; or the owner calls asyncNext, as often as it likes.
StartPolling ==
  /\ polling = "none" \/ (Inline /\ polling = "stopped")
  /\ owner \in {"running", "joining"}
  /\ polling' = "next"
  /\ UNCHANGED <<grpcVars, current, currentOk, status, nextStatus, finalized, owner>>

\* AsyncNext returns GOT_EVENT.
GotEvent ==
  /\ polling = "next"
  /\ \E e \in events :
       /\ events' = events \ {e}
       /\ current' = e.tag /\ currentOk' = e.ok
  /\ status' = "GOT_EVENT"
  /\ polling' = "finalize"
  /\ UNCHANGED <<pending, down, misused, nextStatus, finalized, owner>>

ForgetCurrent == UNCHANGED <<finalized, current>>

\* finalizeResult, at its end: delete action.
DeleteAction ==
  /\ finalized' = finalized \cup {current}
  /\ current' = NoTag

\* The virtual finalizeResult returned.
FinalizeResult ==
  /\ polling = "finalize"
  /\ DeleteAction
  /\ polling' = "store"
  /\ UNCHANGED <<currentOk, status, nextStatus, owner>>

\* AsyncNext returns without an event: the deadline passed (the loops have none).
TimedOut ==
  /\ polling = "next" /\ Inline
  /\ status' = "TIMEOUT"
  /\ polling' = "store"
  /\ UNCHANGED <<grpcVars, current, currentOk, nextStatus, finalized, owner>>

\* AsyncNext returns SHUTDOWN only when nothing more can come.
Drained == down /\ pending = {} /\ events = {}

SawShutdown ==
  /\ polling = "next" /\ Drained
  /\ status' = "SHUTDOWN"
  /\ polling' = "store"
  /\ UNCHANGED <<grpcVars, current, currentOk, nextStatus, finalized, owner>>

KeepNextStatus == UNCHANGED nextStatus

StoreStatus == nextStatus' = status

\* _nextStatus.store(status); asyncNext returns, and the loop goes on or ends.
Store ==
  /\ polling = "store"
  /\ StoreStatus
  /\ polling' = IF Inline \/ status = "SHUTDOWN" THEN "stopped" ELSE "next"
  /\ UNCHANGED <<grpcVars, current, currentOk, status, finalized, owner>>

-----------------------------------------------------------------------------
(* The owner: shutdown(), join the thread, destroy the queue.              *)

NoJoin == TRUE

\* thread::join returns.  Inline, the owner is not inside asyncNext; it may never have
\* called it.
ThreadEnded == polling = "stopped" \/ (Inline /\ polling = "none")

\* shutdown().
Shutdown ==
  /\ owner = "running"
  /\ Inline => ThreadEnded
  /\ down' = TRUE
  /\ owner' = "joining"
  /\ UNCHANGED <<pending, events, misused, pollVars>>

\* The owner enters the destructor; Inline, perhaps without a shutdown().
Joined ==
  /\ owner = "joining" \/ (Inline /\ owner = "running")
  /\ ThreadEnded
  /\ owner' = "destroying"
  /\ UNCHANGED <<grpcVars, pollVars>>

\* waitForShutdown: the loop reads SHUTDOWN (if nobody has called asyncNext, in a
\* _nextStatus without a value); the completion queue is destroyed.
Destroyed ==
  /\ owner = "destroying" /\ nextStatus = "SHUTDOWN"
  /\ owner' = "destroyed"
  /\ UNCHANGED <<grpcVars, pollVars>>

-----------------------------------------------------------------------------
(* The queue by itself: an application begins actions and gRPC completes    *)
(* them.                                                                    *)

\* While the owner runs, or from the finalizeResult of another action: that may be
\* after shutdown().
BeginOne(a) ==
  /\ owner = "running" \/ polling = "finalize"
  /\ ~Begun(a)
  /\ Begin({a})
  /\ UNCHANGED <<events, down, pollVars, owner>>

FinalizeOne == FinalizeResult /\ UNCHANGED grpcVars

\* The owner is done, or (Inline) spins in the destructor: DestructorReturns is
\* what tells the two apart.
QueueStopped ==
  /\ owner \in {"destroying", "destroyed"} /\ ThreadEnded
  /\ UNCHANGED queueVars

PollNext ==
  GotEvent \/ FinalizeOne \/ TimedOut \/ SawShutdown \/ Store

OwnerNext == Shutdown \/ Joined \/ Destroyed

QueueNext ==
  \/ \E a \in Tag : BeginOne(a)
  \/ \E a \in Tag, ok \in BOOLEAN : Complete({a}, ok)
  \/ StartPolling \/ PollNext \/ OwnerNext \/ QueueStopped

QueueSpec == QueueInit /\ [][QueueNext]_queueVars

\* The threads run, operations complete, and the owner, which may keep the queue
\* as long as it likes, goes through with its shutdown once it has begun it.
QueueFairSpec ==
  /\ QueueSpec
  /\ WF_queueVars(StartPolling)
  /\ WF_queueVars(PollNext)
  /\ WF_queueVars((owner = "joining" /\ Joined) \/ Destroyed)
  /\ \A a \in Tag : WF_queueVars(\E ok \in BOOLEAN : Complete({a}, ok))

-----------------------------------------------------------------------------
(* Properties.                                                             *)

QueueTypeOK ==
  /\ pending \subseteq Tag
  /\ events \subseteq [tag : Tag, ok : BOOLEAN]
  /\ down \in BOOLEAN /\ misused \in BOOLEAN
  /\ polling \in {"none", "next", "finalize", "store", "stopped"}
  /\ current \in Tag \cup {NoTag} /\ (current # NoTag <=> polling = "finalize")
  /\ currentOk \in BOOLEAN
  /\ status \in NextStatus /\ nextStatus \in NextStatus
  /\ finalized \subseteq Tag
  /\ owner \in {"running", "joining", "destroying", "destroyed"}

\* The destructor does not return, and so the completion queue and _nextStatus do
\* not go away, while an action is outstanding or asyncNext still runs; except that of
\* an owner that never called asyncNext, where _nextStatus may say anything.
DestroyedWhenDrained ==
  owner = "destroyed" =>
    \/ pending = {} /\ events = {} /\ current = NoTag /\ polling = "stopped"
    \/ Inline /\ polling = "none"

\* An action belongs to gRPC, to the events, to asyncNext, or is deleted, and to
\* one of them only: it is finalised once and never used after it is deleted.
OneHolder ==
  /\ pending \cap finalized = {}
  /\ current \notin pending \cup finalized
  /\ \A e \in events :
       /\ e.tag \notin pending \cup finalized \cup {current}
       /\ \A f \in events : e.tag = f.tag => e = f

\* Where the owner is says whether the queue was shut down (Inline, he may forget), and
\* past the join nobody polls.
OwnerInv ==
  /\ down => owner # "running"
  /\ owner = "joining" \/ (~Inline /\ owner # "running") => down
  /\ owner \in {"destroying", "destroyed"} => ThreadEnded
  /\ owner = "destroyed" => nextStatus = "SHUTDOWN"

\* SHUTDOWN is final: once asyncNext has seen it the queue stays empty, and it is
\* what a stopped polling stored.
StatusInv ==
  /\ status = "SHUTDOWN" => Drained
  /\ polling = "finalize" => status = "GOT_EVENT"
  /\ polling = "stopped" => nextStatus = status
  /\ ~Inline /\ polling = "stopped" => status = "SHUTDOWN"

\* The inductive invariant.
QueueIInv == QueueTypeOK /\ OneHolder /\ OwnerInv /\ StatusInv

\* The destructor returns, if asyncNext and shutdown() were called before.
DestructorReturns ==
  owner = "destroying" /\ down /\ polling = "stopped" ~> owner = "destroyed"

=============================================================================
