------------------------------ MODULE AsyncMutex ------------------------------
(***************************************************************************)
(* detail::async_mutex: the asynchronous mutex that serialises the         *)
(* operations that replace the stream (reconnect_op, shutdown_op).         *)
(*                                                                         *)
(* A lock request is queued in _waiting while the mutex is locked.  The    *)
(* handler of a granted or aborted request runs in a later step.           *)
(* Cancelling one waiting request moves its handler out of the deque and   *)
(* leaves an empty slot behind, which unlock() and cancel() skip.          *)
(*                                                                         *)
(* A definition named after another one with a remark (LockAtFront after   *)
(* Lock) is a mistaken form of it, which some property below rules out.    *)
(***************************************************************************)
EXTENDS Naturals, Sequences

CONSTANTS Ops,       \* the operations that lock the mutex
          NoOp,      \* an empty slot of the deque
          MaxSlots   \* bound: slots of the deque, empty ones included

ASSUME NoOpAssumption == NoOp \notin Ops
ASSUME MaxSlotsAssumption == MaxSlots \in Nat

VARIABLES
    locked,    \* _locked
    waiting,   \* _waiting: a sequence of handlers and empty slots
    granted,   \* operations whose handler is posted with success
    aborted,   \* operations whose handler is posted with operation_aborted
    holding    \* operations whose handler ran with success, not yet unlocked

MutexVars == <<locked, waiting, granted, aborted, holding>>

Queued == {waiting[i] : i \in DOMAIN waiting} \ {NoOp}

MutexTypeOK ==
    /\ locked \in BOOLEAN
    /\ waiting \in Seq(Ops \cup {NoOp})
    /\ granted \in SUBSET Ops
    /\ aborted \in SUBSET Ops
    /\ holding \in SUBSET Ops

MutexInit ==
    /\ locked = FALSE
    /\ waiting = <<>>
    /\ granted = {}
    /\ aborted = {}
    /\ holding = {}

\* An operation has at most one request outstanding.
Outstanding == Queued \cup granted \cup aborted \cup holding

LockUnchecked(op) ==
    /\ op \notin Outstanding
    /\ locked' = TRUE
    /\ granted' = granted \cup {op}
    /\ UNCHANGED <<waiting, aborted, holding>>

LockAtFront(op) ==
    /\ op \notin Outstanding
    /\ \/ /\ locked
          /\ Len(waiting) < MaxSlots
          /\ waiting' = <<op>> \o waiting
          /\ UNCHANGED <<locked, granted>>
       \/ /\ ~locked
          /\ locked' = TRUE
          /\ granted' = granted \cup {op}
          /\ UNCHANGED waiting
    /\ UNCHANGED <<aborted, holding>>

\* execute_or_queue: queue the handler if locked, otherwise lock and post it.
Lock(op) ==
    /\ op \notin Outstanding
    /\ \/ /\ locked
          /\ Len(waiting) < MaxSlots
          /\ waiting' = Append(waiting, op)
          /\ UNCHANGED <<locked, granted>>
       \/ /\ ~locked
          /\ locked' = TRUE
          /\ granted' = granted \cup {op}
          /\ UNCHANGED waiting
    /\ UNCHANGED <<aborted, holding>>

\* The posted handler runs: with success it owns the mutex until it unlocks.
RunGranted(op) ==
    /\ op \in granted
    /\ granted' = granted \ {op}
    /\ holding' = holding \cup {op}
    /\ UNCHANGED <<locked, waiting, aborted>>

\* The handler runs with operation_aborted and does not unlock.
RunAborted(op) ==
    /\ op \in aborted
    /\ aborted' = aborted \ {op}
    /\ UNCHANGED <<locked, waiting, granted, holding>>

UnlockOnlyIfEmpty(op) ==
    /\ op \in holding
    /\ holding' = holding \ {op}
    /\ \/ /\ Queued = {}
          /\ waiting' = <<>>
          /\ locked' = (waiting # <<>>)
          /\ UNCHANGED granted
       \/ \E k \in 1..Len(waiting) :
             /\ waiting[k] # NoOp
             /\ \A j \in 1..(k - 1) : waiting[j] = NoOp
             /\ waiting' = SubSeq(waiting, k + 1, Len(waiting))
             /\ granted' = granted \cup {waiting[k]}
             /\ UNCHANGED locked
    /\ UNCHANGED aborted

\* unlock(): pop slots until one holds a handler; that one is granted.
Unlock(op) ==
    /\ op \in holding
    /\ holding' = holding \ {op}
    /\ \/ /\ Queued = {}
          /\ waiting' = <<>>
          /\ locked' = FALSE
          /\ UNCHANGED granted
       \/ \E k \in 1..Len(waiting) :
             /\ waiting[k] # NoOp
             /\ \A j \in 1..(k - 1) : waiting[j] = NoOp
             /\ waiting' = SubSeq(waiting, k + 1, Len(waiting))
             /\ granted' = granted \cup {waiting[k]}
             /\ UNCHANGED locked
    /\ UNCHANGED aborted

\* cancel_waiting_op: the request's cancellation slot fires while it waits.
CancelWaitingOp(op) ==
    \E k \in DOMAIN waiting :
        /\ waiting[k] = op
        /\ waiting' = [waiting EXCEPT ![k] = NoOp]
        /\ aborted' = aborted \cup {op}
        /\ UNCHANGED <<locked, granted, holding>>

\* cancel(): every waiting handler is posted with operation_aborted; the
\* operation that owns the mutex keeps it.
Cancel ==
    /\ waiting # <<>>
    /\ waiting' = <<>>
    /\ aborted' = aborted \cup Queued
    /\ UNCHANGED <<locked, granted, holding>>

MutexNext ==
    \/ \E op \in Ops :
          \/ Lock(op)
          \/ RunGranted(op)
          \/ RunAborted(op)
          \/ Unlock(op)
          \/ CancelWaitingOp(op)
    \/ Cancel

\* The executor runs every posted handler, and the handlers in this code base
\* (reconnect_op, shutdown_op) unlock on every path after they were granted.
Fairness ==
    \A op \in Ops : WF_MutexVars(RunGranted(op)) /\ WF_MutexVars(RunAborted(op))
                    /\ WF_MutexVars(Unlock(op))

MutexSpec == MutexInit /\ [][MutexNext]_MutexVars
FairSpec == MutexSpec /\ Fairness
-------------------------------------------------------------------------------
\* Two handlers never own the mutex at once, counting the handler whose grant
\* is still on its way through the executor; so reconnect_op and shutdown_op
\* never replace the stream concurrently.
MutualExclusion ==
    \A p, q \in granted \cup holding : p = q

\* _locked is true exactly while some operation owns the mutex or is about to:
\* cancel() and empty slots never leave it locked with nobody to unlock it, and
\* nobody waits in front of an unlocked mutex (no lost wake-up).
NoLostWakeup ==
    /\ locked <=> (granted \cup holding # {})
    /\ ~locked => Queued = {}

\* A handler is called once: an operation is in one place at a time, so a
\* request that was aborted by cancel() or by its slot is not granted later.
CompletesOnce ==
    /\ \A i, j \in DOMAIN waiting :
          waiting[i] = waiting[j] /\ waiting[i] # NoOp => i = j
    /\ granted \cap aborted = {}
    /\ holding \cap (granted \cup aborted) = {}
    /\ Queued \cap (granted \cup aborted \cup holding) = {}

\* Every lock request is eventually answered: granted or aborted.
EveryRequestAnswered ==
    \A op \in Ops : op \in Queued ~> op \in holding \cup aborted

\* The mutex implements the first-come first-served lock: the owner is the
\* operation granted or holding, and the line is _waiting without empty slots.
\* So a request is granted when all that came before it were granted or
\* withdrawn, wherever cancellations left empty slots.
Owner == IF granted \cup holding = {} THEN NoOp
         ELSE CHOOSE op \in granted \cup holding : TRUE

\* The pairs of requests of which the first waits in front of the second.
InFront == {e \in Queued \X Queued :
                \E i, j \in DOMAIN waiting : i < j /\ e = <<waiting[i], waiting[j]>>}

Abstract == INSTANCE FifoLock WITH owner <- Owner, line <- Queued, ahead <- InFront

ImplementsFifoLock == Abstract!Spec
===============================================================================
