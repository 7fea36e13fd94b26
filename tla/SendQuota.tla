------------------------------- MODULE SendQuota -------------------------------
(***************************************************************************)
(* The Receive Maximum window of async_sender on its own: _limit, _quota   *)
(* and which QoS 1 and QoS 2 operations have been charged to the quota.    *)
(* Everything that decides when a write starts and what is in it besides   *)
(* (the write in progress, unthrottled packets, order) is left open: a     *)
(* call of do_write may take any throttled requests the quota pays for.    *)
(* PublishFlow implements this specification.                              *)
(***************************************************************************)
EXTENDS Naturals, FiniteSets

CONSTANTS
    Senders,     \* the operations that send throttled packets
    MAX_LIMIT    \* the limit that stands for "no Receive Maximum"

\* What the proofs ask of the constants.
QuotaConstants == MAX_LIMIT \in Nat \ {0} /\ IsFiniteSet(Senders)

VARIABLES
    limit, quota,
    queued,      \* operations with a throttled request in _write_queue
    inflight     \* operations charged to the quota and not yet done

QuotaVars == <<limit, quota, queued, inflight>>

QuotaTypeOK ==
    /\ limit \in 1..MAX_LIMIT /\ quota \in 0..MAX_LIMIT
    /\ queued \in SUBSET Senders /\ inflight \in SUBSET Senders

QuotaInit ==
    /\ limit = MAX_LIMIT /\ quota = MAX_LIMIT
    /\ queued = {} /\ inflight = {}

\* do_write with q queued, f in flight and k the quota.
DoWrite(q, f, k) ==
    \E T \in SUBSET q :
        /\ queued' = q \ T
        /\ inflight' = f \cup T
        /\ \/ limit' = MAX_LIMIT /\ quota' = k
           \/ /\ limit' # MAX_LIMIT
              /\ Cardinality(T) <= k
              /\ quota' = k - Cardinality(T)

\* async_send of a throttled request.
AsyncSend(op) ==
    /\ op \notin queued \cup inflight
    /\ UNCHANGED limit
    /\ DoWrite(queued \cup {op}, inflight, quota)

\* throttled_op_done
Returned == IF limit = MAX_LIMIT THEN quota ELSE quota + 1

ThrottledOpDone(op) ==
    /\ op \in inflight
    /\ UNCHANGED limit
    /\ DoWrite(queued, inflight \ {op}, Returned)

\* A write completed, or an unthrottled request arrived.
Write == UNCHANGED limit /\ DoWrite(queued, inflight, quota)

\* A malformed reply: the operation queues its packet again, throttled, without
\* throttled_op_done.
SendAgain(op) ==
    /\ op \in inflight
    /\ UNCHANGED limit
    /\ DoWrite(queued \cup {op}, inflight \ {op}, quota)

\* resend() with the Receive Maximum of the new CONNACK: every operation queues
\* its packet again.
Resend(lim) ==
    /\ limit' = lim
    /\ DoWrite(queued \cup inflight, {}, lim)

QuotaNext ==
    \/ \E op \in Senders : AsyncSend(op) \/ ThrottledOpDone(op) \/ SendAgain(op)
    \/ Write
    \/ \E lim \in 1..MAX_LIMIT : Resend(lim)

QuotaSpec == QuotaInit /\ [][QuotaNext]_QuotaVars
-------------------------------------------------------------------------------
\* Under a Receive Maximum, _quota never promises more than is left: what it
\* still admits and what is in flight are together within the limit.
QuotaCovered ==
    limit # MAX_LIMIT => quota + Cardinality(inflight) <= limit

\* The operations in flight never exceed the Receive Maximum.
WindowRespected ==
    limit # MAX_LIMIT => Cardinality(inflight) <= limit

\* An operation is queued or in flight, not both: it is charged once.
ChargedOnce == queued \cap inflight = {}
===============================================================================
