------------------------------- MODULE FifoLock -------------------------------
(***************************************************************************)
(* What the connection mutex promises to the operations that reconnect or  *)
(* shut the stream down: at most one owner, the lock is handed over in the *)
(* order of the requests, and a request can be withdrawn only while it     *)
(* waits.  async_mutex (module AsyncMutex) implements this specification.  *)
(***************************************************************************)
CONSTANTS Ops,    \* the operations that may request the lock
          NoOp    \* not an operation

VARIABLES owner,   \* the operation the lock belongs to, or NoOp
          line,    \* the requests that wait
          ahead    \* the pairs of them in which the first came before the second

vars == <<owner, line, ahead>>

Init == owner = NoOp /\ line = {} /\ ahead = {}

Request(op) ==
    /\ op \notin line \cup {owner}
    /\ \/ /\ owner = NoOp /\ line = {}
          /\ owner' = op
          /\ UNCHANGED <<line, ahead>>
       \/ /\ owner # NoOp
          /\ line' = line \cup {op}
          /\ ahead' = ahead \cup (line \X {op})
          /\ owner' = owner

\* op leaves the line, the others stay in their order.
Leave(op) ==
    /\ line' = line \ {op}
    /\ ahead' = {e \in ahead : op \notin {e[1], e[2]}}

Release ==
    /\ owner # NoOp
    /\ \/ line = {} /\ owner' = NoOp /\ UNCHANGED <<line, ahead>>
       \/ \E op \in line :
             /\ \A other \in line \ {op} : <<op, other>> \in ahead
             /\ owner' = op
             /\ Leave(op)

Withdraw(op) == op \in line /\ Leave(op) /\ owner' = owner

WithdrawAll == owner' = owner /\ line' = {} /\ ahead' = {}

Next ==
    \/ \E op \in Ops : Request(op) \/ Withdraw(op)
    \/ Release
    \/ WithdrawAll

Spec == Init /\ [][Next]_vars
===============================================================================
