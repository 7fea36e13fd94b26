--------------------------- MODULE AutoconnectStream ---------------------------
(***************************************************************************)
(* autoconnect_stream with read_op, write_op, reconnect_op, shutdown_op    *)
(* and resolve_op: a stream that is replaced by a new one when an          *)
(* operation on it fails, over a list of brokers.                          *)
(*                                                                         *)
(* The reader always has a read_op, the writer one at a time.  The one     *)
(* that fails first takes the connection mutex and connects; the other     *)
(* finds the stream replaced when it gets the mutex.  The mutex is what    *)
(* FifoLock promises, kept as one sequence with its owner in front.  What  *)
(* connect_op does up to the CONNACK is one attempt that succeeds or not.  *)
(* A definition named after another one with a remark is a mistaken form   *)
(* of it, which a property rules out.                                      *)
(***************************************************************************)
EXTENDS Integers, Sequences, FiniteSets

CONSTANTS
    Transports,   \* of the stream: "tcp", or "tls" if it has a close hand-shake
    Servers,      \* numbers of brokers that the application may have given
    MaxEndpoints, \* bound: addresses of one broker
    MaxGen,       \* bound: streams after the first one
    Faults        \* what else may happen, see the guards

ASSUME AutoconnectAssumption ==
    /\ Transports \subseteq {"tcp", "tls"} /\ Servers \subseteq Nat
    /\ MaxEndpoints \in Nat \ {0} /\ MaxGen \in Nat
    /\ Faults \subseteq {"cancel", "shutdown", "timeout", "fatal"}

VARIABLES
    transport, servers,   \* chosen once
    gen,       \* the number of *_stream_ptr
    links,     \* every stream: closed, fresh (opened, not connected), up, down
    ops,       \* read_op and write_op
    lock,      \* _conn_mtx: its owner and those who wait
    stage,     \* what the owner of the mutex waits for
    host,      \* endpoints::_current_host
    eps,       \* addresses of this broker that are left to try
    closing    \* the stream that shutdown_op shuts down

vars == <<transport, servers, gen, links, ops, lock, stage, host, eps, closing>>

Ops == {"read", "write"}
None == -1
Open == links[gen] # "closed"    \* is_open()
-------------------------------------------------------------------------------
\* was_connected(): whether the socket has a remote end.  On one that is broken
\* the system may answer either way.
WasConnected(link) ==
    (IF link \in {"up", "down"} THEN {TRUE} ELSE {})
    \cup (IF link = "up" THEN {} ELSE {FALSE})

\* read_op::perform and write_op::perform on stream g: a transfer, or a posted
\* not_connected.
Begun(g, link, res) ==
    {[phase |-> IF c THEN "io" ELSE "ready", on |-> g,
      ec |-> IF c THEN "none" ELSE "fail", res |-> res] : c \in WasConnected(link)}

\* An operation after it completed with res, g being the current stream: the
\* reader reads on until it is told to stop.
Completed(o, res, g, link) ==
    IF o = "read" /\ res \in {"ok", "try_again"} THEN Begun(g, link, res)
    ELSE {[phase |-> IF o = "read" THEN "done" ELSE "idle", on |-> None,
           ec |-> "none", res |-> res]}

StageAfter(l) == IF l = <<>> THEN "none" ELSE "posted"

\* client_service::cancel as far as the stream goes, with l the mutex and p the
\* operations: whoever waits for the mutex is aborted, the stream is closed.
Close(l, p) ==
    LET withdrawn == {l[i] : i \in 2..Len(l)}
    IN  /\ lock' = IF l = <<>> THEN <<>> ELSE <<Head(l)>>
        /\ ops' = [o \in Ops |-> IF o \in withdrawn
                                 THEN [p[o] EXCEPT !.phase = "aborted"] ELSE p[o]]
        /\ links' = [links EXCEPT ![gen] = "closed"]
        /\ UNCHANGED gen

\* reconnect_op::complete: unlock, then the handler.
Finish(res) ==
    LET o == Head(lock)
    IN  /\ lock' = Tail(lock)
        /\ stage' = StageAfter(Tail(lock))
        /\ ops' \in {[ops EXCEPT ![o] = r] : r \in Completed(o, res, gen', links'[gen'])}

Aborted == UNCHANGED <<gen, links, host, eps>> /\ Finish("aborted")

NextHostNotReset ==
    /\ \/ servers = 0 /\ stage' = "no_host" /\ UNCHANGED host
       \/ servers > 0 /\ host + 1 = servers /\ stage' = "round" /\ UNCHANGED host
       \/ host + 1 < servers /\ host' = host + 1 /\ stage' = "resolve"
    /\ UNCHANGED <<gen, links, ops, lock, eps>>

\* resolve_op::perform: the next broker, a pause after the last one.
NextHost ==
    /\ \/ servers = 0 /\ stage' = "no_host" /\ UNCHANGED host
       \/ servers > 0 /\ host + 1 = servers /\ host' = -1 /\ stage' = "round"
       \/ host + 1 < servers /\ host' = host + 1 /\ stage' = "resolve"
    /\ UNCHANGED <<gen, links, ops, lock, eps>>
-------------------------------------------------------------------------------
\* async_run opens the stream and starts the reader.
Init ==
    /\ transport \in Transports /\ servers \in Servers
    /\ gen = 0
    /\ links = [g \in 0..MaxGen |-> IF g = 0 THEN "fresh" ELSE "closed"]
    /\ \E r \in Begun(0, "fresh", "none") :
          ops = [o \in Ops |-> IF o = "read" THEN r
                               ELSE [phase |-> "idle", on |-> None, ec |-> "none",
                                     res |-> "none"]]
    /\ lock = <<>> /\ stage = "none"
    /\ host = -1 /\ eps = 0 /\ closing = None

\* async_sender writes.
StartWrite ==
    /\ ops["write"].phase = "idle"
    /\ \E r \in Begun(gen, links[gen], ops["write"].res) :
          ops' = [ops EXCEPT !["write"] = r]
    /\ UNCHANGED <<transport, servers, gen, links, lock, stage, host, eps, closing>>

\* A transfer ends: the error code with which its handler will run.  Bytes may
\* be written to a connection that is down; what arrived before it went down was
\* read before.
Outcomes(o) ==
    LET link == links[ops[o].on]
    IN  CASE link = "up" -> {"ok"} \cup (IF o = "read" /\ gen < MaxGen
                                         THEN Faults \cap {"timeout"} ELSE {})
          [] link = "down" -> {"fail"} \cup (Faults \cap {"fatal"})
                              \cup (IF o = "write" THEN {"ok"} ELSE {})
          [] OTHER -> {"abort"}

Transfer(o) ==
    /\ ops[o].phase = "io"
    /\ \E ec \in Outcomes(o) :
          ops' = [ops EXCEPT ![o].phase = "ready", ![o].ec = ec]
    /\ UNCHANGED <<transport, servers, gen, links, lock, stage, host, eps, closing>>

\* read_op::operator()(on_read), write_op::operator()(on_write)
OnTransfer(o) ==
    /\ ops[o].phase = "ready"
    /\ \/ /\ ~Open \/ ops[o].ec = "ok"
          /\ \E r \in Completed(o, IF Open THEN "ok" ELSE "aborted", gen, links[gen]) :
                ops' = [ops EXCEPT ![o] = r]
          /\ UNCHANGED <<gen, links, lock, stage>>
       \/ /\ Open /\ ops[o].ec \in {"fail", "timeout", "abort"}
          /\ ops' = [ops EXCEPT ![o].phase = "lock"]
          /\ lock' = Append(lock, o)
          /\ stage' = IF lock = <<>> THEN "posted" ELSE stage
          /\ UNCHANGED <<gen, links>>
       \/ /\ Open /\ ops[o].ec = "fatal"
          /\ \E r \in Completed(o, "no_recovery", gen, "closed") :
                Close(lock, [ops EXCEPT ![o] = r])
          /\ UNCHANGED stage
    /\ UNCHANGED <<transport, servers, host, eps, closing>>
-------------------------------------------------------------------------------
Locked(o) == lock # <<>> /\ Head(lock) = o /\ stage = "posted"

OnLockedUnchecked(o) ==
    /\ Locked(o)
    /\ \/ ~Open /\ Aborted
       \/ Open /\ NextHost
    /\ UNCHANGED <<transport, servers, closing>>

OnLockedClosedKeepsLock(o) ==
    /\ Locked(o)
    /\ \/ /\ ~Open
          /\ ops' \in {[ops EXCEPT ![o] = r] :
                         r \in Completed(o, "aborted", gen, links[gen])}
          /\ UNCHANGED <<gen, links, lock, stage, host, eps>>
       \/ /\ Open /\ ops[o].on # gen
          /\ UNCHANGED <<gen, links, host, eps>> /\ Finish("try_again")
       \/ Open /\ ops[o].on = gen /\ NextHost
    /\ UNCHANGED <<transport, servers, closing>>

\* reconnect_op::operator()(on_locked): the stream may have been replaced by the
\* one who had the mutex before.
OnLocked(o) ==
    /\ Locked(o)
    /\ \/ ~Open /\ Aborted
       \/ /\ Open /\ ops[o].on # gen
          /\ UNCHANGED <<gen, links, host, eps>> /\ Finish("try_again")
       \/ Open /\ ops[o].on = gen /\ NextHost
    /\ UNCHANGED <<transport, servers, closing>>

\* The mutex was cancelled while the operation waited for it.
OnAborted(o) ==
    /\ ops[o].phase = "aborted"
    /\ ops' \in {[ops EXCEPT ![o] = r] :
                   r \in Completed(o, IF Open THEN "try_again" ELSE "aborted",
                                   gen, links[gen])}
    /\ UNCHANGED <<transport, servers, gen, links, lock, stage, host, eps, closing>>

\* resolve_op::operator()(on_resolve): the addresses of the broker; the next
\* broker if there are none; aborted with the timer that cancel() cancels.
Resolved ==
    /\ stage = "resolve" /\ Open
    /\ stage' = "connect" /\ eps' \in 1..MaxEndpoints
    /\ UNCHANGED <<transport, servers, gen, links, ops, lock, host, closing>>

NotResolved ==
    /\ stage = "resolve"
    /\ NextHost \/ (~Open /\ Aborted)
    /\ UNCHANGED <<transport, servers, closing>>

\* reconnect_op::operator()(on_next_endpoint) after a round over the brokers, or
\* when there is none.
OnNextEndpoint ==
    /\ stage \in {"round", "no_host"}
    /\ \/ ~Open /\ Aborted
       \/ /\ Open /\ stage = "round"
          /\ stage' = "backoff"
          /\ UNCHANGED <<gen, links, ops, lock, host, eps>>
       \/ /\ Open /\ stage = "no_host"
          /\ \E r \in Completed(Head(lock), "no_recovery", gen, "closed") :
                Close(Tail(lock), [ops EXCEPT ![Head(lock)] = r])
          /\ stage' = StageAfter(Tail(lock))
          /\ UNCHANGED <<host, eps>>
    /\ UNCHANGED <<transport, servers, closing>>

OnBackoff ==
    /\ stage = "backoff"
    /\ (~Open /\ Aborted) \/ (Open /\ NextHost)
    /\ UNCHANGED <<transport, servers, closing>>

ConnectedUnchecked ==
    /\ stage = "connect" /\ gen < MaxGen
    /\ gen' = gen + 1
    /\ links' = [links EXCEPT ![gen] = "closed", ![gen + 1] = "up"]
    /\ Finish("try_again")
    /\ UNCHANGED <<transport, servers, host, eps, closing>>

\* reconnect_op::operator()(on_connect) with success: replace_next_layer.
Connected ==
    /\ stage = "connect" /\ Open /\ gen < MaxGen
    /\ gen' = gen + 1
    /\ links' = [links EXCEPT ![gen] = "closed", ![gen + 1] = "up"]
    /\ Finish("try_again")
    /\ UNCHANGED <<transport, servers, host, eps, closing>>

\* The attempt failed, took five seconds, or the client was closed.
NotConnected ==
    /\ stage = "connect"
    /\ \/ ~Open /\ Aborted
       \/ /\ Open /\ eps > 1
          /\ eps' = eps - 1
          /\ UNCHANGED <<gen, links, ops, lock, stage, host>>
       \/ Open /\ eps = 1 /\ NextHost
    /\ UNCHANGED <<transport, servers, closing>>
-------------------------------------------------------------------------------
\* shutdown_op::perform, called by disconnect_op when its packet was written.  A
\* socket is shut down at once; a stream with a close hand-shake is replaced by
\* a new one first, unless somebody is connecting already.
Shutdown ==
    /\ "shutdown" \in Faults /\ Open
    /\ ops["write"].phase = "idle" /\ ops["write"].res = "ok"
    /\ \/ /\ transport = "tcp" /\ links[gen] = "up" /\ gen < MaxGen
          /\ links' = [links EXCEPT ![gen] = "down"]
          /\ UNCHANGED <<gen, lock, stage, closing>>
       \/ /\ transport = "tls" /\ lock = <<>> /\ gen + 1 < MaxGen
          /\ gen' = gen + 1
          /\ links' = [links EXCEPT ![gen + 1] = "fresh"]
          /\ closing' = gen
          /\ lock' = <<"shutdown">> /\ stage' = "posted"
    /\ UNCHANGED <<transport, servers, ops, host, eps>>

\* shutdown_op::operator()(on_locked)
OnShutdownLocked ==
    /\ Locked("shutdown") /\ Open
    /\ stage' = "shut"
    /\ UNCHANGED <<transport, servers, gen, links, ops, lock, host, eps, closing>>

\* shutdown_op::operator()(on_shutdown), or on_locked of a closed client: unlock
\* and close the old stream.
OnShutdown ==
    /\ stage = "shut" \/ (Locked("shutdown") /\ ~Open)
    /\ lock' = Tail(lock)
    /\ stage' = StageAfter(Tail(lock))
    /\ links' = [links EXCEPT ![closing] = "closed"]
    /\ closing' = None
    /\ UNCHANGED <<transport, servers, gen, ops, host, eps>>

\* mqtt_client::cancel()
Cancel ==
    /\ "cancel" \in Faults /\ Open
    /\ Close(lock, ops)
    /\ UNCHANGED <<transport, servers, stage, host, eps, closing>>

\* A connection breaks; the last one is a lasting one.
Break(g) ==
    /\ links[g] = "up" /\ gen < MaxGen
    /\ links' = [links EXCEPT ![g] = "down"]
    /\ UNCHANGED <<transport, servers, gen, ops, lock, stage, host, eps, closing>>

Next ==
    \/ \E o \in Ops : Transfer(o) \/ OnTransfer(o) \/ OnLocked(o) \/ OnAborted(o)
    \/ StartWrite
    \/ Resolved \/ NotResolved \/ OnNextEndpoint \/ OnBackoff
    \/ Connected \/ NotConnected
    \/ Shutdown \/ OnShutdownLocked \/ OnShutdown
    \/ Cancel
    \/ \E g \in 0..MaxGen : Break(g)

\* The executor runs handlers that are ready; timers expire; a transfer on a
\* stream that is not up ends; and brokers are not out of reach for ever: if
\* names are resolved again and again, it works some time, and so do connects.
Fairness ==
    /\ \A o \in Ops :
          /\ WF_vars(Transfer(o) /\ links[ops[o].on] # "up")
          /\ WF_vars(OnTransfer(o)) /\ WF_vars(OnLocked(o)) /\ WF_vars(OnAborted(o))
    /\ WF_vars(OnNextEndpoint) /\ WF_vars(OnBackoff)
    /\ WF_vars(OnShutdownLocked) /\ WF_vars(OnShutdown)
    /\ WF_vars(NotResolved) /\ WF_vars(NotConnected)
    /\ SF_vars(Resolved) /\ SF_vars(Connected)

Spec == Init /\ [][Next]_vars
FairSpec == Spec /\ Fairness
-------------------------------------------------------------------------------
\* A connection that is up is not thrown away: only a read that timed out on it
\* and a shutdown replace it, never the operation that failed on an older one.
KeepsGoodConnection ==
    [][gen' # gen /\ links[gen] = "up"
       => \/ lock' = <<"shutdown">>
          \/ Head(lock) = "read" /\ ops["read"].ec = "timeout"]_vars

\* The reader and the writer are told of a new stream, and of a closed client,
\* exactly when it is so, and cancel() is final, as StreamService says.
Service == INSTANCE StreamService WITH
    open <- Open,
    on <- [o \in Ops |-> ops[o].on],
    res <- [o \in Ops |-> ops[o].res]
ImplementsStreamService == Service!Spec

\* Nobody waits for the connection mutex, or connects, for ever.
EveryReconnectEnds ==
    \A o \in Ops : ops[o].phase = "lock" ~> ops[o].phase # "lock"

\* After cancel() every operation ends, and the mutex is free.
CancelEndsAll ==
    ~Open ~> lock = <<>> /\ \A o \in Ops : ops[o].phase \in {"idle", "done"}
===============================================================================
