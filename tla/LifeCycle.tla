------------------------------- MODULE LifeCycle -------------------------------
(***************************************************************************)
(* A client from async_run to the end of it: mqtt_client and the services  *)
(* that cancel and async_disconnect leave behind, run_op with the reader,  *)
(* ping_op and sentry_op, the timers these share, terminal_disconnect_op,  *)
(* and the channel that async_receive takes messages from.                 *)
(*                                                                         *)
(* A phase "aborted" has a handler waiting to run.  Connections come and   *)
(* go as Session has it, reads and writes end as AutoconnectStream has it; *)
(* what the channel keeps is BoundedDeque's matter, in Algorithms.  A      *)
(* definition named after another one with a remark is a mistaken form of  *)
(* it, which a property rules out.                                         *)
(***************************************************************************)
EXTENDS Integers, Sequences

CONSTANTS
    KeepAlives,    \* what the application sets: seconds, 0 for none
    ServerKeepAlives,   \* what a CONNACK may say instead
    MaxServices,   \* bound: services, the first one and its successors
    MaxRuns,       \* bound: calls of async_run
    RunsAtOnce     \* whether the application calls async_run again before a run
                   \* that it cancelled through its slot has completed

ASSUME LifeCycleAssumption ==
    /\ KeepAlives \subseteq Nat /\ KeepAlives # {} /\ ServerKeepAlives \subseteq Nat
    /\ MaxServices \in Nat \ {0} /\ MaxRuns \in Nat /\ RunsAtOnce \in BOOLEAN

VARIABLES
    impl,      \* _impl
    svc,       \* every service
    runs,      \* every run_op: its service and its three operations
    disc,      \* the terminal_disconnect_op of each service
    running    \* whether the application takes the client to be running

vars == <<impl, svc, runs, disc, running>>

None == -1
Services == 1..MaxServices
Runs == 1..MaxRuns

\* server_ka is the property server_keep_alive of the last CONNACK, if it has one.
NewService(keep_alive) ==
    [open |-> FALSE, link |-> "down", keep_alive |-> keep_alive, server_ka |-> None,
     closed |-> FALSE, waiting |-> FALSE]

\* negotiated_keep_alive
NegotiatedKeepAlive(s) ==
    IF svc[s].server_ka # None THEN svc[s].server_ka ELSE svc[s].keep_alive

Idle == [phase |-> "none", armed |-> None]
NewRun == [svc |-> None, reader |-> "none", ping |-> Idle, sentry |-> "none",
           asked |-> FALSE]

Init ==
    /\ impl = 1
    /\ svc = [s \in Services |-> NewService(60)]
    /\ runs = [r \in Runs |-> NewRun]
    /\ disc = [s \in Services |-> "none"]
    /\ running = FALSE
-------------------------------------------------------------------------------
\* client_service::cancel, for the service, for the operations of its runs, and for
\* the runs that the application asked to end.
CancelServiceKeepsChannel(s) ==
    [svc EXCEPT ![s] = IF ~@.open THEN @
                       ELSE [@ EXCEPT !.open = FALSE, !.link = "down"]]

CancelService(s) ==
    [svc EXCEPT ![s] = IF ~@.open THEN @
                       ELSE [@ EXCEPT !.open = FALSE, !.link = "down",
                                      !.closed = TRUE, !.waiting = FALSE]]

CancelPing(ping) == IF ping.phase = "waiting" THEN [phase |-> "aborted", armed |-> None]
                    ELSE ping

CancelRuns(s, asked) ==
    [r \in Runs |->
        IF runs[r].svc # s \/ ~svc[s].open THEN runs[r]
        ELSE [runs[r] EXCEPT !.reader = IF @ = "io" THEN "aborted" ELSE @,
                             !.ping = CancelPing(@),
                             !.sentry = IF @ = "waiting" THEN "aborted" ELSE @,
                             !.asked = @ \/ asked]]

\* dup: the copy has the settings of the application, but no CONNACK.
Dup(services) ==
    [services EXCEPT ![impl + 1] = NewService(services[impl].keep_alive)]

\* expires_after and async_wait on _ping_timer, in ping_op::perform of run r; the
\* others that wait for it are aborted.
Arm(r, rs) ==
    [q \in Runs |->
        IF q = r
        THEN [rs[r] EXCEPT !.ping = [phase |-> "waiting",
                                     armed |-> NegotiatedKeepAlive(rs[r].svc)]]
        ELSE IF rs[q].svc = rs[r].svc THEN [rs[q] EXCEPT !.ping = CancelPing(@)]
        ELSE rs[q]]

\* The same on _sentry_timer, in sentry_op::perform.
ArmSentry(r, rs) ==
    [q \in Runs |->
        IF q = r THEN [rs[r] EXCEPT !.sentry = "waiting"]
        ELSE IF rs[q].svc = rs[r].svc /\ rs[q].sentry = "waiting"
        THEN [rs[q] EXCEPT !.sentry = "aborted"]
        ELSE rs[q]]
-------------------------------------------------------------------------------
\* keep_alive, and likewise the other settings.  Bound: the application has its
\* settings before its first run; later services get them from dup.
BeforeFirstRun == impl = 1 /\ \A r \in Runs : runs[r].svc = None
Configure ==
    /\ BeforeFirstRun /\ ~svc[impl].open
    /\ \E k \in KeepAlives : svc' = [svc EXCEPT ![impl].keep_alive = k]
    /\ UNCHANGED <<impl, runs, disc, running>>

\* The r-th call of async_run.  reset of the channel aborts a receive.
AsyncRun(r) ==
    /\ ~running
    /\ \A q \in Runs : runs[q].svc = None <=> q >= r
    /\ running' = TRUE
    /\ svc' = [svc EXCEPT ![impl] = [@ EXCEPT !.open = TRUE, !.closed = FALSE,
                                              !.waiting = FALSE]]
    /\ runs' = ArmSentry(r, Arm(r, [runs EXCEPT ![r].svc = impl, ![r].reader = "io"]))
    /\ UNCHANGED <<impl, disc>>

ClientCancelWithoutDup ==
    /\ impl < MaxServices
    /\ svc' = CancelService(impl)
    /\ runs' = CancelRuns(impl, TRUE)
    /\ running' = FALSE
    /\ UNCHANGED <<impl, disc>>

\* mqtt_client::cancel
ClientCancel ==
    /\ impl < MaxServices
    /\ impl' = impl + 1
    /\ svc' = Dup(CancelService(impl))
    /\ runs' = CancelRuns(impl, TRUE)
    /\ running' = FALSE
    /\ UNCHANGED disc

\* The cancellation slot of run_op.
SlotCancel(r) ==
    /\ runs[r].svc = impl /\ runs[r].reader # "done" /\ svc[impl].open
    /\ svc' = CancelService(impl)
    /\ runs' = CancelRuns(impl, TRUE)
    /\ running' = (running /\ ~RunsAtOnce)
    /\ UNCHANGED <<impl, disc>>

\* mqtt_client::async_disconnect: the DISCONNECT is queued on the old service.
AsyncDisconnect ==
    /\ impl < MaxServices
    /\ impl' = impl + 1
    /\ svc' = Dup(svc)
    /\ runs' = [r \in Runs |-> [runs[r] EXCEPT !.asked = @ \/ runs[r].svc = impl]]
    /\ disc' = [disc EXCEPT ![impl] = "send"]
    /\ running' = FALSE

\* disconnect_op's on_disconnect: sent, or given up.
OnDisconnectSent(s) ==
    /\ disc[s] = "send"
    /\ \/ ~svc[s].open /\ disc' = [disc EXCEPT ![s] = "done"] /\ UNCHANGED <<svc, runs>>
       \/ /\ svc[s].open /\ svc[s].link = "up"
          /\ disc' = [disc EXCEPT ![s] = "shutdown"]
          /\ UNCHANGED <<svc, runs>>
       \/ /\ svc[s].open    \* no_recovery
          /\ disc' = [disc EXCEPT ![s] = "done"]
          /\ svc' = CancelService(s) /\ runs' = CancelRuns(s, FALSE)
    /\ UNCHANGED <<impl, running>>

\* disconnect_op's on_shutdown
OnShutdown(s) ==
    /\ disc[s] = "shutdown"
    /\ disc' = [disc EXCEPT ![s] = "done"]
    /\ svc' = CancelService(s) /\ runs' = CancelRuns(s, FALSE)
    /\ UNCHANGED <<impl, running>>

DiscTimeoutOnlyNoted(s) ==
    /\ disc[s] \in {"send", "shutdown"} /\ svc[s].open
    /\ UNCHANGED vars

\* The timer of terminal_disconnect_op expires, or its slot is used: the slot of
\* disconnect_op cancels the service.
DiscTimeout(s) ==
    /\ disc[s] \in {"send", "shutdown"} /\ svc[s].open
    /\ svc' = CancelService(s) /\ runs' = CancelRuns(s, FALSE)
    /\ UNCHANGED <<impl, disc, running>>
-------------------------------------------------------------------------------
\* ping_op.  The timer expired, or its wait was aborted.
PingIs(r, phase) == runs' = [runs EXCEPT ![r].ping = [phase |-> phase, armed |-> None]]

OnPingTimer(r) ==
    /\ \/ runs[r].ping.phase = "waiting" /\ runs[r].ping.armed # 0
       \/ runs[r].ping.phase = "aborted"
    /\ IF ~svc[runs[r].svc].open THEN PingIs(r, "done")
       ELSE IF runs[r].ping.phase = "aborted" THEN runs' = Arm(r, runs)
       ELSE PingIs(r, "sending")
    /\ UNCHANGED <<impl, svc, disc, running>>

OnPingreq(r) ==
    /\ runs[r].ping.phase = "sending"
    /\ \/ ~svc[runs[r].svc].open /\ PingIs(r, "done")
       \/ svc[runs[r].svc].link = "up" /\ runs' = Arm(r, runs)
    /\ UNCHANGED <<impl, svc, disc, running>>

\* sentry_op.  The same; a reply may be overdue.
OnSentryTimer(r) ==
    /\ runs[r].sentry \in {"waiting", "aborted"}
    /\ \/ ~svc[runs[r].svc].open /\ runs' = [runs EXCEPT ![r].sentry = "done"]
       \/ svc[runs[r].svc].open /\ runs' = ArmSentry(r, runs)
       \/ svc[runs[r].svc].open /\ runs' = [runs EXCEPT ![r].sentry = "disconnect"]
    /\ UNCHANGED <<impl, svc, disc, running>>

\* The DISCONNECT was sent and the stream is shut down, or another one is there.
OnSentryDisconnect(r) ==
    LET s == runs[r].svc
    IN  /\ runs[r].sentry = "disconnect"
        /\ \/ /\ ~svc[s].open
              /\ runs' = [runs EXCEPT ![r].sentry = "done"]
              /\ UNCHANGED svc
           \/ /\ svc[s].link = "up"
              /\ runs' = ArmSentry(r, runs)
              /\ svc' \in {svc, [svc EXCEPT ![s].link = "down"]}
        /\ UNCHANGED <<impl, disc, running>>

\* read_message_op, after its read was aborted: it ends, or has the connection
\* replaced and goes on.
OnRead(r) ==
    /\ runs[r].reader = "aborted"
    /\ runs' = [runs EXCEPT ![r].reader = IF svc[runs[r].svc].open THEN "io" ELSE "done"]
    /\ UNCHANGED <<impl, svc, disc, running>>

\* on_message with no_recovery
OnReadFatal(r) ==
    LET s == runs[r].svc
    IN  /\ runs[r].reader = "io" /\ svc[s].open
        /\ svc' = CancelService(s)
        /\ runs' = [CancelRuns(s, FALSE) EXCEPT ![r].reader = "done"]
        /\ UNCHANGED <<impl, disc, running>>

RunDone(r) ==
    runs[r].reader = "done" /\ runs[r].ping.phase = "done" /\ runs[r].sentry = "done"

\* The handler of a run that ended by itself is called: the application knows.
OnRunDone(r) ==
    /\ runs[r].svc = impl /\ RunDone(r) /\ running /\ ~svc[impl].open
    /\ running' = FALSE
    /\ UNCHANGED <<impl, svc, runs, disc>>
-------------------------------------------------------------------------------
\* on_connack: the properties are stored, whether it refuses or not.
Connack(s) ==
    /\ svc[s].open /\ svc[s].link = "down"
    /\ \E k \in ServerKeepAlives \cup {None}, l \in {"down", "connack"} :
          svc' = [svc EXCEPT ![s].server_ka = k, ![s].link = l]
    /\ UNCHANGED <<impl, runs, disc, running>>

EstablishedTimerKept(s) ==
    /\ svc[s].link = "connack"
    /\ svc' = [svc EXCEPT ![s].link = "up"]
    /\ UNCHANGED <<impl, runs, disc, running>>

\* Connected: update_session_state.
Established(s) ==
    /\ svc[s].link = "connack"
    /\ svc' = [svc EXCEPT ![s].link = "up"]
    /\ runs' = [r \in Runs |-> IF runs[r].svc = s
                               THEN [runs[r] EXCEPT !.ping = CancelPing(@)]
                               ELSE runs[r]]
    /\ UNCHANGED <<impl, disc, running>>

LinkBreaks(s) ==
    /\ svc[s].link # "down"
    /\ svc' = [svc EXCEPT ![s].link = "down"]
    /\ UNCHANGED <<impl, runs, disc, running>>

\* channel_store: what waits for it is done, else it is kept for later.
ChannelStore(s) ==
    /\ svc[s].link = "up" /\ svc[s].waiting
    /\ svc' = [svc EXCEPT ![s].waiting = FALSE]
    /\ UNCHANGED <<impl, runs, disc, running>>

\* async_receive, with nothing in the channel: it waits, unless that is closed.
AsyncReceive ==
    /\ ~svc[impl].waiting /\ ~svc[impl].closed
    /\ svc' = [svc EXCEPT ![impl].waiting = TRUE]
    /\ UNCHANGED <<impl, runs, disc, running>>

OfRun(r) ==
    \/ AsyncRun(r)
    \/ SlotCancel(r)
    \/ OnPingTimer(r)
    \/ OnPingreq(r)
    \/ OnSentryTimer(r)
    \/ OnSentryDisconnect(r)
    \/ OnRead(r)
    \/ OnReadFatal(r)
    \/ OnRunDone(r)

OfService(s) ==
    \/ OnDisconnectSent(s)
    \/ OnShutdown(s)
    \/ DiscTimeout(s)
    \/ Connack(s)
    \/ Established(s)
    \/ LinkBreaks(s)
    \/ ChannelStore(s)

Next ==
    \/ Configure
    \/ ClientCancel
    \/ AsyncDisconnect
    \/ AsyncReceive
    \/ \E r \in Runs : OfRun(r)
    \/ \E s \in Services : OfService(s)

\* Handlers that are posted run, timers expire, and a write on a service that was
\* cancelled ends.  The broker owes nothing.
Closed(r) == runs[r].svc # None /\ ~svc[runs[r].svc].open

Fairness ==
    /\ \A r \in Runs :
          /\ WF_vars(OnPingTimer(r)) /\ WF_vars(OnRead(r)) /\ WF_vars(OnSentryTimer(r))
          /\ WF_vars(Closed(r) /\ (OnPingreq(r) \/ OnSentryDisconnect(r)))
    /\ \A s \in Services :
          /\ WF_vars(OnShutdown(s)) /\ WF_vars(DiscTimeout(s))
          /\ WF_vars(~svc[s].open /\ OnDisconnectSent(s))

Spec == Init /\ [][Next]_vars /\ Fairness
-------------------------------------------------------------------------------
(* Once the application has called cancel or async_disconnect, or used the slot of
   async_run, that run completes, also if it runs the client again at once. *)
RunEnds ==
    \A r \in Runs : runs[r].asked ~> RunDone(r)

(* async_disconnect completes, also without a connection: its timer sees to it. *)
DisconnectEnds ==
    \A s \in Services : disc[s] = "send" ~> disc[s] = "done"

(* On an established connection, the timer of ping_op runs with the keep-alive
   that the broker of this connection agreed to: a CONNACK may come while it runs,
   and the properties of a refused one are stored as well. *)
PingTimerCurrent ==
    \A r \in Runs :
        /\ runs[r].ping.phase = "waiting"
        /\ svc[runs[r].svc].open /\ svc[runs[r].svc].link = "up"
        => runs[r].ping.armed = NegotiatedKeepAlive(runs[r].svc)

(* No receive waits on a service that ran and was cancelled: cancel closes the
   channel, which the next async_run opens again.  (A service that never ran is not
   open, so that its cancel does nothing.) *)
NoStrandedReceive ==
    \A s \in Services : svc[s].waiting /\ (\E r \in Runs : runs[r].svc = s) => svc[s].open
================================================================================
