-------------------------------- MODULE Session --------------------------------
(***************************************************************************)
(* How the client gets to a connection and keeps the session of it:        *)
(* connect_op under the timer of reconnect_op, the flags of session_state, *)
(* update_session_state, subscribe_op and unsubscribe_op.                  *)
(*                                                                         *)
(* Attempts to connect follow one another while the link is down; which    *)
(* address they go to is AutoconnectStream's matter.  The handlers of an   *)
(* attempt are actions named after them.  What the broker answers, and     *)
(* whether it still has the session, is its choice.  Requests are written  *)
(* and sent again as PublishFlow has it, without the publishes.  A         *)
(* definition named after another one with a remark is a mistaken form of  *)
(* it, which a property rules out.                                         *)
(***************************************************************************)
EXTENDS Integers, Sequences, FiniteSets

CONSTANTS
    Layers,        \* of the stream above TCP: a subset of {"tls", "ws"}
    Auths,         \* whether the application gave an authenticator: of BOOLEAN
    Subs, Unsubs,  \* operations: one subscribes, one unsubscribes from, Topic[o]
    Topic,
    Props,         \* properties of a CONNACK
    LateFaults     \* what may end an attempt after the broker accepted it

Ops == Subs \cup Unsubs

\* What the broker has for a client that it does not know.
NoSession == {"no session"}

ASSUME SessionAssumption ==
    /\ Layers \subseteq {"tls", "ws"} /\ Auths \subseteq BOOLEAN
    /\ DOMAIN Topic = Ops /\ Subs \cap Unsubs = {} /\ Props # {}
    /\ \A o \in Ops : Topic[o] \notin NoSession
    /\ LateFaults \subseteq {"timeout", "network", "auth"}

VARIABLES
    at,        \* connect_op: what it waits for, whether the timer cancelled it
    answer,    \* what the broker sent in this attempt and nobody read yet
    ctx,       \* mqtt_ctx: authenticator, CONNACK properties, the session flags
    link,      \* the current stream: up, closing (a DISCONNECT is due) or down
    broker,    \* its session, a set of topics, and what it did in this attempt
    ops,       \* subscribe_op and unsubscribe_op, and their packets on the wire
    expired,   \* whether session_expired was stored when this connection was made
    acked,     \* topics the application takes itself to be subscribed to
    unseen     \* the broker accepted an attempt that the client gave up

vars == <<at, answer, ctx, link, broker, ops, expired, acked, unseen>>

Disconnected(session) ==
    [session |-> session, did |-> "nothing", props |-> "none", new |-> FALSE]
NoAttempt == [stage |-> "none", cancelled |-> FALSE, ec |-> "ok"]

Init ==
    /\ at = NoAttempt
    /\ answer = [kind |-> "none"]
    /\ ctx \in [authenticator : Auths, ca_props : {"none"},
               session_present : {FALSE}, subscriptions_present : {FALSE}]
    /\ link = "down"
    /\ broker = Disconnected(NoSession)
    /\ ops = [o \in Ops |-> [phase |-> "idle", wire |-> "none", fast |-> "none",
                             cancelled |-> FALSE]]
    /\ expired = FALSE
    /\ acked = {} /\ unseen = FALSE
-------------------------------------------------------------------------------
\* connect_op.  The outcome of an asynchronous step is ok or an error; after the
\* broker accepted the attempt, errors are those of LateFaults.
Fails(fault) == broker.did = "accepted" => fault \in LateFaults

Goto(stage) == at' = [at EXCEPT !.stage = stage]
Complete(ec) == at' = [at EXCEPT !.stage = "done", !.ec = ec]
DoShutdown == Goto("shutdown")

\* A handler at stage: aborted if the attempt is cancelled, else it continues or
\* fails.
Handler(stage, fault, Continue, Failed) ==
    /\ at.stage = stage
    /\ \/ at.cancelled /\ Complete("error")
       \/ ~at.cancelled /\ Fails(fault) /\ Failed
       \/ ~at.cancelled /\ Continue

Auth == ctx.authenticator
SendConnect == Goto("send_connect")
AfterWs == IF Auth THEN Goto("init_auth") ELSE SendConnect
DoWsHandshake == IF "ws" \in Layers THEN Goto("ws") ELSE AfterWs
DoTlsHandshake == IF "tls" \in Layers THEN Goto("tls") ELSE DoWsHandshake

Client == <<ctx, link, ops, expired, acked>>
Steps == UNCHANGED <<answer, broker, unseen>> /\ UNCHANGED Client

\* reconnect_op::connect
Connect ==
    /\ at.stage = "none" /\ link = "down"
    /\ Goto("tcp")
    /\ answer' = [kind |-> "none"]
    /\ broker' = Disconnected(broker.session)
    /\ UNCHANGED unseen /\ UNCHANGED Client

OnConnect ==
    Handler("tcp", "network", DoTlsHandshake, Complete("error")) /\ Steps
OnTlsHandshake ==
    Handler("tls", "network", DoWsHandshake, Complete("error")) /\ Steps
OnWsHandshake ==
    Handler("ws", "network", AfterWs, Complete("error")) /\ Steps
OnInitAuthData ==
    Handler("init_auth", "auth", SendConnect, DoShutdown) /\ Steps

\* The CONNECT goes out, and the broker gets it.
OnSendConnect ==
    /\ Handler("send_connect", "network", Goto("fixed_header"), DoShutdown)
    /\ broker' = IF at'.stage = "fixed_header" THEN [broker EXCEPT !.did = "connect"]
                 ELSE broker
    /\ UNCHANGED <<answer, unseen>> /\ UNCHANGED Client

\* The broker answers a CONNECT or an AUTH.  It accepts with the session that it
\* has, or with a new one, or it refuses, with a code of the table or not.  "other
\* auth" is malformed, or has another code or method than the client's; "short" is
\* an AUTH of two bytes, fewer than on_send_connect reads.
BrokerAnswers ==
    /\ broker.did = "connect"
    /\ \/ \E p \in Props :
             /\ answer' = [kind |-> "connack", rc |-> "success", ca_props |-> p,
                           session_present |-> broker.session # NoSession]
             /\ broker' = [session |-> broker.session \ NoSession, did |-> "accepted",
                           props |-> p, new |-> broker.session = NoSession]
       \/ /\ broker' = [broker EXCEPT !.did = "answered"]
          /\ answer' \in
                [kind : {"connack"}, rc : {"refused"}, ca_props : Props,
                 session_present : {FALSE}]
                \cup [kind : {"auth", "other auth", "malformed connack", "publish",
                              "short"}]
    /\ UNCHANGED <<at, unseen>> /\ UNCHANGED Client

OnFixedHeader ==
    /\ Handler("fixed_header", "network",
               /\ answer.kind \notin {"none", "short"}
               /\ IF answer.kind = "publish" THEN DoShutdown ELSE Goto("read_packet"),
               DoShutdown)
    /\ Steps

OnConnackKeepsSession ==
    IF answer.kind = "malformed connack" THEN DoShutdown /\ UNCHANGED ctx
    ELSE /\ ctx' = [ctx EXCEPT !.ca_props = answer.ca_props]
         /\ IF answer.rc # "success" THEN DoShutdown
            ELSE IF Auth THEN Goto("complete_auth")
            ELSE Complete("ok")

OnConnackRemembersAbsence ==
    IF answer.kind = "malformed connack" THEN DoShutdown /\ UNCHANGED ctx
    ELSE /\ ctx' = [ctx EXCEPT !.ca_props = answer.ca_props,
                               !.session_present = @ /\ answer.session_present]
         /\ IF answer.rc # "success" THEN DoShutdown
            ELSE IF Auth THEN Goto("complete_auth")
            ELSE Complete("ok")

OnConnackKeepsProps ==
    IF answer.kind = "malformed connack" THEN DoShutdown /\ UNCHANGED ctx
    ELSE /\ ctx' = [ctx EXCEPT !.ca_props = IF @ = "none" THEN answer.ca_props ELSE @,
                               !.session_present = answer.session_present]
         /\ IF answer.rc # "success" THEN DoShutdown
            ELSE IF Auth THEN Goto("complete_auth")
            ELSE Complete("ok")

\* on_connack
OnConnack ==
    IF answer.kind = "malformed connack" THEN DoShutdown /\ UNCHANGED ctx
    ELSE /\ ctx' = [ctx EXCEPT !.ca_props = answer.ca_props,
                               !.session_present = answer.session_present]
         /\ IF answer.rc # "success" THEN DoShutdown
            ELSE IF Auth THEN Goto("complete_auth")
            ELSE Complete("ok")

\* on_auth
OnAuth ==
    IF answer.kind = "other auth" THEN DoShutdown ELSE Goto("auth_data")

OnReadPacket ==
    /\ at.stage = "read_packet"
    /\ \/ at.cancelled /\ Complete("error") /\ UNCHANGED ctx
       \/ ~at.cancelled /\ Fails("network") /\ DoShutdown /\ UNCHANGED ctx
       \/ ~at.cancelled /\ answer.kind \in {"connack", "malformed connack"} /\ OnConnack
       \/ /\ ~at.cancelled /\ answer.kind \in {"auth", "other auth"}
          /\ IF Auth THEN OnAuth ELSE DoShutdown
          /\ UNCHANGED ctx
    /\ answer' = [kind |-> "none"]
    /\ UNCHANGED <<link, broker, ops, expired, acked, unseen>>

OnAuthData == Handler("auth_data", "auth", Goto("send_auth"), DoShutdown) /\ Steps

OnSendAuth ==
    /\ Handler("send_auth", "network", Goto("fixed_header"), DoShutdown)
    /\ broker' = IF at'.stage = "fixed_header" THEN [broker EXCEPT !.did = "connect"]
                 ELSE broker
    /\ UNCHANGED <<answer, unseen>> /\ UNCHANGED Client

OnCompleteAuth == Handler("complete_auth", "auth", Complete("ok"), DoShutdown) /\ Steps

OnShutdown == at.stage = "shutdown" /\ Complete("error") /\ Steps

TimeoutOnlyNoted ==
    /\ at.stage \notin {"none", "done"} /\ ~at.cancelled
    /\ Fails("timeout")
    /\ UNCHANGED at /\ Steps

\* The timer of reconnect_op::connect expires first: the parallel group cancels
\* the attempt and waits for it.
Timeout ==
    /\ at.stage \notin {"none", "done"} /\ ~at.cancelled
    /\ Fails("timeout")
    /\ at' = [at EXCEPT !.cancelled = TRUE]
    /\ Steps
-------------------------------------------------------------------------------
\* update_session_state, without the pending PUBRELs.
UpdateSessionState ==
    IF ctx.session_present THEN expired' = FALSE /\ UNCHANGED <<ctx, acked>>
    ELSE /\ ctx' = [ctx EXCEPT !.session_present = TRUE, !.subscriptions_present = FALSE]
         /\ expired' = ctx.subscriptions_present
         /\ acked' = IF ctx.subscriptions_present THEN {} ELSE acked

\* resend_subscribe, resend_unsubscribe
Resent(op) ==
    IF op.phase \in {"queued", "written", "waiting"}
    THEN [op EXCEPT !.phase = IF op.cancelled THEN "idle" ELSE "queued",
                    !.wire = "none", !.fast = "none", !.cancelled = FALSE]
    ELSE op

\* reconnect_op's on_connect: the next attempt, or the stream is replaced and the
\* one who waited for it updates the session state and has everything sent again.
\* What was posted before runs before that.
Finish ==
    /\ at.stage = "done"
    /\ at' = NoAttempt
    /\ answer' = [kind |-> "none"]
    /\ IF at.cancelled \/ at.ec # "ok"
       THEN /\ unseen' = (unseen \/ broker.did = "accepted")
            /\ broker' = Disconnected(broker.session)
            /\ UNCHANGED Client
       ELSE /\ \A o \in Ops : ops[o].phase # "posted"
            /\ link' = "up"
            /\ UpdateSessionState
            /\ ops' = [o \in Ops |-> Resent(ops[o])]
            /\ UNCHANGED <<broker, unseen>>

\* The connection breaks, and what is under way is lost.
LinkBreaks ==
    /\ link # "down"
    /\ link' = "down"
    /\ broker' = Disconnected(broker.session)
    /\ ops' = [o \in Ops |-> [ops[o] EXCEPT !.wire = "none"]]
    /\ expired' = FALSE
    /\ UNCHANGED <<at, answer, ctx, acked, unseen>>

\* The broker gives up a session whose client is not connected.
SessionLost ==
    /\ broker.did \in {"nothing", "connect"} /\ broker.session # NoSession
    /\ broker' = [broker EXCEPT !.session = NoSession]
    /\ UNCHANGED <<at, answer, ctx, link, ops, expired, acked, unseen>>
-------------------------------------------------------------------------------
Linked == link # "down"
Quiet == UNCHANGED <<at, answer, link, unseen>>

\* perform: complete_immediate for a request that is not valid, else it is queued.
\* The application waits for a request on a topic before the next one on it.
Start(o) ==
    /\ \A other \in Ops : Topic[other] = Topic[o] => ops[other].phase = "idle"
    /\ o \in Unsubs => Topic[o] \in acked
    /\ \/ UNCHANGED <<ops, acked>>
       \/ /\ ops' = [ops EXCEPT ![o].phase = "queued"]
          /\ acked' = IF o \in Unsubs THEN acked \ {Topic[o]} ELSE acked
    /\ Quiet /\ UNCHANGED <<ctx, broker, expired>>

\* The cancellation slot of a request: partial and total.
Cancel(o) ==
    /\ ops[o].phase \in {"queued", "written", "waiting"} /\ ~ops[o].cancelled
    /\ ops' = [ops EXCEPT ![o].cancelled = TRUE]
    /\ Quiet /\ UNCHANGED <<ctx, broker, expired, acked>>

\* async_sender writes the request.
Write(o) ==
    /\ Linked /\ ops[o].phase = "queued"
    /\ ops' = [ops EXCEPT ![o].phase = "written", ![o].wire = "request",
                          ![o].fast = "none"]
    /\ Quiet /\ UNCHANGED <<ctx, broker, expired, acked>>

\* The broker answers the request.
BrokerReplies(o) ==
    /\ Linked /\ ops[o].wire = "request"
    /\ \E rc \in {"granted", "refused", "malformed"} :
          /\ ops' = [ops EXCEPT ![o].wire = rc]
          /\ broker' = [broker EXCEPT !.session =
                           IF rc # "granted" THEN @
                           ELSE IF o \in Subs THEN @ \cup {Topic[o]}
                           ELSE @ \ {Topic[o]}]
    /\ Quiet /\ UNCHANGED <<ctx, expired, acked>>

\* on_subscribe, on_unsubscribe: wait for the reply, which may be there.
OnWritten(o) ==
    /\ ops[o].phase = "written"
    /\ ops' = [ops EXCEPT ![o].phase = IF ops[o].fast = "none" THEN "waiting" ELSE "posted"]
    /\ Quiet /\ UNCHANGED <<ctx, broker, expired, acked>>

\* on_malformed_packet: a DISCONNECT is due, and will end the connection.
OnMalformedPacket ==
    /\ link' = IF Linked THEN "closing" ELSE link
    /\ UNCHANGED <<ctx, acked>>

\* subscribe_op::complete with the reason code rc, and complete of unsubscribe_op.
CompleteRequest(o, rc) ==
    /\ IF o \in Subs /\ rc = "granted"
       THEN /\ ctx' = [ctx EXCEPT !.subscriptions_present = TRUE]
            /\ acked' = acked \cup {Topic[o]}
       ELSE UNCHANGED <<ctx, acked>>
    /\ UNCHANGED link

\* on_suback and on_unsuback with the reply rc.  If it does not fit, the request is
\* sent again.
OnReply(o, rc) ==
    /\ ops' = [ops EXCEPT ![o] =
                  [@ EXCEPT !.wire = "none", !.fast = "none", !.cancelled = FALSE,
                            !.phase = IF rc = "malformed" /\ ~ops[o].cancelled
                                      THEN "queued" ELSE "idle"]]
    /\ IF rc = "malformed" THEN OnMalformedPacket ELSE CompleteRequest(o, rc)
    /\ UNCHANGED <<at, answer, broker, expired, unseen>>

\* The reader gets the reply.
Dispatch(o) ==
    /\ Linked /\ ops[o].wire \in {"granted", "refused", "malformed"}
    /\ \/ ops[o].phase = "waiting" /\ OnReply(o, ops[o].wire)
       \/ /\ ops[o].phase = "written"
          /\ ops' = [ops EXCEPT ![o].fast = ops[o].wire, ![o].wire = "none"]
          /\ Quiet /\ UNCHANGED <<ctx, broker, expired, acked>>

OnPostedReply(o) == ops[o].phase = "posted" /\ OnReply(o, ops[o].fast)

Request(o) ==
    \/ Start(o)
    \/ Cancel(o)
    \/ Write(o)
    \/ BrokerReplies(o)
    \/ OnWritten(o)
    \/ Dispatch(o)
    \/ OnPostedReply(o)

Attempt ==
    \/ OnConnect
    \/ OnTlsHandshake
    \/ OnWsHandshake
    \/ OnInitAuthData
    \/ OnSendConnect
    \/ OnFixedHeader
    \/ OnReadPacket
    \/ OnAuthData
    \/ OnSendAuth
    \/ OnCompleteAuth
    \/ OnShutdown
    \/ Finish

Next ==
    \/ Connect
    \/ Attempt
    \/ Timeout
    \/ BrokerAnswers
    \/ LinkBreaks
    \/ SessionLost
    \/ \E o \in Ops : Request(o)

\* A handler that may run does: cancelled or not, each asynchronous step of an
\* attempt ends, except for reads of what the broker never sends; and the timer
\* expires.
Spec ==
    /\ Init /\ [][Next]_vars
    /\ WF_vars(at.cancelled /\ Attempt)
    /\ WF_vars(Timeout)
    /\ WF_vars(OnShutdown) /\ WF_vars(Finish)
    /\ \A o \in Ops : WF_vars(OnPostedReply(o))
-------------------------------------------------------------------------------
(* While the client is connected, the broker's session has every subscription
   that the application was told of and not told that it is lost, unless an
   attempt that the broker had accepted was given up: update_session_state and
   on_suback agree on which session a subscription belongs to. *)
SubscriptionsBacked ==
    Linked /\ ~unseen => acked \subseteq broker.session

(* session_expired is stored only if the broker had no session: the flag of an
   earlier, refused CONNACK is forgotten. *)
ExpiredOnlyIfLost ==
    Linked /\ expired => broker.new

(* Once connected, the limits that the operations check are those of the CONNACK
   that accepted this connection, whatever refused or cancelled attempts left in
   the context. *)
LimitsAgreed ==
    Linked => broker.did = "accepted" /\ ctx.ca_props = broker.props

(* Every attempt to connect ends, also if the broker does not answer, or sends
   fewer bytes than connect_op waits for: the timer sees to it. *)
EveryAttemptEnds ==
    at.stage # "none" ~> at.stage = "none"
================================================================================
