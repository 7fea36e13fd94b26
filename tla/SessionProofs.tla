----------------------------- MODULE SessionProofs -----------------------------
(***************************************************************************)
(* Proofs of what Session says about the limits, the expired session and   *)
(* the subscriptions, for any operations, topics, properties and layers.   *)
(***************************************************************************)
EXTENDS Session, TLAPS

Topics == {Topic[o] : o \in Ops}

Attempts ==
    [stage : {"none", "tcp", "tls", "ws", "init_auth", "send_connect", "fixed_header",
              "read_packet", "auth_data", "send_auth", "complete_auth", "shutdown", "done"},
     cancelled : BOOLEAN, ec : {"ok", "error"}]
Contexts ==
    [authenticator : BOOLEAN, ca_props : Props \cup {"none"},
     session_present : BOOLEAN, subscriptions_present : BOOLEAN]
Sessions == {NoSession} \cup SUBSET Topics
Brokers ==
    [session : Sessions, did : {"nothing", "connect", "answered", "accepted"},
     props : Props \cup {"none"}, new : BOOLEAN]
Requests ==
    [phase : {"idle", "queued", "written", "waiting", "posted"},
     wire : {"none", "request", "granted", "refused", "malformed"},
     fast : {"none", "granted", "refused", "malformed"},
     cancelled : BOOLEAN]
Answers ==
    [kind : {"none", "auth", "other auth", "malformed connack", "publish", "short"}]
    \cup [kind : {"connack"}, rc : {"success", "refused"}, ca_props : Props,
          session_present : BOOLEAN]

TypeInv ==
    /\ at \in Attempts /\ ctx \in Contexts /\ broker \in Brokers
    /\ ops \in [Ops -> Requests] /\ answer \in Answers

Succeeds == answer.kind = "connack" /\ answer.rc = "success"
Accepted == at.stage = "complete_auth" \/ (at.stage = "done" /\ at.ec = "ok")
Before == {"tcp", "tls", "ws", "init_auth", "send_connect", "auth_data", "send_auth"}

\* Who knows what of an attempt: the CONNACK on its way, the context and the broker
\* agree as far as the attempt has got.
AttemptInv ==
    /\ Linked => /\ at.stage = "none" /\ broker.did = "accepted"
                 /\ ctx.ca_props = broker.props
                 /\ expired => broker.new
    /\ broker.did = "accepted" =>
          /\ Linked \/ at.stage \in {"fixed_header", "read_packet", "complete_auth",
                                     "shutdown", "done"}
          /\ answer.kind # "none" => Succeeds
    /\ broker.did = "connect" => /\ answer.kind = "none"
                                 /\ at.stage \in {"fixed_header", "shutdown", "done"}
    /\ at.stage \in Before \cup {"none"} => answer.kind = "none"
    /\ Succeeds => /\ broker.did = "accepted" /\ answer.ca_props = broker.props
                   /\ answer.session_present = ~broker.new
    /\ Accepted => /\ broker.did = "accepted" /\ ctx.ca_props = broker.props
                   /\ ctx.session_present = ~broker.new

\* The broker has topic, or the application will be told that it has not.
Held(topic) ==
    \/ unseen \/ broker.session = NoSession
    \/ broker.did = "accepted" /\ broker.new /\ ~Linked
    \/ topic \in broker.session

\* What the application knows of its subscriptions is held; one request at a time
\* is under way for a topic.
RequestInv ==
    /\ \A o, p \in Ops : o # p /\ Topic[o] = Topic[p] =>
          ops[o].phase = "idle" \/ ops[p].phase = "idle"
    /\ \A o \in Ops : ops[o].phase = "idle" => ops[o].wire = "none" /\ ops[o].fast = "none"
    /\ \A o \in Unsubs : ops[o].phase # "idle" => Topic[o] \notin acked
    /\ \A o \in Subs : ops[o].wire = "granted" \/ ops[o].fast = "granted" => Held(Topic[o])
    /\ \A topic \in acked : Held(topic)
    /\ acked # {} => ctx.subscriptions_present
    /\ acked \subseteq Topics
    /\ broker.did = "accepted" => broker.session \subseteq Topics

IndInv == TypeInv /\ AttemptInv /\ RequestInv
-------------------------------------------------------------------------------
\* The steps of an attempt that only move it on.
Moves ==
    \/ OnConnect \/ OnTlsHandshake \/ OnWsHandshake \/ OnInitAuthData
    \/ OnFixedHeader \/ OnAuthData \/ OnCompleteAuth \/ OnShutdown \/ Timeout

\* The steps of a request.
Sends(o) == Start(o) \/ Cancel(o) \/ Write(o) \/ OnWritten(o)

LEMMA InitTyped == Init => TypeInv
<1> SUFFICES ASSUME Init PROVE TypeInv
  OBVIOUS
<1>1. ctx \in Contexts
  <2>1. ctx \in [authenticator : Auths, ca_props : {"none"},
                 session_present : {FALSE}, subscriptions_present : {FALSE}]
    BY DEF Init
  <2>2. Auths \subseteq BOOLEAN
    BY SessionAssumption
  <2> QED
    BY <2>1, <2>2 DEF Contexts
<1>2. at \in Attempts
  BY DEF Init, NoAttempt, Attempts
<1>3. broker \in Brokers
  BY DEF Init, Disconnected, Brokers, Sessions
<1>4. ops \in [Ops -> Requests]
  BY DEF Init, Requests
<1>5. answer \in Answers
  BY DEF Init, Answers
<1> QED
  BY <1>1, <1>2, <1>3, <1>4, <1>5 DEF TypeInv

LEMMA MovesTyped == TypeInv /\ Moves => TypeInv'
<1> SUFFICES ASSUME TypeInv, Moves PROVE TypeInv'
  OBVIOUS
<1>1. UNCHANGED <<ctx, broker, ops, answer>>
  BY DEF Moves, Steps, Client, OnConnect, OnTlsHandshake, OnWsHandshake, OnInitAuthData,
     OnFixedHeader, OnAuthData, OnCompleteAuth, OnShutdown, Timeout
<1>2. at \in Attempts
  BY DEF TypeInv
<1>3. at' \in Attempts
  <2> USE DEF Goto, Complete, DoShutdown, SendConnect, AfterWs, DoWsHandshake,
              DoTlsHandshake, Handler, Attempts
  <2>1. CASE OnConnect
    BY <1>2, <2>1 DEF OnConnect
  <2>2. CASE OnTlsHandshake
    BY <1>2, <2>2 DEF OnTlsHandshake
  <2>3. CASE OnWsHandshake
    BY <1>2, <2>3 DEF OnWsHandshake
  <2>4. CASE OnInitAuthData \/ OnAuthData \/ OnCompleteAuth
    BY <1>2, <2>4 DEF OnInitAuthData, OnAuthData, OnCompleteAuth
  <2>5. CASE OnFixedHeader
    BY <1>2, <2>5 DEF OnFixedHeader
  <2>6. CASE OnShutdown \/ Timeout
    BY <1>2, <2>6 DEF OnShutdown, Timeout
  <2> QED
    BY <2>1, <2>2, <2>3, <2>4, <2>5, <2>6 DEF Moves
<1> QED
  BY <1>1, <1>3 DEF TypeInv

\* The steps of an attempt that involve the broker or the context.
LEMMA AttemptTyped ==
    ASSUME TypeInv,
           Connect \/ OnSendConnect \/ OnSendAuth \/ BrokerAnswers \/ OnReadPacket
    PROVE  TypeInv'
<1>1. CASE Connect
  <2>1. at' \in Attempts
    BY <1>1 DEF Connect, Goto, TypeInv, Attempts
  <2>2. broker' \in Brokers
    BY <1>1 DEF Connect, Disconnected, TypeInv, Brokers
  <2>3. answer' \in Answers
    BY <1>1 DEF Connect, Answers
  <2> QED
    BY <1>1, <2>1, <2>2, <2>3 DEF Connect, Client, TypeInv
<1>2. CASE OnSendConnect \/ OnSendAuth
  <2>1. at' \in Attempts
    BY <1>2 DEF OnSendConnect, OnSendAuth, Handler, Goto, DoShutdown, Complete, TypeInv,
       Attempts
  <2>2. broker' \in Brokers
    BY <1>2 DEF OnSendConnect, OnSendAuth, TypeInv, Brokers
  <2> QED
    BY <1>2, <2>1, <2>2 DEF OnSendConnect, OnSendAuth, Client, TypeInv
<1>3. CASE BrokerAnswers
  <2>1. answer' \in Answers /\ broker' \in Brokers
    <3>1. CASE broker' = [broker EXCEPT !.did = "answered"]
      BY <1>3, <3>1 DEF BrokerAnswers, TypeInv, Brokers, Answers
    <3>2. ASSUME NEW p \in Props,
                 answer' = [kind |-> "connack", rc |-> "success", ca_props |-> p,
                            session_present |-> broker.session # NoSession],
                 broker' = [session |-> broker.session \ NoSession, did |-> "accepted",
                            props |-> p, new |-> broker.session = NoSession]
          PROVE  answer' \in Answers /\ broker' \in Brokers
      <4>1. broker.session \ NoSession \in Sessions
        BY DEF TypeInv, Brokers, Sessions
      <4>2. (broker.session = NoSession) \in BOOLEAN /\ (broker.session # NoSession) \in BOOLEAN
        OBVIOUS
      <4>3. broker' \in Brokers
        BY <3>2, <4>1, <4>2 DEF Brokers
      <4>4. answer' \in Answers
        BY <3>2, <4>2 DEF Answers
      <4> QED
        BY <4>3, <4>4
    <3> QED
      BY <1>3, <3>1, <3>2 DEF BrokerAnswers
  <2> QED
    BY <1>3, <2>1 DEF BrokerAnswers, Client, TypeInv
<1>4. CASE OnReadPacket
  <2>1. at' \in Attempts
    BY <1>4 DEF OnReadPacket, OnConnack, OnAuth, Goto, DoShutdown, Complete, TypeInv, Attempts
  <2>2. answer.kind = "connack" => answer.ca_props \in Props /\ answer.session_present \in BOOLEAN
    BY DEF TypeInv, Answers
  <2>3. ctx' \in Contexts
    BY <1>4, <2>2 DEF OnReadPacket, OnConnack, TypeInv, Contexts
  <2>4. answer' \in Answers
    BY <1>4 DEF OnReadPacket, Answers
  <2> QED
    BY <1>4, <2>1, <2>3, <2>4 DEF OnReadPacket, TypeInv
<1> QED
  BY <1>1, <1>2, <1>3, <1>4

LEMMA OthersTyped ==
    ASSUME TypeInv, Finish \/ LinkBreaks \/ SessionLost
    PROVE  TypeInv'
<1>1. CASE Finish
  <2>1. at' \in Attempts /\ answer' \in Answers
    BY <1>1 DEF Finish, NoAttempt, Attempts, Answers
  <2>2. broker' \in Brokers
    <3>1. Disconnected(broker.session) \in Brokers
      BY DEF Disconnected, TypeInv, Brokers
    <3>2. broker' = broker \/ broker' = Disconnected(broker.session)
      BY <1>1 DEF Finish
    <3> QED
      BY <3>1, <3>2 DEF TypeInv
  <2>3. ctx' \in Contexts
    BY <1>1 DEF Finish, Client, UpdateSessionState, TypeInv, Contexts
  <2>4. ops' \in [Ops -> Requests]
    <3>1. ASSUME NEW op \in Requests PROVE Resent(op) \in Requests
      BY DEF Resent, Requests
    <3>2. ops' = ops \/ ops' = [o \in Ops |-> Resent(ops[o])]
      BY <1>1 DEF Finish, Client
    <3>3. \A o \in Ops : Resent(ops[o]) \in Requests
      BY <3>1 DEF TypeInv
    <3> QED
      BY <3>2, <3>3 DEF TypeInv
  <2> QED
    BY <2>1, <2>2, <2>3, <2>4 DEF TypeInv
<1>2. CASE LinkBreaks
  <2>1. broker' \in Brokers
    BY <1>2 DEF LinkBreaks, Disconnected, TypeInv, Brokers
  <2>2. ops' \in [Ops -> Requests]
    BY <1>2 DEF LinkBreaks, TypeInv, Requests
  <2> QED
    BY <1>2, <2>1, <2>2 DEF LinkBreaks, TypeInv
<1>3. CASE SessionLost
  <2>1. broker' \in Brokers
    BY <1>3 DEF SessionLost, TypeInv, Brokers, Sessions
  <2> QED
    BY <1>3, <2>1 DEF SessionLost, TypeInv
<1> QED
  BY <1>1, <1>2, <1>3

LEMMA RequestTyped ==
    ASSUME IndInv, NEW o \in Ops, Request(o)
    PROVE  TypeInv'
<1> USE DEF IndInv
<1>1. ops[o] \in Requests /\ ops \in [Ops -> Requests]
  BY DEF TypeInv
<1>2. CASE Sends(o)
  <2>1. ops' \in [Ops -> Requests]
    <3>1. CASE ops' = ops
      BY <1>1, <3>1
    <3>2. ASSUME NEW r \in Requests, ops' = [ops EXCEPT ![o] = r]
          PROVE  ops' \in [Ops -> Requests]
      BY <1>1, <3>2
    <3>3. CASE Start(o)
      <4>1. [ops[o] EXCEPT !.phase = "queued"] \in Requests
        BY <1>1 DEF Requests
      <4> QED
        BY <3>1, <3>2, <3>3, <4>1 DEF Start
    <3>4. CASE Cancel(o)
      <4>1. [ops[o] EXCEPT !.cancelled = TRUE] \in Requests
        BY <1>1 DEF Requests
      <4> QED
        BY <3>2, <3>4, <4>1 DEF Cancel
    <3>5. CASE Write(o)
      <4>1. [ops[o] EXCEPT !.phase = "written", !.wire = "request", !.fast = "none"] \in Requests
        BY <1>1 DEF Requests
      <4> QED
        BY <3>5, <1>1, <4>1 DEF Write
    <3>6. CASE OnWritten(o)
      <4>1. [ops[o] EXCEPT !.phase = IF ops[o].fast = "none" THEN "waiting" ELSE "posted"]
               \in Requests
        BY <1>1 DEF Requests
      <4> QED
        BY <3>2, <3>6, <4>1 DEF OnWritten
    <3> QED
      BY <1>2, <3>3, <3>4, <3>5, <3>6 DEF Sends
  <2> QED
    BY <1>2, <2>1 DEF Sends, Start, Cancel, Write, OnWritten, Quiet, TypeInv
<1>3. CASE BrokerReplies(o)
  <2>1. PICK rc \in {"granted", "refused", "malformed"} :
           /\ ops' = [ops EXCEPT ![o].wire = rc]
           /\ broker' = [broker EXCEPT !.session =
                            IF rc # "granted" THEN @
                            ELSE IF o \in Subs THEN @ \cup {Topic[o]}
                            ELSE @ \ {Topic[o]}]
    BY <1>3 DEF BrokerReplies
  <2>2. ops' \in [Ops -> Requests]
    BY <1>1, <2>1 DEF Requests
  <2>3. broker'.session \in Sessions /\ broker \in Brokers
    BY <1>3, <2>1 DEF BrokerReplies, AttemptInv, RequestInv, TypeInv, Brokers, Sessions, Topics
  <2>4. broker' \in Brokers
    BY <2>1, <2>3 DEF Brokers
  <2> QED
    BY <1>3, <2>2, <2>4 DEF BrokerReplies, Quiet, TypeInv
<1>4. ASSUME NEW rc \in {"none", "granted", "refused", "malformed"}, OnReply(o, rc)
      PROVE  TypeInv'
  <2>1. ops' \in [Ops -> Requests]
    BY <1>1, <1>4 DEF OnReply, Requests
  <2>2. ctx' \in Contexts
    BY <1>4 DEF OnReply, OnMalformedPacket, CompleteRequest, TypeInv, Contexts
  <2> QED
    BY <1>4, <2>1, <2>2 DEF OnReply, TypeInv
<1>5. CASE Dispatch(o)
  <2>1. CASE OnReply(o, ops[o].wire)
    BY <1>4, <1>5, <2>1 DEF Dispatch
  <2>2. CASE ops' = [ops EXCEPT ![o].fast = ops[o].wire, ![o].wire = "none"] /\ UNCHANGED <<ctx, broker>> /\ Quiet
    <3>1. ops' \in [Ops -> Requests]
      BY <1>1, <1>5, <2>2 DEF Dispatch, Requests
    <3> QED
      BY <2>2, <3>1 DEF Quiet, TypeInv
  <2> QED
    BY <1>5, <2>1, <2>2 DEF Dispatch
<1>6. CASE OnPostedReply(o)
  BY <1>1, <1>4, <1>6 DEF OnPostedReply, Requests
<1> QED
  BY <1>2, <1>3, <1>5, <1>6 DEF Request, Sends
-------------------------------------------------------------------------------
LEMMA MovesAttempt ==
    ASSUME TypeInv, AttemptInv, Moves
    PROVE  AttemptInv'
<1> USE DEF TypeInv, Attempts
<1>1. UNCHANGED <<answer, broker, ctx, link, expired>> /\ at.stage # "none"
  BY DEF Moves, OnConnect, OnTlsHandshake, OnWsHandshake, OnInitAuthData, OnFixedHeader,
     OnAuthData, OnCompleteAuth, OnShutdown, Timeout, Handler, Steps, Client
<1>2. link = "down"
  BY <1>1 DEF AttemptInv, Linked
<1>3. CASE OnConnect \/ OnTlsHandshake \/ OnWsHandshake \/ OnInitAuthData \/ OnAuthData
  <2>1. /\ at.stage \in Before
        /\ \/ at'.stage \in Before
           \/ at'.stage = "shutdown" \/ (at'.stage = "done" /\ at'.ec = "error")
    BY <1>3 DEF OnConnect, OnTlsHandshake, OnWsHandshake, OnInitAuthData, OnAuthData, Handler,
       Goto, Complete, DoShutdown, SendConnect, AfterWs, DoWsHandshake, DoTlsHandshake, Before
  <2>2. broker.did \notin {"accepted", "connect"} /\ answer.kind = "none"
    BY <1>2, <2>1 DEF AttemptInv, Linked, Before
  <2> QED
    BY <1>1, <1>2, <2>1, <2>2 DEF AttemptInv, Linked, Succeeds, Accepted, Before
<1>4. CASE OnFixedHeader
  <2>1. /\ at.stage = "fixed_header"
        /\ \/ at'.stage = "shutdown" \/ (at'.stage = "done" /\ at'.ec = "error")
           \/ at'.stage = "read_packet" /\ answer.kind # "none"
    BY <1>4 DEF OnFixedHeader, Handler, Goto, Complete, DoShutdown
  <2> QED
    BY <1>1, <1>2, <2>1 DEF AttemptInv, Linked, Succeeds, Accepted, Before
<1>5. CASE OnCompleteAuth
  <2>1. at.stage = "complete_auth" /\ at'.stage \in {"shutdown", "done"}
    BY <1>5 DEF OnCompleteAuth, Handler, Goto, Complete, DoShutdown
  <2> QED
    BY <1>1, <1>2, <2>1 DEF AttemptInv, Linked, Succeeds, Accepted, Before
<1>6. CASE OnShutdown
  <2>1. at.stage = "shutdown" /\ at'.stage = "done" /\ at'.ec = "error"
    BY <1>6 DEF OnShutdown, Complete
  <2> QED
    BY <1>1, <1>2, <2>1 DEF AttemptInv, Linked, Succeeds, Accepted, Before
<1>7. CASE Timeout
  <2>1. at'.stage = at.stage /\ at'.ec = at.ec
    BY <1>7 DEF Timeout
  <2> QED
    BY <1>1, <1>2, <2>1 DEF AttemptInv, Linked, Succeeds, Accepted, Before
<1> QED
  BY <1>3, <1>4, <1>5, <1>6, <1>7 DEF Moves

LEMMA AttemptAttempt ==
    ASSUME TypeInv, AttemptInv,
           Connect \/ OnSendConnect \/ OnSendAuth \/ BrokerAnswers \/ OnReadPacket
    PROVE  AttemptInv'
<1> USE DEF Linked, Succeeds, Accepted, Before
<1>1. CASE Connect
  <2>1. at'.stage = "tcp"
    BY <1>1 DEF Connect, Goto, TypeInv, Attempts
  <2> QED
    BY <1>1, <2>1 DEF Connect, Disconnected, Client, AttemptInv
<1>2. CASE OnSendConnect \/ OnSendAuth
  <2>1. /\ at.stage \in {"send_connect", "send_auth"}
        /\ \/ at'.stage = "fixed_header" /\ broker'.did = "connect"
           \/ /\ at'.stage = "shutdown" \/ (at'.stage = "done" /\ at'.ec = "error")
              /\ broker' = broker
    BY <1>2 DEF OnSendConnect, OnSendAuth, Handler, Goto, Complete, DoShutdown, TypeInv,
       Attempts, Brokers
  <2>2. UNCHANGED <<answer, ctx, link, expired>>
    BY <1>2 DEF OnSendConnect, OnSendAuth, Client
  <2>3. broker.did \notin {"accepted", "connect"} /\ answer.kind = "none" /\ link = "down"
    BY <2>1 DEF AttemptInv
  <2> QED
    BY <2>1, <2>2, <2>3 DEF AttemptInv
<1>3. CASE BrokerAnswers
  <2>1. /\ broker.did = "connect" /\ UNCHANGED <<at, ctx, link, expired>>
        /\ at.stage \in {"fixed_header", "shutdown", "done"} /\ link = "down"
        /\ ~Accepted
    BY <1>3 DEF BrokerAnswers, Client, AttemptInv
  <2>2. \/ /\ broker'.did = "answered"
           /\ ~Succeeds'
        \/ /\ broker'.did = "accepted" /\ Succeeds'
           /\ answer'.ca_props = broker'.props /\ answer'.session_present = ~broker'.new
    <3>1. CASE broker' = [broker EXCEPT !.did = "answered"]
      BY <1>3, <3>1 DEF BrokerAnswers, TypeInv, Brokers
    <3>2. CASE broker' # [broker EXCEPT !.did = "answered"]
      <4>1. PICK p \in Props :
               /\ answer' = [kind |-> "connack", rc |-> "success", ca_props |-> p,
                             session_present |-> broker.session # NoSession]
               /\ broker' = [session |-> broker.session \ NoSession, did |-> "accepted",
                             props |-> p, new |-> broker.session = NoSession]
        BY <1>3, <3>2 DEF BrokerAnswers
      <4>2. Succeeds' /\ broker'.did = "accepted" /\ answer'.ca_props = broker'.props
        BY <4>1
      <4>3. /\ answer'.session_present = (broker.session # NoSession)
            /\ broker'.new = (broker.session = NoSession)
        BY <4>1
      <4> QED
        BY <4>2, <4>3
    <3> QED
      BY <3>1, <3>2
  <2> QED
    BY <2>1, <2>2 DEF AttemptInv
<1>4. CASE OnReadPacket
  <2>1. /\ at.stage = "read_packet" /\ link = "down" /\ UNCHANGED <<broker, link, expired>>
        /\ answer'.kind = "none"
    BY <1>4 DEF OnReadPacket, AttemptInv
  <2>2. \/ at'.stage = "shutdown"
        \/ at'.stage = "done" /\ at'.ec = "error"
        \/ /\ at'.stage = "complete_auth" \/ at'.stage = "done"
           /\ Succeeds /\ ctx'.ca_props = answer.ca_props
           /\ ctx'.session_present = answer.session_present
        \/ at'.stage = "auth_data" /\ answer.kind = "auth"
    BY <1>4 DEF OnReadPacket, OnConnack, OnAuth, Goto, DoShutdown, Complete, TypeInv, Attempts,
       Contexts, Answers
  <2> QED
    BY <2>1, <2>2 DEF AttemptInv
<1> QED
  BY <1>1, <1>2, <1>3, <1>4

LEMMA OthersAttempt ==
    ASSUME TypeInv, AttemptInv, Finish \/ LinkBreaks \/ SessionLost
    PROVE  AttemptInv'
<1> USE DEF Linked, Succeeds, Accepted, Before
<1>1. CASE Finish
  <2>1. /\ at.stage = "done" /\ at'.stage = "none" /\ answer'.kind = "none" /\ link = "down"
    BY <1>1 DEF Finish, NoAttempt, AttemptInv
  <2>2. CASE at.cancelled \/ at.ec # "ok"
    <3>1. broker'.did = "nothing" /\ link' = link
      BY <1>1, <2>2 DEF Finish, Disconnected, Client
    <3> QED
      BY <2>1, <3>1 DEF AttemptInv
  <2>3. CASE ~at.cancelled /\ at.ec = "ok"
    <3>1. /\ broker.did = "accepted" /\ ctx.ca_props = broker.props
          /\ ctx.session_present = ~broker.new /\ link' = "up" /\ broker' = broker
      BY <1>1, <2>1, <2>3 DEF Finish, AttemptInv
    <3>2. ctx'.ca_props = ctx.ca_props /\ (expired' => ~ctx.session_present)
      BY <1>1, <2>3 DEF Finish, UpdateSessionState, TypeInv, Contexts
    <3>3. broker.new \in BOOLEAN
      BY DEF TypeInv, Brokers
    <3> QED
      BY <2>1, <3>1, <3>2, <3>3 DEF AttemptInv
  <2> QED
    BY <2>2, <2>3
<1>2. CASE LinkBreaks
  <2>1. broker'.did = "nothing" /\ link' = "down" /\ UNCHANGED <<at, answer, ctx>>
    BY <1>2 DEF LinkBreaks, Disconnected
  <2>2. at.stage = "none" /\ answer.kind = "none"
    BY <1>2 DEF LinkBreaks, AttemptInv
  <2> QED
    BY <2>1, <2>2 DEF AttemptInv
<1>3. CASE SessionLost
  <2>1. /\ broker'.did = broker.did /\ broker'.props = broker.props /\ broker'.new = broker.new
        /\ UNCHANGED <<at, answer, ctx, link, expired>>
    BY <1>3 DEF SessionLost, TypeInv, Brokers
  <2> QED
    BY <2>1 DEF AttemptInv
<1> QED
  BY <1>1, <1>2, <1>3

\* A request changes nothing that an attempt goes by.
LEMMA RequestAttempt ==
    ASSUME TypeInv, AttemptInv, NEW o \in Ops, Request(o)
    PROVE  AttemptInv'
<1>1. /\ UNCHANGED <<at, answer, expired>> /\ Linked' = Linked
      /\ broker'.did = broker.did /\ broker'.props = broker.props /\ broker'.new = broker.new
      /\ ctx'.ca_props = ctx.ca_props /\ ctx'.session_present = ctx.session_present
  <2>1. CASE Sends(o)
    BY <2>1 DEF Sends, Start, Cancel, Write, OnWritten, Quiet, Linked
  <2>2. CASE BrokerReplies(o)
    BY <2>2 DEF BrokerReplies, Quiet, Linked, TypeInv, Brokers
  <2>3. ASSUME NEW rc, OnReply(o, rc)
        PROVE  /\ UNCHANGED <<at, answer, expired, broker>> /\ Linked' = Linked
               /\ ctx'.ca_props = ctx.ca_props /\ ctx'.session_present = ctx.session_present
    BY <2>3 DEF OnReply, OnMalformedPacket, CompleteRequest, Linked, TypeInv, Contexts
  <2>4. CASE Dispatch(o)
    BY <2>3, <2>4 DEF Dispatch, Quiet, Linked
  <2>5. CASE OnPostedReply(o)
    BY <2>3, <2>5 DEF OnPostedReply
  <2> QED
    BY <2>1, <2>2, <2>4, <2>5 DEF Request, Sends
<1> QED
  BY <1>1 DEF AttemptInv, Succeeds, Accepted, Before
-------------------------------------------------------------------------------
\* Topics are none of what stands for a missing session.
LEMMA TopicsProper == \A topic \in Topics : topic \notin NoSession
BY SessionAssumption DEF Topics

\* A step that leaves the requests alone need only keep what is held.
LEMMA StillHeld ==
    ASSUME RequestInv, UNCHANGED <<ops, acked>>,
           ctx'.subscriptions_present = ctx.subscriptions_present,
           \A topic \in Topics : Held(topic) => Held(topic)',
           (broker.did = "accepted" => broker.session \subseteq Topics)'
    PROVE  RequestInv'
<1>1. \A o \in Subs : Topic[o] \in Topics
  BY DEF Topics, Ops
<1>2. Topics' = Topics
  BY DEF Topics, Ops
<1> QED
  BY <1>1, <1>2 DEF RequestInv

LEMMA AttemptRequest ==
    ASSUME IndInv,
           \/ Moves \/ Connect \/ OnSendConnect \/ OnSendAuth \/ BrokerAnswers
           \/ OnReadPacket \/ LinkBreaks \/ SessionLost
    PROVE  RequestInv'
<1> USE DEF IndInv
<1>1. CASE Moves
  <2>1. UNCHANGED <<broker, unseen, ctx, link, ops, acked>>
    BY <1>1 DEF Moves, OnConnect, OnTlsHandshake, OnWsHandshake, OnInitAuthData, OnFixedHeader,
       OnAuthData, OnCompleteAuth, OnShutdown, Timeout, Handler, Steps, Client
  <2> QED
    BY <2>1, StillHeld DEF Held, Linked, RequestInv, Topics, Ops
<1>2. CASE Connect
  <2>1. /\ broker'.session = broker.session /\ broker'.did = "nothing" /\ broker.did # "accepted"
        /\ UNCHANGED <<unseen, ctx, link, ops, acked>>
    BY <1>2 DEF Connect, Disconnected, Client, AttemptInv, Linked
  <2> QED
    BY <2>1, StillHeld DEF Held, Linked, Topics, Ops
<1>3. CASE OnSendConnect \/ OnSendAuth
  <2>1. /\ broker'.session = broker.session /\ broker'.did # "accepted"
        /\ UNCHANGED <<unseen, ctx, link, ops, acked>>
        /\ broker.did # "accepted"
    BY <1>3 DEF OnSendConnect, OnSendAuth, Handler, Client, AttemptInv, Linked, TypeInv, Brokers
  <2> QED
    BY <2>1, StillHeld DEF Held, Linked, Topics, Ops
<1>4. CASE BrokerAnswers
  <2>1. broker.did = "connect" /\ ~Linked /\ UNCHANGED <<unseen, ctx, link, ops, acked>>
    BY <1>4 DEF BrokerAnswers, Client, AttemptInv
  <2>2. CASE broker' = [broker EXCEPT !.did = "answered"]
    <3>1. broker'.did = "answered" /\ broker'.session = broker.session
      BY <2>2 DEF TypeInv, Brokers
    <3> QED
      BY <2>1, <3>1, StillHeld DEF Held, Linked, Topics, Ops
  <2>3. CASE broker' # [broker EXCEPT !.did = "answered"]
    <3>1. /\ broker'.session = broker.session \ NoSession /\ broker'.did = "accepted"
          /\ broker'.new = (broker.session = NoSession)
      <4>1. PICK p \in Props :
               broker' = [session |-> broker.session \ NoSession, did |-> "accepted",
                          props |-> p, new |-> broker.session = NoSession]
        BY <1>4, <2>3 DEF BrokerAnswers
      <4> QED
        BY <4>1
    <3>2. broker'.session \subseteq Topics
      <4>1. broker.session = NoSession \/ broker.session \subseteq Topics
        BY DEF TypeInv, Brokers, Sessions
      <4> QED
        BY <3>1, <4>1
    <3>3. \A topic \in Topics : Held(topic) => Held(topic)'
      BY <2>1, <3>1, TopicsProper DEF Held, Linked
    <3> QED
      BY <2>1, <3>1, <3>2, <3>3, StillHeld DEF Topics, Ops
  <2> QED
    BY <2>2, <2>3
<1>5. CASE OnReadPacket
  <2>1. /\ UNCHANGED <<broker, unseen, link, ops, acked>>
        /\ ctx'.subscriptions_present = ctx.subscriptions_present
    BY <1>5 DEF OnReadPacket, OnConnack, TypeInv, Contexts
  <2> QED
    BY <2>1, StillHeld DEF Held, Linked, RequestInv, Topics, Ops
<1>6. CASE LinkBreaks
  <2>1. /\ broker'.session = broker.session /\ broker'.did = "nothing" /\ Linked
        /\ UNCHANGED <<ctx, acked, unseen>>
    BY <1>6 DEF LinkBreaks, Disconnected, Linked
  <2>2. \A topic \in Topics : Held(topic) => Held(topic)'
    BY <2>1 DEF Held
  <2>3. \A o \in Ops : /\ ops'[o].phase = ops[o].phase /\ ops'[o].wire = "none"
                       /\ ops'[o].fast = ops[o].fast
    BY <1>6 DEF LinkBreaks, TypeInv, Requests
  <2>4. \A o \in Ops : Topic[o] \in Topics
    BY DEF Topics
  <2> QED
    BY <2>1, <2>2, <2>3, <2>4 DEF RequestInv, Topics, Ops
<1>7. CASE SessionLost
  <2>1. /\ broker'.session = NoSession /\ broker'.did # "accepted"
        /\ UNCHANGED <<ctx, link, ops, acked, unseen>>
    BY <1>7 DEF SessionLost, TypeInv, Brokers
  <2> QED
    BY <2>1, StillHeld DEF Held, NoSession, Topics, Ops
<1> QED
  BY <1>1, <1>2, <1>3, <1>4, <1>5, <1>6, <1>7

\* If the broker had no session, nothing of the old one is left: no subscription that
\* the application believes in, and no reply.
LEMMA FinishRequest ==
    ASSUME IndInv, Finish
    PROVE  RequestInv'
<1> USE DEF IndInv
<1>1. at.stage = "done" /\ ~Linked
  BY DEF Finish, AttemptInv
<1>2. CASE at.cancelled \/ at.ec # "ok"
  <2>1. /\ broker'.session = broker.session /\ broker'.did = "nothing"
        /\ unseen' = (unseen \/ broker.did = "accepted")
        /\ UNCHANGED <<ctx, link, ops, acked>>
    BY <1>2 DEF Finish, Disconnected, Client
  <2> QED
    BY <2>1, StillHeld DEF Held, Topics, Ops
<1>3. CASE ~at.cancelled /\ at.ec = "ok"
  <2>1. /\ broker.did = "accepted" /\ ctx.session_present = ~broker.new /\ broker' = broker
        /\ unseen' = unseen /\ \A o \in Ops : ops[o].phase # "posted"
    BY <1>1, <1>3 DEF Finish, AttemptInv, Accepted
  <2>2. broker.new \in BOOLEAN /\ ctx \in Contexts
    BY DEF TypeInv, Brokers
  <2>3. acked' \subseteq acked /\ (broker.new => acked' = {})
    BY <1>3, <2>1, <2>2 DEF Finish, UpdateSessionState, RequestInv
  <2>4. acked' # {} => ctx'.subscriptions_present
    BY <1>3, <2>1, <2>2, <2>3 DEF Finish, UpdateSessionState, RequestInv
  <2>5. \A o \in Ops : /\ ops'[o].wire = "none" /\ ops'[o].fast = "none"
                       /\ ops[o].phase = "idle" => ops'[o].phase = "idle"
    <3>1. ASSUME NEW o \in Ops
          PROVE  /\ Resent(ops[o]).wire = "none" /\ Resent(ops[o]).fast = "none"
                 /\ ops[o].phase = "idle" => Resent(ops[o]).phase = "idle"
      BY <2>1 DEF Resent, RequestInv, TypeInv, Requests
    <3>2. ops' = [o \in Ops |-> Resent(ops[o])]
      BY <1>3 DEF Finish
    <3> QED
      BY <3>1, <3>2
  <2>6. \A topic \in acked' : Held(topic)'
    BY <2>1, <2>3 DEF Held, RequestInv
  <2>7. broker.session \subseteq Topics
    BY <2>1 DEF RequestInv
  <2> QED
    BY <2>1, <2>3, <2>4, <2>5, <2>6, <2>7 DEF RequestInv, Topics, Ops
<1> QED
  BY <1>2, <1>3

LEMMA SendsRequest ==
    ASSUME IndInv, NEW o \in Ops, Sends(o)
    PROVE  RequestInv'
<1> USE DEF IndInv
<1>1. UNCHANGED <<broker, unseen, link, ctx>> /\ ops \in [Ops -> Requests]
  BY DEF Sends, Start, Cancel, Write, OnWritten, Quiet, TypeInv
<1>2. \A topic : Held(topic)' <=> Held(topic)
  BY <1>1 DEF Held, Linked
<1>3. CASE Start(o)
  <2>1. CASE UNCHANGED <<ops, acked>>
    BY <1>1, <1>2, <2>1, StillHeld DEF RequestInv, Topics, Ops
  <2>2. CASE /\ ops' = [ops EXCEPT ![o].phase = "queued"]
             /\ acked' = IF o \in Unsubs THEN acked \ {Topic[o]} ELSE acked
    <3>1. /\ \A p \in Ops \ {o} : ops'[p] = ops[p]
          /\ ops'[o].phase = "queued" /\ ops'[o].wire = ops[o].wire
          /\ ops'[o].fast = ops[o].fast
      BY <1>1, <2>2 DEF Requests
    <3>2. \A p \in Ops : Topic[p] = Topic[o] => ops[p].phase = "idle"
      BY <1>3 DEF Start
    <3>3. acked' \subseteq acked /\ (o \in Unsubs => Topic[o] \notin acked')
      BY <2>2
    <3> QED
      BY <1>1, <1>2, <3>1, <3>2, <3>3 DEF RequestInv, Topics, Ops
  <2> QED
    BY <1>3, <2>1, <2>2 DEF Start
<1>4. CASE Cancel(o) \/ Write(o) \/ OnWritten(o)
  <2>1. /\ acked' = acked /\ ops[o].phase # "idle" /\ ops'[o].phase # "idle"
        /\ ops'[o].wire = "granted" => ops[o].wire = "granted"
        /\ ops'[o].fast = "granted" => ops[o].fast = "granted"
        /\ \A p \in Ops \ {o} : ops'[p] = ops[p]
    BY <1>1, <1>4 DEF Cancel, Write, OnWritten, Requests
  <2> QED
    BY <1>1, <1>2, <2>1 DEF RequestInv, Topics, Ops
<1> QED
  BY <1>3, <1>4 DEF Sends

\* A reply to an UNSUBSCRIBE takes away a topic that nobody counts on, since requests
\* on a topic follow one another.
LEMMA BrokerRequest ==
    ASSUME IndInv, NEW o \in Ops, BrokerReplies(o)
    PROVE  RequestInv'
<1> USE DEF IndInv
<1>1. PICK rc \in {"granted", "refused", "malformed"} :
         /\ ops' = [ops EXCEPT ![o].wire = rc]
         /\ broker' = [broker EXCEPT !.session =
                          IF rc # "granted" THEN @
                          ELSE IF o \in Subs THEN @ \cup {Topic[o]}
                          ELSE @ \ {Topic[o]}]
  BY DEF BrokerReplies
<1>2. /\ Linked /\ UNCHANGED <<unseen, link, ctx, acked>>
      /\ broker.did = "accepted" /\ broker.session \subseteq Topics
      /\ ops[o].wire = "request" /\ Topic[o] \in Topics
  BY DEF BrokerReplies, Quiet, AttemptInv, RequestInv, Topics
<1>3. /\ \A p \in Ops \ {o} : ops'[p] = ops[p]
      /\ ops'[o].wire = rc /\ ops'[o].fast = ops[o].fast /\ ops'[o].phase = ops[o].phase
  BY <1>1 DEF TypeInv, Requests
<1>4. /\ broker'.did = broker.did
      /\ broker'.session = IF rc # "granted" THEN broker.session
                           ELSE IF o \in Subs THEN broker.session \cup {Topic[o]}
                           ELSE broker.session \ {Topic[o]}
  BY <1>1 DEF TypeInv, Brokers
<1>5. ops[o].phase # "idle" /\ broker.session # NoSession
  BY <1>2, TopicsProper DEF RequestInv, NoSession
<1>6. ASSUME NEW topic, Held(topic), topic # Topic[o] \/ o \in Subs
      PROVE  Held(topic)'
  BY <1>2, <1>4, <1>5, <1>6 DEF Held, Linked
<1>7. o \in Unsubs => Topic[o] \notin acked
  BY <1>5 DEF RequestInv
<1>8. \A topic \in acked' : Held(topic)'
  BY <1>2, <1>6, <1>7 DEF RequestInv, Ops
<1>9. ASSUME NEW p \in Subs, ops'[p].wire = "granted" \/ ops'[p].fast = "granted"
      PROVE  Held(Topic[p])'
  <2>1. CASE p = o
    <3>1. CASE ops'[p].wire = "granted"
      BY <1>3, <1>4, <2>1, <3>1 DEF Held
    <3>2. CASE ops'[p].fast = "granted"
      BY <1>3, <1>6, <2>1, <3>2 DEF RequestInv
    <3> QED
      BY <1>9, <3>1, <3>2
  <2>2. CASE p # o
    <3>1. ops[p].wire = "granted" \/ ops[p].fast = "granted"
      BY <1>3, <1>9, <2>2 DEF Ops
    <3>2. Held(Topic[p]) /\ ops[p].phase # "idle"
      BY <3>1 DEF RequestInv, Ops
    <3>3. Topic[p] # Topic[o]
      BY <1>5, <2>2, <3>2 DEF RequestInv, Ops
    <3> QED
      BY <1>6, <3>2, <3>3
  <2> QED
    BY <2>1, <2>2
<1>10. broker'.session \subseteq Topics
  BY <1>2, <1>4
<1> QED
  BY <1>2, <1>3, <1>5, <1>8, <1>9, <1>10 DEF RequestInv, Topics, Ops

LEMMA ReplyRequest ==
    ASSUME IndInv, NEW o \in Ops, Dispatch(o) \/ OnPostedReply(o)
    PROVE  RequestInv'
<1> USE DEF IndInv
<1>1. ASSUME NEW rc, OnReply(o, rc), rc \in {ops[o].wire, ops[o].fast}, ops[o].phase # "idle"
      PROVE  RequestInv'
  <2>1. UNCHANGED <<broker, unseen>> /\ Linked' = Linked
    BY <1>1 DEF OnReply, OnMalformedPacket, CompleteRequest, Linked
  <2>2. \A topic : Held(topic)' <=> Held(topic)
    BY <2>1 DEF Held
  <2>3. /\ \A p \in Ops \ {o} : ops'[p] = ops[p]
        /\ ops'[o].wire = "none" /\ ops'[o].fast = "none"
    BY <1>1 DEF OnReply, TypeInv, Requests
  <2>4. CASE o \in Subs /\ rc = "granted"
    <3>1. /\ acked' = acked \cup {Topic[o]} /\ ctx'.subscriptions_present
          /\ Held(Topic[o]) /\ Topic[o] \in Topics
      BY <1>1, <2>4 DEF OnReply, CompleteRequest, RequestInv, TypeInv, Contexts, Topics
    <3>2. ops'[o].phase = "idle"
      BY <1>1, <2>4 DEF OnReply, TypeInv, Requests
    <3>3. \A p \in Unsubs : ops'[p].phase # "idle" => Topic[p] \notin acked'
      BY <1>1, <2>3, <3>1, <3>2 DEF RequestInv, Ops
    <3> QED
      BY <2>1, <2>2, <2>3, <3>1, <3>2, <3>3 DEF RequestInv, Topics, Ops
  <2>5. CASE ~(o \in Subs /\ rc = "granted")
    <3>1. UNCHANGED <<acked, ctx>>
      BY <1>1, <2>5 DEF OnReply, OnMalformedPacket, CompleteRequest
    <3> QED
      BY <1>1, <2>1, <2>2, <2>3, <3>1 DEF RequestInv, Topics, Ops
  <2> QED
    BY <2>4, <2>5
<1>2. CASE OnPostedReply(o)
  BY <1>1, <1>2 DEF OnPostedReply
<1>3. CASE Dispatch(o) /\ ops[o].phase = "waiting"
  BY <1>1, <1>3 DEF Dispatch
<1>4. CASE Dispatch(o) /\ ops[o].phase # "waiting"
  <2>1. UNCHANGED <<broker, unseen, link, ctx, acked>> /\ ops[o].phase # "idle"
    BY <1>4 DEF Dispatch, Quiet
  <2>2. /\ \A p \in Ops \ {o} : ops'[p] = ops[p]
        /\ ops'[o].wire = "none" /\ ops'[o].fast = ops[o].wire /\ ops'[o].phase = ops[o].phase
    BY <1>4 DEF Dispatch, TypeInv, Requests
  <2>3. \A topic : Held(topic)' <=> Held(topic)
    BY <2>1 DEF Held, Linked
  <2> QED
    BY <2>1, <2>2, <2>3 DEF RequestInv, Topics, Ops
<1> QED
  BY <1>2, <1>3, <1>4
-------------------------------------------------------------------------------
\* The invariant holds at first, and every step keeps it: of an attempt, of the
\* broker, of the network, of a request.
LEMMA Inductive == Init /\ [][Next]_vars => []IndInv
<1>1. Init => IndInv
  <2> SUFFICES ASSUME Init PROVE IndInv
    OBVIOUS
  <2>1. AttemptInv
    BY DEF Init, AttemptInv, NoAttempt, Disconnected, Linked, Succeeds, Accepted
  <2>2. RequestInv
    BY DEF Init, RequestInv, Disconnected, Ops
  <2> QED
    BY <2>1, <2>2, InitTyped DEF IndInv
<1>2. IndInv /\ [Next]_vars => IndInv'
  <2> SUFFICES ASSUME IndInv, [Next]_vars PROVE IndInv'
    OBVIOUS
  <2> USE DEF IndInv
  <2>1. CASE Moves
    BY <2>1, MovesTyped, MovesAttempt, AttemptRequest
  <2>2. CASE Connect \/ OnSendConnect \/ OnSendAuth \/ BrokerAnswers \/ OnReadPacket
    BY <2>2, AttemptTyped, AttemptAttempt, AttemptRequest
  <2>3. CASE LinkBreaks \/ SessionLost
    BY <2>3, OthersTyped, OthersAttempt, AttemptRequest
  <2>4. CASE Finish
    BY <2>4, OthersTyped, OthersAttempt, FinishRequest
  <2>5. ASSUME NEW o \in Ops, Request(o)
        PROVE  IndInv'
    <3>1. RequestInv'
      BY <2>5, SendsRequest, BrokerRequest, ReplyRequest DEF Request, Sends
    <3> QED
      BY <2>5, <3>1, RequestTyped, RequestAttempt
  <2>6. CASE UNCHANGED vars
    BY <2>6 DEF vars, TypeInv, AttemptInv, RequestInv, Held, Linked, Succeeds, Accepted, Topics,
       Ops
  <2> QED
    BY <2>1, <2>2, <2>3, <2>4, <2>5, <2>6 DEF Next, Attempt, Moves
<1> QED
  BY <1>1, <1>2, PTL

(* Whatever refused or cancelled attempts left in the context: once reconnect_op
   has replaced the stream, the limits in mqtt_ctx are those of the CONNACK that
   accepted the connection. *)
THEOREM LimitsAreAgreed == Spec => []LimitsAgreed
<1>1. IndInv => LimitsAgreed
  BY DEF IndInv, AttemptInv, LimitsAgreed
<1> QED
  BY <1>1, Inductive, PTL DEF Spec

(* update_session_state stores session_expired only if the broker had no session,
   after any number of attempts that ended in any way. *)
THEOREM ExpiredIsLost == Spec => []ExpiredOnlyIfLost
<1>1. IndInv => ExpiredOnlyIfLost
  BY DEF IndInv, AttemptInv, ExpiredOnlyIfLost
<1> QED
  BY <1>1, Inductive, PTL DEF Spec

(* For any operations on any topics, interleaved with reconnects in any way: while
   the client is connected, the broker has every subscription the application was
   told of, unless the broker accepted an attempt that the client gave up. *)
THEOREM SubscriptionsAreBacked == Spec => []SubscriptionsBacked
<1>1. IndInv => SubscriptionsBacked
  <2> SUFFICES ASSUME IndInv, Linked, ~unseen, NEW topic \in acked
               PROVE  topic \in broker.session
    BY DEF SubscriptionsBacked
  <2>1. Held(topic) /\ broker.did = "accepted" /\ broker.session \subseteq Topics
    BY DEF IndInv, AttemptInv, RequestInv
  <2>2. broker.session # NoSession
    BY <2>1, TopicsProper DEF NoSession
  <2> QED
    BY <2>1, <2>2 DEF Held
<1> QED
  BY <1>1, Inductive, PTL DEF Spec
================================================================================
