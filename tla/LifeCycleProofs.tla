---------------------------- MODULE LifeCycleProofs ----------------------------
(***************************************************************************)
(* Proofs of what LifeCycle says about the timer of ping_op and about      *)
(* receives that wait, for any number of services and runs, any            *)
(* keep-alives, and an application that runs the client again at once or   *)
(* not.                                                                    *)
(***************************************************************************)
EXTENDS LifeCycle, TLAPS

ServiceStates ==
    [open : BOOLEAN, link : {"down", "connack", "up"}, keep_alive : Nat,
     server_ka : Nat \cup {None}, closed : BOOLEAN, waiting : BOOLEAN]
PingStates ==
    [phase : {"none", "waiting", "aborted", "sending", "done"}, armed : Nat \cup {None}]
RunStates ==
    [svc : Services \cup {None}, reader : {"none", "io", "aborted", "done"},
     ping : PingStates, sentry : {"none", "waiting", "aborted", "disconnect", "done"},
     asked : BOOLEAN]

TypeInv ==
    /\ impl \in Services
    /\ svc \in [Services -> ServiceStates]
    /\ runs \in [Runs -> RunStates]

Agreed(service) ==
    IF service.server_ka # None THEN service.server_ka ELSE service.keep_alive

\* A service that was run is open or its channel is closed; a receive waits only while
\* it is open; its timer is the agreed one while it is connected.
Serves(service, run) ==
    /\ service.open \/ service.closed
    /\ service.waiting => service.open
    /\ run.ping.phase = "waiting" /\ service.open /\ service.link = "up" =>
          run.ping.armed = Agreed(service)

Unused(run) == run.reader = "none" /\ run.ping.phase = "none" /\ run.sentry = "none"

RunInv(r) ==
    IF runs[r].svc = None THEN Unused(runs[r])
    ELSE runs[r].svc \in 1..impl /\ Serves(svc[runs[r].svc], runs[r])

IndInv == TypeInv /\ \A r \in Runs : RunInv(r)

LEMMA NoneProper == None \notin Nat /\ None \notin Services
BY DEF None, Services

LEMMA InitIndInv == Init => IndInv
<1> SUFFICES ASSUME Init PROVE IndInv
  OBVIOUS
<1>1. NewService(60) \in ServiceStates
  BY DEF NewService, ServiceStates
<1>2. NewRun \in RunStates /\ NewRun.svc = None /\ Unused(NewRun)
  <2>1. Idle \in PingStates
    BY DEF Idle, PingStates
  <2> QED
    BY <2>1 DEF NewRun, Idle, RunStates, Unused
<1>3. TypeInv
  BY <1>1, <1>2, LifeCycleAssumption DEF Init, TypeInv, Services
<1> QED
  BY <1>2, <1>3 DEF Init, IndInv, RunInv
-------------------------------------------------------------------------------
\* client_service::cancel closes the channel of a service that was open, and leaves no
\* receive and no timer waiting on it.
LEMMA Cancelling ==
    ASSUME TypeInv, NEW s \in Services, NEW asked \in BOOLEAN
    PROVE  /\ CancelService(s) \in [Services -> ServiceStates]
           /\ \A t \in Services \ {s} : CancelService(s)[t] = svc[t]
           /\ IF svc[s].open
              THEN /\ ~CancelService(s)[s].open /\ CancelService(s)[s].closed
                   /\ ~CancelService(s)[s].waiting
              ELSE CancelService(s)[s] = svc[s]
           /\ CancelRuns(s, asked) \in [Runs -> RunStates]
           /\ \A r \in Runs : /\ CancelRuns(s, asked)[r].svc = runs[r].svc
                              /\ runs[r].svc # s => CancelRuns(s, asked)[r] = runs[r]
                              /\ ~svc[s].open => CancelRuns(s, asked)[r] = runs[r]
<1>1. svc[s] \in ServiceStates /\ svc \in [Services -> ServiceStates]
  BY DEF TypeInv
<1>2. [svc[s] EXCEPT !.open = FALSE, !.link = "down", !.closed = TRUE, !.waiting = FALSE]
         \in ServiceStates
  BY <1>1 DEF ServiceStates
<1>3. ASSUME NEW r \in Runs
      PROVE  CancelRuns(s, asked)[r] \in RunStates /\ CancelRuns(s, asked)[r].svc = runs[r].svc
  <2>1. runs[r] \in RunStates
    BY DEF TypeInv
  <2>2. CancelPing(runs[r].ping) \in PingStates
    BY <2>1 DEF CancelPing, RunStates, PingStates
  <2> QED
    BY <2>1, <2>2 DEF CancelRuns, RunStates
<1>4. CancelRuns(s, asked) \in [Runs -> RunStates]
  BY <1>3 DEF CancelRuns
<1>5. CancelService(s) \in [Services -> ServiceStates]
  BY <1>1, <1>2 DEF CancelService
<1>6. IF svc[s].open
      THEN /\ ~CancelService(s)[s].open /\ CancelService(s)[s].closed
           /\ ~CancelService(s)[s].waiting
      ELSE CancelService(s)[s] = svc[s]
  BY <1>1 DEF CancelService, ServiceStates
<1>7. \A t \in Services \ {s} : CancelService(s)[t] = svc[t]
  BY <1>1 DEF CancelService
<1>8. \A r \in Runs : /\ runs[r].svc # s => CancelRuns(s, asked)[r] = runs[r]
                      /\ ~svc[s].open => CancelRuns(s, asked)[r] = runs[r]
  BY DEF CancelRuns
<1> QED
  BY <1>3, <1>4, <1>5, <1>6, <1>7, <1>8

\* So a service that is cancelled still serves its runs.
LEMMA CancelKeeps ==
    ASSUME IndInv, NEW s \in Services, NEW asked \in BOOLEAN, NEW r \in Runs
    PROVE  IF runs[r].svc = None
           THEN CancelRuns(s, asked)[r] = runs[r] /\ Unused(runs[r])
           ELSE /\ runs[r].svc \in 1..impl
                /\ Serves(CancelService(s)[runs[r].svc], CancelRuns(s, asked)[r])
<1>1. CASE runs[r].svc = None
  BY <1>1, Cancelling, NoneProper DEF IndInv, RunInv
<1>2. CASE runs[r].svc # None
  <2>1. runs[r].svc \in 1..impl /\ runs[r].svc \in Services /\ Serves(svc[runs[r].svc], runs[r])
    BY <1>2 DEF IndInv, RunInv, TypeInv, RunStates
  <2>2. CASE runs[r].svc = s /\ svc[s].open
    <3>1. /\ ~CancelService(s)[s].open /\ CancelService(s)[s].closed
          /\ ~CancelService(s)[s].waiting
      BY <2>2, Cancelling DEF IndInv
    <3> QED
      BY <1>2, <2>1, <2>2, <3>1 DEF Serves
  <2>3. CASE ~(runs[r].svc = s /\ svc[s].open)
    <3>1. CancelService(s)[runs[r].svc] = svc[runs[r].svc] /\ CancelRuns(s, asked)[r] = runs[r]
      BY <2>1, <2>3, Cancelling DEF IndInv
    <3> QED
      BY <1>2, <2>1, <3>1
  <2> QED
    BY <2>2, <2>3
<1> QED
  BY <1>1, <1>2

\* expires_after on _ping_timer: run r waits with the keep-alive that is agreed now,
\* and the other runs of the service do not wait.
LEMMA Arming ==
    ASSUME TypeInv, NEW rs \in [Runs -> RunStates], NEW r \in Runs, rs[r].svc \in Services
    PROVE  /\ Arm(r, rs) \in [Runs -> RunStates]
           /\ \A q \in Runs : /\ Arm(r, rs)[q].svc = rs[q].svc
                              /\ rs[q].svc # rs[r].svc => Arm(r, rs)[q] = rs[q]
                              /\ q # r /\ rs[q].svc = rs[r].svc =>
                                    Arm(r, rs)[q].ping.phase # "waiting"
           /\ Arm(r, rs)[r].ping.armed = Agreed(svc[rs[r].svc])
<1>1. Agreed(svc[rs[r].svc]) \in Nat /\ NegotiatedKeepAlive(rs[r].svc) = Agreed(svc[rs[r].svc])
  BY DEF Agreed, NegotiatedKeepAlive, TypeInv, ServiceStates
<1>2. ASSUME NEW ping \in PingStates
      PROVE  CancelPing(ping) \in PingStates /\ CancelPing(ping).phase # "waiting"
  BY DEF CancelPing, PingStates
<1>3. [phase |-> "waiting", armed |-> Agreed(svc[rs[r].svc])] \in PingStates
  BY <1>1 DEF PingStates
<1>4. ASSUME NEW q \in Runs
      PROVE  /\ Arm(r, rs)[q] \in RunStates /\ Arm(r, rs)[q].svc = rs[q].svc
             /\ rs[q].svc # rs[r].svc => Arm(r, rs)[q] = rs[q]
             /\ q # r /\ rs[q].svc = rs[r].svc => Arm(r, rs)[q].ping.phase # "waiting"
             /\ q = r => Arm(r, rs)[q].ping.armed = Agreed(svc[rs[r].svc])
  <2>1. rs[q] \in RunStates /\ rs[q].ping \in PingStates
    BY DEF RunStates
  <2>2. CASE q = r
    <3>1. Arm(r, rs)[q] = [rs[q] EXCEPT !.ping = [phase |-> "waiting",
                                                  armed |-> Agreed(svc[rs[r].svc])]]
      BY <1>1, <2>2 DEF Arm
    <3> QED
      BY <1>3, <2>1, <2>2, <3>1 DEF RunStates
  <2>3. CASE q # r /\ rs[q].svc = rs[r].svc
    <3>1. Arm(r, rs)[q] = [rs[q] EXCEPT !.ping = CancelPing(rs[q].ping)]
      BY <2>3 DEF Arm
    <3> QED
      BY <1>2, <2>1, <2>3, <3>1 DEF RunStates
  <2>4. CASE q # r /\ rs[q].svc # rs[r].svc
    BY <2>1, <2>4 DEF Arm
  <2> QED
    BY <2>2, <2>3, <2>4
<1>5. Arm(r, rs) \in [Runs -> RunStates]
  BY <1>4 DEF Arm
<1> QED
  BY <1>4, <1>5

\* The timer of sentry_op is of no concern to the others.
LEMMA ArmingSentry ==
    ASSUME NEW rs \in [Runs -> RunStates], NEW r \in Runs
    PROVE  /\ ArmSentry(r, rs) \in [Runs -> RunStates]
           /\ \A q \in Runs : /\ ArmSentry(r, rs)[q].svc = rs[q].svc
                              /\ ArmSentry(r, rs)[q].ping = rs[q].ping
                              /\ Unused(rs[q]) /\ q # r => ArmSentry(r, rs)[q] = rs[q]
<1>1. ASSUME NEW q \in Runs
      PROVE  /\ ArmSentry(r, rs)[q] \in RunStates /\ ArmSentry(r, rs)[q].svc = rs[q].svc
             /\ ArmSentry(r, rs)[q].ping = rs[q].ping
             /\ Unused(rs[q]) /\ q # r => ArmSentry(r, rs)[q] = rs[q]
  <2>1. rs[q] \in RunStates
    OBVIOUS
  <2> QED
    BY <2>1 DEF ArmSentry, RunStates, Unused
<1>2. ArmSentry(r, rs) \in [Runs -> RunStates]
  BY <1>1 DEF ArmSentry
<1> QED
  BY <1>1, <1>2

\* A step of the current client need only keep each run served.
LEMMA StepByRun ==
    ASSUME IndInv, TypeInv', impl' = impl,
           \A r \in Runs : /\ runs'[r].svc = runs[r].svc
                           /\ runs[r].svc = None /\ Unused(runs[r]) => Unused(runs'[r])
                           /\ runs[r].svc \in Services /\ Serves(svc[runs[r].svc], runs[r]) =>
                                 Serves(svc'[runs[r].svc], runs'[r])
    PROVE  IndInv'
<1>1. ASSUME NEW r \in Runs PROVE RunInv(r)'
  <2>1. RunInv(r) /\ runs[r].svc \in Services \cup {None}
    BY DEF IndInv, TypeInv, RunStates
  <2>2. CASE runs[r].svc = None
    BY <2>1, <2>2 DEF RunInv
  <2>3. CASE runs[r].svc # None
    BY <2>1, <2>3 DEF RunInv
  <2> QED
    BY <2>2, <2>3
<1> QED
  BY <1>1 DEF IndInv
-------------------------------------------------------------------------------
\* The application.
LEMMA ApplicationKeeps ==
    ASSUME IndInv, Configure \/ ClientCancel \/ AsyncDisconnect \/ AsyncReceive
    PROVE  IndInv'
<1>1. CASE Configure
  <2>1. PICK k \in KeepAlives : svc' = [svc EXCEPT ![impl].keep_alive = k]
    BY <1>1 DEF Configure
  <2>2. TypeInv'
    BY <1>1, <2>1, LifeCycleAssumption DEF Configure, IndInv, TypeInv, ServiceStates
  <2>3. \A r \in Runs : runs[r].svc = None /\ runs'[r] = runs[r]
    BY <1>1 DEF Configure, BeforeFirstRun
  <2> QED
    BY <2>2, <2>3 DEF IndInv, RunInv
<1>2. ASSUME NEW services \in [Services -> ServiceStates], impl + 1 \in Services
      PROVE  /\ Dup(services) \in [Services -> ServiceStates]
             /\ \A s \in 1..impl : Dup(services)[s] = services[s]
  <2>1. NewService(services[impl].keep_alive) \in ServiceStates
    BY DEF NewService, ServiceStates, IndInv, TypeInv
  <2> QED
    BY <1>2, <2>1 DEF Dup, IndInv, TypeInv, Services
<1>3. CASE ClientCancel
  <2>1. /\ impl + 1 \in Services /\ impl' = impl + 1 /\ impl \in Services
        /\ svc' = Dup(CancelService(impl)) /\ runs' = CancelRuns(impl, TRUE)
    BY <1>3, LifeCycleAssumption DEF ClientCancel, IndInv, TypeInv, Services
  <2>2. TypeInv'
    BY <1>2, <2>1, Cancelling DEF IndInv, TypeInv
  <2>3. ASSUME NEW r \in Runs PROVE RunInv(r)'
    <3>1. runs'[r].svc = runs[r].svc
      BY <2>1, Cancelling DEF IndInv
    <3>2. \A s \in 1..impl : s \in 1..impl' /\ svc'[s] = CancelService(impl)[s]
      <4>1. CancelService(impl) \in [Services -> ServiceStates]
        BY <2>1, Cancelling DEF IndInv
      <4>2. \A s \in 1..impl : s \in 1..impl'
        BY <2>1 DEF Services
      <4> QED
        BY <1>2, <2>1, <4>1, <4>2
    <3>3. IF runs[r].svc = None
          THEN runs'[r] = runs[r] /\ Unused(runs[r])
          ELSE /\ runs[r].svc \in 1..impl
               /\ Serves(CancelService(impl)[runs[r].svc], runs'[r])
      BY <2>1, CancelKeeps
    <3> QED
      BY <3>1, <3>2, <3>3 DEF RunInv
  <2> QED
    BY <2>2, <2>3 DEF IndInv
<1>4. CASE AsyncDisconnect
  <2>1. /\ impl + 1 \in Services /\ impl' = impl + 1 /\ impl \in Services /\ svc' = Dup(svc)
        /\ svc \in [Services -> ServiceStates]
        /\ runs' = [r \in Runs |-> [runs[r] EXCEPT !.asked = @ \/ runs[r].svc = impl]]
    BY <1>4, LifeCycleAssumption DEF AsyncDisconnect, IndInv, TypeInv, Services
  <2>2. ASSUME NEW r \in Runs
        PROVE  /\ runs'[r] \in RunStates
               /\ runs'[r].svc = runs[r].svc /\ runs'[r].ping = runs[r].ping
               /\ runs'[r].reader = runs[r].reader /\ runs'[r].sentry = runs[r].sentry
    BY <2>1 DEF IndInv, TypeInv, RunStates
  <2>3. TypeInv'
    BY <1>2, <2>1, <2>2 DEF TypeInv
  <2>4. ASSUME NEW r \in Runs PROVE RunInv(r)'
    <3>1. \A s \in 1..impl : s \in 1..impl' /\ svc'[s] = svc[s]
      <4>1. \A s \in 1..impl : s \in 1..impl'
        BY <2>1 DEF Services
      <4> QED
        BY <1>2, <2>1, <4>1
    <3>2. RunInv(r) /\ runs'[r].svc = runs[r].svc
      BY <2>2 DEF IndInv
    <3>3. CASE runs[r].svc = None
      BY <2>2, <3>2, <3>3 DEF RunInv, Unused
    <3>4. CASE runs[r].svc # None
      <4>1. svc'[runs[r].svc] = svc[runs[r].svc] /\ runs[r].svc \in 1..impl'
        BY <3>1, <3>2, <3>4 DEF RunInv
      <4>2. Serves(svc[runs[r].svc], runs'[r])
        BY <2>2, <3>2, <3>4 DEF RunInv, Serves
      <4> QED
        BY <3>2, <3>4, <4>1, <4>2 DEF RunInv
    <3> QED
      BY <3>3, <3>4
  <2> QED
    BY <2>3, <2>4 DEF IndInv
<1>5. CASE AsyncReceive
  <2>1. ~svc[impl].closed /\ svc' = [svc EXCEPT ![impl].waiting = TRUE] /\ UNCHANGED <<impl, runs>>
    BY <1>5 DEF AsyncReceive
  <2>2. /\ svc' \in [Services -> ServiceStates]
        /\ \A s \in Services : /\ svc'[s].open = svc[s].open /\ svc'[s].closed = svc[s].closed
                               /\ svc'[s].link = svc[s].link
                               /\ Agreed(svc'[s]) = Agreed(svc[s])
                               /\ svc'[s].waiting => svc[s].waiting \/ ~svc[s].closed
    BY <2>1 DEF IndInv, TypeInv, ServiceStates, Agreed
  <2>3. TypeInv'
    BY <2>1, <2>2 DEF IndInv, TypeInv
  <2>4. ASSUME NEW r \in Runs, runs[r].svc \in Services, Serves(svc[runs[r].svc], runs[r])
        PROVE  Serves(svc'[runs[r].svc], runs'[r])
    BY <2>1, <2>2, <2>4 DEF Serves
  <2> QED
    BY <2>1, <2>3, <2>4, StepByRun
<1> QED
  BY <1>1, <1>3, <1>4, <1>5

\* The r-th run starts.  The others of this service have their timers aborted.
LEMMA RunKeeps ==
    ASSUME IndInv, NEW r \in Runs, AsyncRun(r)
    PROVE  IndInv'
<1> DEFINE started == [runs EXCEPT ![r].svc = impl, ![r].reader = "io"]
           armed == Arm(r, started)
<1>1. impl \in Services /\ TypeInv /\ runs \in [Runs -> RunStates]
  BY DEF IndInv, TypeInv
<1>2. /\ started \in [Runs -> RunStates] /\ started[r].svc = impl
      /\ \A q \in Runs \ {r} : started[q] = runs[q]
  BY <1>1 DEF RunStates
<1>3. /\ armed \in [Runs -> RunStates]
      /\ armed[r].svc = impl /\ armed[r].ping.armed = Agreed(svc[impl])
      /\ \A q \in Runs \ {r} : /\ armed[q].svc = runs[q].svc
                               /\ runs[q].svc # impl => armed[q] = runs[q]
                               /\ runs[q].svc = impl => armed[q].ping.phase # "waiting"
  <2> HIDE DEF started
  <2>1. /\ armed \in [Runs -> RunStates]
        /\ \A q \in Runs : /\ armed[q].svc = started[q].svc
                           /\ started[q].svc # started[r].svc => armed[q] = started[q]
                           /\ q # r /\ started[q].svc = started[r].svc =>
                                 armed[q].ping.phase # "waiting"
        /\ armed[r].ping.armed = Agreed(svc[started[r].svc])
    BY <1>1, <1>2, Arming
  <2> HIDE DEF armed
  <2> QED
    BY <1>2, <2>1
<1> HIDE DEF started, armed
<1>4. /\ runs' \in [Runs -> RunStates]
      /\ runs'[r].svc = impl /\ runs'[r].ping.armed = Agreed(svc[impl])
      /\ \A q \in Runs \ {r} : /\ runs'[q].svc = runs[q].svc
                               /\ runs[q].svc # impl => runs'[q].ping = runs[q].ping
                               /\ runs[q].svc # impl /\ Unused(runs[q]) => Unused(runs'[q])
                               /\ runs[q].svc = impl => runs'[q].ping.phase # "waiting"
  <2>1. runs' = ArmSentry(r, armed)
    BY DEF AsyncRun, started, armed
  <2>2. /\ runs' \in [Runs -> RunStates]
        /\ \A q \in Runs : /\ runs'[q].svc = armed[q].svc /\ runs'[q].ping = armed[q].ping
                           /\ Unused(armed[q]) /\ q # r => runs'[q] = armed[q]
    BY <1>3, <2>1, ArmingSentry
  <2> QED
    BY <1>3, <2>2
<1>5. /\ svc' \in [Services -> ServiceStates] /\ svc'[impl].open /\ ~svc'[impl].waiting
      /\ Agreed(svc'[impl]) = Agreed(svc[impl])
      /\ \A s \in Services \ {impl} : svc'[s] = svc[s]
  BY <1>1 DEF AsyncRun, TypeInv, ServiceStates, Agreed
<1>6. impl' = impl
  BY DEF AsyncRun
<1>7. ASSUME NEW q \in Runs PROVE RunInv(q)'
  <2>1. impl \in 1..impl
    BY <1>1 DEF Services
  <2>2. CASE q = r
    BY <1>1, <1>4, <1>5, <1>6, <2>1, <2>2, NoneProper DEF RunInv, Serves
  <2>3. CASE q # r /\ runs[q].svc = impl
    BY <1>1, <1>4, <1>5, <1>6, <2>1, <2>3, NoneProper DEF RunInv, Serves
  <2>4. CASE q # r /\ runs[q].svc # impl
    <3>1. RunInv(q) /\ runs[q].svc \in Services \cup {None}
      BY <1>1 DEF IndInv, RunStates
    <3>2. CASE runs[q].svc = None
      BY <1>4, <2>4, <3>1, <3>2 DEF RunInv
    <3>3. CASE runs[q].svc # None
      <4>1. svc'[runs[q].svc] = svc[runs[q].svc] /\ runs'[q].ping = runs[q].ping
        BY <1>4, <1>5, <2>4, <3>1, <3>3
      <4> QED
        BY <1>4, <1>6, <2>4, <3>1, <3>3, <4>1 DEF RunInv, Serves
    <3> QED
      BY <3>2, <3>3
  <2> QED
    BY <2>2, <2>3, <2>4
<1> QED
  BY <1>1, <1>4, <1>5, <1>6, <1>7 DEF IndInv, TypeInv

\* The steps that cancel a service.
LEMMA CancelsKeep ==
    ASSUME IndInv, NEW s \in Services, NEW asked \in BOOLEAN, impl' = impl,
           svc' = CancelService(s), runs' = CancelRuns(s, asked)
    PROVE  IndInv'
<1>1. TypeInv'
  BY Cancelling DEF IndInv, TypeInv
<1>2. ASSUME NEW r \in Runs PROVE RunInv(r)'
  <2>1. runs'[r].svc = runs[r].svc
    BY Cancelling DEF IndInv
  <2> QED
    BY <2>1, CancelKeeps DEF RunInv
<1> QED
  BY <1>1, <1>2 DEF IndInv

LEMMA DisconnectKeeps ==
    ASSUME IndInv, NEW s \in Services, OnDisconnectSent(s) \/ OnShutdown(s) \/ DiscTimeout(s)
    PROVE  IndInv'
<1>1. impl' = impl /\ (UNCHANGED <<svc, runs>> \/ (svc' = CancelService(s) /\ runs' = CancelRuns(s, FALSE)))
  BY DEF OnDisconnectSent, OnShutdown, DiscTimeout
<1>2. CASE UNCHANGED <<svc, runs>>
  BY <1>1, <1>2 DEF IndInv, TypeInv, RunInv
<1> QED
  BY <1>1, <1>2, CancelsKeep

LEMMA ReaderKeeps ==
    ASSUME IndInv, NEW r \in Runs, OnRead(r) \/ OnReadFatal(r) \/ SlotCancel(r) \/ OnRunDone(r)
    PROVE  IndInv'
<1>1. CASE OnRead(r)
  <2>1. UNCHANGED <<impl, svc>> /\ runs[r].reader # "none" /\ runs \in [Runs -> RunStates]
    BY <1>1 DEF OnRead, IndInv, TypeInv
  <2>2. /\ runs' \in [Runs -> RunStates]
        /\ \A q \in Runs : runs'[q].svc = runs[q].svc /\ runs'[q].ping = runs[q].ping
        /\ \A q \in Runs \ {r} : runs'[q] = runs[q]
    BY <1>1, <2>1 DEF OnRead, RunStates
  <2>3. TypeInv'
    BY <2>1, <2>2 DEF IndInv, TypeInv
  <2> QED
    BY <2>1, <2>2, <2>3, StepByRun DEF Unused, Serves
<1>2. CASE OnReadFatal(r)
  <2> DEFINE s == runs[r].svc
             ended == CancelRuns(s, FALSE)
  <2>1. /\ runs[r].reader = "io" /\ svc' = CancelService(s) /\ impl' = impl
        /\ runs' = [ended EXCEPT ![r].reader = "done"]
    BY <1>2 DEF OnReadFatal
  <2>2. s \in Services
    BY <2>1 DEF IndInv, RunInv, Unused, TypeInv, RunStates
  <2>3. /\ ended \in [Runs -> RunStates] /\ CancelService(s) \in [Services -> ServiceStates]
        /\ \A q \in Runs : ended[q].svc = runs[q].svc
    BY <2>2, Cancelling DEF IndInv
  <2>4. \A q \in Runs : IF runs[q].svc = None
                        THEN ended[q] = runs[q] /\ Unused(runs[q])
                        ELSE runs[q].svc \in 1..impl /\ Serves(CancelService(s)[runs[q].svc], ended[q])
    BY <2>2, CancelKeeps
  <2> HIDE DEF ended
  <2>5. /\ runs' \in [Runs -> RunStates]
        /\ \A q \in Runs : runs'[q].svc = runs[q].svc /\ runs'[q].ping = ended[q].ping
        /\ \A q \in Runs \ {r} : runs'[q] = ended[q]
    BY <2>1, <2>3 DEF RunStates
  <2>6. TypeInv'
    BY <2>1, <2>3, <2>5 DEF IndInv, TypeInv
  <2>7. ASSUME NEW q \in Runs PROVE RunInv(q)'
    <3>1. CASE runs[q].svc = None
      <4>1. q # r
        BY <2>2, <3>1, NoneProper
      <4> QED
        BY <2>4, <2>5, <3>1, <4>1 DEF RunInv
    <3>2. CASE runs[q].svc # None
      BY <2>1, <2>4, <2>5, <3>2 DEF RunInv, Serves
    <3> QED
      BY <3>1, <3>2
  <2> QED
    BY <2>6, <2>7 DEF IndInv
<1>3. CASE SlotCancel(r)
  <2>1. impl \in Services /\ impl' = impl /\ svc' = CancelService(impl) /\ runs' = CancelRuns(impl, TRUE)
    BY <1>3 DEF SlotCancel, IndInv, TypeInv
  <2> QED
    BY <2>1, CancelsKeep
<1>4. CASE OnRunDone(r)
  BY <1>4 DEF OnRunDone, IndInv, TypeInv, RunInv
<1> QED
  BY <1>1, <1>2, <1>3, <1>4

\* ping_op waits with what is agreed, or does not wait.
LEMMA PingKeeps ==
    ASSUME IndInv, NEW r \in Runs, OnPingTimer(r) \/ OnPingreq(r)
    PROVE  IndInv'
<1>1. /\ UNCHANGED <<impl, svc>> /\ runs[r].ping.phase # "none" /\ runs \in [Runs -> RunStates]
      /\ TypeInv
  BY DEF OnPingTimer, OnPingreq, IndInv, TypeInv
<1>2. runs[r].svc \in Services
  BY <1>1 DEF IndInv, RunInv, Unused, RunStates
<1>3. CASE runs' = Arm(r, runs)
  <2>1. /\ runs' \in [Runs -> RunStates]
        /\ \A q \in Runs : /\ runs'[q].svc = runs[q].svc
                           /\ runs[q].svc # runs[r].svc => runs'[q] = runs[q]
                           /\ q # r /\ runs[q].svc = runs[r].svc => runs'[q].ping.phase # "waiting"
        /\ runs'[r].ping.armed = Agreed(svc[runs[r].svc])
    BY <1>1, <1>2, <1>3, Arming
  <2>2. TypeInv'
    BY <1>1, <2>1 DEF TypeInv
  <2>3. ASSUME NEW q \in Runs, runs[q].svc \in Services, Serves(svc[runs[q].svc], runs[q])
        PROVE  Serves(svc'[runs[q].svc], runs'[q])
    BY <1>1, <2>1, <2>3 DEF Serves
  <2>4. ASSUME NEW q \in Runs, runs[q].svc = None, Unused(runs[q]) PROVE Unused(runs'[q])
    BY <1>2, <2>1, <2>4, NoneProper
  <2> QED
    BY <1>1, <2>1, <2>2, <2>3, <2>4, StepByRun
<1>4. ASSUME NEW phase \in {"sending", "done"}, PingIs(r, phase)
      PROVE  IndInv'
  <2>1. [phase |-> phase, armed |-> None] \in PingStates
    BY DEF PingStates
  <2>2. /\ runs' \in [Runs -> RunStates] /\ runs'[r].svc = runs[r].svc
        /\ runs'[r].ping.phase = phase /\ \A q \in Runs \ {r} : runs'[q] = runs[q]
    BY <1>1, <1>4, <2>1 DEF PingIs, RunStates
  <2>3. TypeInv'
    BY <1>1, <2>2 DEF TypeInv
  <2>4. ASSUME NEW q \in Runs, runs[q].svc \in Services, Serves(svc[runs[q].svc], runs[q])
        PROVE  Serves(svc'[runs[q].svc], runs'[q])
    BY <1>1, <2>2, <2>4 DEF Serves
  <2>5. ASSUME NEW q \in Runs, runs[q].svc = None, Unused(runs[q]) PROVE Unused(runs'[q])
    BY <1>2, <2>2, <2>5, NoneProper
  <2> QED
    BY <1>1, <2>2, <2>3, <2>4, <2>5, StepByRun
<1> QED
  BY <1>3, <1>4 DEF OnPingTimer, OnPingreq

\* sentry_op, which may have the stream shut down.
LEMMA SentryKeeps ==
    ASSUME IndInv, NEW r \in Runs, OnSentryTimer(r) \/ OnSentryDisconnect(r)
    PROVE  IndInv'
<1>1. impl' = impl /\ runs[r].sentry # "none" /\ runs \in [Runs -> RunStates] /\ TypeInv
  BY DEF OnSentryTimer, OnSentryDisconnect, IndInv, TypeInv
<1>2. runs[r].svc \in Services
  BY <1>1 DEF IndInv, RunInv, Unused, RunStates
<1>3. /\ runs' \in [Runs -> RunStates]
      /\ \A q \in Runs : /\ runs'[q].svc = runs[q].svc /\ runs'[q].ping = runs[q].ping
                         /\ Unused(runs[q]) /\ q # r => runs'[q] = runs[q]
  <2>1. CASE runs' = ArmSentry(r, runs)
    BY <1>1, <2>1, ArmingSentry
  <2>2. ASSUME NEW to \in {"done", "disconnect"}, runs' = [runs EXCEPT ![r].sentry = to]
        PROVE  /\ runs' \in [Runs -> RunStates]
               /\ \A q \in Runs : runs'[q].svc = runs[q].svc /\ runs'[q].ping = runs[q].ping
               /\ \A q \in Runs \ {r} : runs'[q] = runs[q]
    BY <1>1, <2>2 DEF RunStates
  <2> QED
    BY <2>1, <2>2 DEF OnSentryTimer, OnSentryDisconnect
<1>4. /\ svc' \in [Services -> ServiceStates]
      /\ \A s \in Services : /\ svc'[s].open = svc[s].open /\ svc'[s].closed = svc[s].closed
                             /\ svc'[s].waiting = svc[s].waiting
                             /\ Agreed(svc'[s]) = Agreed(svc[s])
                             /\ svc'[s].link = "up" => svc[s].link = "up"
  <2>1. svc' = svc \/ svc' = [svc EXCEPT ![runs[r].svc].link = "down"]
    BY DEF OnSentryTimer, OnSentryDisconnect
  <2> QED
    BY <1>1, <1>2, <2>1 DEF TypeInv, ServiceStates, Agreed
<1>5. TypeInv'
  BY <1>1, <1>3, <1>4 DEF TypeInv
<1>6. ASSUME NEW q \in Runs, runs[q].svc \in Services, Serves(svc[runs[q].svc], runs[q])
      PROVE  Serves(svc'[runs[q].svc], runs'[q])
  BY <1>3, <1>4, <1>6 DEF Serves
<1>7. ASSUME NEW q \in Runs, runs[q].svc = None, Unused(runs[q]) PROVE Unused(runs'[q])
  BY <1>2, <1>3, <1>7, NoneProper
<1> QED
  BY <1>1, <1>3, <1>5, <1>6, <1>7, StepByRun

\* The connection.  Properties change only while it is not established, and when it
\* is, the timers that run are aborted.
LEMMA ConnectionKeeps ==
    ASSUME IndInv, NEW s \in Services,
           Connack(s) \/ Established(s) \/ LinkBreaks(s) \/ ChannelStore(s)
    PROVE  IndInv'
<1>1. impl' = impl /\ runs \in [Runs -> RunStates] /\ TypeInv
  BY DEF Connack, Established, LinkBreaks, ChannelStore, IndInv, TypeInv
<1>2. /\ svc' \in [Services -> ServiceStates]
      /\ \A t \in Services : /\ svc'[t].open = svc[t].open /\ svc'[t].closed = svc[t].closed
                             /\ svc'[t].waiting => svc[t].waiting
                             /\ t # s => svc'[t] = svc[t]
      /\ \/ svc'[s].link # "up"
         \/ svc'[s].link = svc[s].link /\ Agreed(svc'[s]) = Agreed(svc[s])
         \/ Established(s)
  <2>1. CASE Connack(s)
    <3>1. PICK k \in ServerKeepAlives \cup {None}, l \in {"down", "connack"} :
             svc' = [svc EXCEPT ![s].server_ka = k, ![s].link = l]
      BY <2>1 DEF Connack
    <3>2. k \in Nat \cup {None}
      BY LifeCycleAssumption
    <3>3. svc'[s] = [svc[s] EXCEPT !.server_ka = k, !.link = l] /\ svc'[s] \in ServiceStates
      BY <1>1, <3>1, <3>2 DEF TypeInv, ServiceStates
    <3> QED
      BY <1>1, <3>1, <3>3 DEF TypeInv, ServiceStates
  <2>2. CASE Established(s) \/ LinkBreaks(s)
    <3>1. PICK l \in {"up", "down"} : svc' = [svc EXCEPT ![s].link = l]
      BY <2>2 DEF Established, LinkBreaks
    <3>2. l = "up" => Established(s)
      BY <1>1, <2>2, <3>1 DEF LinkBreaks, TypeInv, ServiceStates
    <3> QED
      BY <1>1, <3>1, <3>2 DEF TypeInv, ServiceStates
  <2>3. CASE ChannelStore(s)
    BY <1>1, <2>3 DEF ChannelStore, TypeInv, ServiceStates, Agreed
  <2> QED
    BY <2>1, <2>2, <2>3
<1>3. CASE ~Established(s)
  <2>1. runs' = runs
    BY <1>3 DEF Connack, LinkBreaks, ChannelStore
  <2>2. TypeInv'
    BY <1>1, <1>2, <2>1 DEF TypeInv
  <2>3. ASSUME NEW q \in Runs, runs[q].svc \in Services, Serves(svc[runs[q].svc], runs[q])
        PROVE  Serves(svc'[runs[q].svc], runs'[q])
    <3>1. CASE runs[q].svc = s
      BY <1>2, <1>3, <2>1, <2>3, <3>1 DEF Serves
    <3>2. CASE runs[q].svc # s
      BY <1>2, <2>1, <2>3, <3>2
    <3> QED
      BY <3>1, <3>2
  <2> QED
    BY <1>1, <2>1, <2>2, <2>3, StepByRun
<1>4. CASE Established(s)
  <2>1. ASSUME NEW q \in Runs
        PROVE  /\ runs'[q] \in RunStates /\ runs'[q].svc = runs[q].svc
               /\ runs[q].svc = s => runs'[q].ping.phase # "waiting"
               /\ runs[q].svc # s => runs'[q] = runs[q]
    <3>1. runs[q] \in RunStates /\ runs[q].ping \in PingStates
      BY <1>1 DEF RunStates
    <3>2. CancelPing(runs[q].ping) \in PingStates /\ CancelPing(runs[q].ping).phase # "waiting"
      BY <3>1 DEF CancelPing, PingStates
    <3>3. runs'[q] = IF runs[q].svc = s THEN [runs[q] EXCEPT !.ping = CancelPing(runs[q].ping)]
                     ELSE runs[q]
      BY <1>4 DEF Established
    <3> QED
      BY <3>1, <3>2, <3>3 DEF RunStates
  <2>2. runs' \in [Runs -> RunStates]
    BY <1>4, <2>1 DEF Established
  <2>3. TypeInv'
    BY <1>1, <1>2, <2>2 DEF TypeInv
  <2>4. ASSUME NEW q \in Runs, runs[q].svc \in Services, Serves(svc[runs[q].svc], runs[q])
        PROVE  Serves(svc'[runs[q].svc], runs'[q])
    BY <1>2, <2>1, <2>4 DEF Serves
  <2>5. ASSUME NEW q \in Runs, runs[q].svc = None, Unused(runs[q]) PROVE Unused(runs'[q])
    BY <2>1, <2>5, NoneProper
  <2> QED
    BY <1>1, <2>1, <2>3, <2>4, <2>5, StepByRun
<1> QED
  BY <1>3, <1>4
-------------------------------------------------------------------------------
LEMMA Inductive == Init /\ [][Next]_vars => []IndInv
<1>1. IndInv /\ [Next]_vars => IndInv'
  <2> SUFFICES ASSUME IndInv, [Next]_vars PROVE IndInv'
    OBVIOUS
  <2>1. CASE Configure \/ ClientCancel \/ AsyncDisconnect \/ AsyncReceive
    BY <2>1, ApplicationKeeps
  <2>2. ASSUME NEW r \in Runs, OfRun(r) PROVE IndInv'
    BY <2>2, RunKeeps, ReaderKeeps, PingKeeps, SentryKeeps DEF OfRun
  <2>3. ASSUME NEW s \in Services, OfService(s) PROVE IndInv'
    BY <2>3, DisconnectKeeps, ConnectionKeeps DEF OfService
  <2>4. CASE UNCHANGED vars
    BY <2>4 DEF vars, IndInv, TypeInv, RunInv
  <2> QED
    BY <2>1, <2>2, <2>3, <2>4 DEF Next
<1> QED
  BY <1>1, InitIndInv, PTL

(* However CONNACKs, refused or not, cancelled and concurrent runs and lost
   connections follow one another: on an established connection, a timer of ping_op
   that runs has the keep-alive of this connection. *)
THEOREM PingTimerIsCurrent == Spec => []PingTimerCurrent
<1>1. IndInv => PingTimerCurrent
  <2> SUFFICES ASSUME IndInv, NEW r \in Runs, runs[r].ping.phase = "waiting",
                      svc[runs[r].svc].open, svc[runs[r].svc].link = "up"
               PROVE  runs[r].ping.armed = NegotiatedKeepAlive(runs[r].svc)
    BY DEF PingTimerCurrent
  <2>1. runs[r].svc # None
    BY DEF IndInv, RunInv, Unused
  <2> QED
    BY <2>1 DEF IndInv, RunInv, Serves, Agreed, NegotiatedKeepAlive
<1> QED
  BY <1>1, Inductive, PTL DEF Spec

(* client_service::cancel and the channel that async_receive waits on: no receive is
   left waiting on a service that ran and was given up. *)
THEOREM NoReceiveStranded == Spec => []NoStrandedReceive
<1>1. IndInv => NoStrandedReceive
  <2> SUFFICES ASSUME IndInv, NEW r \in Runs, runs[r].svc \in Services,
                      svc[runs[r].svc].waiting
               PROVE  svc[runs[r].svc].open
    BY DEF NoStrandedReceive
  <2> QED
    BY NoneProper DEF IndInv, RunInv, Serves
<1> QED
  BY <1>1, Inductive, PTL DEF Spec
================================================================================
