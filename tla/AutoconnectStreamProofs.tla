------------------------ MODULE AutoconnectStreamProofs ------------------------
(***************************************************************************)
(* For any number of streams, brokers and addresses: autoconnect_stream    *)
(* keeps a good connection, and implements what StreamService says.        *)
(***************************************************************************)
EXTENDS AutoconnectStream, TLAPS

Lockers == Ops \cup {"shutdown"}
Streams == 0..MaxGen
Connecting == {"resolve", "round", "no_host", "backoff", "connect"}
OpStates ==
    [phase : {"idle", "io", "ready", "lock", "aborted", "done"},
     on : Streams \cup {None},
     ec : {"none", "ok", "fail", "timeout", "abort", "fatal"},
     res : {"none", "ok", "try_again", "aborted", "no_recovery"}]

TypeInv ==
    /\ gen \in Streams /\ links \in [Streams -> {"closed", "fresh", "up", "down"}]
    /\ ops \in [Ops -> OpStates] /\ lock \in Seq(Lockers)
    /\ closing \in Streams \cup {None}

In(l) == {l[i] : i \in DOMAIN l}
Distinct(l) == \A i, j \in DOMAIN l : l[i] = l[j] => i = j

\* Streams that are still to come are closed, and the one that is shut down is old.
LinksInv ==
    /\ \A g \in Streams : g > gen => links[g] = "closed"
    /\ closing # None => closing < gen

\* Where an operation stands.  One that failed did so on a stream that is not up, and
\* will not be again; one that has, or waits for, the mutex failed.
Fits(o) ==
    /\ ops[o].phase \in {"idle", "done"} => ops[o].on = None
    /\ ops[o].phase \in {"io", "ready", "lock", "aborted"} => ops[o].on \in 0..gen
    /\ ops[o].phase \in {"ready", "lock"} /\ ops[o].ec \in {"fail", "abort"} =>
          links[ops[o].on] # "up"
    /\ ops[o].phase = "lock" => ops[o].ec \in {"fail", "timeout", "abort"}
    /\ ops[o].ec = "timeout" => o = "read"
    /\ ops[o].phase = "aborted" => ~Open
    /\ o \in In(lock) => ops[o].phase = "lock"

\* Who connects has the mutex, and failed on the current stream.
LockInv ==
    /\ Distinct(lock)
    /\ stage \in Connecting =>
          lock # <<>> /\ Head(lock) \in Ops /\ ops[Head(lock)].on = gen
    /\ stage = "shut" => lock # <<>>

IndInv == TypeInv /\ LinksInv /\ LockInv /\ \A o \in Ops : Fits(o)
-------------------------------------------------------------------------------
\* What happens to the line for the mutex.
LEMMA JoinLine ==
    ASSUME NEW l \in Seq(Lockers), NEW o \in Lockers, o \notin In(l), Distinct(l)
    PROVE  /\ Append(l, o) \in Seq(Lockers) /\ Append(l, o) # <<>>
           /\ In(Append(l, o)) = In(l) \cup {o} /\ Distinct(Append(l, o))
           /\ l # <<>> => Head(Append(l, o)) = Head(l)
<1>1. /\ Append(l, o) \in Seq(Lockers) /\ Len(Append(l, o)) = Len(l) + 1
      /\ \A i \in 1..Len(l) : Append(l, o)[i] = l[i]
      /\ Append(l, o)[Len(l) + 1] = o
      /\ DOMAIN l = 1..Len(l) /\ DOMAIN Append(l, o) = 1..(Len(l) + 1) /\ Len(l) \in Nat
  OBVIOUS
<1>2. In(Append(l, o)) = In(l) \cup {o}
  BY <1>1 DEF In
<1>3. Distinct(Append(l, o))
  <2>1. \A i \in DOMAIN l : l[i] # o
    BY DEF In
  <2> QED
    BY <1>1, <2>1 DEF Distinct
<1>4. l # <<>> => Head(Append(l, o)) = Head(l)
  OBVIOUS
<1>5. Append(l, o) # <<>>
  BY <1>1
<1> QED
  BY <1>1, <1>2, <1>3, <1>4, <1>5

LEMMA LeaveLine ==
    ASSUME NEW l \in Seq(Lockers), l # <<>>, Distinct(l)
    PROVE  /\ Tail(l) \in Seq(Lockers) /\ Distinct(Tail(l))
           /\ In(Tail(l)) = In(l) \ {Head(l)} /\ Head(l) \in In(l)
<1>1. /\ Tail(l) \in Seq(Lockers) /\ Len(Tail(l)) = Len(l) - 1
      /\ \A i \in 1..(Len(l) - 1) : Tail(l)[i] = l[i + 1]
      /\ Head(l) = l[1] /\ Len(l) \in Nat \ {0}
      /\ DOMAIN l = 1..Len(l) /\ DOMAIN Tail(l) = 1..(Len(l) - 1)
  OBVIOUS
<1>2. Distinct(Tail(l))
  BY <1>1 DEF Distinct
<1>3. Head(l) \in In(l)
  BY <1>1 DEF In
<1>4. In(Tail(l)) \subseteq In(l) \ {Head(l)}
  BY <1>1 DEF In, Distinct
<1>5. ASSUME NEW x \in In(l) \ {Head(l)} PROVE x \in In(Tail(l))
  <2>1. PICK i \in DOMAIN l : x = l[i]
    BY <1>5 DEF In
  <2>2. i - 1 \in 1..(Len(l) - 1) /\ x = Tail(l)[i - 1]
    BY <1>1, <1>5, <2>1
  <2> QED
    BY <1>1, <2>2 DEF In
<1> QED
  BY <1>1, <1>2, <1>3, <1>4, <1>5

\* cancel of the mutex leaves its owner.
LEMMA CancelLine ==
    ASSUME NEW l \in Seq(Lockers), Distinct(l),
           NEW left, left = IF l = <<>> THEN <<>> ELSE <<Head(l)>>
    PROVE  /\ left \in Seq(Lockers) /\ Distinct(left)
           /\ In(left) = In(l) \ {l[i] : i \in 2..Len(l)}
           /\ l # <<>> => left # <<>> /\ Head(left) = Head(l) /\ Head(l) \in In(left)
<1>1. CASE l = <<>>
  BY <1>1 DEF In, Distinct
<1>2. CASE l # <<>>
  <2>1. left = <<Head(l)>> /\ left \in Seq(Lockers) /\ Distinct(left) /\ In(left) = {Head(l)}
    BY <1>2 DEF In, Distinct
  <2>2. DOMAIN l = 1..Len(l) /\ Len(l) \in Nat \ {0} /\ Head(l) = l[1]
    BY <1>2
  <2>3. In(l) \ {l[i] : i \in 2..Len(l)} = {Head(l)}
    BY <2>2 DEF In, Distinct
  <2> QED
    BY <1>2, <2>1, <2>3
<1> QED
  BY <1>1, <1>2

\* An operation that ends, and a reader that starts again on stream g.
LEMMA CompletedOp ==
    ASSUME NEW o \in Ops, NEW g \in Streams, NEW link,
           NEW res \in {"ok", "try_again", "aborted", "no_recovery"},
           NEW r \in Completed(o, res, g, link)
    PROVE  /\ r \in OpStates /\ r.res = res /\ r.ec # "timeout"
           /\ \/ r.phase \in {"idle", "done"} /\ r.on = None
              \/ r.phase = "io" /\ r.on = g
              \/ r.phase = "ready" /\ r.on = g /\ link # "up"
<1>1. CASE o = "read" /\ res \in {"ok", "try_again"}
  <2>1. PICK c \in WasConnected(link) :
           r = [phase |-> IF c THEN "io" ELSE "ready", on |-> g,
                ec |-> IF c THEN "none" ELSE "fail", res |-> res]
    BY <1>1 DEF Completed, Begun
  <2>2. c \in BOOLEAN /\ (~c => link # "up")
    BY DEF WasConnected
  <2>3. CASE c
    BY <2>1, <2>3 DEF OpStates
  <2>4. CASE ~c
    BY <2>1, <2>2, <2>4 DEF OpStates
  <2> QED
    BY <2>3, <2>4
<1>2. CASE ~(o = "read" /\ res \in {"ok", "try_again"})
  <2>1. r = [phase |-> IF o = "read" THEN "done" ELSE "idle", on |-> None,
             ec |-> "none", res |-> res]
    BY <1>2 DEF Completed
  <2> QED
    BY <2>1 DEF OpStates
<1> QED
  BY <1>1, <1>2
-------------------------------------------------------------------------------
\* What holds of the streams in every step: none that is not up comes up, but the next
\* one, and a client that is closed stays so.
Steady ==
    /\ gen' \in Streams /\ gen' \in {gen, gen + 1}
    /\ links' \in [Streams -> {"closed", "fresh", "up", "down"}]
    /\ \A g \in 0..gen : links'[g] = "up" => links[g] = "up"
    /\ Open' => Open
    /\ gen' # gen => Open
    /\ closing' \in Streams \cup {None}
    /\ LinksInv'

\* What StreamService lets happen to an operation: nothing, it starts, or it ends with
\* what is so.
Served(o) ==
    \/ ops'[o].on = ops[o].on /\ ops'[o].res = ops[o].res
    \/ ops[o].on = None /\ ops'[o].on = gen' /\ ops'[o].res = ops[o].res
    \/ /\ ops[o].on # None /\ ops'[o].on \in {None, gen'}
       /\ \/ ops'[o].res = "ok" /\ Open'
          \/ ops'[o].res = "try_again" /\ Open' /\ ops[o].on < gen'
          \/ ops'[o].res \in {"aborted", "no_recovery"} /\ ~Open'

\* What is to be shown of every step.
Kept == IndInv' /\ Steady /\ \A o \in Ops : Served(o)

\* An operation that a step leaves alone fits as before.
LEMMA StillFits ==
    ASSUME IndInv, Steady, NEW o \in Ops, ops'[o] = ops[o], o \in In(lock') => o \in In(lock)
    PROVE  Fits(o)'
<1>1. Fits(o) /\ gen \in Streams /\ gen' \in {gen, gen + 1}
  BY DEF IndInv, TypeInv, Steady
<1>2. \A g \in 0..gen : g \in 0..gen'
  BY <1>1 DEF Streams
<1>3. (ops[o].phase = "aborted" => ~Open)' /\ (o \in In(lock) => ops[o].phase = "lock")'
  BY <1>1 DEF Steady, Fits, In
<1> QED
  BY <1>1, <1>2, <1>3 DEF Fits, Steady

\* So does one that ended.
LEMMA EndedFits ==
    ASSUME gen' \in Streams, NEW o \in Ops, o \notin In(lock'),
           NEW res \in {"ok", "try_again", "aborted", "no_recovery"},
           ops'[o] \in Completed(o, res, gen', links'[gen'])
    PROVE  /\ Fits(o)' /\ ops'[o] \in OpStates
           /\ ops'[o].res = res /\ ops'[o].on \in {None, gen'}
<1>1. /\ ops'[o] \in OpStates /\ ops'[o].ec # "timeout" /\ ops'[o].res = res
      /\ \/ ops'[o].phase \in {"idle", "done"} /\ ops'[o].on = None
         \/ ops'[o].phase = "io" /\ ops'[o].on = gen'
         \/ ops'[o].phase = "ready" /\ ops'[o].on = gen' /\ links'[gen'] # "up"
  BY CompletedOp
<1>2. gen' \in 0..gen'
  BY DEF Streams
<1>3. (o \in In(lock) => ops[o].phase = "lock")'
  BY DEF In
<1> QED
  BY <1>1, <1>2, <1>3 DEF Fits

\* reconnect_op::complete
LEMMA FinishKeeps ==
    ASSUME IndInv, Steady, NEW res \in {"try_again", "aborted"},
           lock # <<>>, Head(lock) \in Ops, Finish(res),
           res = "try_again" => Open' /\ ops[Head(lock)].on < gen',
           res = "aborted" => ~Open'
    PROVE  Kept
<1>0. PICK h \in Ops : h = Head(lock)
  OBVIOUS
<1>1. lock \in Seq(Lockers) /\ Distinct(lock) /\ ops \in [Ops -> OpStates]
  BY DEF IndInv, TypeInv, LockInv
<1>2. /\ lock' \in Seq(Lockers) /\ Distinct(lock')
      /\ In(lock') = In(lock) \ {h}
  BY <1>0, <1>1, LeaveLine DEF Finish
<1>3. PICK r \in Completed(h, res, gen', links'[gen']) : ops' = [ops EXCEPT ![h] = r]
  BY <1>0 DEF Finish
<1>4. ops'[h] = r /\ (\A o \in Ops \ {h} : ops'[o] = ops[o]) /\ gen' \in Streams
  BY <1>1, <1>3 DEF Steady
<1>5. Fits(h)' /\ r \in OpStates /\ r.res = res /\ r.on \in {None, gen'}
  BY <1>2, <1>3, <1>4, EndedFits
<1>6. \A o \in Ops \ {h} : Fits(o)'
  BY <1>2, <1>4, StillFits
<1>7. stage' \in {"none", "posted"}
  BY DEF Finish, StageAfter
<1>8. TypeInv'
  BY <1>1, <1>2, <1>3, <1>5 DEF TypeInv, Steady
<1>9. LockInv'
  BY <1>2, <1>7 DEF LockInv, Connecting, Distinct
<1>10. ops[h].on # None
  <2>1. Fits(h) /\ h \in In(lock) /\ gen \in Streams
    BY <1>0, <1>1, LeaveLine DEF IndInv, TypeInv
  <2> QED
    BY <2>1 DEF Fits, None, Streams
<1>11. Served(h)
  BY <1>0, <1>4, <1>5, <1>10 DEF Served
<1> QED
  BY <1>4, <1>5, <1>6, <1>8, <1>9, <1>11 DEF Kept, IndInv, Steady, Served

\* client_service::cancel, with l what is left of the mutex, and p the operations, those
\* in l as they were.
LEMMA CloseKeeps ==
    ASSUME IndInv, NEW l \in Seq(Lockers), Distinct(l), In(l) \subseteq In(lock),
           NEW p \in [Ops -> OpStates],
           \A o \in Ops : \/ p[o] = ops[o] /\ (o \in In(l) \/ o \notin In(lock))
                          \/ /\ o \notin In(l) /\ p[o].ec # "timeout"
                             /\ p[o].phase \in {"idle", "done"} /\ p[o].on = None
                             /\ ops[o].on # None /\ p[o].res = "no_recovery",
           Close(l, p), closing' = closing,
           stage' \in {"none", "posted"} \/ (stage' = stage /\ l = lock)
    PROVE  Kept
<1> DEFINE withdrawn == {l[i] : i \in 2..Len(l)}
<1>1. /\ gen' = gen /\ links' = [links EXCEPT ![gen] = "closed"]
      /\ ops' = [o \in Ops |-> IF o \in withdrawn THEN [p[o] EXCEPT !.phase = "aborted"]
                               ELSE p[o]]
      /\ lock' = IF l = <<>> THEN <<>> ELSE <<Head(l)>>
  BY DEF Close
<1>2. /\ lock' \in Seq(Lockers) /\ Distinct(lock') /\ In(lock') = In(l) \ withdrawn
      /\ l # <<>> => lock' # <<>> /\ Head(lock') = Head(l) /\ Head(l) \in In(lock')
  BY <1>1, CancelLine
<1>3. Steady /\ ~Open'
  BY <1>1 DEF Steady, IndInv, TypeInv, LinksInv, Open, Streams
<1>4. withdrawn \subseteq In(l)
  BY DEF In
<1> HIDE DEF withdrawn
<1>5. ASSUME NEW o \in Ops PROVE Fits(o)' /\ ops'[o] \in OpStates /\ Served(o)
  <2>1. CASE ops'[o] = ops[o]
    BY <1>2, <1>3, <2>1, StillFits DEF IndInv, TypeInv, Served
  <2>2. CASE /\ o \notin In(l) /\ p[o].ec # "timeout" /\ p[o].phase \in {"idle", "done"}
             /\ p[o].on = None /\ ops[o].on # None /\ p[o].res = "no_recovery"
    <3>1. ops'[o] = p[o] /\ o \notin In(lock')
      BY <1>1, <1>2, <1>4, <2>2
    <3>2. (o \in In(lock) => ops[o].phase = "lock")'
      BY <3>1 DEF In
    <3> QED
      BY <1>3, <2>2, <3>1, <3>2 DEF Fits, Served
  <2>3. CASE o \in withdrawn
    <3>1. o \in In(l) /\ p[o] = ops[o] /\ Fits(o) /\ ops[o].phase = "lock" /\ o \notin In(lock')
      BY <1>2, <1>4, <2>3 DEF IndInv, Fits
    <3>2. ops'[o] = [ops[o] EXCEPT !.phase = "aborted"] /\ ops'[o] \in OpStates
      BY <1>1, <2>3, <3>1 DEF OpStates, IndInv, TypeInv
    <3>3. (o \in In(lock) => ops[o].phase = "lock")'
      BY <3>1 DEF In
    <3>4. /\ ops'[o].phase = "aborted" /\ ops'[o].on = ops[o].on /\ ops'[o].ec = ops[o].ec
          /\ ops'[o].res = ops[o].res
      BY <3>2 DEF OpStates, IndInv, TypeInv
    <3> QED
      BY <1>1, <1>3, <3>1, <3>2, <3>3, <3>4 DEF Fits, Served
  <2>4. CASE o \notin withdrawn /\ p[o] = ops[o]
    BY <1>1, <2>1, <2>4
  <2> QED
    BY <2>2, <2>3, <2>4
<1>6. TypeInv'
  <2>1. ops' \in [Ops -> OpStates]
    BY <1>1, <1>5
  <2> QED
    BY <1>2, <1>3, <2>1 DEF TypeInv, Steady
<1>7. LockInv'
  <2>1. CASE stage' \in {"none", "posted"}
    BY <1>2, <2>1 DEF LockInv, Connecting, Distinct
  <2>2. CASE stage' = stage /\ l = lock
    <3>1. ASSUME stage \in Connecting
          PROVE  lock' # <<>> /\ Head(lock') \in Ops /\ ops'[Head(lock')].on = gen'
      <4>1. lock # <<>> /\ Head(lock) \in Ops /\ ops[Head(lock)].on = gen
        BY <3>1 DEF IndInv, LockInv
      <4>2. Head(lock) \in In(lock') /\ Head(lock) \notin withdrawn /\ Head(lock) \in In(lock)
        BY <1>2, <2>2, <4>1
      <4>3. ops'[Head(lock)] = ops[Head(lock)]
        BY <1>1, <2>2, <4>1, <4>2
      <4> QED
        BY <1>1, <1>2, <2>2, <4>1, <4>3
    <3>2. stage = "shut" => lock # <<>>
      BY DEF IndInv, LockInv
    <3> QED
      BY <1>2, <2>2, <3>1, <3>2 DEF LockInv, Connecting, Distinct
  <2> QED
    BY <2>1, <2>2
<1> QED
  BY <1>3, <1>5, <1>6, <1>7 DEF Kept, IndInv, Steady

LEMMA SameStreams ==
    ASSUME IndInv, UNCHANGED <<gen, links, closing>>
    PROVE  Steady
<1>1. Open' <=> Open
  BY DEF Open
<1> QED
  BY <1>1 DEF Steady, IndInv, TypeInv, LinksInv

\* A step that only changes what the owner of the mutex waits for.
LEMMA StageKeeps ==
    ASSUME IndInv, UNCHANGED <<gen, links, ops, lock, closing>>,
           stage' \in Connecting => lock # <<>> /\ Head(lock) \in Ops /\ ops[Head(lock)].on = gen,
           stage' = "shut" => lock # <<>>
    PROVE  Kept
<1>1. Steady
  BY SameStreams
<1>2. \A o \in Ops : Fits(o)'
  BY <1>1, StillFits
<1>3. TypeInv' /\ LockInv'
  BY DEF IndInv, TypeInv, LockInv, Distinct
<1> QED
  BY <1>1, <1>2, <1>3 DEF Kept, IndInv, Steady, Served

\* A step of an operation that has nothing to do with the mutex.
LEMMA OpKeeps ==
    ASSUME IndInv, UNCHANGED <<gen, links, lock, stage, closing>>, NEW o \in Ops,
           o \notin In(lock), NEW r \in OpStates, ops' = [ops EXCEPT ![o] = r],
           Fits(o)', Served(o)
    PROVE  Kept
<1>1. Steady /\ lock \in Seq(Lockers) /\ ops \in [Ops -> OpStates]
  BY SameStreams DEF IndInv, TypeInv
<1>2. ops' \in [Ops -> OpStates] /\ \A p \in Ops \ {o} : ops'[p] = ops[p]
  BY <1>1
<1>3. \A p \in Ops \ {o} : Fits(p)' /\ Served(p)
  BY <1>1, <1>2, StillFits DEF Served
<1>4. TypeInv'
  BY <1>1, <1>2 DEF TypeInv, Steady
<1>5. LockInv'
  <2>1. lock # <<>> => Head(lock) \in In(lock)
    BY <1>1, LeaveLine DEF IndInv, LockInv
  <2> QED
    BY <1>2, <2>1 DEF IndInv, LockInv, Distinct
<1> QED
  BY <1>1, <1>3, <1>4, <1>5 DEF Kept, IndInv, Steady

LEMMA StartWriteKeeps ==
    ASSUME IndInv, StartWrite
    PROVE  Kept
<1>1. PICK o \in Ops : o = "write"
  BY DEF Ops
<1>2. /\ ops[o].phase = "idle" /\ Fits(o) /\ ops[o] \in OpStates /\ gen \in Streams
      /\ UNCHANGED <<gen, links, lock, stage, closing>>
  BY <1>1 DEF StartWrite, IndInv, TypeInv
<1>3. PICK r \in Begun(gen, links[gen], ops[o].res) : ops' = [ops EXCEPT ![o] = r]
  BY <1>1 DEF StartWrite
<1>4. PICK c \in WasConnected(links[gen]) :
         r = [phase |-> IF c THEN "io" ELSE "ready", on |-> gen,
              ec |-> IF c THEN "none" ELSE "fail", res |-> ops[o].res]
  BY DEF Begun
<1>5. c \in BOOLEAN /\ (~c => links[gen] # "up") /\ o \notin In(lock) /\ ops[o].on = None
  BY <1>2 DEF WasConnected, Fits
<1>6. /\ r \in OpStates /\ r.on = gen /\ r.res = ops[o].res /\ r.ec # "timeout"
      /\ r.phase = "io" \/ (r.phase = "ready" /\ links[gen] # "up")
  <2>1. ops[o].res \in {"none", "ok", "try_again", "aborted", "no_recovery"}
    BY <1>2 DEF OpStates
  <2>2. CASE c
    BY <1>2, <1>4, <2>1, <2>2 DEF OpStates
  <2>3. CASE ~c
    BY <1>2, <1>4, <1>5, <2>1, <2>3 DEF OpStates
  <2> QED
    BY <2>2, <2>3
<1>7. ops'[o] = r /\ gen \in 0..gen
  BY <1>2, <1>3 DEF IndInv, TypeInv, Streams
<1>8. Fits(o)' /\ Served(o)
  <2>1. (o \in In(lock) => ops[o].phase = "lock")'
    BY <1>2, <1>5 DEF In
  <2> QED
    BY <1>2, <1>5, <1>6, <1>7, <2>1 DEF Fits, Served
<1> QED
  BY <1>2, <1>3, <1>5, <1>6, <1>8, OpKeeps

LEMMA TransferKeeps ==
    ASSUME IndInv, NEW o \in Ops, Transfer(o)
    PROVE  Kept
<1>1. PICK ec \in Outcomes(o) : ops' = [ops EXCEPT ![o].phase = "ready", ![o].ec = ec]
  BY DEF Transfer
<1>2. /\ ops[o].phase = "io" /\ Fits(o) /\ ops[o] \in OpStates /\ ops \in [Ops -> OpStates]
      /\ UNCHANGED <<gen, links, lock, stage, closing>>
  BY DEF Transfer, IndInv, TypeInv
<1>3. /\ ec \in {"ok", "fail", "timeout", "abort", "fatal"}
      /\ ec = "timeout" => o = "read"
      /\ ec \in {"fail", "abort"} => links[ops[o].on] # "up"
  BY AutoconnectAssumption DEF Outcomes
<1> DEFINE r == [ops[o] EXCEPT !.phase = "ready", !.ec = ec]
<1>4. /\ r \in OpStates /\ ops' = [ops EXCEPT ![o] = r] /\ ops'[o] = r
      /\ r.phase = "ready" /\ r.ec = ec /\ r.on = ops[o].on /\ r.res = ops[o].res
  BY <1>1, <1>2, <1>3 DEF OpStates
<1> HIDE DEF r
<1>5. o \notin In(lock)
  BY <1>2 DEF Fits
<1>6. Fits(o)' /\ Served(o)
  <2>1. (o \in In(lock) => ops[o].phase = "lock")'
    BY <1>2, <1>5 DEF In
  <2> QED
    BY <1>2, <1>3, <1>4, <2>1 DEF Fits, Served
<1> QED
  BY <1>2, <1>4, <1>5, <1>6, OpKeeps

\* An operation completes without the mutex.
LEMMA CompletesKeeps ==
    ASSUME IndInv, UNCHANGED <<gen, links, lock, stage, closing>>, NEW o \in Ops,
           ops[o].phase \in {"ready", "aborted"}, NEW res \in {"ok", "aborted"},
           NEW r \in Completed(o, res, gen, links[gen]), ops' = [ops EXCEPT ![o] = r],
           IF Open THEN res = "ok" ELSE res = "aborted"
    PROVE  Kept
<1>1. Fits(o) /\ ops \in [Ops -> OpStates] /\ gen \in Streams /\ (Open' <=> Open)
  BY DEF IndInv, TypeInv, Open
<1>2. o \notin In(lock') /\ o \notin In(lock) /\ ops'[o] = r /\ ops[o].on # None
  BY <1>1 DEF Fits, In, None, Streams
<1>3. Fits(o)' /\ ops'[o] \in OpStates /\ ops'[o].res = res /\ ops'[o].on \in {None, gen'}
  BY <1>1, <1>2, EndedFits
<1>4. Served(o)
  BY <1>1, <1>2, <1>3 DEF Served
<1> QED
  BY <1>2, <1>3, <1>4, OpKeeps

LEMMA OnTransferKeeps ==
    ASSUME IndInv, NEW o \in Ops, OnTransfer(o)
    PROVE  Kept
<1>1. /\ ops[o].phase = "ready" /\ closing' = closing /\ Fits(o) /\ o \notin In(lock)
      /\ ops \in [Ops -> OpStates] /\ lock \in Seq(Lockers) /\ Distinct(lock)
      /\ ops[o] \in OpStates /\ gen \in Streams /\ ops[o].on # None
  BY DEF OnTransfer, IndInv, TypeInv, LockInv, Fits, None, Streams
<1>2. CASE /\ ~Open \/ ops[o].ec = "ok"
           /\ \E r \in Completed(o, IF Open THEN "ok" ELSE "aborted", gen, links[gen]) :
                 ops' = [ops EXCEPT ![o] = r]
           /\ UNCHANGED <<gen, links, lock, stage>>
  <2>1. CASE Open
    BY <1>1, <1>2, <2>1, CompletesKeeps
  <2>2. CASE ~Open
    BY <1>1, <1>2, <2>2, CompletesKeeps
  <2> QED
    BY <2>1, <2>2
<1>3. CASE /\ Open /\ ops[o].ec \in {"fail", "timeout", "abort"}
           /\ ops' = [ops EXCEPT ![o].phase = "lock"]
           /\ lock' = Append(lock, o)
           /\ stage' = IF lock = <<>> THEN "posted" ELSE stage
           /\ UNCHANGED <<gen, links>>
  <2>1. Steady
    BY <1>1, <1>3, SameStreams
  <2>2. o \in Lockers
    BY DEF Lockers
  <2>3. /\ lock' \in Seq(Lockers) /\ lock' # <<>> /\ In(lock') = In(lock) \cup {o}
        /\ Distinct(lock') /\ (lock # <<>> => Head(lock') = Head(lock))
    BY <1>1, <1>3, <2>2, JoinLine
  <2>4. /\ ops' \in [Ops -> OpStates] /\ \A p \in Ops \ {o} : ops'[p] = ops[p]
        /\ ops'[o].phase = "lock" /\ ops'[o].on = ops[o].on /\ ops'[o].ec = ops[o].ec
        /\ ops'[o].res = ops[o].res
    BY <1>1, <1>3 DEF OpStates
  <2>5. \A p \in Ops \ {o} : Fits(p)' /\ Served(p)
    BY <2>1, <2>3, <2>4, StillFits DEF Served
  <2>6. Fits(o)' /\ Served(o)
    BY <1>1, <1>3, <2>4 DEF Fits, Served
  <2>7. TypeInv'
    BY <2>1, <2>3, <2>4 DEF TypeInv, Steady
  <2>8. LockInv'
    <3>1. ASSUME stage' \in Connecting
          PROVE  Head(lock') \in Ops /\ ops'[Head(lock')].on = gen'
      <4>1. lock # <<>> /\ Head(lock) \in Ops /\ ops[Head(lock)].on = gen
        BY <1>3, <3>1 DEF IndInv, LockInv, Connecting
      <4>2. Head(lock) \in In(lock)
        BY <1>1, <4>1, LeaveLine
      <4> QED
        BY <1>1, <1>3, <2>3, <2>4, <4>1, <4>2
    <3> QED
      BY <2>3, <3>1 DEF LockInv, Distinct, Connecting
  <2> QED
    BY <2>1, <2>5, <2>6, <2>7, <2>8 DEF Kept, IndInv, Steady
<1>4. CASE /\ Open /\ ops[o].ec = "fatal"
           /\ \E r \in Completed(o, "no_recovery", gen, "closed") :
                 Close(lock, [ops EXCEPT ![o] = r])
           /\ UNCHANGED stage
  <2>1. PICK r \in Completed(o, "no_recovery", gen, "closed") :
            Close(lock, [ops EXCEPT ![o] = r])
    BY <1>4
  <2>2. /\ r \in OpStates /\ r.phase \in {"idle", "done"} /\ r.on = None /\ r.ec # "timeout"
        /\ r.res = "no_recovery"
    BY DEF Completed, OpStates
  <2>3. /\ [ops EXCEPT ![o] = r] \in [Ops -> OpStates] /\ [ops EXCEPT ![o] = r][o] = r
        /\ \A p \in Ops \ {o} : [ops EXCEPT ![o] = r][p] = ops[p]
    BY <1>1, <2>2
  <2> QED
    BY <1>1, <1>4, <2>1, <2>2, <2>3, CloseKeeps
<1> QED
  BY <1>2, <1>3, <1>4 DEF OnTransfer

LEMMA OnAbortedKeeps ==
    ASSUME IndInv, NEW o \in Ops, OnAborted(o)
    PROVE  Kept
<1>1. ops[o].phase = "aborted" /\ ~Open /\ UNCHANGED <<gen, links, lock, stage, closing>>
  BY DEF OnAborted, IndInv, Fits
<1>2. PICK r \in Completed(o, "aborted", gen, links[gen]) : ops' = [ops EXCEPT ![o] = r]
  BY <1>1 DEF OnAborted
<1> QED
  BY <1>1, <1>2, CompletesKeeps
-------------------------------------------------------------------------------
\* reconnect_op gives up when the client is closed.
LEMMA AbortedKeeps ==
    ASSUME IndInv, lock # <<>>, Head(lock) \in Ops, ~Open, Aborted, closing' = closing
    PROVE  Kept
<1>1. Steady /\ Finish("aborted") /\ ~Open'
  BY SameStreams DEF Aborted, Open
<1> QED
  BY <1>1, FinishKeeps

\* resolve_op goes on to the next broker, or pauses.
LEMMA NextHostKeeps ==
    ASSUME IndInv, lock # <<>>, Head(lock) \in Ops, ops[Head(lock)].on = gen, NextHost,
           closing' = closing
    PROVE  Kept
<1>1. UNCHANGED <<gen, links, ops, lock, closing>> /\ stage' # "shut"
  BY DEF NextHost
<1> QED
  BY <1>1, StageKeeps

LEMMA OnLockedKeeps ==
    ASSUME IndInv, NEW o \in Ops, OnLocked(o)
    PROVE  Kept
<1>1. lock # <<>> /\ Head(lock) = o /\ closing' = closing /\ gen \in Streams /\ lock \in Seq(Lockers)
  BY DEF OnLocked, Locked, IndInv, TypeInv
<1>2. CASE ~Open /\ Aborted
  BY <1>1, <1>2, AbortedKeeps
<1>3. CASE Open /\ ops[o].on = gen /\ NextHost
  BY <1>1, <1>3, NextHostKeeps
<1>4. CASE Open /\ ops[o].on # gen /\ UNCHANGED <<gen, links, host, eps>> /\ Finish("try_again")
  <2>1. Steady /\ Open'
    BY <1>1, <1>4, SameStreams DEF Open
  <2>2. Fits(o) /\ o \in In(lock)
    BY <1>1, LeaveLine DEF IndInv, LockInv
  <2>3. ops[o].on < gen'
    BY <1>1, <1>4, <2>2 DEF Fits, Streams
  <2> QED
    BY <1>1, <1>4, <2>1, <2>3, FinishKeeps
<1> QED
  BY <1>2, <1>3, <1>4 DEF OnLocked

\* Brokers are resolved and tried, without success so far.
LEMMA ConnectingKeeps ==
    ASSUME IndInv, Resolved \/ NotResolved \/ OnNextEndpoint \/ OnBackoff \/ NotConnected
    PROVE  Kept
<1>1. /\ lock # <<>> /\ Head(lock) \in Ops /\ ops[Head(lock)].on = gen /\ closing' = closing
      /\ lock \in Seq(Lockers) /\ Distinct(lock)
  BY DEF Resolved, NotResolved, OnNextEndpoint, OnBackoff, NotConnected, IndInv, LockInv,
     Connecting, TypeInv
<1>2. CASE ~Open /\ Aborted
  BY <1>1, <1>2, AbortedKeeps
<1>3. CASE NextHost
  BY <1>1, <1>3, NextHostKeeps
<1>4. CASE UNCHANGED <<gen, links, ops, lock>> /\ stage' # "shut"
  BY <1>1, <1>4, StageKeeps
<1>5. CASE /\ Open /\ stage = "no_host"
           /\ \E r \in Completed(Head(lock), "no_recovery", gen, "closed") :
                 Close(Tail(lock), [ops EXCEPT ![Head(lock)] = r])
           /\ stage' = StageAfter(Tail(lock))
  <2>1. PICK h \in Ops, r \in Completed(Head(lock), "no_recovery", gen, "closed") :
            h = Head(lock) /\ Close(Tail(lock), [ops EXCEPT ![h] = r])
    BY <1>1, <1>5
  <2>2. /\ r \in OpStates /\ r.phase \in {"idle", "done"} /\ r.on = None /\ r.ec # "timeout"
        /\ r.res = "no_recovery"
    BY DEF Completed, OpStates
  <2>3. /\ [ops EXCEPT ![h] = r] \in [Ops -> OpStates] /\ [ops EXCEPT ![h] = r][h] = r
        /\ \A p \in Ops \ {h} : [ops EXCEPT ![h] = r][p] = ops[p]
    BY <2>2 DEF IndInv, TypeInv
  <2>4. /\ Tail(lock) \in Seq(Lockers) /\ Distinct(Tail(lock))
        /\ In(Tail(lock)) = In(lock) \ {h}
    BY <1>1, <2>1, LeaveLine
  <2>5. ops[h].on # None
    BY <1>1, <2>1 DEF IndInv, TypeInv, Streams, None
  <2>6. stage' \in {"none", "posted"}
    BY <1>5 DEF StageAfter
  <2> QED
    BY <1>1, <2>1, <2>2, <2>3, <2>4, <2>5, <2>6, CloseKeeps
<1> QED
  BY <1>2, <1>3, <1>4, <1>5 DEF Resolved, NotResolved, OnNextEndpoint, OnBackoff, NotConnected

\* replace_next_layer
LEMMA ConnectedKeeps ==
    ASSUME IndInv, Connected
    PROVE  Kept
<1>1. /\ Open /\ gen < MaxGen /\ gen' = gen + 1 /\ Finish("try_again") /\ closing' = closing
      /\ links' = [links EXCEPT ![gen] = "closed", ![gen + 1] = "up"]
      /\ lock # <<>> /\ Head(lock) \in Ops /\ ops[Head(lock)].on = gen
      /\ gen \in Streams /\ links \in [Streams -> {"closed", "fresh", "up", "down"}]
  BY DEF Connected, IndInv, TypeInv, LockInv, Connecting
<1>2. gen' \in Streams /\ gen \in Int
  BY <1>1, AutoconnectAssumption DEF Streams
<1>3. Open' /\ links' \in [Streams -> {"closed", "fresh", "up", "down"}]
  BY <1>1, <1>2 DEF Open
<1>4. /\ \A g \in 0..gen : links'[g] = "up" => links[g] = "up"
      /\ \A g \in Streams : g > gen' => links'[g] = "closed"
  <2>1. \A g \in Streams : links'[g] = IF g = gen + 1 THEN "up"
                                       ELSE IF g = gen THEN "closed" ELSE links[g]
    BY <1>1, <1>2
  <2>2. \A g \in 0..gen : g \in Streams /\ g # gen + 1
    BY <1>1, <1>2, AutoconnectAssumption DEF Streams
  <2>3. \A g \in Streams : g > gen' => g > gen /\ g # gen + 1 /\ g # gen
    BY <1>1, <1>2 DEF Streams
  <2> QED
    BY <2>1, <2>2, <2>3 DEF IndInv, LinksInv
<1>5. closing' \in Streams \cup {None} /\ (closing' # None => closing' < gen')
  BY <1>1, <1>2 DEF IndInv, TypeInv, LinksInv, Streams
<1>6. Steady
  BY <1>1, <1>2, <1>3, <1>4, <1>5 DEF Steady, LinksInv
<1>7. ops[Head(lock)].on < gen'
  BY <1>1, <1>2
<1> QED
  BY <1>1, <1>3, <1>6, <1>7, FinishKeeps
-------------------------------------------------------------------------------
\* shutdown_op, cancel and the network.
LEMMA ShutdownKeeps ==
    ASSUME IndInv, Shutdown
    PROVE  Kept
<1>1. /\ Open /\ ops' = ops /\ gen \in Streams /\ gen \in Int
      /\ links \in [Streams -> {"closed", "fresh", "up", "down"}]
  BY DEF Shutdown, IndInv, TypeInv, Streams
<1>2. CASE /\ links[gen] = "up" /\ links' = [links EXCEPT ![gen] = "down"]
           /\ UNCHANGED <<gen, lock, stage, closing>>
  <2>1. Steady
    BY <1>1, <1>2 DEF Steady, IndInv, TypeInv, LinksInv, Open
  <2>2. \A o \in Ops : Fits(o)'
    BY <1>1, <1>2, <2>1, StillFits
  <2>3. TypeInv' /\ LockInv'
    BY <1>1, <1>2, <2>1 DEF IndInv, TypeInv, LockInv, Distinct, Steady
  <2> QED
    BY <1>1, <2>1, <2>2, <2>3 DEF Kept, IndInv, Steady, Served
<1>3. CASE /\ lock = <<>> /\ gen + 1 < MaxGen /\ gen' = gen + 1
           /\ links' = [links EXCEPT ![gen + 1] = "fresh"] /\ closing' = gen
           /\ lock' = <<"shutdown">> /\ stage' = "posted"
  <2>1. gen' \in Streams
    BY <1>1, <1>3, AutoconnectAssumption DEF Streams
  <2>2. \A g \in Streams : links'[g] = IF g = gen + 1 THEN "fresh" ELSE links[g]
    BY <1>1, <1>3
  <2>3. \A g \in 0..gen : g \in Streams /\ g # gen + 1
    BY <1>1, AutoconnectAssumption DEF Streams
  <2>4. \A g \in Streams : g > gen' => g > gen /\ g # gen + 1
    BY <1>1, <1>3 DEF Streams
  <2>5. LinksInv'
    BY <1>1, <1>3, <2>2, <2>4 DEF IndInv, LinksInv
  <2>6. Steady
    BY <1>1, <1>3, <2>1, <2>2, <2>3, <2>5 DEF Steady
  <2>7. lock' \in Seq(Lockers) /\ Distinct(lock') /\ In(lock') = {"shutdown"}
    BY <1>3 DEF Lockers, Distinct, In
  <2>8. \A o \in Ops : Fits(o)'
    BY <1>1, <2>6, <2>7, StillFits DEF Ops
  <2>9. TypeInv' /\ LockInv'
    BY <1>1, <1>3, <2>6, <2>7 DEF IndInv, TypeInv, LockInv, Distinct, Steady, Connecting
  <2> QED
    BY <1>1, <2>6, <2>8, <2>9 DEF Kept, IndInv, Steady, Served
<1> QED
  BY <1>2, <1>3 DEF Shutdown

LEMMA OnShutdownKeeps ==
    ASSUME IndInv, OnShutdown
    PROVE  Kept
<1>1. /\ gen' = gen /\ ops' = ops /\ lock' = Tail(lock) /\ closing' = None
      /\ stage' \in {"none", "posted"} /\ links' = [links EXCEPT ![closing] = "closed"]
      /\ lock # <<>> /\ lock \in Seq(Lockers) /\ Distinct(lock)
  BY DEF OnShutdown, StageAfter, Locked, IndInv, LockInv, TypeInv
<1>2. /\ lock' \in Seq(Lockers) /\ Distinct(lock') /\ In(lock') \subseteq In(lock)
  BY <1>1, LeaveLine
<1>3. closing # gen
  BY DEF IndInv, TypeInv, LinksInv, Streams, None
<1>4. Steady
  <2>1. gen \in Streams /\ \A g \in 0..gen : g \in Streams
    BY AutoconnectAssumption DEF IndInv, TypeInv, Streams
  <2>2. \A g \in Streams : links'[g] = IF g = closing THEN "closed" ELSE links[g]
    BY <1>1 DEF IndInv, TypeInv
  <2>3. links' \in [Streams -> {"closed", "fresh", "up", "down"}]
    BY <1>1 DEF IndInv, TypeInv
  <2>4. LinksInv'
    BY <1>1, <2>2 DEF IndInv, LinksInv
  <2> QED
    BY <1>1, <1>3, <2>1, <2>2, <2>3, <2>4 DEF Steady, Open
<1>5. \A o \in Ops : Fits(o)'
  BY <1>1, <1>2, <1>4, StillFits
<1>6. TypeInv' /\ LockInv'
  BY <1>1, <1>2, <1>4 DEF IndInv, TypeInv, LockInv, Distinct, Steady, Connecting
<1> QED
  BY <1>1, <1>4, <1>5, <1>6 DEF Kept, IndInv, Steady, Served

LEMMA OthersKeep ==
    ASSUME IndInv, OnShutdownLocked \/ Cancel \/ \E g \in Streams : Break(g)
    PROVE  Kept
<1>1. CASE OnShutdownLocked
  BY <1>1, StageKeeps DEF OnShutdownLocked, Locked, Connecting
<1>2. CASE Cancel
  <2>1. Close(lock, ops) /\ closing' = closing /\ stage' = stage
    BY <1>2 DEF Cancel
  <2> QED
    BY <2>1, CloseKeeps DEF IndInv, TypeInv, LockInv
<1>3. ASSUME NEW g \in Streams, Break(g) PROVE Kept
  <2>1. /\ links[g] = "up" /\ links' = [links EXCEPT ![g] = "down"]
        /\ UNCHANGED <<gen, ops, lock, stage, closing>>
    BY <1>3 DEF Break
  <2>2. Steady
    <3>1. links' \in [Streams -> {"closed", "fresh", "up", "down"}]
      BY <2>1 DEF IndInv, TypeInv
    <3>2. \A k \in Streams : links'[k] # links[k] => links[k] = "up" /\ links'[k] = "down"
      BY <2>1 DEF IndInv, TypeInv
    <3>3. LinksInv'
      BY <2>1, <3>2 DEF IndInv, LinksInv
    <3>4. gen \in Streams /\ \A k \in 0..gen : k \in Streams
      BY AutoconnectAssumption DEF IndInv, TypeInv, Streams
    <3>5. Open' => Open
      BY <2>1, <3>2, <3>4 DEF Open
    <3> QED
      BY <2>1, <3>1, <3>2, <3>3, <3>4, <3>5 DEF Steady, IndInv, TypeInv
  <2>3. \A o \in Ops : Fits(o)'
    BY <2>1, <2>2, StillFits
  <2>4. TypeInv' /\ LockInv'
    BY <2>1, <2>2 DEF IndInv, TypeInv, LockInv, Distinct, Steady
  <2> QED
    BY <2>1, <2>2, <2>3, <2>4 DEF Kept, IndInv, Steady, Served
<1> QED
  BY <1>1, <1>2, <1>3
-------------------------------------------------------------------------------
LEMMA InitIndInv == Init => IndInv
<1> SUFFICES ASSUME Init PROVE IndInv
  OBVIOUS
<1>1. 0 \in Streams /\ links \in [Streams -> {"closed", "fresh", "up", "down"}]
  BY AutoconnectAssumption DEF Init, Streams
<1>2. ops["read"] = [phase |-> "ready", on |-> 0, ec |-> "fail", res |-> "none"]
  BY DEF Init, Begun, WasConnected, Ops
<1>3. ops["write"] = [phase |-> "idle", on |-> None, ec |-> "none", res |-> "none"]
  BY DEF Init, Ops
<1>4. ops["read"] \in OpStates /\ ops["write"] \in OpStates
  BY <1>1, <1>2, <1>3 DEF OpStates
<1>5. ops \in [Ops -> OpStates]
  BY <1>4 DEF Init, Ops
<1>6. TypeInv /\ LinksInv
  BY <1>1, <1>5 DEF Init, TypeInv, LinksInv, Streams
<1>7. LockInv
  BY DEF Init, LockInv, Distinct, Connecting
<1>8. links[0] = "fresh" /\ gen = 0 /\ 0 \in 0..gen /\ In(lock) = {}
  BY <1>1 DEF Init, Streams, In
<1>9. \A o \in Ops : Fits(o)
  BY <1>2, <1>3, <1>8 DEF Fits, Ops
<1> QED
  BY <1>6, <1>7, <1>9 DEF IndInv

LEMMA NextKeeps == IndInv /\ [Next]_vars => Kept
<1> SUFFICES ASSUME IndInv, [Next]_vars PROVE Kept
  OBVIOUS
<1>1. CASE UNCHANGED vars
  BY <1>1, StageKeeps DEF vars, IndInv, LockInv
<1> QED
  BY <1>1, StartWriteKeeps, TransferKeeps, OnTransferKeeps, OnAbortedKeeps, OnLockedKeeps,
     ConnectingKeeps, ConnectedKeeps, ShutdownKeeps, OnShutdownKeeps, OthersKeep
     DEF Next, Streams

LEMMA Inductive == Spec => []IndInv
<1>1. IndInv /\ [Next]_vars => IndInv'
  BY NextKeeps DEF Kept
<1> QED
  BY <1>1, InitIndInv, PTL DEF Spec

(* For any number of streams: reconnect_op replaces a connection that is up only if
   the read on this very connection timed out; one who failed on an older stream
   finds it replaced.  shutdown_op is the other one who replaces it. *)
THEOREM GoodConnectionKept == Spec => KeepsGoodConnection
<1>1. ASSUME IndInv, [Next]_vars, gen' # gen, links[gen] = "up"
      PROVE  \/ lock' = <<"shutdown">>
             \/ Head(lock) = "read" /\ ops["read"].ec = "timeout"
  <2>1. CASE Shutdown
    BY <1>1, <2>1 DEF Shutdown
  <2>2. CASE Connected
    <3>1. lock # <<>> /\ Head(lock) \in Ops /\ ops[Head(lock)].on = gen
      BY <1>1, <2>2 DEF Connected, IndInv, LockInv, Connecting
    <3>2. Head(lock) \in In(lock)
      BY <1>1, <3>1, LeaveLine DEF IndInv, TypeInv, LockInv
    <3> QED
      BY <1>1, <3>1, <3>2 DEF IndInv, Fits
  <2>3. Shutdown \/ Connected
    BY <1>1 DEF Next, vars, StartWrite, Transfer, OnTransfer, OnLocked, OnAborted, Resolved,
       NotResolved, OnNextEndpoint, OnBackoff, NotConnected, OnShutdownLocked, OnShutdown, Cancel,
       Break, Aborted, NextHost, Close
  <2> QED
    BY <2>1, <2>2, <2>3
<1>2. IndInv /\ [Next]_vars =>
         [gen' # gen /\ links[gen] = "up"
          => \/ lock' = <<"shutdown">>
             \/ Head(lock) = "read" /\ ops["read"].ec = "timeout"]_vars
  BY <1>1
<1> QED
  BY <1>2, Inductive, PTL DEF Spec, KeepsGoodConnection

(* For any number of streams, brokers and addresses, autoconnect_stream does what
   StreamService says of it: try_again only for a stream that was replaced,
   operation_aborted and no_recovery only when the client is closed for good. *)
THEOREM StreamImplementsService == Spec => ImplementsStreamService
<1>1. Init => Service!Init
  <2> SUFFICES ASSUME Init PROVE Service!Init
    OBVIOUS
  <2>1. IndInv
    BY InitIndInv
  <2>2. \A o \in Ops : ops[o].on \in {None, 0} /\ ops[o].res = "none"
    BY DEF Init, Begun, WasConnected, Ops
  <2>3. gen = 0 /\ Open
    BY AutoconnectAssumption DEF Init, Open
  <2> QED
    BY <2>2, <2>3 DEF Service!Init
<1>2. IndInv /\ [Next]_vars => [Service!Next]_(Service!vars)
  <2> SUFFICES ASSUME IndInv, [Next]_vars PROVE Service!Next
    OBVIOUS
  <2>1. Steady /\ \A o \in Ops : Served(o)
    BY NextKeeps DEF Kept
  <2>2. \A o \in Ops : Service!Stays(o) \/ Service!Starts(o) \/ Service!Ends(o)
    BY <2>1 DEF Served, Service!Stays, Service!Starts, Service!Ends, Service!Justified
  <2> QED
    BY <2>1, <2>2 DEF Service!Next, Steady, Open
<1> QED
  BY <1>1, <1>2, Inductive, PTL DEF Spec, ImplementsStreamService, Service!Spec
================================================================================
