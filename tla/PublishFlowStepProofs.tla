------------------------ MODULE PublishFlowStepProofs -------------------------
(*****************************************************************************)
(* What the steps of PublishFlow do, for any number of messages,             *)
(* identifiers and connections: first the operators of the write queue       *)
(* (Chosen, Batch, Rest, Cost) and DoWrite, then each handler, and last      *)
(* that every step keeps Basic.                                              *)
(*                                                                           *)
(* Most leaves are first-order and go to Zenon, which the USE below makes    *)
(* the prover to try; a leaf about numbers or sequences cites SMT.           *)
(*****************************************************************************)
EXTENDS PublishFlowInvariants, TLAPS
-------------------------------------------------------------------------------
USE Zenon

\* do_write moves a terminal request alone; otherwise it leaves only throttled
\* requests behind, and none of them came before one that it moved.
LEMMA ChosenFacts ==
    ASSUME Laws, NEW q \in Seq(ReqSet), NEW lim, NEW k \in Int
    PROVE  /\ Chosen(q, lim, k) \in SUBSET DOMAIN q
           /\ \/ \E i \in DOMAIN q : q[i].terminal /\ Chosen(q, lim, k) = {i}
              \/ /\ \A i \in DOMAIN q : ~q[i].terminal
                 /\ \A i \in DOMAIN q \ Chosen(q, lim, k) :
                       /\ q[i].throttled
                       /\ \A j \in Chosen(q, lim, k) : q[j].throttled => j < i
<1> DEFINE T == {i \in DOMAIN q : q[i].terminal}
           Charges(n) == {j \in 1..n : q[j].throttled}
<1>1. DOMAIN q = 1..Len(q) /\ Len(q) \in Nat
  BY SMT
<1>2. CASE T # {}
  <2>1. T \in SUBSET Nat
    BY <1>1, SMT
  <2>2. \E i \in T : \A j \in T : i <= j
    BY <1>2, <2>1 DEF Laws, LeastLaw
  <2>3. PICK i \in T : Chosen(q, lim, k) = {i}
    BY <1>2, <2>2 DEF Chosen
  <2> QED
    BY <2>3
<1>3. CASE T = {} /\ lim = MAX_LIMIT
  BY <1>3 DEF Chosen
<1>4. CASE T = {} /\ lim # MAX_LIMIT
  <2> DEFINE C == {i \in DOMAIN q : ~q[i].throttled \/ Cardinality(Charges(i)) <= k}
  <2>1. Chosen(q, lim, k) = C
    BY <1>4 DEF Chosen
  <2>2. ASSUME NEW i \in DOMAIN q \ C, NEW j \in C, q[j].throttled
        PROVE  j < i
    <3>1. Cardinality(Charges(j)) <= k /\ ~(Cardinality(Charges(i)) <= k)
      BY <2>2
    <3>2. ASSUME i <= j PROVE FALSE
      <4>1. IsFiniteSet(1..j)
        BY <1>1, SMT DEF Laws, IntervalLaw
      <4>2. Charges(j) \in SUBSET (1..j) /\ Charges(i) \in SUBSET Charges(j)
        BY <1>1, <3>2, SMT
      <4>3. IsFiniteSet(Charges(j))
        BY <4>1, <4>2 DEF Laws, SubsetLaw
      <4>4. /\ Cardinality(Charges(i)) <= Cardinality(Charges(j))
            /\ IsFiniteSet(Charges(i))
        BY <4>2, <4>3 DEF Laws, SubsetLaw
      <4>5. Cardinality(Charges(i)) \in Nat /\ Cardinality(Charges(j)) \in Nat
        BY <4>3, <4>4 DEF Laws, SubsetLaw
      <4> HIDE DEF Charges
      <4> QED
        BY <3>1, <4>4, <4>5, SMT
    <3> QED
      BY <1>1, <3>2, SMT
  <2> QED
    BY <1>4, <2>1, <2>2
<1> QED
  BY <1>2, <1>3, <1>4

\* The batch that do_write picks and what it leaves are a split of the queue.
LEMMA SplitFacts ==
    ASSUME Laws, NEW q \in Seq(ReqSet), NEW lim, NEW k \in Int
    PROVE  /\ Batch(q, lim, k) \in Seq(ReqSet) /\ Rest(q, lim, k) \in Seq(ReqSet)
           /\ Chosen(q, lim, k) # {} => Batch(q, lim, k) # <<>>
           /\ \E h, g : Split(q, Batch(q, lim, k), Rest(q, lim, k), h, g)
<1> DEFINE C == Chosen(q, lim, k)
           b == Batch(q, lim, k)
           r == Rest(q, lim, k)
<1>1. b = At(q, C) /\ r = At(q, DOMAIN q \ C)
  BY DEF Batch, Rest
<1>2. /\ C \in SUBSET DOMAIN q
      /\ \/ \E i \in DOMAIN q : q[i].terminal /\ C = {i}
         \/ /\ \A i \in DOMAIN q : ~q[i].terminal
            /\ \A i \in DOMAIN q \ C :
                  q[i].throttled /\ \A j \in C : q[j].throttled => j < i
  BY ChosenFacts
<1> HIDE DEF C
<1>3. /\ b \in Seq(ReqSet) /\ Cardinality(C) \in Nat /\ Len(b) = Cardinality(C)
      /\ \E h : /\ Picks(b, q, h)
                /\ \A l \in C : \E i \in 1..Len(b) : h[i] = l
                /\ \A i \in 1..Len(b) : h[i] \in C
  BY <1>1, <1>2, SMT DEF Laws, AtLaw
<1>4. /\ r \in Seq(ReqSet)
      /\ \E g : /\ Picks(r, q, g)
                /\ \A l \in DOMAIN q \ C : \E i \in 1..Len(r) : g[i] = l
                /\ \A i \in 1..Len(r) : g[i] \in DOMAIN q \ C
  <2> DEFINE D == DOMAIN q \ C
  <2>1. D \in SUBSET DOMAIN q /\ r = At(q, D)
    BY <1>1
  <2> HIDE DEF D, r
  <2>2. /\ r \in Seq(ReqSet)
        /\ \E g : /\ Picks(r, q, g)
                  /\ \A l \in D : \E i \in 1..Len(r) : g[i] = l
                  /\ \A i \in 1..Len(r) : g[i] \in D
    BY <2>1 DEF Laws, AtLaw
  <2> QED
    BY <2>2 DEF D
<1> HIDE DEF b, r
<1>5. PICK h : /\ Picks(b, q, h)
               /\ \A l \in C : \E i \in 1..Len(b) : h[i] = l
               /\ \A i \in 1..Len(b) : h[i] \in C
  BY <1>3
<1>6. PICK g : /\ Picks(r, q, g)
               /\ \A l \in DOMAIN q \ C : \E i \in 1..Len(r) : g[i] = l
               /\ \A i \in 1..Len(r) : g[i] \in DOMAIN q \ C
  BY <1>4
<1>7. C # {} => b # <<>>
  BY <1>5, SMT
<1>8. (\A i \in 1..Len(b) : b[i] = q[h[i]]) /\ (\A i \in 1..Len(r) : r[i] = q[g[i]])
  BY <1>5, <1>6 DEF Picks
<1>9. CASE \E i \in DOMAIN q : q[i].terminal /\ C = {i}
  <2>1. PICK i \in DOMAIN q : q[i].terminal /\ C = {i}
    BY <1>9
  <2>2. Cardinality(C) = 1
    BY <2>1 DEF Laws, SmallLaw
  <2>3. Len(b) = 1 /\ b[1].terminal
    BY <2>1, <2>2, <1>3, <1>5, <1>8, SMT
  <2>4. Split(q, b, r, h, g)
    BY <1>2, <1>5, <1>6, <2>3 DEF Split
  <2> QED
    BY <1>3, <1>4, <1>7, <2>4 DEF b, r, C
<1>10. CASE /\ \A i \in DOMAIN q : ~q[i].terminal
            /\ \A i \in DOMAIN q \ C :
                  q[i].throttled /\ \A j \in C : q[j].throttled => j < i
  <2>1. \A i \in 1..Len(b) : ~b[i].terminal
    BY <1>2, <1>5, <1>8, <1>10
  <2>2. \A j \in 1..Len(r) :
            /\ ~r[j].terminal /\ r[j].throttled
            /\ \A i \in 1..Len(b) : b[i].throttled => h[i] < g[j]
    BY <1>2, <1>5, <1>6, <1>8, <1>10
  <2>3. Split(q, b, r, h, g)
    BY <1>2, <1>5, <1>6, <2>1, <2>2 DEF Split
  <2> QED
    BY <1>3, <1>4, <1>7, <2>3 DEF b, r, C
<1> QED
  BY <1>2, <1>9, <1>10

\* do_write either starts a write with a split of the queue, or leaves
\* everything as it was handed to it.
LEMMA DoWriteFacts ==
    ASSUME Laws, NEW called \in BOOLEAN, NEW b \in Seq(ReqSet), NEW q \in Seq(ReqSet),
           NEW k \in Int, NEW f,
           DoWrite(called, b, q, k, f)
    PROVE  (called /\ Starts(b, q, k)) \/ Leaves(called, b, q, k, f)
<1> DEFINE start == called /\ b = <<>> /\ Chosen(q, limit', k) # {}
<1>1. CASE start
  <2>1. /\ batch' = Batch(q, limit', k) /\ queue' = Rest(q, limit', k)
        /\ quota' = k - Cost(q, limit', k) /\ fast' = <<>> /\ sent' = 0 /\ wgen' = gen'
    BY <1>1 DEF DoWrite
  <2>2. /\ Batch(q, limit', k) \in Seq(ReqSet) /\ Rest(q, limit', k) \in Seq(ReqSet)
        /\ Batch(q, limit', k) # <<>>
        /\ \E h, g : Split(q, Batch(q, limit', k), Rest(q, limit', k), h, g)
    BY <1>1, SplitFacts
  <2> QED
    BY <1>1, <2>1, <2>2 DEF Starts
<1>2. CASE ~start
  BY <1>2 DEF DoWrite, Leaves
<1> QED
  BY <1>1, <1>2

\* do_write keeps the requests of a queue apart: each goes on in the write or in
\* what is left of the queue.
LEMMA RequestsSplit ==
    ASSUME NEW o, NEW q \in Seq(ReqSet), NEW b \in Seq(ReqSet), NEW r \in Seq(ReqSet),
           NEW h, NEW g, Split(q, b, r, h, g), Requests(o, q, <<>>)
    PROVE  Requests(o, r, b)
<1>1. /\ \A i \in 1..Len(b) : h[i] \in DOMAIN q /\ b[i] = q[h[i]]
      /\ \A i \in 1..Len(r) : g[i] \in DOMAIN q /\ r[i] = q[g[i]]
      /\ \A i, j \in 1..Len(b) : i < j => h[i] < h[j]
      /\ \A i, j \in 1..Len(r) : i < j => g[i] < g[j]
  BY DEF Split, Picks
<1>2. /\ \A i, j \in 1..Len(b) : h[i] = h[j] => i = j
      /\ \A i, j \in 1..Len(r) : g[i] = g[j] => i = j
  <2>1. ASSUME NEW i \in 1..Len(b), NEW j \in 1..Len(b), h[i] = h[j], i # j
        PROVE  FALSE
    <3>1. h[i] \in Nat /\ (i < j \/ j < i)
      BY <1>1, <2>1, SMT
    <3> QED
      BY <1>1, <2>1, <3>1, SMT
  <2>2. ASSUME NEW i \in 1..Len(r), NEW j \in 1..Len(r), g[i] = g[j], i # j
        PROVE  FALSE
    <3>1. g[i] \in Nat /\ (i < j \/ j < i)
      BY <1>1, <2>2, SMT
    <3> QED
      BY <1>1, <2>2, <3>1, SMT
  <2> QED
    BY <2>1, <2>2
<1>3. /\ \A i \in 1..Len(b), j \in 1..Len(r) : h[i] # g[j]
      /\ \A k \in DOMAIN q : \/ \E i \in 1..Len(b) : h[i] = k
                             \/ \E i \in 1..Len(r) : g[i] = k
  BY DEF Split
<1>4. DOMAIN q = 1..Len(q) /\ DOMAIN b = 1..Len(b) /\ DOMAIN r = 1..Len(r)
  BY SMT
<1>5. /\ \A i \in DOMAIN q : ReqOK(q[i], o)
      /\ \A i, j \in DOMAIN q : q[i].op = q[j].op /\ q[i].op # Disc => i = j
      /\ \A m \in Msgs : o[m].phase = "sending" => \E i \in DOMAIN q : q[i].op = m
  BY SMT DEF Requests
<1>6. /\ \A i \in DOMAIN r : ReqOK(r[i], o)
      /\ \A i \in DOMAIN b : ReqOK(b[i], o)
  BY <1>1, <1>4, <1>5
<1>7. /\ \A i, j \in DOMAIN r : r[i].op = r[j].op /\ r[i].op # Disc => i = j
      /\ \A i, j \in DOMAIN b : b[i].op = b[j].op /\ b[i].op # Disc => i = j
  <2>1. ASSUME NEW i \in DOMAIN r, NEW j \in DOMAIN r, r[i].op = r[j].op, r[i].op # Disc
        PROVE  i = j
    <3>1. g[i] = g[j]
      BY <1>1, <1>4, <1>5, <2>1, SMT
    <3> QED
      BY <1>2, <1>4, <3>1
  <2>2. ASSUME NEW i \in DOMAIN b, NEW j \in DOMAIN b, b[i].op = b[j].op, b[i].op # Disc
        PROVE  i = j
    <3>1. h[i] = h[j]
      BY <1>1, <1>4, <1>5, <2>2, SMT
    <3> QED
      BY <1>2, <1>4, <3>1
  <2> QED
    BY <2>1, <2>2
<1>8. \A i \in DOMAIN r, j \in DOMAIN b : r[i].op = b[j].op => r[i].op = Disc
  BY <1>1, <1>3, <1>4, <1>5, SMT
<1>9. ASSUME NEW m \in Msgs, o[m].phase = "sending"
      PROVE  (\E i \in DOMAIN r : r[i].op = m) \/ (\E i \in DOMAIN b : b[i].op = m)
  <2>1. PICK k \in DOMAIN q : q[k].op = m
    BY <1>5, <1>9
  <2>2. CASE \E i \in 1..Len(b) : h[i] = k
    BY <1>1, <1>4, <2>1, <2>2
  <2>3. CASE \E i \in 1..Len(r) : g[i] = k
    BY <1>1, <1>4, <2>1, <2>3
  <2> QED
    BY <1>3, <2>2, <2>3
<1> QED
  BY <1>6, <1>7, <1>8, <1>9 DEF Requests

\* What a call of do_write may choose costs a whole number.
LEMMA CostType ==
    ASSUME Laws, NEW q \in Seq(ReqSet), NEW lim, NEW k \in Int
    PROVE  Cost(q, lim, k) \in Nat
<1> DEFINE C == Chosen(q, lim, k)
           T == {i \in C : q[i].throttled}
<1>1. C \in SUBSET DOMAIN q
  BY ChosenFacts
<1>2. IsFiniteSet(DOMAIN q)
  <2>1. DOMAIN q = 1..Len(q) /\ Len(q) \in Nat
    BY SMT
  <2> QED
    BY <2>1 DEF Laws, IntervalLaw
<1>3. T \in SUBSET DOMAIN q
  BY <1>1
<1>4. Cardinality(T) \in Nat
  BY <1>2, <1>3 DEF Laws, SubsetLaw
<1> QED
  BY <1>4 DEF Cost

\* do_write leaves a queue and a write in which every request is still once.
LEMMA DoWriteKeeps ==
    ASSUME Laws, NEW called \in BOOLEAN, NEW b \in Seq(ReqSet), NEW q \in Seq(ReqSet),
           NEW k \in Int, NEW f \in Seq(ReplySet), NEW o, Requests(o, q, b),
           gen' \in Nat, b # <<>> => sent \in 0..Len(b) /\ wgen \in 0..gen',
           DoWrite(called, b, q, k, f)
    PROVE  /\ queue' \in Seq(ReqSet) /\ batch' \in Seq(ReqSet)
           /\ sent' \in 0..Len(batch') /\ wgen' \in 0..gen'
           /\ quota' \in Int /\ fast' \in Seq(ReplySet)
           /\ Requests(o, queue', batch')
<1>1. CASE called /\ Starts(b, q, k)
  <2>1. PICK h, g : Split(q, batch', queue', h, g)
    BY <1>1 DEF Starts
  <2>2. queue' \in Seq(ReqSet) /\ batch' \in Seq(ReqSet)
    BY <1>1 DEF Starts
  <2>3. Requests(o, q, <<>>)
    BY <1>1 DEF Starts
  <2>4. Requests(o, queue', batch')
    BY <2>1, <2>2, <2>3, RequestsSplit
  <2>5. quota' \in Int
    BY <1>1, CostType, SMT DEF Starts
  <2> QED
    BY <1>1, <2>2, <2>4, <2>5, SMT DEF Starts
<1>2. CASE Leaves(called, b, q, k, f)
  <2>1. sent' \in 0..Len(batch')
    BY <1>2, SMT DEF Leaves
  <2> QED
    BY <1>2, <2>1, SMT DEF Leaves
<1> QED
  BY <1>1, <1>2, DoWriteFacts

\* An operation that was not sending queues a request.
LEMMA RequestsAppend ==
    ASSUME NEW o, NEW p, NEW q \in Seq(ReqSet), NEW b \in Seq(ReqSet), Requests(o, q, b),
           NEW m \in Msgs, o[m].phase # "sending", NEW r \in ReqSet, r.op = m,
           \A n \in Msgs \ {m} : p[n] = o[n],
           ReqOK(r, p)
    PROVE  Append(q, r) \in Seq(ReqSet) /\ Requests(p, Append(q, r), b)
<1> DEFINE a == Append(q, r)
<1>1. /\ a \in Seq(ReqSet) /\ Len(a) = Len(q) + 1 /\ a[Len(q) + 1] = r
      /\ \A i \in 1..Len(q) : a[i] = q[i]
  BY SMT
<1>2. DOMAIN q = 1..Len(q) /\ DOMAIN a = 1..(Len(q) + 1) /\ Len(q) \in Nat
  BY <1>1, SMT
<1> HIDE DEF a
<1>3. m # Disc
  BY SMT DEF Msgs, Disc
<1>4. /\ \A i \in DOMAIN q : q[i].op # m /\ ReqOK(q[i], p)
      /\ \A i \in DOMAIN b : b[i].op # m /\ ReqOK(b[i], p)
  <2>1. ASSUME NEW s, ReqOK(s, o) PROVE s.op # m /\ ReqOK(s, p)
    BY <2>1, <1>3, SMT DEF ReqOK, DisconnectReq
  <2> QED
    BY <2>1 DEF Requests
<1>5. \A i \in DOMAIN a : ReqOK(a[i], p)
  BY <1>1, <1>2, <1>4, SMT
<1>6. \A i, j \in DOMAIN a : a[i].op = a[j].op /\ a[i].op # Disc => i = j
  BY <1>1, <1>2, <1>4, SMT DEF Requests
<1>7. \A i \in DOMAIN a, j \in DOMAIN b : a[i].op = b[j].op => a[i].op = Disc
  BY <1>1, <1>2, <1>4, SMT DEF Requests
<1>8. ASSUME NEW n \in Msgs, p[n].phase = "sending"
      PROVE  (\E i \in DOMAIN a : a[i].op = n) \/ (\E i \in DOMAIN b : b[i].op = n)
  <2>1. CASE n = m
    BY <1>1, <1>2, <2>1, SMT
  <2>2. CASE n # m
    <3>1. (\E i \in DOMAIN q : q[i].op = n) \/ (\E i \in DOMAIN b : b[i].op = n)
      BY <1>8, <2>2 DEF Requests
    <3>2. \A i \in DOMAIN q : i \in DOMAIN a /\ a[i] = q[i]
      BY <1>1, <1>2, SMT
    <3> QED
      BY <3>1, <3>2
  <2> QED
    BY <2>1, <2>2
<1>9. /\ \A i \in DOMAIN b : ReqOK(b[i], p)
      /\ \A i, j \in DOMAIN b : b[i].op = b[j].op /\ b[i].op # Disc => i = j
  BY <1>4 DEF Requests
<1> QED
  BY <1>1, <1>5, <1>6, <1>7, <1>8, <1>9 DEF Requests, a

\* A request to disconnect may join the queue at any time.
LEMMA RequestsDisconnect ==
    ASSUME NEW o, NEW q \in Seq(ReqSet), NEW b, Requests(o, q, b)
    PROVE  /\ Append(q, DisconnectReq) \in Seq(ReqSet)
           /\ Requests(o, Append(q, DisconnectReq), b)
<1> DEFINE a == Append(q, DisconnectReq)
<1>1. DisconnectReq \in ReqSet /\ DisconnectReq.op = Disc
  BY SerialModAssumption, PublishFlowAssumption, SMT DEF DisconnectReq, ReqSet, Disc
<1>2. /\ a \in Seq(ReqSet) /\ Len(a) = Len(q) + 1 /\ a[Len(q) + 1] = DisconnectReq
      /\ \A i \in 1..Len(q) : a[i] = q[i]
  BY <1>1, SMT
<1>3. DOMAIN q = 1..Len(q) /\ DOMAIN a = 1..(Len(q) + 1) /\ Len(q) \in Nat
  BY <1>2, SMT
<1> HIDE DEF a
<1>4. \A i \in DOMAIN a : ReqOK(a[i], o)
  BY <1>2, <1>3, SMT DEF Requests, ReqOK
<1>5. \A i, j \in DOMAIN a : a[i].op = a[j].op /\ a[i].op # Disc => i = j
  BY <1>1, <1>2, <1>3, SMT DEF Requests
<1>6. \A i \in DOMAIN a, j \in DOMAIN b : a[i].op = b[j].op => a[i].op = Disc
  BY <1>1, <1>2, <1>3, SMT DEF Requests
<1>7. \A i \in DOMAIN q : i \in DOMAIN a /\ a[i] = q[i]
  BY <1>2, <1>3, SMT
<1>8. \A m \in Msgs : o[m].phase = "sending" =>
            (\E i \in DOMAIN a : a[i].op = m) \/ (\E i \in DOMAIN b : b[i].op = m)
  BY <1>7 DEF Requests
<1>9. /\ \A i \in DOMAIN b : ReqOK(b[i], o)
      /\ \A i, j \in DOMAIN b : b[i].op = b[j].op /\ b[i].op # Disc => i = j
  BY DEF Requests
<1> QED
  BY <1>2, <1>4, <1>5, <1>6, <1>8, <1>9 DEF Requests, a

\* What an operation does while it is not sending leaves the requests alone.
LEMMA RequestsOps ==
    ASSUME NEW o, NEW p, NEW q, NEW b, Requests(o, q, b),
           \A n \in Msgs :
              /\ p[n].phase = "sending" <=> o[n].phase = "sending"
              /\ o[n].phase = "sending" =>
                    /\ p[n].serial = o[n].serial /\ p[n].stage = o[n].stage
                    /\ p[n].qos = o[n].qos
    PROVE  Requests(p, q, b)
<1>1. ASSUME NEW s, ReqOK(s, o) PROVE ReqOK(s, p)
  BY <1>1 DEF ReqOK
<1> QED
  BY <1>1 DEF Requests

\* A write of which every request is completed is over.
LEMMA RequestsWritten ==
    ASSUME NEW o, NEW p, NEW q, NEW b, Requests(o, q, b),
           \A n \in Msgs : IF n \in OpsOf(b) THEN p[n].phase # "sending"
                                             ELSE p[n] = o[n]
    PROVE  Requests(p, q, <<>>)
<1>1. \A i \in DOMAIN q : q[i].op \notin OpsOf(b)
  BY DEF Requests, OpsOf
<1>2. ASSUME NEW s, ReqOK(s, o), s.op \notin OpsOf(b) PROVE ReqOK(s, p)
  BY <1>2 DEF ReqOK
<1>3. \A i \in DOMAIN q : ReqOK(q[i], p)
  BY <1>1, <1>2 DEF Requests
<1>4. ASSUME NEW m \in Msgs, p[m].phase = "sending"
      PROVE  \E i \in DOMAIN q : q[i].op = m
  <2>1. m \notin OpsOf(b) /\ o[m].phase = "sending"
    BY <1>4
  <2>2. m # Disc
    BY SMT DEF Msgs, Disc
  <2> QED
    BY <2>1, <2>2, SMT DEF Requests, OpsOf
<1> QED
  BY <1>3, <1>4, SMT DEF Requests

\* operator< of requests that no more than half of the serial numbers separate
\* is the order in which their operations were initiated.
LEMMA BeforeFacts ==
    ASSUME NEW r \in ReqSet, NEW s \in ReqSet, r.prioritized = s.prioritized,
           Dist(r.serial) \in 1..N, Dist(s.serial) \in 1..N
    PROVE  Before(r, s) <=> Dist(r.serial) < Dist(s.serial)
<1> DEFINE H == SerialMod \div 2
<1>1. H \in Nat /\ SerialMod = 2 * H /\ N <= H
  BY SerialModAssumption, SerialWindowAssumption, SMT
<1>2. FirstSerial \in 0..(2 * H - 1) /\ N \in Nat
  BY <1>1, PublishFlowAssumption
<1>3. r.serial \in 0..(2 * H - 1) /\ s.serial \in 0..(2 * H - 1)
  BY <1>1 DEF ReqSet
<1>4. Before(r, s) <=> IF r.serial < s.serial THEN s.serial - r.serial < H
                                              ELSE r.serial - s.serial >= H
  BY DEF Before
<1> HIDE DEF H
<1>5. /\ Dist(r.serial) = (IF r.serial >= FirstSerial THEN r.serial - FirstSerial
                           ELSE r.serial + 2 * H - FirstSerial)
      /\ Dist(s.serial) = (IF s.serial >= FirstSerial THEN s.serial - FirstSerial
                           ELSE s.serial + 2 * H - FirstSerial)
  BY <1>1 DEF Dist
<1> QED
  BY <1>1, <1>2, <1>3, <1>4, <1>5, SMT

\* The serial number of the next operation is one further from the first.
LEMMA NextSerialFacts ==
    ASSUME NEW s \in 0..(SerialMod - 1), Dist(s) < N
    PROVE  /\ NextSerial(s) \in 0..(SerialMod - 1)
           /\ Dist(s) \in Nat /\ Dist(NextSerial(s)) = Dist(s) + 1
<1> DEFINE H == SerialMod \div 2
<1>1. H \in Nat /\ SerialMod = 2 * H /\ N <= H /\ N \in Nat /\ H >= 1
  BY SerialModAssumption, SerialWindowAssumption, PublishFlowAssumption, SMT
<1>2. NextSerial(s) = (s + 1) % SerialMod
  BY DEF NextSerial
<1>3. NextSerial(s) = IF s + 1 = SerialMod THEN 0 ELSE s + 1
  BY <1>2, SerialModAssumption, SMT
<1> HIDE DEF H
<1>4. FirstSerial \in 0..(2 * H - 1)
  BY <1>1, PublishFlowAssumption
<1> QED
  BY <1>1, <1>3, <1>4, SMT DEF Dist

\* resend() is called with everything outstanding, whoever calls it: the batch
\* and the queue hold all operations that are sending.
LEMMA ResendAll ==
    ASSUME FlowTypeOK, Requests(ops, queue, batch),
           NEW q, q = batch \o queue \/ (batch = <<>> /\ q = queue), Resend(q)
    PROVE  Resends
<1>1. queue \in Seq(ReqSet) /\ batch \in Seq(ReqSet)
  BY DEF FlowTypeOK, SenderTypeOK, NetTypeOK
<1>2. OpsOf(q) = OpsOf(queue) \cup OpsOf(batch)
  <2>1. CASE q = batch \o queue
    <3>1. /\ DOMAIN q = 1..(Len(batch) + Len(queue))
          /\ \A i \in 1..Len(batch) : q[i] = batch[i]
          /\ \A i \in 1..Len(queue) : q[Len(batch) + i] = queue[i]
      BY <1>1, <2>1, SMT
    <3>2. DOMAIN batch = 1..Len(batch) /\ DOMAIN queue = 1..Len(queue)
          /\ Len(batch) \in Nat /\ Len(queue) \in Nat
      BY <1>1, SMT
    <3>3. ASSUME NEW i \in DOMAIN q
          PROVE  q[i].op \in {queue[j].op : j \in DOMAIN queue}
                             \cup {batch[j].op : j \in DOMAIN batch}
      <4>1. CASE i <= Len(batch)
        BY <3>1, <3>2, <4>1, SMT
      <4>2. CASE i > Len(batch)
        <5>1. i - Len(batch) \in DOMAIN queue /\ q[i] = queue[i - Len(batch)]
          BY <3>1, <3>2, <4>2, SMT
        <5> QED
          BY <5>1
      <4> QED
        BY <3>1, <3>2, <4>1, <4>2, SMT
    <3>4. \A j \in DOMAIN batch : j \in DOMAIN q /\ q[j] = batch[j]
      BY <3>1, <3>2, SMT
    <3>5. \A j \in DOMAIN queue : /\ Len(batch) + j \in DOMAIN q
                                  /\ q[Len(batch) + j] = queue[j]
      BY <3>1, <3>2, SMT
    <3> QED
      BY <3>3, <3>4, <3>5, SMT DEF OpsOf
  <2>2. CASE batch = <<>> /\ q = queue
    BY <2>2, SMT DEF OpsOf
  <2> QED
    BY <2>1, <2>2
<1>3. OpsOf(q) = {m \in Msgs : ops[m].phase = "sending"}
  <2>1. ASSUME NEW r, ReqOK(r, ops), r.op # Disc
        PROVE  r.op \in Msgs /\ ops[r.op].phase = "sending"
    BY <2>1, SMT DEF ReqOK, DisconnectReq
  <2>2. ASSUME NEW m \in OpsOf(q) PROVE m \in Msgs /\ ops[m].phase = "sending"
    <3>1. CASE m \in OpsOf(queue)
      <4>1. PICK i \in DOMAIN queue : queue[i].op = m /\ m # Disc
        BY <3>1 DEF OpsOf
      <4> QED
        BY <2>1, <4>1 DEF Requests
    <3>2. CASE m \in OpsOf(batch)
      <4>1. PICK i \in DOMAIN batch : batch[i].op = m /\ m # Disc
        BY <3>2 DEF OpsOf
      <4> QED
        BY <2>1, <4>1 DEF Requests
    <3> QED
      BY <1>2, <2>2, <3>1, <3>2
  <2>3. ASSUME NEW m \in Msgs, ops[m].phase = "sending" PROVE m \in OpsOf(q)
    <3>1. m # Disc
      BY SMT DEF Msgs, Disc
    <3>2. \/ \E i \in DOMAIN queue : queue[i].op = m
          \/ \E i \in DOMAIN batch : batch[i].op = m
      BY <2>3 DEF Requests
    <3>3. m \in OpsOf(queue) \cup OpsOf(batch)
      BY <3>1, <3>2 DEF OpsOf
    <3> QED
      BY <1>2, <3>3
  <2> QED
    BY <2>2, <2>3
<1>4. Outstanding(q) = Outs
  BY <1>3 DEF Outstanding, Outs, Waiting
<1>5. {n \in Outstanding(q) : ~Stops(n)} = Resent
  BY <1>4 DEF Resent
<1> QED
  BY <1>4, <1>5 DEF Resend, Resends, ResendQueue

\* The queue that resend() writes: every operation once, the ones that send the
\* same kind of packet in the order in which they were initiated.
LEMMA ResendQueueFacts ==
    ASSUME Laws, FlowTypeOK, SerialsGrow
    PROVE  /\ ResendQueue \in Seq(ReqSet)
           /\ \A m \in Resent : \E i \in DOMAIN ResendQueue : ResendQueue[i] = Req(m)
           /\ \A i \in DOMAIN ResendQueue :
                 ResendQueue[i].op \in Resent /\ ResendQueue[i] = Req(ResendQueue[i].op)
           /\ \A i, j \in DOMAIN ResendQueue :
                 i < j /\ ResendQueue[i].prioritized = ResendQueue[j].prioritized
                 => ResendQueue[i].op < ResendQueue[j].op
           /\ \A i, j \in DOMAIN ResendQueue :
                 ResendQueue[i].op = ResendQueue[j].op => i = j
<1> DEFINE R == {Req(m) : m \in Resent}
           Q == Sorted(R)
<1>1. Resent \in SUBSET Msgs /\ \A m \in Resent : Live(m)
  BY DEF Resent, Outs, Live
<1>2. ASSUME NEW m \in Resent
      PROVE  /\ Req(m) \in ReqSet /\ Req(m).op = m /\ Req(m).serial = ops[m].serial
             /\ Req(m).prioritized <=> ops[m].stage = "pubrel"
             /\ Dist(ops[m].serial) \in 1..N
  <2>1. ops[m] \in OpSet /\ m \in 1..N /\ N \in Nat
    BY <1>1, PublishFlowAssumption DEF FlowTypeOK, SenderTypeOK, NetTypeOK, Msgs
  <2>2. Dist(ops[m].serial) \in 1..Dist(lastSerial) /\ Dist(lastSerial) <= N
    BY <1>1 DEF SerialsGrow
  <2>3. /\ ops[m].serial \in 0..(SerialMod - 1)
        /\ ops[m].stage \in {"publish", "pubrel"}
    BY <2>1 DEF OpSet
  <2>4. Dist(lastSerial) \in Int
    BY PublishFlowAssumption, SerialModAssumption, SMT DEF FlowTypeOK, SenderTypeOK, NetTypeOK, Dist
  <2>5. Dist(ops[m].serial) \in 1..N
    BY <2>1, <2>2, <2>4, SMT
  <2>6. /\ Req(m) \in ReqSet /\ Req(m).op = m /\ Req(m).serial = ops[m].serial
        /\ Req(m).prioritized <=> ops[m].stage = "pubrel"
    <3>1. CASE ops[m].stage = "pubrel"
      <4>1. Req(m) = PubrelReq(m, ops[m], TRUE)
        BY <3>1 DEF Req
      <4> QED
        BY <2>1, <2>3, <3>1, <4>1, SMT DEF PubrelReq, ReqSet
    <3>2. CASE ops[m].stage = "publish"
      <4>1. Req(m) = PublishReq(m, ops[m])
        BY <3>2 DEF Req
      <4> QED
        BY <2>1, <2>3, <3>2, <4>1, SMT DEF PublishReq, ReqSet
    <3> QED
      BY <2>3, <3>1, <3>2
  <2> QED
    BY <2>5, <2>6
<1>3. ASSUME NEW m \in Resent, NEW n \in Resent,
             Req(m).prioritized = Req(n).prioritized
      PROVE  Before(Req(m), Req(n)) <=> m < n
  <2>1. Before(Req(m), Req(n)) <=> Dist(ops[m].serial) < Dist(ops[n].serial)
    BY <1>2, <1>3, BeforeFacts
  <2>2. /\ m < n => Dist(ops[m].serial) < Dist(ops[n].serial)
        /\ n < m => Dist(ops[n].serial) < Dist(ops[m].serial)
    BY <1>1 DEF SerialsGrow
  <2>3. m \in Int /\ n \in Int /\ Dist(ops[m].serial) \in Int /\ Dist(ops[n].serial) \in Int
    BY <1>1, <1>2, PublishFlowAssumption, SMT DEF Msgs
  <2> QED
    BY <2>1, <2>2, <2>3, SMT
<1>4. ASSUME NEW m \in Resent, NEW n \in Resent,
             Req(m).prioritized # Req(n).prioritized
      PROVE  Before(Req(m), Req(n)) <=> Req(m).prioritized
  BY <1>4 DEF Before
<1>5. ASSUME NEW m \in Resent PROVE m \in Int /\ Req(m).prioritized \in BOOLEAN
  <2>1. m \in Msgs /\ Req(m) \in ReqSet
    BY <1>1, <1>2
  <2>2. m \in Int
    BY <2>1, PublishFlowAssumption, SMT DEF Msgs
  <2>3. Req(m).prioritized \in BOOLEAN
    BY <2>1 DEF ReqSet
  <2> QED
    BY <2>2, <2>3
<1>6. \A r \in R : ~Before(r, r)
  BY <1>3, <1>5, SMT
<1>7. \A r, s \in R : r # s => Before(r, s) \/ Before(s, r)
  <2> SUFFICES ASSUME NEW m \in Resent, NEW n \in Resent, Req(m) # Req(n)
               PROVE  Before(Req(m), Req(n)) \/ Before(Req(n), Req(m))
    OBVIOUS
  <2>1. m < n \/ n < m
    BY <1>5, SMT
  <2> QED
    BY <1>3, <1>4, <1>5, <2>1
<1>8. \A r, s, t \in R : Before(r, s) /\ Before(s, t) => Before(r, t)
  <2> SUFFICES ASSUME NEW m \in Resent, NEW n \in Resent, NEW l \in Resent,
                      Before(Req(m), Req(n)), Before(Req(n), Req(l))
               PROVE  Before(Req(m), Req(l))
    BY SMT
  <2> QED
    BY <1>3, <1>4, <1>5, SMT
<1>9. IsFiniteSet(R)
  <2> DEFINE f == [m \in Resent |-> Req(m)]
  <2>1. IsFiniteSet(Resent)
    <3>1. IsFiniteSet(Msgs)
      BY PublishFlowAssumption DEF Laws, IntervalLaw, Msgs
    <3> QED
      BY <1>1, <3>1 DEF Laws, SubsetLaw
  <2>2. f \in [Resent -> R] /\ \A r \in R : \E m \in Resent : f[m] = r
    OBVIOUS
  <2> HIDE DEF f, R
  <2> QED
    BY <2>1, <2>2 DEF Laws, ImageLaw
<1>10. /\ Q \in Seq(R)
       /\ \A r \in R : \E i \in 1..Len(Q) : Q[i] = r
       /\ \A i, j \in 1..Len(Q) : i < j => Before(Q[i], Q[j])
  <2> HIDE DEF R
  <2> QED
    BY <1>6, <1>7, <1>8, <1>9 DEF Laws, SortedLaw
<1>11. Q = ResendQueue
  BY DEF ResendQueue
<1> HIDE DEF Q
<1>12. \A i \in DOMAIN Q : Q[i].op \in Resent /\ Q[i] = Req(Q[i].op)
  <2> TAKE i \in DOMAIN Q
  <2>1. Q[i] \in R
    BY <1>10, SMT
  <2> QED
    BY <1>2, <2>1
<1>13. Q \in Seq(ReqSet)
  <2>1. R \subseteq ReqSet
    BY <1>2
  <2> QED
    BY <1>10, <2>1, SMT
<1>14. DOMAIN Q = 1..Len(Q) /\ Len(Q) \in Nat
  BY <1>13, SMT
<1>15. ASSUME NEW i \in DOMAIN Q, NEW j \in DOMAIN Q, i < j,
              Q[i].prioritized = Q[j].prioritized
       PROVE  Q[i].op < Q[j].op
  <2>1. Before(Q[i], Q[j])
    BY <1>10, <1>14, <1>15
  <2> QED
    BY <1>3, <1>12, <1>15, <2>1
<1>16. ASSUME NEW i \in DOMAIN Q, NEW j \in DOMAIN Q, Q[i].op = Q[j].op, i # j
       PROVE  FALSE
  <2>1. Q[i] = Q[j]
    BY <1>12, <1>16
  <2>2. i < j \/ j < i
    BY <1>14, <1>16, SMT
  <2>3. Q[i].op \in Int
    BY <1>5, <1>12
  <2> QED
    BY <1>15, <1>16, <2>1, <2>2, <2>3, SMT
<1>17. \A m \in Resent : \E i \in DOMAIN Q : Q[i] = Req(m)
  BY <1>10, <1>14
<1> QED
  BY <1>11, <1>12, <1>13, <1>15, <1>16, <1>17

\* A step that gives out no serial number keeps their order.
LEMMA SerialsKept ==
    ASSUME SerialsGrow, Onward(ops, ops'), lastSerial' = lastSerial
    PROVE  SerialsGrow'
<1>1. ASSUME NEW m \in Msgs, Live(m)' PROVE Live(m) /\ ops'[m].serial = ops[m].serial
  BY <1>1 DEF Live, Onward
<1> QED
  BY <1>1 DEF SerialsGrow, Onward

\* A step that ends in do_write keeps Basic if what it hands to do_write does.
LEMMA WorkBasic ==
    ASSUME Laws, Basic, NEW called \in BOOLEAN, NEW b, b = batch \/ b = <<>>,
           NEW q \in Seq(ReqSet), NEW k \in Int, NEW f \in Seq(ReplySet),
           ops' \in [Msgs -> OpSet], Requests(ops', q, b), QosFits(ops'), SerialsGrow',
           NetTypeOK', b # <<>> => gen' >= gen,
           DoWrite(called, b, q, k, f)
    PROVE  Basic'
<1>1. /\ b \in Seq(ReqSet) /\ gen' \in Nat
      /\ b # <<>> => sent \in 0..Len(b) /\ wgen \in 0..gen'
  <2>1. /\ batch \in Seq(ReqSet) /\ sent \in 0..Len(batch) /\ wgen \in 0..gen
        /\ gen \in Nat /\ gen' \in Nat
    BY DEF Basic, FlowTypeOK, SenderTypeOK, NetTypeOK
  <2>2. CASE b = batch /\ b # <<>>
    BY <2>1, <2>2, SMT
  <2>3. CASE b = <<>>
    BY <2>1, <2>3, SMT
  <2> QED
    BY <2>2, <2>3
<1>2. SenderTypeOK' /\ Requests(ops', queue', batch')
  BY <1>1, DoWriteKeeps DEF SenderTypeOK
<1> QED
  BY <1>2 DEF Basic, FlowTypeOK

\* on_puback, on_pubrec, on_pubcomp: what becomes of the operation, and the
\* queue and quota with which do_write is called.
LEMMA OnReplyShape ==
    ASSUME Basic, NEW m \in Msgs, ops[m].phase \in {"waiting", "posted"},
           NEW res \in Outcomes,
           res = "aborted" \/ ops[m].qos # 0,
           OnReply(m, res)
    PROVE  /\ ops' \in [Msgs -> OpSet] /\ \A n \in Msgs \ {m} : ops'[n] = ops[n]
           /\ ops'[m].qos = ops[m].qos /\ ops'[m].pid = ops[m].pid
           /\ ops'[m].serial = ops[m].serial /\ ops'[m].cancelled = ops[m].cancelled
           /\ ops'[m].phase \notin {"idle", "waiting", "posted"}
           /\ ops'[m].stage = ops[m].stage \/ (ops'[m].stage = "pubrel" /\ ops[m].qos = 2)
           /\ \E called \in BOOLEAN, q \in Seq(ReqSet), k \in Int :
                 ReplyShape(m, called, q, k) /\ Requests(ops', q, batch)
                 /\ DoWrite(called, batch, q, k, fast)
<1>1. /\ ops \in [Msgs -> OpSet] /\ ops[m] \in OpSet /\ queue \in Seq(ReqSet)
      /\ batch \in Seq(ReqSet) /\ quota \in Int /\ Requests(ops, queue, batch)
      /\ Append(queue, DisconnectReq) \in Seq(ReqSet)
      /\ Requests(ops, Append(queue, DisconnectReq), batch)
      /\ \A n \in Nat : Returned(limit, quota, n) \in Int
  BY RequestsDisconnect, SMT DEF Basic, FlowTypeOK, SenderTypeOK, Returned
<1>2. ops[m].phase # "sending" /\ (ops[m].stage = "pubrel" => ops[m].qos = 2)
  BY DEF Basic, QosFits
<1>3. ASSUME ops' = [ops EXCEPT ![m].phase = "done", ![m].res = res]
      PROVE  /\ ops' \in [Msgs -> OpSet] /\ \A n \in Msgs \ {m} : ops'[n] = ops[n]
             /\ ops'[m].qos = ops[m].qos /\ ops'[m].pid = ops[m].pid
             /\ ops'[m].serial = ops[m].serial /\ ops'[m].cancelled = ops[m].cancelled
             /\ ops'[m].phase = "done" /\ ops'[m].stage = ops[m].stage
  BY <1>1, <1>3 DEF OpSet, Phases
<1>4. ASSUME NEW q \in Seq(ReqSet), Requests(ops, q, batch),
             \A n \in Msgs \ {m} : ops'[n] = ops[n], ops'[m].phase = "done"
      PROVE  Requests(ops', q, batch)
  <2>1. \A n \in Msgs :
           /\ ops'[n].phase = "sending" <=> ops[n].phase = "sending"
           /\ ops[n].phase = "sending" =>
                 /\ ops'[n].serial = ops[n].serial /\ ops'[n].stage = ops[n].stage
                 /\ ops'[n].qos = ops[n].qos
    BY <1>2, <1>4
  <2> QED
    BY <1>4, <2>1, RequestsOps, SMT
<1>5. CASE Complete(m, res)
  <2> DEFINE freed == IF ops[m].qos = 0 THEN 0 ELSE 1
             called == freed = 1 /\ limit # MAX_LIMIT
             k == Returned(limit, quota, freed)
  <2>1. ops' = [ops EXCEPT ![m].phase = "done", ![m].res = res]
        /\ DoWrite(called, batch, queue, k, fast)
    BY <1>5 DEF Complete
  <2>2. called \in BOOLEAN /\ k \in Int
    BY <1>1
  <2>3. ReplyShape(m, called, queue, k)
    BY <1>1, <1>3, <2>1, SMT DEF ReplyShape, Returned
  <2> HIDE DEF called, k
  <2> QED
    BY <1>1, <1>3, <1>4, <2>1, <2>2, <2>3
<1>6. CASE /\ ops[m].stage = "publish" /\ ops[m].cancelled
           /\ ops' = [ops EXCEPT ![m].phase = "done", ![m].res = "aborted"]
           /\ DoWrite(TRUE, batch, Append(queue, DisconnectReq),
                      Returned(limit, quota, 1), fast)
  <2>1. /\ ops' \in [Msgs -> OpSet] /\ \A n \in Msgs \ {m} : ops'[n] = ops[n]
        /\ ops'[m].qos = ops[m].qos /\ ops'[m].pid = ops[m].pid
        /\ ops'[m].serial = ops[m].serial /\ ops'[m].cancelled = ops[m].cancelled
        /\ ops'[m].phase = "done" /\ ops'[m].stage = ops[m].stage
    BY <1>1, <1>6 DEF OpSet, Phases, Outcomes
  <2>2. ReplyShape(m, TRUE, Append(queue, DisconnectReq), Returned(limit, quota, 1))
    BY <1>6, <2>1 DEF ReplyShape
  <2> QED
    BY <1>1, <1>4, <1>6, <2>1, <2>2
<1>7. ASSUME NEW r \in ReqSet, r.op = m, ReqOK(r, ops'), NEW q \in Seq(ReqSet),
             Requests(ops, q, batch), \A n \in Msgs \ {m} : ops'[n] = ops[n]
      PROVE  Append(q, r) \in Seq(ReqSet) /\ Requests(ops', Append(q, r), batch)
  <2>1. batch \in Seq(ReqSet) /\ ops[m].phase # "sending"
    BY <1>1, <1>2
  <2> QED
    BY <1>7, <2>1, RequestsAppend, SMT
<1>8. CASE /\ ops[m].stage = "publish" /\ res = "malformed"
           /\ ops' = [ops EXCEPT ![m].phase = "sending", ![m].dup = TRUE,
                                 ![m].res = "none"]
           /\ DoWrite(TRUE, batch, Append(Append(queue, DisconnectReq), PublishReq(m, ops[m])),
                      quota, fast)
  <2>1. /\ ops' \in [Msgs -> OpSet] /\ \A n \in Msgs \ {m} : ops'[n] = ops[n]
        /\ ops'[m].qos = ops[m].qos /\ ops'[m].pid = ops[m].pid
        /\ ops'[m].serial = ops[m].serial /\ ops'[m].cancelled = ops[m].cancelled
        /\ ops'[m].phase = "sending"
        /\ ops'[m].stage = ops[m].stage
    BY <1>1, <1>8 DEF OpSet, Phases, Outcomes
  <2>2. Req(m) = PublishReq(m, ops[m]) /\ Req(m) \in ReqSet /\ Req(m).op = m
        /\ ReqOK(Req(m), ops')
    <3>1. Req(m) = PublishReq(m, ops[m])
      BY <1>8 DEF Req
    <3>2. m \in 0..N
      BY PublishFlowAssumption, SMT DEF Msgs
    <3>3. PublishReq(m, ops[m]) \in ReqSet
      BY <1>1, <3>2 DEF PublishReq, ReqSet, OpSet
    <3>4. ReqOK(PublishReq(m, ops[m]), ops')
      BY <1>8, <2>1 DEF PublishReq, ReqOK
    <3> QED
      BY <3>1, <3>3, <3>4, SMT DEF PublishReq
  <2> DEFINE q == Append(Append(queue, DisconnectReq), Req(m))
  <2>3. q = Append(Append(queue, DisconnectReq), PublishReq(m, ops[m]))
    BY <2>2
  <2>4. q \in Seq(ReqSet) /\ Requests(ops', q, batch)
    BY <1>1, <1>7, <2>1, <2>2
  <2>5. ReplyShape(m, TRUE, q, quota)
    BY <2>1 DEF ReplyShape
  <2> HIDE DEF q
  <2> QED
    BY <1>1, <1>8, <2>1, <2>3, <2>4, <2>5
<1>9. CASE /\ ops[m].stage = "pubrel"
           /\ ops' = [ops EXCEPT ![m].phase = "sending", ![m].res = "none"]
           /\ DoWrite(TRUE, batch, Append(Append(queue, DisconnectReq), PubrelReq(m, ops[m], TRUE)),
                      quota, fast)
  <2>1. /\ ops' \in [Msgs -> OpSet] /\ \A n \in Msgs \ {m} : ops'[n] = ops[n]
        /\ ops'[m].qos = ops[m].qos /\ ops'[m].pid = ops[m].pid
        /\ ops'[m].serial = ops[m].serial /\ ops'[m].cancelled = ops[m].cancelled
        /\ ops'[m].phase = "sending"
        /\ ops'[m].stage = ops[m].stage
    BY <1>1, <1>9 DEF OpSet, Phases, Outcomes
  <2>2. Req(m) = PubrelReq(m, ops[m], TRUE) /\ Req(m) \in ReqSet /\ Req(m).op = m
        /\ ReqOK(Req(m), ops')
    <3>1. Req(m) = PubrelReq(m, ops[m], TRUE)
      BY <1>9 DEF Req
    <3>2. m \in 0..N
      BY PublishFlowAssumption, SMT DEF Msgs
    <3>3. PubrelReq(m, ops[m], TRUE) \in ReqSet
      BY <1>1, <3>2 DEF PubrelReq, ReqSet, OpSet
    <3>4. ReqOK(PubrelReq(m, ops[m], TRUE), ops')
      BY <1>2, <1>9, <2>1, SMT DEF PubrelReq, ReqOK
    <3> QED
      BY <3>1, <3>3, <3>4, SMT DEF PubrelReq
  <2> DEFINE q == Append(Append(queue, DisconnectReq), Req(m))
  <2>3. q = Append(Append(queue, DisconnectReq), PubrelReq(m, ops[m], TRUE))
    BY <2>2
  <2>4. q \in Seq(ReqSet) /\ Requests(ops', q, batch)
    BY <1>1, <1>7, <2>1, <2>2
  <2>5. ReplyShape(m, TRUE, q, quota)
    BY <2>1 DEF ReplyShape
  <2> HIDE DEF q
  <2> QED
    BY <1>1, <1>9, <2>1, <2>3, <2>4, <2>5
<1>10. CASE /\ res = "ok" /\ Awaited(ops[m]) = "PUBREC"
            /\ ops' = [ops EXCEPT ![m].phase = "sending", ![m].stage = "pubrel",
                                  ![m].res = "none"]
            /\ DoWrite(TRUE, batch, Append(queue, PubrelReq(m, ops[m], FALSE)), quota, fast)
  <2>1. /\ ops' \in [Msgs -> OpSet] /\ \A n \in Msgs \ {m} : ops'[n] = ops[n]
        /\ ops'[m].qos = ops[m].qos /\ ops'[m].pid = ops[m].pid
        /\ ops'[m].serial = ops[m].serial /\ ops'[m].cancelled = ops[m].cancelled
        /\ ops'[m].phase = "sending"
        /\ ops'[m].stage = "pubrel"
    BY <1>1, <1>10 DEF OpSet, Phases, Outcomes
  <2>2. ops[m].qos = 2 /\ ops[m].stage = "publish"
    BY <1>1, <1>10, SMT DEF Awaited, OpSet
  <2>3. PubrelReq(m, ops[m], FALSE) \in ReqSet /\ PubrelReq(m, ops[m], FALSE).op = m
    <3>1. m \in 0..N
      BY PublishFlowAssumption, SMT DEF Msgs
    <3> QED
      BY <1>1, <3>1 DEF PubrelReq, ReqSet, OpSet
  <2>4. ReqOK(PubrelReq(m, ops[m], FALSE), ops')
    BY <2>1 DEF PubrelReq, ReqOK
  <2> DEFINE q == Append(queue, PubrelReq(m, ops[m], FALSE))
  <2>5. q \in Seq(ReqSet) /\ Requests(ops', q, batch)
    BY <1>1, <1>7, <2>1, <2>3, <2>4
  <2>6. ReplyShape(m, TRUE, q, quota)
    BY <2>1, <2>2 DEF ReplyShape
  <2> QED
    BY <1>1, <1>10, <2>1, <2>2, <2>5, <2>6
<1>11. \/ res = "malformed" /\ OnMalformed(m)
       \/ /\ res = "ok" /\ Awaited(ops[m]) = "PUBREC"
          /\ ops' = [ops EXCEPT ![m].phase = "sending", ![m].stage = "pubrel",
                                ![m].res = "none"]
          /\ DoWrite(TRUE, batch, Append(queue, PubrelReq(m, ops[m], FALSE)), quota, fast)
       \/ Complete(m, res)
  BY DEF OnReply
<1>12. CASE res = "malformed" /\ OnMalformed(m)
  BY <1>6, <1>8, <1>9, <1>12 DEF OnMalformed
<1> QED
  BY <1>5, <1>10, <1>11, <1>12

\* The reply, or the abortion, of one operation.
LEMMA ReplyBasic ==
    ASSUME Laws, Basic, NEW m \in Msgs, ops[m].phase \in {"waiting", "posted"},
           NEW res \in Outcomes, res = "aborted" \/ ops[m].qos # 0,
           OnReply(m, res), NetTypeOK', gen' = gen, lastSerial' = lastSerial
    PROVE  Basic' /\ Onward(ops, ops')
<1>1. /\ ops' \in [Msgs -> OpSet] /\ \A n \in Msgs \ {m} : ops'[n] = ops[n]
      /\ ops'[m].qos = ops[m].qos /\ ops'[m].pid = ops[m].pid
      /\ ops'[m].serial = ops[m].serial
      /\ ops'[m].phase \notin {"idle", "waiting", "posted"}
      /\ ops'[m].stage = ops[m].stage \/ (ops'[m].stage = "pubrel" /\ ops[m].qos = 2)
  BY OnReplyShape
<1>2. PICK called \in BOOLEAN, q \in Seq(ReqSet), k \in Int :
         Requests(ops', q, batch) /\ DoWrite(called, batch, q, k, fast)
  BY OnReplyShape
<1>3. Onward(ops, ops')
  BY <1>1 DEF Onward
<1>4. QosFits(ops')
  BY <1>1, SMT DEF Basic, QosFits
<1>5. SerialsGrow'
  BY <1>3, SerialsKept DEF Basic
<1>6. fast \in Seq(ReplySet) /\ gen \in Nat
  BY DEF Basic, FlowTypeOK, SenderTypeOK, NetTypeOK
<1>7. Basic'
  BY <1>1, <1>2, <1>4, <1>5, <1>6, WorkBasic, SMT
<1> QED
  BY <1>3, <1>7

\* publish_send_op::perform: the new operation, its request, and Basic.
LEMMA PublishBasic ==
    ASSUME Laws, Basic, NEW m \in Msgs, NEW q \in QosSet, Publish(m, q)
    PROVE  /\ Basic' /\ ops[m].phase = "idle"
           /\ ops'[m].phase = "sending" /\ ops'[m].stage = "publish" /\ ops'[m].qos = q
           /\ ops'[m].cancelled = FALSE /\ ops'[m].res = "none"
           /\ q # 0 => ops'[m].pid \in FreePids
           /\ \A n \in Msgs \ {m} : ops'[n] = ops[n]
           /\ \A n \in Msgs : ops[n].phase # "idle" => n < m
           /\ PublishReq(m, ops'[m]) \in ReqSet
           /\ DoWrite(TRUE, batch, Append(queue, PublishReq(m, ops'[m])), quota, fast)
<1> DEFINE pid == IF q = 0 THEN 0 ELSE CHOOSE p \in FreePids : \A r \in FreePids : p <= r
           o == [phase |-> "sending", stage |-> "publish", qos |-> q, pid |-> pid,
                 serial |-> NextSerial(lastSerial), dup |-> FALSE,
                 cancelled |-> FALSE, res |-> "none"]
<1>1. /\ ops' = [ops EXCEPT ![m] = o] /\ lastSerial' = o.serial
      /\ DoWrite(TRUE, batch, Append(queue, PublishReq(m, o)), quota, fast)
      /\ limit' = limit /\ gen' = gen
  BY DEF Publish
<1>2. /\ open /\ ops[m].phase = "idle" /\ \A n \in 1..(m - 1) : ops[n].phase # "idle"
      /\ q # 0 => FreePids # {}
  BY DEF Publish, NextMsg
<1>3. /\ ops \in [Msgs -> OpSet] /\ m \in 1..N /\ N \in Nat /\ q \in 0..2
      /\ lastSerial \in 0..(SerialMod - 1) /\ queue \in Seq(ReqSet)
      /\ batch \in Seq(ReqSet) /\ quota \in Int /\ fast \in Seq(ReplySet) /\ gen \in Nat
  BY PublishFlowAssumption DEF Basic, FlowTypeOK, SenderTypeOK, NetTypeOK, Msgs
<1>4. pid \in 0..MaxPid /\ (q # 0 => pid \in FreePids)
  <2>1. CASE q = 0
    BY <2>1, PublishFlowAssumption, SMT
  <2>2. CASE q # 0
    <3>1. FreePids \in SUBSET Nat /\ FreePids # {}
      BY <1>2, <2>2, PublishFlowAssumption, SMT DEF FreePids
    <3>2. \E p \in FreePids : \A r \in FreePids : p <= r
      BY <3>1 DEF Laws, LeastLaw
    <3>3. pid \in FreePids
      BY <2>2, <3>2
    <3> QED
      BY <3>3, PublishFlowAssumption, SMT DEF FreePids
  <2> QED
    BY <2>1, <2>2
<1>5. Dist(lastSerial) < m
  BY <1>2 DEF Basic, SerialsGrow
<1>6. /\ Dist(lastSerial) \in Nat /\ NextSerial(lastSerial) \in 0..(SerialMod - 1)
      /\ Dist(NextSerial(lastSerial)) = Dist(lastSerial) + 1
  <2>1. Dist(lastSerial) \in Int
    BY <1>3, PublishFlowAssumption, SerialModAssumption, SMT DEF Dist
  <2>2. Dist(lastSerial) < N
    BY <1>3, <1>5, <2>1, SMT
  <2> QED
    BY <1>3, <2>2, NextSerialFacts
<1> HIDE DEF pid
<1>7. o \in OpSet
  BY <1>3, <1>4, <1>6 DEF OpSet, Phases, Outcomes
<1>8. /\ o.phase = "sending" /\ o.stage = "publish" /\ o.qos = q /\ o.pid = pid
      /\ o.serial = NextSerial(lastSerial) /\ o.cancelled = FALSE /\ o.res = "none"
  OBVIOUS
<1> HIDE DEF o
<1>9. /\ ops' \in [Msgs -> OpSet] /\ ops'[m] = o /\ \A n \in Msgs \ {m} : ops'[n] = ops[n]
  BY <1>1, <1>3, <1>7
<1>10. PublishReq(m, o) \in ReqSet /\ PublishReq(m, o).op = m
  BY <1>3, <1>6, <1>8, SMT DEF PublishReq, ReqSet
<1>11. ReqOK(PublishReq(m, o), ops')
  BY <1>8, <1>9 DEF PublishReq, ReqOK
<1>12. /\ Append(queue, PublishReq(m, o)) \in Seq(ReqSet)
       /\ Requests(ops', Append(queue, PublishReq(m, o)), batch)
  BY <1>2, <1>3, <1>9, <1>10, <1>11, RequestsAppend, SMT DEF Basic
<1>13. \A n \in Msgs : ops[n].phase # "idle" => n < m
  <2>1. ASSUME NEW n \in Msgs, ops[n].phase # "idle", ~(n < m) PROVE FALSE
    <3>1. n = m \/ m < n
      BY <1>3, <2>1, SMT DEF Msgs
    <3> QED
      BY <1>2, <2>1, <3>1 DEF Basic, SerialsGrow
  <2> QED
    BY <2>1
<1>14. \A n \in Msgs : n < m => ops[n].phase # "idle"
  BY <1>2, <1>3, SMT DEF Msgs
<1>15. SerialsGrow'
  <2>1. lastSerial' = NextSerial(lastSerial) /\ Dist(lastSerial') = Dist(lastSerial) + 1
    BY <1>1, <1>6, <1>8
  <2>2. \A n \in Msgs : Live(n) => Dist(ops[n].serial) \in 1..Dist(lastSerial) /\ n < m
    BY <1>13 DEF Basic, SerialsGrow, Live
  <2>3. \A n \in Msgs : n # m => (Live(n)' <=> Live(n))
    BY <1>9 DEF Live
  <2>4. \A n \in Msgs : Live(n)' => Dist(ops'[n].serial) \in 1..Dist(lastSerial')
    BY <1>6, <1>8, <1>9, <2>1, <2>2, <2>3, SMT
  <2>5. \A n, l \in Msgs : Live(n)' /\ Live(l)' /\ n < l
                           => Dist(ops'[n].serial) < Dist(ops'[l].serial)
    <3> SUFFICES ASSUME NEW n \in Msgs, NEW l \in Msgs, Live(n)', Live(l)', n < l
                 PROVE  Dist(ops'[n].serial) < Dist(ops'[l].serial)
      OBVIOUS
    <3>1. CASE l = m
      <4>1. n # m /\ Dist(ops[n].serial) \in 1..Dist(lastSerial)
        BY <1>3, <2>2, <2>3, <3>1, SMT DEF Msgs
      <4> QED
        BY <1>6, <1>8, <1>9, <3>1, <4>1, SMT
    <3>2. CASE l # m
      <4>1. n # m /\ l < m
        BY <1>3, <2>2, <2>3, <3>2, SMT DEF Msgs
      <4> QED
        BY <1>9, <2>3, <3>2, <4>1 DEF Basic, SerialsGrow
    <3> QED
      BY <3>1, <3>2
  <2>6. \A n \in Msgs : ops'[n].phase = "idle" => n # m /\ m < n
    BY <1>3, <1>8, <1>9, <1>14, SMT DEF Msgs
  <2>7. \A n \in Msgs : ops'[n].phase = "idle" => Dist(lastSerial') < n
    BY <1>3, <1>5, <1>6, <2>1, <2>6, SMT DEF Msgs
  <2>8. \A n, l \in Msgs : n < l /\ ops'[n].phase = "idle" => ops'[l].phase = "idle"
    <3> SUFFICES ASSUME NEW n \in Msgs, NEW l \in Msgs, n < l, ops'[n].phase = "idle"
                 PROVE  ops'[l].phase = "idle"
      OBVIOUS
    <3>1. n # m /\ m < n /\ l # m
      BY <1>3, <2>6, SMT DEF Msgs
    <3> QED
      BY <1>9, <3>1 DEF Basic, SerialsGrow
  <2>9. Dist(lastSerial') <= N
    BY <1>3, <1>5, <1>6, <2>1, SMT
  <2> QED
    BY <2>4, <2>5, <2>7, <2>8, <2>9 DEF SerialsGrow
<1>16. NetTypeOK'
  BY <1>1, <1>6, <1>8 DEF Publish, broker, Basic, FlowTypeOK, NetTypeOK
<1>17. QosFits(ops')
  BY <1>8, <1>9 DEF Basic, QosFits
<1>18. Basic'
  <2> DEFINE a == Append(queue, PublishReq(m, o))
  <2>1. a \in Seq(ReqSet) /\ Requests(ops', a, batch)
    BY <1>12
  <2>2. DoWrite(TRUE, batch, a, quota, fast)
    BY <1>1
  <2>3. gen' >= gen
    BY <1>1, <1>3, SMT
  <2> HIDE DEF a
  <2> QED
    BY <1>3, <1>9, <1>15, <1>16, <1>17, <2>1, <2>2, <2>3, WorkBasic
<1> QED
  BY <1>1, <1>2, <1>4, <1>8, <1>9, <1>10, <1>13, <1>18

\* complete_immediate touches nothing but its own operation.
LEMMA PublishFailsBasic ==
    ASSUME Basic, NEW m \in Msgs, NEW q \in QosSet, PublishFails(m, q)
    PROVE  /\ Basic' /\ ops[m].phase = "idle" /\ ops'[m].phase = "done"
           /\ \A n \in Msgs \ {m} : ops'[n] = ops[n]
           /\ UNCHANGED <<queue, batch, sent, wgen, rgen, limit, quota, fast, open,
                          gen, conn, recvMax, c2b, b2c, session, delivered, wire>>
<1>1. /\ ops' = [ops EXCEPT ![m].phase = "done", ![m].qos = q, ![m].res = "failed"]
      /\ UNCHANGED <<queue, batch, sent, wgen, rgen, limit, quota, fast, open,
                     gen, conn, recvMax, c2b, b2c, session, delivered, wire>>
      /\ lastSerial' \in {lastSerial, NextSerial(lastSerial)}
  BY DEF PublishFails, network, broker
<1>2. /\ open /\ ops[m].phase = "idle" /\ \A n \in 1..(m - 1) : ops[n].phase # "idle"
  BY DEF PublishFails, NextMsg
<1>3. /\ ops \in [Msgs -> OpSet] /\ m \in 1..N /\ N \in Nat /\ q \in 0..2
      /\ lastSerial \in 0..(SerialMod - 1) /\ ops[m] \in OpSet
  BY PublishFlowAssumption DEF Basic, FlowTypeOK, NetTypeOK, Msgs
<1>4. /\ ops' \in [Msgs -> OpSet] /\ ops'[m].phase = "done" /\ ops'[m].qos = q
      /\ ops'[m].stage = ops[m].stage /\ \A n \in Msgs \ {m} : ops'[n] = ops[n]
  BY <1>1, <1>3 DEF OpSet, Phases, Outcomes
<1>5. Dist(lastSerial) < m
  BY <1>2 DEF Basic, SerialsGrow
<1>6. /\ Dist(lastSerial) \in Nat /\ lastSerial' \in 0..(SerialMod - 1)
      /\ Dist(lastSerial') \in {Dist(lastSerial), Dist(lastSerial) + 1}
  <2>1. Dist(lastSerial) \in Int
    BY <1>3, PublishFlowAssumption, SerialModAssumption, SMT DEF Dist
  <2>2. Dist(lastSerial) < N
    BY <1>3, <1>5, <2>1, SMT
  <2> QED
    BY <1>1, <1>3, <2>2, NextSerialFacts
<1>7. SerialsGrow'
  <2>1. \A n \in Msgs : Live(n)' => Live(n) /\ ops'[n] = ops[n]
    BY <1>4 DEF Live
  <2>2. \A n \in Msgs : Live(n) => Dist(ops[n].serial) \in 1..Dist(lastSerial)
    BY DEF Basic, SerialsGrow
  <2>3. \A n \in Msgs : Live(n)' => Dist(ops'[n].serial) \in 1..Dist(lastSerial')
    BY <1>6, <2>1, <2>2, SMT
  <2>4. \A n, l \in Msgs : Live(n)' /\ Live(l)' /\ n < l
                           => Dist(ops'[n].serial) < Dist(ops'[l].serial)
    BY <2>1 DEF Basic, SerialsGrow
  <2>5. \A n \in Msgs : ops'[n].phase = "idle" => n # m /\ m < n
    BY <1>2, <1>3, <1>4, SMT DEF Msgs
  <2>6. \A n \in Msgs : ops'[n].phase = "idle" => Dist(lastSerial') < n
    BY <1>3, <1>5, <1>6, <2>5, SMT DEF Msgs
  <2>7. \A n, l \in Msgs : n < l /\ ops'[n].phase = "idle" => ops'[l].phase = "idle"
    <3> SUFFICES ASSUME NEW n \in Msgs, NEW l \in Msgs, n < l, ops'[n].phase = "idle"
                 PROVE  ops'[l].phase = "idle"
      OBVIOUS
    <3>1. n # m /\ m < n /\ l # m
      BY <1>3, <2>5, SMT DEF Msgs
    <3> QED
      BY <1>4, <3>1 DEF Basic, SerialsGrow
  <2>8. Dist(lastSerial') <= N
    BY <1>3, <1>5, <1>6, SMT
  <2> QED
    BY <2>3, <2>4, <2>6, <2>7, <2>8 DEF SerialsGrow
<1>8. NetTypeOK' /\ SenderTypeOK'
  BY <1>1, <1>6 DEF Basic, FlowTypeOK, NetTypeOK, SenderTypeOK
<1>9. QosFits(ops')
  BY <1>4 DEF Basic, QosFits
<1>10. Requests(ops', queue', batch')
  <2>1. \A n \in Msgs :
           /\ ops'[n].phase = "sending" <=> ops[n].phase = "sending"
           /\ ops[n].phase = "sending" =>
                 /\ ops'[n].serial = ops[n].serial /\ ops'[n].stage = ops[n].stage
                 /\ ops'[n].qos = ops[n].qos
    BY <1>2, <1>4
  <2>2. Requests(ops', queue, batch)
    BY <2>1, RequestsOps DEF Basic
  <2> QED
    BY <1>1, <2>2
<1> QED
  BY <1>1, <1>2, <1>4, <1>7, <1>8, <1>9, <1>10 DEF Basic, FlowTypeOK

\* The cancellation of one operation keeps Basic.
LEMMA CancelOpBasic ==
    ASSUME Basic, NEW m \in Msgs, CancelOp(m)
    PROVE  Basic' /\ Onward(ops, ops')
<1>1. /\ ops' = [ops EXCEPT ![m].cancelled = TRUE]
      /\ UNCHANGED <<queue, batch, sent, wgen, rgen, limit, quota, lastSerial, fast, open,
                     gen, conn, recvMax, c2b, b2c, session, delivered, wire>>
  BY DEF CancelOp, network, broker
<1>2. ops \in [Msgs -> OpSet] /\ ops[m] \in OpSet
  BY DEF Basic, FlowTypeOK
<1>3. /\ ops' \in [Msgs -> OpSet]
      /\ \A n \in Msgs :
           /\ ops'[n].phase = ops[n].phase /\ ops'[n].stage = ops[n].stage
           /\ ops'[n].qos = ops[n].qos /\ ops'[n].pid = ops[n].pid
           /\ ops'[n].serial = ops[n].serial /\ ops'[n].res = ops[n].res
  BY <1>1, <1>2 DEF OpSet
<1>4. Onward(ops, ops')
  BY <1>3 DEF Onward
<1>5. SerialsGrow'
  BY <1>1, <1>4, SerialsKept DEF Basic
<1>6. Requests(ops', queue', batch')
  <2>1. Requests(ops', queue, batch)
    BY <1>3, RequestsOps, SMT DEF Basic
  <2> QED
    BY <1>1, <2>1
<1>7. QosFits(ops')
  BY <1>3, SMT DEF Basic, QosFits
<1>8. NetTypeOK' /\ SenderTypeOK'
  BY <1>1 DEF Basic, FlowTypeOK, NetTypeOK, SenderTypeOK
<1> QED
  BY <1>3, <1>4, <1>5, <1>6, <1>7, <1>8 DEF Basic, FlowTypeOK

\* The requests of the write and of the queue carry operations that send.
LEMMA OpsOfFacts ==
    ASSUME NEW o, NEW q, NEW b, Requests(o, q, b)
    PROVE  /\ \A m \in OpsOf(q) : m \in Msgs /\ o[m].phase = "sending"
           /\ \A m \in OpsOf(b) : m \in Msgs /\ o[m].phase = "sending"
           /\ \A m \in Msgs : o[m].phase = "sending" => m \in OpsOf(q) \/ m \in OpsOf(b)
           /\ OpsOf(q) \cap OpsOf(b) = {}
<1>1. ASSUME NEW r, ReqOK(r, o), r.op # Disc
      PROVE  r.op \in Msgs /\ o[r.op].phase = "sending"
  BY <1>1, SMT DEF ReqOK, DisconnectReq
<1>2. \A m \in Msgs : m # Disc
  BY SMT DEF Msgs, Disc
<1>3. ASSUME NEW m \in OpsOf(q) PROVE m \in Msgs /\ o[m].phase = "sending"
  <2>1. PICK i \in DOMAIN q : q[i].op = m /\ m # Disc
    BY <1>3 DEF OpsOf
  <2> QED
    BY <1>1, <2>1 DEF Requests
<1>4. ASSUME NEW m \in OpsOf(b) PROVE m \in Msgs /\ o[m].phase = "sending"
  <2>1. PICK i \in DOMAIN b : b[i].op = m /\ m # Disc
    BY <1>4 DEF OpsOf
  <2> QED
    BY <1>1, <2>1 DEF Requests
<1>5. ASSUME NEW m \in Msgs, o[m].phase = "sending" PROVE m \in OpsOf(q) \/ m \in OpsOf(b)
  BY <1>2, <1>5, SMT DEF Requests, OpsOf
<1>6. OpsOf(q) \cap OpsOf(b) = {}
  BY SMT DEF Requests, OpsOf
<1> QED
  BY <1>3, <1>4, <1>5, <1>6

\* client_service::cancel keeps Basic: the operations of the queue are posted.
LEMMA CloseBasic ==
    ASSUME Laws, Basic, Cancel \/ NoRecovery
    PROVE  Basic' /\ Onward(ops, ops') /\ ~open' /\ wire' = wire /\ recvMax' = recvMax
<1> DEFINE done == IF Cancel THEN {} ELSE OpsOf(batch)
<1>1. CloseClient(done)
  BY DEF Cancel, NoRecovery
<1>2. \/ UNCHANGED <<batch, sent, wgen, quota>> /\ done = {}
      \/ /\ batch' = <<>> /\ sent' = 0 /\ wgen' = 0 /\ done = OpsOf(batch)
         /\ quota' = Returned(limit, quota,
                              Cardinality({m \in OpsOf(batch) : ops[m].qos # 0}))
  BY DEF Cancel, NoRecovery
<1>3. /\ \A m \in OpsOf(queue) : m \in Msgs /\ ops[m].phase = "sending"
      /\ \A m \in OpsOf(batch) : m \in Msgs /\ ops[m].phase = "sending"
      /\ \A m \in Msgs : ops[m].phase = "sending" => m \in OpsOf(queue) \/ m \in OpsOf(batch)
      /\ OpsOf(queue) \cap OpsOf(batch) = {}
  BY OpsOfFacts DEF Basic
<1>4. ops \in [Msgs -> OpSet]
  BY DEF Basic, FlowTypeOK
<1>5. \A m \in Msgs :
        ops'[m] = IF m \in done THEN [ops[m] EXCEPT !.phase = "done", !.res = "no_recovery"]
                  ELSE IF m \in Waiting \cup OpsOf(queue)
                  THEN [ops[m] EXCEPT !.phase = "posted", !.res = "aborted"]
                  ELSE ops[m]
  BY <1>1 DEF CloseClient, Outstanding
<1>6. \A m \in done : m \in Msgs /\ ops[m].phase = "sending"
  BY <1>2, <1>3
<1> HIDE DEF done
<1>7. /\ ops' \in [Msgs -> OpSet]
      /\ \A m \in Msgs :
            /\ ops'[m].qos = ops[m].qos /\ ops'[m].pid = ops[m].pid
            /\ ops'[m].serial = ops[m].serial /\ ops'[m].stage = ops[m].stage
            /\ m \in done => ops'[m].phase = "done"
            /\ m \notin done /\ m \in Waiting \cup OpsOf(queue)
                  => ops'[m].phase = "posted" /\ ops'[m].res = "aborted"
            /\ m \notin done /\ m \notin Waiting \cup OpsOf(queue) => ops'[m] = ops[m]
  <2>1. ops' = [m \in Msgs |-> ops'[m]]
    BY <1>1 DEF CloseClient
  <2>2. ASSUME NEW m \in Msgs
        PROVE  /\ ops'[m] \in OpSet
               /\ ops'[m].qos = ops[m].qos /\ ops'[m].pid = ops[m].pid
               /\ ops'[m].serial = ops[m].serial /\ ops'[m].stage = ops[m].stage
               /\ m \in done => ops'[m].phase = "done"
               /\ m \notin done /\ m \in Waiting \cup OpsOf(queue)
                     => ops'[m].phase = "posted" /\ ops'[m].res = "aborted"
               /\ m \notin done /\ m \notin Waiting \cup OpsOf(queue) => ops'[m] = ops[m]
    <3>1. ops[m] \in OpSet
      BY <1>4
    <3>2. CASE m \in done
      <4>1. ops'[m] = [ops[m] EXCEPT !.phase = "done", !.res = "no_recovery"]
        BY <1>5, <3>2
      <4> QED
        BY <3>1, <3>2, <4>1 DEF OpSet, Phases, Outcomes
    <3>3. CASE m \notin done /\ m \in Waiting \cup OpsOf(queue)
      <4>1. ops'[m] = [ops[m] EXCEPT !.phase = "posted", !.res = "aborted"]
        BY <1>5, <3>3
      <4> QED
        BY <3>1, <3>3, <4>1 DEF OpSet, Phases, Outcomes
    <3>4. CASE m \notin done /\ m \notin Waiting \cup OpsOf(queue)
      BY <1>5, <3>1, <3>4
    <3> QED
      BY <3>2, <3>3, <3>4
  <2> QED
    BY <2>1, <2>2
<1>8. Onward(ops, ops')
  BY <1>3, <1>6, <1>7 DEF Onward, Waiting
<1>9. SerialsGrow'
  BY <1>1, <1>8, SerialsKept DEF Basic, CloseClient
<1>10. QosFits(ops')
  BY <1>7, <1>8, SMT DEF Basic, QosFits, Waiting, Onward
<1>11. /\ queue' = <<>> /\ open' = FALSE /\ conn' = "shut"
       /\ UNCHANGED <<rgen, limit, lastSerial, fast, gen, recvMax, c2b, b2c, session,
                      delivered, wire>>
  BY <1>1 DEF CloseClient, broker
<1>12. NetTypeOK'
  BY <1>11 DEF Basic, FlowTypeOK, NetTypeOK
<1>13. SenderTypeOK'
  <2>1. Cardinality({m \in OpsOf(batch) : ops[m].qos # 0}) \in Nat
    <3> DEFINE A == {m \in OpsOf(batch) : ops[m].qos # 0}
    <3>1. A \in SUBSET Msgs /\ IsFiniteSet(Msgs)
      BY <1>3, PublishFlowAssumption DEF Laws, IntervalLaw, Msgs
    <3> HIDE DEF A
    <3>2. Cardinality(A) \in Nat
      BY <3>1 DEF Laws, SubsetLaw
    <3> QED
      BY <3>2 DEF A
  <2>2. CASE UNCHANGED <<batch, sent, wgen, quota>>
    BY <1>11, <2>2, SMT DEF Basic, FlowTypeOK, SenderTypeOK
  <2>3. CASE /\ batch' = <<>> /\ sent' = 0 /\ wgen' = 0
             /\ quota' = Returned(limit, quota,
                              Cardinality({m \in OpsOf(batch) : ops[m].qos # 0}))
    <3>1. quota \in Int /\ gen \in Nat /\ fast \in Seq(ReplySet)
      BY DEF Basic, FlowTypeOK, SenderTypeOK, NetTypeOK
    <3>2. quota' \in Int
      BY <2>1, <2>3, <3>1, SMT DEF Returned
    <3> QED
      BY <1>11, <2>3, <3>1, <3>2, SMT DEF SenderTypeOK
  <2> QED
    BY <1>2, <2>2, <2>3
<1>14. Requests(ops', <<>>, batch')
  <2>1. \A m \in Msgs : ops'[m].phase = "sending" =>
           /\ m \in OpsOf(batch) /\ ops'[m] = ops[m] /\ m \notin done
    BY <1>3, <1>7
  <2>2. CASE batch' = batch /\ done = {}
    <3>1. \A i \in DOMAIN batch : ReqOK(batch[i], ops')
      <4>1. ASSUME NEW i \in DOMAIN batch PROVE ReqOK(batch[i], ops')
        <5>1. ReqOK(batch[i], ops)
          BY DEF Basic, Requests
        <5>2. CASE batch[i] = DisconnectReq
          BY <5>2 DEF ReqOK
        <5>3. CASE batch[i].op # Disc
          <6>1. batch[i].op \in OpsOf(batch) /\ batch[i].op \in Msgs
                /\ ops[batch[i].op].phase = "sending"
            BY <1>3, <5>3 DEF OpsOf
          <6>2. ops'[batch[i].op] = ops[batch[i].op]
            BY <1>3, <1>7, <2>2, <6>1 DEF Waiting
          <6> QED
            BY <5>1, <6>2 DEF ReqOK
        <5> QED
          BY <5>1, <5>2, <5>3, SMT DEF ReqOK, Msgs, Disc
      <4> QED
        BY <4>1
    <3>2. \A m \in Msgs : ops'[m].phase = "sending" => \E i \in DOMAIN batch : batch[i].op = m
      BY <2>1 DEF OpsOf
    <3> QED
      BY <2>2, <3>1, <3>2, SMT DEF Basic, Requests
  <2>3. CASE batch' = <<>> /\ done = OpsOf(batch)
    <3>1. DOMAIN batch' = {} /\ DOMAIN queue' = {}
      BY <1>11, <2>3, SMT
    <3> QED
      BY <2>1, <2>3, <3>1 DEF Requests
  <2> QED
    BY <1>2, <2>2, <2>3
<1> QED
  BY <1>7, <1>8, <1>9, <1>10, <1>11, <1>12, <1>13, <1>14 DEF Basic, FlowTypeOK

\* A packet that the kernel takes is the one of an operation that is sending, or
\* a DISCONNECT.
LEMMA WriteSomeBasic ==
    ASSUME Basic, WriteSome
    PROVE  /\ Basic' /\ Onward(ops, ops')
           /\ sent + 1 \in 1..Len(batch)
           /\ batch[sent + 1].op # Disc =>
                 /\ batch[sent + 1].op \in Msgs /\ ops[batch[sent + 1].op].phase = "sending"
                 /\ wire' = Append(wire, Packet(ops, batch[sent + 1].op))
           /\ batch[sent + 1].op = Disc =>
                 wire' = Append(wire, [type |-> "DISCONNECT", msg |-> Disc])
<1> DEFINE m == batch[sent + 1].op
<1>1. /\ ops \in [Msgs -> OpSet] /\ batch \in Seq(ReqSet) /\ sent \in 0..Len(batch)
      /\ sent < Len(batch) /\ sent' = sent + 1
      /\ UNCHANGED <<ops, queue, batch, wgen, rgen, limit, quota, lastSerial, fast,
                     open, gen, conn, recvMax, b2c, session, delivered>>
  BY DEF Basic, FlowTypeOK, SenderTypeOK, WriteSome, broker
<1>2. sent + 1 \in 1..Len(batch) /\ sent' \in 0..Len(batch) /\ sent + 1 \in DOMAIN batch
  <2>1. /\ batch \in Seq(ReqSet) /\ sent \in 0..Len(batch)
        /\ sent < Len(batch) /\ sent' = sent + 1
    BY <1>1
  <2> QED
    BY <2>1, SMT
<1>3. m \in 0..N /\ (m # Disc => m \in Msgs /\ ops[m].phase = "sending")
  <2>1. ReqOK(batch[sent + 1], ops) /\ batch[sent + 1] \in ReqSet
    BY <1>1, <1>2, SMT DEF Basic, Requests
  <2> QED
    BY <2>1, SMT DEF ReqOK, DisconnectReq, ReqSet
<1>4. PICK pkt : /\ pkt = IF m = Disc
                          THEN [type |-> "DISCONNECT", msg |-> Disc, qos |-> 0, pid |-> 0,
                                dup |-> FALSE]
                          ELSE [type |-> IF ops[m].stage = "pubrel" THEN "PUBREL"
                                         ELSE "PUBLISH",
                                msg |-> m, qos |-> ops[m].qos, pid |-> ops[m].pid,
                                dup |-> ops[m].dup]
                 /\ c2b' = IF conn = "up" THEN Append(c2b, pkt) ELSE c2b
                 /\ wire' = Append(wire, [type |-> pkt.type, msg |-> m])
  BY DEF WriteSome
<1> HIDE DEF m
<1>5. /\ pkt \in PacketSet /\ (pkt.type # "DISCONNECT" => pkt.msg \in Msgs)
      /\ m # Disc => pkt.type = IF ops[m].stage = "pubrel" THEN "PUBREL" ELSE "PUBLISH"
      /\ m = Disc => pkt.type = "DISCONNECT"
  <2>1. CASE m = Disc
    <3>1. pkt = [type |-> "DISCONNECT", msg |-> Disc, qos |-> 0, pid |-> 0, dup |-> FALSE]
      BY <1>4, <2>1
    <3> QED
      BY <2>1, <3>1, PublishFlowAssumption, SMT DEF PacketSet, Disc
  <2>2. CASE m # Disc
    <3>1. pkt = [type |-> IF ops[m].stage = "pubrel" THEN "PUBREL" ELSE "PUBLISH",
                 msg |-> m, qos |-> ops[m].qos, pid |-> ops[m].pid, dup |-> ops[m].dup]
      BY <1>4, <2>2
    <3>2. m \in Msgs /\ ops[m] \in OpSet
      BY <1>1, <1>3, <2>2
    <3> QED
      BY <1>3, <2>2, <3>1, <3>2 DEF PacketSet, OpSet
  <2> QED
    BY <2>1, <2>2
<1>6. NetTypeOK'
  <2>1. c2b \in Seq(PacketSet) /\ wire \in Seq(WireSet)
        /\ \A i \in DOMAIN c2b : c2b[i].type # "DISCONNECT" => c2b[i].msg \in Msgs
    BY DEF Basic, FlowTypeOK, NetTypeOK
  <2>2. c2b' \in Seq(PacketSet)
        /\ \A i \in DOMAIN c2b' : c2b'[i].type # "DISCONNECT" => c2b'[i].msg \in Msgs
    BY <1>4, <1>5, <2>1, SMT
  <2>3. [type |-> pkt.type, msg |-> m] \in WireSet
    BY <1>3, <1>5 DEF WireSet, PacketSet
  <2>4. wire' \in Seq(WireSet)
    BY <1>4, <2>1, <2>3, SMT
  <2> QED
    BY <1>1, <2>2, <2>4 DEF Basic, FlowTypeOK, NetTypeOK
<1>7. SenderTypeOK'
  BY <1>1, <1>2 DEF Basic, FlowTypeOK, SenderTypeOK
<1>8. Requests(ops', queue', batch') /\ QosFits(ops') /\ SerialsGrow' /\ Onward(ops, ops')
  BY <1>1 DEF Basic, Onward, SerialsGrow, Live
<1>9. m # Disc => wire' = Append(wire, Packet(ops, m))
  BY <1>4, <1>5 DEF Packet
<1>10. m = Disc => wire' = Append(wire, [type |-> "DISCONNECT", msg |-> Disc])
  BY <1>4, <1>5
<1> QED
  BY <1>1, <1>2, <1>3, <1>6, <1>7, <1>8, <1>9, <1>10 DEF Basic, FlowTypeOK, m

\* A completed write: QoS 0 is done, the others wait or have their reply posted,
\* and do_write goes on with the queue.
LEMMA WriteDoneBasic ==
    ASSUME Laws, Basic, WriteDone
    PROVE  /\ Basic' /\ Onward(ops, ops')
           /\ \A m \in Msgs :
                 /\ ops'[m].stage = ops[m].stage /\ ops'[m].cancelled = ops[m].cancelled
                 /\ m \notin OpsOf(batch) => ops'[m] = ops[m]
                 /\ m \in OpsOf(batch) /\ ops[m].qos = 0 => ops'[m].phase = "done"
                 /\ m \in OpsOf(batch) /\ ops[m].qos # 0
                       => ops'[m].phase \in {"waiting", "posted"}
           /\ Requests(ops', queue, <<>>)
           /\ \E f \in Seq(ReplySet) : DoWrite(TRUE, <<>>, queue, quota, f)
<1> DEFINE written == OpsOf(batch)
           Hits(m) == {i \in DOMAIN fast : Answers(fast[i], ops[m])}
           First(m) == CHOOSE i \in Hits(m) : \A j \in Hits(m) : i <= j
           used == {First(m) : m \in {n \in written : ops[n].qos # 0 /\ Hits(n) # {}}}
           After(m) ==
               IF ops[m].qos = 0
               THEN [ops[m] EXCEPT !.phase = "done", !.res = "ok"]
               ELSE IF Hits(m) = {}
               THEN [ops[m] EXCEPT !.phase = "waiting"]
               ELSE [ops[m] EXCEPT !.phase = "posted", !.res = fast[First(m)].res]
           left == At(fast, DOMAIN fast \ used)
<1>1. /\ ops' = [m \in Msgs |-> IF m \in written THEN After(m) ELSE ops[m]]
      /\ DoWrite(TRUE, <<>>, queue, quota, left)
      /\ conn' \in {conn, "shut"}
      /\ UNCHANGED <<limit, gen, rgen, lastSerial, open, recvMax, c2b, b2c, session,
                     delivered, wire>>
  BY DEF WriteDone, broker
<1>2. /\ ops \in [Msgs -> OpSet] /\ fast \in Seq(ReplySet) /\ queue \in Seq(ReqSet)
      /\ quota \in Int /\ gen \in Nat
  BY DEF Basic, FlowTypeOK, SenderTypeOK, NetTypeOK
<1>3. /\ \A m \in written : m \in Msgs /\ ops[m].phase = "sending"
      /\ Requests(ops, queue, batch)
  BY OpsOfFacts DEF Basic
<1>4. left \in Seq(ReplySet)
  <2> DEFINE I == DOMAIN fast \ used
  <2>1. I \in SUBSET DOMAIN fast
    OBVIOUS
  <2> HIDE DEF I
  <2>2. At(fast, I) \in Seq(ReplySet)
    BY <1>2, <2>1 DEF Laws, AtLaw
  <2> QED
    BY <2>2 DEF I
<1>5. ASSUME NEW m \in Msgs, Hits(m) # {}
      PROVE  fast[First(m)].res \in {"ok", "error", "malformed"}
  <2>1. DOMAIN fast = 1..Len(fast)
    BY <1>2, SMT
  <2>2. Hits(m) \in SUBSET Nat
    BY <2>1, SMT
  <2>3. \E i \in Hits(m) : \A j \in Hits(m) : i <= j
    BY <1>5, <2>2 DEF Laws, LeastLaw
  <2>4. First(m) \in Hits(m)
    BY <2>3
  <2>5. First(m) \in DOMAIN fast
    BY <2>4
  <2> HIDE DEF First
  <2>6. fast[First(m)] \in ReplySet
    BY <1>2, <2>1, <2>5, SMT
  <2> QED
    BY <2>6 DEF ReplySet
<1> HIDE DEF left, First, Hits
<1>6. ASSUME NEW m \in Msgs
      PROVE  /\ After(m) \in OpSet /\ After(m).stage = ops[m].stage
             /\ After(m).cancelled = ops[m].cancelled /\ After(m).qos = ops[m].qos
             /\ After(m).pid = ops[m].pid /\ After(m).serial = ops[m].serial
             /\ ops[m].qos = 0 => After(m).phase = "done"
             /\ ops[m].qos # 0 => After(m).phase \in {"waiting", "posted"}
  <2>1. ops[m] \in OpSet
    BY <1>2
  <2>2. CASE ops[m].qos = 0
    <3>1. After(m) = [ops[m] EXCEPT !.phase = "done", !.res = "ok"]
      BY <2>2
    <3> HIDE DEF After
    <3> QED
      BY <2>1, <2>2, <3>1 DEF OpSet, Phases, Outcomes
  <2>3. CASE ops[m].qos # 0 /\ Hits(m) = {}
    <3>1. After(m) = [ops[m] EXCEPT !.phase = "waiting"]
      BY <2>3
    <3> HIDE DEF After
    <3> QED
      BY <2>1, <2>3, <3>1 DEF OpSet, Phases
  <2>4. CASE ops[m].qos # 0 /\ Hits(m) # {}
    <3>1. After(m) = [ops[m] EXCEPT !.phase = "posted", !.res = fast[First(m)].res]
      BY <2>4
    <3>2. fast[First(m)].res \in Outcomes
      BY <1>5, <2>4 DEF Outcomes
    <3> HIDE DEF After
    <3> QED
      BY <2>1, <2>4, <3>1, <3>2 DEF OpSet, Phases
  <2> QED
    BY <2>2, <2>3, <2>4
<1> HIDE DEF After
<1>7. \A m \in Msgs : ops'[m] = IF m \in written THEN After(m) ELSE ops[m]
  BY <1>1
<1>8. ops' \in [Msgs -> OpSet]
  BY <1>1, <1>2, <1>6
<1>9. \A m \in Msgs :
         /\ ops'[m].stage = ops[m].stage /\ ops'[m].cancelled = ops[m].cancelled
         /\ ops'[m].qos = ops[m].qos /\ ops'[m].pid = ops[m].pid
         /\ ops'[m].serial = ops[m].serial
         /\ m \notin written => ops'[m] = ops[m]
         /\ m \in written /\ ops[m].qos = 0 => ops'[m].phase = "done"
         /\ m \in written /\ ops[m].qos # 0 => ops'[m].phase \in {"waiting", "posted"}
  BY <1>6, <1>7, SMT
<1> HIDE DEF written
<1>10. Onward(ops, ops')
  BY <1>3, <1>9 DEF Onward
<1>11. QosFits(ops')
  BY <1>3, <1>9, SMT DEF Basic, QosFits
<1>12. SerialsGrow'
  BY <1>1, <1>10, SerialsKept DEF Basic
<1>13. Requests(ops', queue, <<>>)
  <2>1. \A n \in Msgs : IF n \in OpsOf(batch) THEN ops'[n].phase # "sending"
                        ELSE ops'[n] = ops[n]
    BY <1>9 DEF written
  <2> QED
    BY <1>3, <2>1, RequestsWritten
<1>14. NetTypeOK'
  BY <1>1 DEF Basic, FlowTypeOK, NetTypeOK
<1>15. Basic'
  <2>1. DoWrite(TRUE, <<>>, queue, quota, left)
    BY <1>1
  <2> QED
    BY <1>2, <1>4, <1>8, <1>11, <1>12, <1>13, <1>14, <2>1, WorkBasic
<1>16. \E f \in Seq(ReplySet) : DoWrite(TRUE, <<>>, queue, quota, f)
  BY <1>1, <1>4
<1> QED
  BY <1>9, <1>10, <1>13, <1>15, <1>16 DEF written

\* A write that ends with operation_aborted completes its operations.
LEMMA WriteAbortedBasic ==
    ASSUME Laws, Basic, WriteAborted
    PROVE  Basic' /\ Onward(ops, ops')
<1> DEFINE written == OpsOf(batch)
           acked == {m \in written : ops[m].qos # 0}
           called == limit # MAX_LIMIT /\ acked # {}
           k == Returned(limit, quota, Cardinality(acked))
<1>1. /\ ops' = [m \in Msgs |-> IF m \in written
                                THEN [ops[m] EXCEPT !.phase = "done", !.res = "aborted"]
                                ELSE ops[m]]
      /\ DoWrite(called, <<>>, queue, k, fast)
      /\ UNCHANGED <<limit, gen, rgen, lastSerial, open, conn, recvMax, c2b, b2c, session,
                     delivered, wire>>
  BY DEF WriteAborted, broker
<1>2. /\ ops \in [Msgs -> OpSet] /\ fast \in Seq(ReplySet) /\ queue \in Seq(ReqSet)
      /\ quota \in Int /\ gen \in Nat
  BY DEF Basic, FlowTypeOK, SenderTypeOK, NetTypeOK
<1>3. /\ \A m \in written : m \in Msgs /\ ops[m].phase = "sending"
      /\ Requests(ops, queue, batch)
  BY OpsOfFacts DEF Basic
<1>4. Cardinality(acked) \in Nat
  <2>1. acked \in SUBSET Msgs /\ IsFiniteSet(Msgs)
    BY <1>3, PublishFlowAssumption DEF Laws, IntervalLaw, Msgs
  <2> HIDE DEF acked
  <2> QED
    BY <2>1 DEF Laws, SubsetLaw
<1>5. k \in Int /\ called \in BOOLEAN
  <2> HIDE DEF acked
  <2> QED
    BY <1>2, <1>4, SMT DEF Returned
<1> HIDE DEF k, called, acked, written
<1>6. ASSUME NEW m \in Msgs
      PROVE  /\ ops'[m] \in OpSet /\ ops'[m].stage = ops[m].stage
             /\ ops'[m].qos = ops[m].qos /\ ops'[m].pid = ops[m].pid
             /\ ops'[m].serial = ops[m].serial
             /\ m \notin written => ops'[m] = ops[m]
             /\ m \in written => ops'[m].phase = "done"
  <2>1. ops[m] \in OpSet
    BY <1>2
  <2>2. CASE m \in written
    <3>1. ops'[m] = [ops[m] EXCEPT !.phase = "done", !.res = "aborted"]
      BY <1>1, <2>2
    <3> QED
      BY <2>1, <2>2, <3>1 DEF OpSet, Phases, Outcomes
  <2>3. CASE m \notin written
    BY <1>1, <2>1, <2>3
  <2> QED
    BY <2>2, <2>3
<1>7. ops' \in [Msgs -> OpSet]
  BY <1>1, <1>6
<1>8. Onward(ops, ops')
  BY <1>3, <1>6 DEF Onward
<1>9. QosFits(ops')
  BY <1>3, <1>6, SMT DEF Basic, QosFits
<1>10. SerialsGrow'
  BY <1>1, <1>8, SerialsKept DEF Basic
<1>11. Requests(ops', queue, <<>>)
  <2>1. \A n \in Msgs : IF n \in OpsOf(batch) THEN ops'[n].phase # "sending"
                        ELSE ops'[n] = ops[n]
    BY <1>6 DEF written
  <2> QED
    BY <1>3, <2>1, RequestsWritten
<1>12. NetTypeOK'
  BY <1>1 DEF Basic, FlowTypeOK, NetTypeOK
<1>13. Basic'
  <2>1. DoWrite(called, <<>>, queue, k, fast)
    BY <1>1
  <2> QED
    BY <1>2, <1>5, <1>7, <1>9, <1>10, <1>11, <1>12, <2>1, WorkBasic
<1> QED
  BY <1>8, <1>13

\* A posted completion is an outcome that its operation can handle.
LEMMA RunPostedBasic ==
    ASSUME Laws, Basic, NEW m \in Msgs, RunPosted(m)
    PROVE  /\ Basic' /\ Onward(ops, ops')
           /\ ops[m].res \in Outcomes /\ (ops[m].res = "aborted" \/ ops[m].qos # 0)
<1>1. ops[m].phase = "posted" /\ OnReply(m, ops[m].res)
      /\ UNCHANGED <<limit, gen, rgen, lastSerial, open, conn, recvMax, c2b, b2c, session,
                     delivered, wire>>
  BY DEF RunPosted, broker
<1>2. ops[m].res \in Outcomes /\ (ops[m].res = "aborted" \/ ops[m].qos # 0)
  BY <1>1 DEF Basic, FlowTypeOK, OpSet, QosFits
<1>3. NetTypeOK'
  BY <1>1 DEF Basic, FlowTypeOK, NetTypeOK
<1> QED
  BY <1>1, <1>2, <1>3, ReplyBasic

\* A reply is kept as a fast reply or handled by the operation that waits for it.
LEMMA ReadReplyBasic ==
    ASSUME Laws, Basic, ReadReply
    PROVE  /\ Basic' /\ Onward(ops, ops')
           /\ \/ UNCHANGED <<ops, queue, batch, sent, wgen, quota>>
              \/ \E m \in Msgs : /\ ops[m].phase = "waiting" /\ ops[m].qos # 0
                                 /\ Head(b2c).res \in Outcomes
                                 /\ OnReply(m, Head(b2c).res)
<1>1. /\ b2c # <<>> /\ b2c' = Tail(b2c)
      /\ UNCHANGED <<limit, gen, rgen, lastSerial, open, conn, recvMax, c2b, session,
                     delivered, wire>>
      /\ \/ /\ fast' = Append(fast, Head(b2c))
            /\ UNCHANGED <<ops, queue, batch, sent, wgen, quota>>
         \/ \E m \in Msgs : ops[m].phase = "waiting" /\ OnReply(m, Head(b2c).res)
  BY DEF ReadReply, broker
<1>2. b2c \in Seq(ReplySet) /\ fast \in Seq(ReplySet)
  BY DEF Basic, FlowTypeOK, NetTypeOK, SenderTypeOK
<1>3. Head(b2c) \in ReplySet /\ Tail(b2c) \in Seq(ReplySet)
  BY <1>1, <1>2, SMT
<1>4. NetTypeOK'
  BY <1>1, <1>3 DEF Basic, FlowTypeOK, NetTypeOK
<1>5. Head(b2c).res \in Outcomes
  BY <1>3 DEF ReplySet, Outcomes
<1>6. CASE /\ fast' = Append(fast, Head(b2c))
           /\ UNCHANGED <<ops, queue, batch, sent, wgen, quota>>
  <2>1. SenderTypeOK'
    BY <1>1, <1>2, <1>3, <1>6, SMT DEF Basic, FlowTypeOK, SenderTypeOK
  <2>2. Onward(ops, ops')
    BY <1>6 DEF Onward
  <2>3. SerialsGrow'
    BY <1>1, <2>2, SerialsKept DEF Basic
  <2> QED
    BY <1>4, <1>6, <2>1, <2>2, <2>3 DEF Basic, FlowTypeOK
<1>7. CASE \E m \in Msgs : ops[m].phase = "waiting" /\ OnReply(m, Head(b2c).res)
  <2>1. PICK m \in Msgs : ops[m].phase = "waiting" /\ OnReply(m, Head(b2c).res)
    BY <1>7
  <2>2. ops[m].qos # 0
    BY <2>1 DEF Basic, QosFits
  <2>3. Basic' /\ Onward(ops, ops')
    BY <1>1, <1>4, <1>5, <2>1, <2>2, ReplyBasic
  <2> QED
    BY <1>5, <2>1, <2>2, <2>3
<1> QED
  BY <1>1, <1>6, <1>7

\* The DISCONNECT of sentry_op adds no request of an operation.
LEMMA SentryBasic ==
    ASSUME Laws, Basic, Sentry
    PROVE  Basic' /\ Onward(ops, ops')
<1> DEFINE q == Append(queue, DisconnectReq)
<1>1. /\ DoWrite(TRUE, batch, q, quota, fast)
      /\ UNCHANGED <<ops, limit, gen, rgen, lastSerial, open, conn, recvMax, c2b, b2c,
                     session, delivered, wire>>
  BY DEF Sentry, broker
<1>2. /\ ops' \in [Msgs -> OpSet] /\ fast \in Seq(ReplySet) /\ queue \in Seq(ReqSet)
      /\ quota \in Int /\ gen \in Nat
  BY <1>1 DEF Basic, FlowTypeOK, SenderTypeOK, NetTypeOK
<1>3. q \in Seq(ReqSet) /\ Requests(ops', q, batch)
  <2>1. q \in Seq(ReqSet) /\ Requests(ops, q, batch)
    BY <1>2, RequestsDisconnect DEF Basic
  <2> QED
    BY <1>1, <2>1
<1> HIDE DEF q
<1>4. Onward(ops, ops')
  BY <1>1 DEF Onward
<1>5. SerialsGrow'
  BY <1>1, <1>4, SerialsKept DEF Basic
<1>6. NetTypeOK' /\ QosFits(ops') /\ gen' >= gen
  <2>1. NetTypeOK'
    BY <1>1 DEF Basic, FlowTypeOK, NetTypeOK
  <2>2. QosFits(ops')
    BY <1>1 DEF Basic
  <2>3. gen' >= gen
    BY <1>1, <1>2, SMT
  <2> QED
    BY <2>1, <2>2, <2>3
<1>7. DoWrite(TRUE, batch, q, quota, fast)
  BY <1>1
<1>8. Basic'
  BY <1>2, <1>3, <1>5, <1>6, <1>7, WorkBasic
<1> QED
  BY <1>4, <1>8

\* What resend() makes of the operations.
LEMMA ResendsFacts ==
    ASSUME Laws, Basic, Resends, recvMax' \in 1..MAX_LIMIT
    PROVE  /\ ops' \in [Msgs -> OpSet] /\ Onward(ops, ops')
           /\ \A m \in Msgs :
                 /\ ops'[m].stage = ops[m].stage /\ ops'[m].cancelled = ops[m].cancelled
                 /\ m \in Resent => ops'[m].phase = "sending"
                 /\ m \in Outs \ Resent => ops'[m].phase = "done"
                 /\ m \notin Outs => ops'[m] = ops[m]
           /\ Requests(ops', ResendQueue, <<>>)
           /\ QosFits(ops')
           /\ Cardinality({m \in Outs : Stops(m) /\ ops[m].qos # 0}) \in Nat
<1>1. /\ ops' = [m \in Msgs |-> IF m \in Outs THEN TryAgain(m) ELSE ops[m]]
  BY DEF Resends
<1>2. ops \in [Msgs -> OpSet] /\ Outs \subseteq Msgs /\ Resent \subseteq Outs
  BY DEF Basic, FlowTypeOK, Outs, Resent
<1>3. ASSUME NEW m \in Msgs
      PROVE  /\ ops'[m] \in OpSet
             /\ ops'[m].stage = ops[m].stage /\ ops'[m].cancelled = ops[m].cancelled
             /\ ops'[m].qos = ops[m].qos /\ ops'[m].pid = ops[m].pid
             /\ ops'[m].serial = ops[m].serial
             /\ m \in Resent => ops'[m].phase = "sending"
             /\ m \in Outs \ Resent => ops'[m].phase = "done"
             /\ m \notin Outs => ops'[m] = ops[m]
  <2>1. ops[m] \in OpSet
    BY <1>2
  <2>2. CASE m \in Outs /\ Stops(m)
    <3>1. ops'[m] = [ops[m] EXCEPT !.phase = "done", !.res = "aborted"] /\ m \notin Resent
      BY <1>1, <2>2 DEF TryAgain, Resent
    <3> QED
      BY <2>1, <2>2, <3>1 DEF OpSet, Phases, Outcomes
  <2>3. CASE m \in Outs /\ ~Stops(m)
    <3>1. PICK d \in BOOLEAN : ops'[m] = [ops[m] EXCEPT !.phase = "sending", !.dup = d]
      <4> DEFINE d == ops[m].dup \/ (m \in Waiting /\ ops[m].stage = "publish")
      <4>1. ops'[m] = [ops[m] EXCEPT !.phase = "sending", !.dup = d]
        BY <1>1, <2>3 DEF TryAgain
      <4>2. d \in BOOLEAN
        OBVIOUS
      <4> HIDE DEF d
      <4> QED
        BY <4>1, <4>2
    <3>2. m \in Resent
      BY <2>3 DEF Resent
    <3> QED
      BY <2>1, <2>3, <3>1, <3>2 DEF OpSet, Phases
  <2>4. CASE m \notin Outs
    BY <1>1, <1>2, <2>1, <2>4
  <2> QED
    BY <2>2, <2>3, <2>4
<1>4. ops' \in [Msgs -> OpSet]
  BY <1>1, <1>3
<1>5. Onward(ops, ops')
  BY <1>3 DEF Onward, Outs, Resent
<1>6. QosFits(ops')
  BY <1>3, <1>5, SMT DEF Basic, QosFits, Onward, Outs, Resent
<1>7. Requests(ops', ResendQueue, <<>>)
  <2>1. /\ ResendQueue \in Seq(ReqSet)
        /\ \A m \in Resent : \E i \in DOMAIN ResendQueue : ResendQueue[i] = Req(m)
        /\ \A i \in DOMAIN ResendQueue :
              ResendQueue[i].op \in Resent /\ ResendQueue[i] = Req(ResendQueue[i].op)
        /\ \A i, j \in DOMAIN ResendQueue : ResendQueue[i].op = ResendQueue[j].op => i = j
    BY ResendQueueFacts DEF Basic
  <2>2. ASSUME NEW m \in Resent PROVE ReqOK(Req(m), ops') /\ Req(m).op = m
    <3>1. /\ m \in Msgs /\ ops'[m].phase = "sending" /\ ops'[m].serial = ops[m].serial
          /\ ops'[m].stage = ops[m].stage /\ ops'[m].qos = ops[m].qos
          /\ ops[m].stage \in {"publish", "pubrel"}
      BY <1>2, <1>3 DEF OpSet
    <3>2. CASE ops[m].stage = "pubrel"
      <4>1. ops[m].qos = 2
        BY <3>2 DEF Basic, QosFits, Resent, Outs
      <4>2. ops[m].qos # 0
        BY <4>1, SMT
      <4>3. /\ Req(m).op = m /\ Req(m).serial = ops[m].serial
            /\ Req(m).throttled /\ Req(m).prioritized /\ ~Req(m).terminal
        BY <3>2 DEF Req, PubrelReq
      <4> QED
        BY <3>1, <3>2, <4>2, <4>3 DEF ReqOK
    <3>3. CASE ops[m].stage = "publish"
      BY <3>1, <3>3 DEF Req, PublishReq, ReqOK
    <3> QED
      BY <3>1, <3>2, <3>3
  <2>3. \A i \in DOMAIN ResendQueue : ReqOK(ResendQueue[i], ops')
    BY <2>1, <2>2, SMT
  <2>4. ASSUME NEW m \in Msgs, ops'[m].phase = "sending"
        PROVE  \E i \in DOMAIN ResendQueue : ResendQueue[i].op = m
    <3>1. m \in Resent
      BY <1>3, <2>4 DEF Outs
    <3> QED
      BY <2>1, <2>2, <3>1, SMT
  <2>5. DOMAIN <<>> = {}
    BY SMT
  <2> QED
    BY <2>1, <2>3, <2>4, <2>5 DEF Requests
<1>8. Cardinality({m \in Outs : Stops(m) /\ ops[m].qos # 0}) \in Nat
  <2> DEFINE A == {m \in Outs : Stops(m) /\ ops[m].qos # 0}
  <2>1. A \in SUBSET Msgs
    BY <1>2
  <2>2. IsFiniteSet(Msgs)
    BY PublishFlowAssumption DEF Laws, IntervalLaw, Msgs
  <2> HIDE DEF A
  <2>3. Cardinality(A) \in Nat
    BY <2>1, <2>2 DEF Laws, SubsetLaw
  <2> QED
    BY <2>3 DEF A
<1> QED
  BY <1>3, <1>4, <1>5, <1>6, <1>7, <1>8

\* resend() keeps Basic.
LEMMA ResendsBasic ==
    ASSUME Laws, Basic, Resends, recvMax' \in 1..MAX_LIMIT, NetTypeOK', lastSerial' = lastSerial
    PROVE  Basic' /\ Onward(ops, ops')
<1> DEFINE k == Returned(limit', limit', Cardinality({m \in Outs : Stops(m) /\ ops[m].qos # 0}))
<1>1. /\ ops' \in [Msgs -> OpSet] /\ Onward(ops, ops') /\ QosFits(ops')
      /\ Requests(ops', ResendQueue, <<>>)
      /\ Cardinality({m \in Outs : Stops(m) /\ ops[m].qos # 0}) \in Nat
  BY ResendsFacts
<1>2. limit' = recvMax' /\ DoWrite(TRUE, <<>>, ResendQueue, k, fast)
  BY DEF Resends
<1>3. k \in Int
  BY <1>1, <1>2, LimitAssumption, SMT DEF Returned
<1>4. ResendQueue \in Seq(ReqSet) /\ fast \in Seq(ReplySet)
  BY ResendQueueFacts DEF Basic, FlowTypeOK, SenderTypeOK
<1>5. SerialsGrow'
  BY <1>1, SerialsKept DEF Basic
<1> HIDE DEF k
<1>6. Basic'
  BY <1>1, <1>2, <1>3, <1>4, <1>5, WorkBasic
<1> QED
  BY <1>1, <1>6

\* A step of the sender on its own variables, those of the network and the broker
\* changing only within their types.
LEMMA QuietBasic ==
    ASSUME Basic, NetTypeOK', gen' >= gen, lastSerial' = lastSerial,
           UNCHANGED <<ops, queue, batch, sent, wgen, quota, fast>>
    PROVE  Basic' /\ Onward(ops, ops')
<1>1. Onward(ops, ops')
  BY DEF Onward
<1>2. SerialsGrow'
  BY <1>1, SerialsKept DEF Basic
<1>3. SenderTypeOK'
  BY SMT DEF Basic, FlowTypeOK, SenderTypeOK, NetTypeOK
<1> QED
  BY <1>1, <1>2, <1>3 DEF Basic, FlowTypeOK

\* The four ways to learn of a new connection: what happens to the connection,
\* and whether resend() runs or a write in progress prevents it.
LEMMA ReconnectShape ==
    ASSUME Basic, Reconnect
    PROVE  /\ NetTypeOK' /\ lastSerial' = lastSerial /\ open /\ open' /\ gen' >= gen
           /\ gen' = gen => UNCHANGED <<conn, recvMax, wire, c2b, b2c, session>>
           /\ gen' # gen => /\ gen' = gen + 1 /\ conn' = "up" /\ wire' = <<>>
                            /\ c2b' = <<>> /\ b2c' = <<>>
                            /\ \A m \in Msgs : ops[m].phase # "posted"
                            /\ batch # <<>> => sent < Len(batch)
           /\ delivered' = delivered
           /\ session' = session \/ ("session_lost" \in Faults /\ session' = {})
           /\ \/ /\ Resends /\ rgen' = rgen /\ sent < Len(batch)
                 /\ IF gen' = gen THEN wgen < gen ELSE wgen = gen
              \/ /\ Resends /\ rgen' = gen' /\ batch = <<>>
                 /\ gen' = gen => rgen < gen
              \/ /\ rgen' = gen' /\ batch # <<>>
                 /\ UNCHANGED <<ops, queue, batch, sent, wgen, limit, quota, fast>>
                 /\ gen' = gen => rgen < gen
<1>1. /\ gen \in Nat /\ rgen \in 0..gen /\ limit \in 1..MAX_LIMIT /\ recvMax \in 1..MAX_LIMIT
      /\ lastSerial \in 0..(SerialMod - 1)
  BY DEF Basic, FlowTypeOK, NetTypeOK
<1>2. Resend(batch \o queue) \/ (batch = <<>> /\ Resend(queue)) => Resends
  BY ResendAll DEF Basic
<1>3. CASE WriterFails
  <2>1. /\ open /\ sent < Len(batch) /\ wgen < gen /\ Resends
        /\ UNCHANGED <<gen, conn, recvMax, c2b, b2c, lastSerial, open, session, delivered,
                       wire, rgen>>
    BY <1>2, <1>3 DEF WriterFails, WriterTryAgain, network, broker
  <2>2. limit' \in 1..MAX_LIMIT
    BY <1>1, <2>1 DEF Resends
  <2>3. NetTypeOK'
    BY <2>1, <2>2 DEF Basic, FlowTypeOK, NetTypeOK
  <2> QED
    BY <1>1, <2>1, <2>3, SMT
<1>4. CASE ReaderFails
  <2>1. /\ open /\ rgen < gen /\ rgen' = gen'
        /\ UNCHANGED <<gen, conn, recvMax, c2b, b2c, lastSerial, open, session, delivered,
                       wire>>
        /\ \/ batch = <<>> /\ Resends
           \/ batch # <<>> /\ UNCHANGED <<ops, queue, batch, sent, wgen, limit, quota, fast>>
    BY <1>2, <1>4 DEF ReaderFails, ReaderTryAgain, network, broker
  <2>2. limit' \in 1..MAX_LIMIT
    BY <1>1, <2>1 DEF Resends
  <2>3. NetTypeOK'
    BY <1>1, <2>1, <2>2, SMT DEF Basic, FlowTypeOK, NetTypeOK
  <2> QED
    BY <1>1, <2>1, <2>3, SMT
<1>5. ASSUME NewConnection, limit' \in {limit, recvMax'}, rgen' \in {rgen, gen'}
      PROVE  /\ NetTypeOK' /\ lastSerial' = lastSerial /\ open /\ open' /\ gen' = gen + 1
             /\ conn' = "up" /\ wire' = <<>> /\ \A m \in Msgs : ops[m].phase # "posted"
             /\ batch # <<>> => sent < Len(batch)
             /\ c2b' = <<>> /\ b2c' = <<>> /\ delivered' = delivered
             /\ session' = session \/ ("session_lost" \in Faults /\ session' = {})
  <2>1. /\ open /\ open' = open /\ gen' = gen + 1 /\ conn' = "up" /\ recvMax' \in RecvMaxes
        /\ c2b' = <<>> /\ b2c' = <<>> /\ wire' = <<>>
        /\ session' = session \/ ("session_lost" \in Faults /\ session' = {})
        /\ lastSerial' = lastSerial /\ delivered' = delivered
        /\ \A m \in Msgs : ops[m].phase # "posted"
        /\ batch # <<>> => sent < Len(batch)
    BY <1>5 DEF NewConnection
  <2>2. recvMax' \in 1..MAX_LIMIT
    BY <2>1, PublishFlowAssumption
  <2>3. rgen' \in 0..gen' /\ limit' \in 1..MAX_LIMIT /\ gen' \in Nat
    BY <1>1, <1>5, <2>1, <2>2, SMT
  <2>4. session' \in {session, {}}
    BY <2>1
  <2>5. NetTypeOK'
    <3>1. /\ open' = open /\ conn' = "up" /\ c2b' = <<>> /\ b2c' = <<>> /\ wire' = <<>>
          /\ lastSerial' = lastSerial /\ delivered' = delivered
      BY <2>1
    <3> QED
      BY <2>2, <2>3, <2>4, <3>1, SMT DEF Basic, FlowTypeOK, NetTypeOK
  <2> QED
    BY <2>1, <2>5
<1>6. CASE WriterReconnects
  <2>1. /\ sent < Len(batch) /\ wgen = gen /\ NewConnection /\ Resends /\ rgen' = rgen
    BY <1>2, <1>6 DEF WriterReconnects, WriterTryAgain
  <2>2. limit' = recvMax'
    BY <2>1 DEF Resends
  <2> QED
    BY <1>1, <1>5, <2>1, <2>2, SMT
<1>7. CASE ReaderReconnects
  <2>1. /\ NewConnection /\ rgen' = gen'
        /\ \/ batch = <<>> /\ Resends
           \/ batch # <<>> /\ UNCHANGED <<ops, queue, batch, sent, wgen, limit, quota, fast>>
    BY <1>2, <1>7 DEF ReaderReconnects, ReaderTryAgain
  <2>2. limit' \in {limit, recvMax'}
    BY <2>1 DEF Resends
  <2> QED
    BY <1>1, <1>5, <2>1, <2>2, SMT
<1> QED
  BY <1>3, <1>4, <1>6, <1>7 DEF Reconnect

\* Learning of a new connection keeps Basic.
LEMMA ReconnectBasic ==
    ASSUME Laws, Basic, Reconnect
    PROVE  Basic' /\ Onward(ops, ops')
<1>1. NetTypeOK' /\ lastSerial' = lastSerial /\ gen' >= gen /\ recvMax' \in 1..MAX_LIMIT
  BY ReconnectShape DEF NetTypeOK
<1>2. CASE Resends
  BY <1>1, <1>2, ResendsBasic
<1>3. CASE UNCHANGED <<ops, queue, batch, sent, wgen, limit, quota, fast>>
  BY <1>1, <1>3, QuietBasic
<1> QED
  BY <1>2, <1>3, ReconnectShape

\* The network and the broker leave the client alone.
LEMMA NetworkBasic ==
    ASSUME Basic, Break \/ BrokerReceive
    PROVE  /\ Basic' /\ Onward(ops, ops')
           /\ UNCHANGED <<ops, queue, batch, sent, wgen, rgen, limit, quota, lastSerial,
                          fast, open, gen, recvMax, wire>>
           /\ conn' = conn \/ (conn = "up" /\ conn' = "lost")
<1>1. UNCHANGED <<ops, queue, batch, sent, wgen, rgen, limit, quota, lastSerial,
                  fast, open, gen, recvMax, wire>>
  BY DEF Break, BrokerReceive, client
<1>2. conn' = conn \/ (conn = "up" /\ conn' = "lost")
  BY DEF Break, BrokerReceive
<1>3. NetTypeOK'
  <2>1. CASE Break
    BY <1>1, <1>2, <2>1 DEF Break, broker, Basic, FlowTypeOK, NetTypeOK
  <2>2. CASE BrokerReceive
    <3> DEFINE pkt == Head(c2b)
    <3>1. /\ c2b \in Seq(PacketSet) /\ b2c \in Seq(ReplySet) /\ c2b # <<>>
          /\ \A i \in DOMAIN c2b : c2b[i].type # "DISCONNECT" => c2b[i].msg \in Msgs
          /\ session \in SUBSET (0..MaxPid) /\ delivered \in [Msgs -> 0..2]
      BY <2>2 DEF Basic, FlowTypeOK, NetTypeOK, BrokerReceive
    <3>2. /\ pkt \in PacketSet /\ pkt.pid \in 0..MaxPid
          /\ pkt.type # "DISCONNECT" => pkt.msg \in Msgs
      <4>1. 1 \in DOMAIN c2b /\ pkt = c2b[1] /\ c2b[1] \in PacketSet
        BY <3>1, SMT
      <4>2. c2b[1].pid \in 0..MaxPid
        BY <4>1 DEF PacketSet
      <4> QED
        BY <3>1, <4>1, <4>2
    <3>3. /\ Tail(c2b) \in Seq(PacketSet)
          /\ \A i \in DOMAIN Tail(c2b) :
                Tail(c2b)[i].type # "DISCONNECT" => Tail(c2b)[i].msg \in Msgs
      BY <3>1, SMT
    <3>4. \A type \in {"PUBACK", "PUBREC", "PUBCOMP"}, res \in Results :
             Append(b2c, [type |-> type, pid |-> pkt.pid, res |-> res]) \in Seq(ReplySet)
      <4>1. ASSUME NEW type \in {"PUBACK", "PUBREC", "PUBCOMP"}, NEW res \in Results
            PROVE  [type |-> type, pid |-> pkt.pid, res |-> res] \in ReplySet
        BY <3>2 DEF Results, ReplySet
      <4> QED
        BY <3>1, <4>1, SMT
    <3>5. "ok" \in Results
      BY DEF Results
    <3>6. /\ c2b' \in {<<>>, Tail(c2b)}
          /\ \/ b2c' = b2c
             \/ \E type \in {"PUBACK", "PUBREC", "PUBCOMP"}, res \in Results :
                   b2c' = Append(b2c, [type |-> type, pid |-> pkt.pid, res |-> res])
          /\ session' \in {session, session \cup {pkt.pid}, session \ {pkt.pid}}
          /\ \/ delivered' = delivered
             \/ /\ pkt.type = "PUBLISH"
                /\ delivered' = [delivered EXCEPT ![pkt.msg] = IF @ < 2 THEN @ + 1 ELSE 2]
      <4> HIDE DEF pkt
      <4>1. CASE pkt.type = "DISCONNECT" /\ c2b' = <<>> /\ UNCHANGED <<b2c, broker>>
        BY <4>1 DEF broker
      <4> QED
        BY <2>2, <3>5, <4>1 DEF BrokerReceive, broker, pkt
    <3>7. delivered' \in [Msgs -> 0..2]
      <4>1. CASE delivered' = delivered
        BY <3>1, <4>1
      <4>2. CASE /\ pkt.type = "PUBLISH"
                 /\ delivered' = [delivered EXCEPT ![pkt.msg] = IF @ < 2 THEN @ + 1 ELSE 2]
        <5>1. pkt.msg \in Msgs /\ delivered[pkt.msg] \in 0..2
          BY <3>1, <3>2, <4>2
        <5> HIDE DEF pkt
        <5> QED
          BY <3>1, <4>2, <5>1, SMT
      <4> QED
        BY <3>6, <4>1, <4>2
    <3>8. /\ c2b' \in Seq(PacketSet) /\ b2c' \in Seq(ReplySet)
          /\ \A i \in DOMAIN c2b' : c2b'[i].type # "DISCONNECT" => c2b'[i].msg \in Msgs
          /\ session' \in SUBSET (0..MaxPid)
      <4> HIDE DEF pkt
      <4>1. /\ c2b' \in Seq(PacketSet)
            /\ \A i \in DOMAIN c2b' : c2b'[i].type # "DISCONNECT" => c2b'[i].msg \in Msgs
        <5>1. CASE c2b' = <<>>
          BY <5>1, SMT
        <5>2. CASE c2b' = Tail(c2b)
          BY <3>3, <5>2
        <5> QED
          BY <3>6, <5>1, <5>2
      <4>2. b2c' \in Seq(ReplySet)
        <5>1. CASE b2c' = b2c
          BY <3>1, <5>1
        <5>2. CASE \E type \in {"PUBACK", "PUBREC", "PUBCOMP"}, res \in Results :
                      b2c' = Append(b2c, [type |-> type, pid |-> pkt.pid, res |-> res])
          <6>1. PICK type \in {"PUBACK", "PUBREC", "PUBCOMP"}, res \in Results :
                   b2c' = Append(b2c, [type |-> type, pid |-> pkt.pid, res |-> res])
            BY <5>2
          <6> QED
            BY <3>4, <6>1
        <5> QED
          BY <3>6, <5>1, <5>2
      <4>3. session' \in SUBSET (0..MaxPid)
        BY <3>1, <3>2, <3>6
      <4> QED
        BY <4>1, <4>2, <4>3
    <3> QED
      BY <1>1, <1>2, <3>7, <3>8 DEF Basic, FlowTypeOK, NetTypeOK
  <2> QED
    BY <2>1, <2>2
<1>4. gen' >= gen
  BY <1>1, SMT DEF Basic, FlowTypeOK, NetTypeOK
<1> QED
  BY <1>1, <1>2, <1>3, <1>4, QuietBasic

\* Basic holds at the start.
LEMMA InitBasic == Init => Basic
<1> SUFFICES ASSUME Init PROVE Basic
  OBVIOUS
<1>1. ops \in [Msgs -> OpSet]
  <2>1. ASSUME NEW m \in Msgs PROVE ops[m] \in OpSet
    BY SerialModAssumption, PublishFlowAssumption, SMT DEF Init, OpSet, Phases, Outcomes
  <2>2. ops = [m \in Msgs |-> ops[m]]
    BY DEF Init
  <2> QED
    BY <2>1, <2>2
<1>2. \A m \in Msgs : ops[m].phase = "idle" /\ ops[m].stage = "publish"
  BY DEF Init
<1>3. SenderTypeOK
  BY LimitAssumption, SMT DEF Init, SenderTypeOK
<1>4. NetTypeOK
  <2>1. MAX_LIMIT \in 1..MAX_LIMIT
    BY LimitAssumption, SMT
  <2> QED
    BY <2>1, PublishFlowAssumption, SMT DEF Init, NetTypeOK
<1>5. Requests(ops, queue, batch) /\ QosFits(ops)
  BY <1>2, SMT DEF Init, Requests, QosFits
<1>6. Dist(lastSerial) = 0 /\ N \in Nat
  BY PublishFlowAssumption, SerialModAssumption, SMT DEF Init, Dist
<1>7. SerialsGrow
  BY <1>2, <1>6, SMT DEF SerialsGrow, Live, Msgs
<1> QED
  BY <1>1, <1>3, <1>4, <1>5, <1>7 DEF Basic, FlowTypeOK

\* Every step keeps Basic.
LEMMA NextBasic ==
    ASSUME Laws, Basic, [Next]_vars
    PROVE  Basic'
<1>1. ASSUME NEW m \in Msgs, NEW q \in QosSet, Publish(m, q) PROVE Basic'
  BY <1>1, PublishBasic
<1>2. ASSUME NEW m \in Msgs, NEW q \in QosSet, PublishFails(m, q) PROVE Basic'
  BY <1>2, PublishFailsBasic
<1>3. ASSUME NEW m \in Msgs, CancelOp(m) PROVE Basic'
  BY <1>3, CancelOpBasic
<1>4. ASSUME NEW m \in Msgs, RunPosted(m) PROVE Basic'
  BY <1>4, RunPostedBasic
<1>5. CASE Cancel \/ NoRecovery
  BY <1>5, CloseBasic
<1>6. CASE WriteSome
  BY <1>6, WriteSomeBasic
<1>7. CASE WriteDone
  BY <1>7, WriteDoneBasic
<1>8. CASE WriteAborted
  BY <1>8, WriteAbortedBasic
<1>9. CASE ReadReply
  BY <1>9, ReadReplyBasic
<1>10. CASE Sentry
  BY <1>10, SentryBasic
<1>11. CASE Reconnect
  BY <1>11, ReconnectBasic
<1>12. CASE Break \/ BrokerReceive
  BY <1>12, NetworkBasic
<1>13. CASE UNCHANGED vars
  <2>1. /\ UNCHANGED <<ops, queue, batch, sent, wgen, quota, fast>>
        /\ UNCHANGED <<rgen, limit, lastSerial, open, gen, conn, recvMax, c2b, b2c, session,
                       delivered, wire>>
    BY <1>13 DEF vars, client, network, broker
  <2>2. NetTypeOK' /\ gen' >= gen
    BY <2>1, SMT DEF Basic, FlowTypeOK, NetTypeOK
  <2> QED
    BY <2>1, <2>2, QuietBasic
<1> QED
  BY <1>1, <1>2, <1>3, <1>4, <1>5, <1>6, <1>7, <1>8, <1>9, <1>10, <1>11, <1>12, <1>13
  DEF Next, Reconnect

\* A throttled request belongs to an operation that is sending.
LEMMA ThrottledSends ==
    ASSUME NEW o, NEW q, NEW b, Requests(o, q, b), NEW m \in ThrottledOf(q)
    PROVE  m \in Msgs /\ o[m].phase = "sending" /\ o[m].qos # 0
BY SMT DEF ThrottledOf, Requests, ReqOK, DisconnectReq

\* When everything is sent again nothing is charged: each QoS 1 and QoS 2
\* operation has a throttled request in the queue.
LEMMA ResendCharges ==
    ASSUME Laws, Basic, ConnectionInv, NoneCancelled, Reconnect, Resends,
           \/ sent < Len(batch) /\ (gen' = gen => wgen < gen)
           \/ batch = <<>> /\ (gen' = gen => rgen < gen)
    PROVE  /\ wire' = <<>> /\ limit' = recvMax' /\ limit' \in 1..MAX_LIMIT
           /\ ResendQueue \in Seq(ReqSet) /\ Requests(ops', ResendQueue, <<>>)
           /\ ChargeableOf(ops') = ChargeableOf(ops)
           /\ ThrottledOf(ResendQueue) = ChargeableOf(ops)
           /\ \E k \in Int : k = limit' /\ DoWrite(TRUE, <<>>, ResendQueue, k, fast)
<1>1. /\ batch \in Seq(ReqSet) /\ sent \in 0..Len(batch) /\ ops \in [Msgs -> OpSet]
      /\ gen \in Nat /\ wgen \in 0..gen /\ rgen \in 0..gen
  BY DEF Basic, FlowTypeOK, SenderTypeOK, NetTypeOK
<1>2. /\ open /\ recvMax' \in 1..MAX_LIMIT
      /\ gen' = gen => wire' = wire
      /\ gen' # gen => wire' = <<>> /\ \A m \in Msgs : ops[m].phase # "posted"
  BY ReconnectShape DEF NetTypeOK
<1>3. wire' = <<>> /\ \A m \in Msgs : ops[m].phase # "posted"
  <2>1. CASE gen' = gen /\ wgen < gen /\ sent < Len(batch)
    <3>1. ~Current
      BY <1>1, <2>1, SMT DEF Current
    <3> QED
      BY <1>2, <2>1, <3>1 DEF ConnectionInv, OnConnection
  <2>2. CASE gen' = gen /\ batch = <<>> /\ rgen < gen
    <3>1. rgen # gen
      BY <1>1, <2>2, SMT
    <3> QED
      BY <1>2, <2>2, <3>1 DEF ConnectionInv, OnConnection
  <2> QED
    BY <1>2, <2>1, <2>2
<1>4. PICK k : k = Returned(limit', limit',
                            Cardinality({m \in Outs : Stops(m) /\ ops[m].qos # 0}))
  OBVIOUS
<1>5. limit' = recvMax' /\ DoWrite(TRUE, <<>>, ResendQueue, k, fast)
  BY <1>4 DEF Resends
<1>6. k = limit' /\ k \in Int
  <2>1. \A x \in Nat : Returned(x, x, 0) = x
    BY SMT DEF Returned
  <2>2. {m \in Outs : Stops(m) /\ ops[m].qos # 0} = {}
    BY DEF Outs, Stops, NoneCancelled
  <2>3. Cardinality({m \in Outs : Stops(m) /\ ops[m].qos # 0}) = 0
    BY <2>2 DEF Laws, SmallLaw
  <2>4. k = Returned(limit', limit', 0)
    BY <1>4, <2>3
  <2>5. limit' \in Nat
    BY <1>2, <1>5, LimitAssumption, SMT
  <2> QED
    BY <2>1, <2>4, <2>5, SMT
<1>7. /\ Requests(ops', ResendQueue, <<>>)
      /\ \A m \in Msgs : /\ ops'[m].qos = ops[m].qos
                         /\ m \in Resent => ops'[m].phase = "sending"
                         /\ m \notin Outs => ops'[m] = ops[m]
  BY <1>2, ResendsFacts DEF Onward
<1>8. /\ ResendQueue \in Seq(ReqSet)
      /\ \A m \in Resent : \E i \in DOMAIN ResendQueue : ResendQueue[i] = Req(m)
  BY ResendQueueFacts DEF Basic
<1>9. \A m \in Msgs : m \in Outs <=> m \in Resent
  BY DEF Resent, Stops, NoneCancelled
<1>10. \A m \in Msgs : m \notin Outs => ops[m].phase \in {"idle", "done"}
  BY <1>1, <1>3 DEF Outs, OpSet, Phases
<1>11. ChargeableOf(ops') = ChargeableOf(ops)
  <2>1. ASSUME NEW m \in Msgs PROVE m \in ChargeableOf(ops') <=> m \in ChargeableOf(ops)
    <3>1. CASE m \in Outs
      BY <1>7, <1>9, <3>1 DEF ChargeableOf, Outs
    <3>2. CASE m \notin Outs
      BY <1>7, <3>2 DEF ChargeableOf
    <3> QED
      BY <3>1, <3>2
  <2> QED
    BY <2>1 DEF ChargeableOf
<1>12. ASSUME NEW m \in ChargeableOf(ops) PROVE m \in ThrottledOf(ResendQueue)
  <2>1. m \in Msgs /\ m \in Outs /\ ops[m].qos # 0
    BY <1>10 DEF ChargeableOf
  <2>2. Req(m).throttled /\ Req(m).op = m
    BY <2>1 DEF Req, PubrelReq, PublishReq
  <2> QED
    BY <1>8, <1>9, <2>1, <2>2 DEF ThrottledOf
<1>13. ASSUME NEW m \in ThrottledOf(ResendQueue) PROVE m \in ChargeableOf(ops')
  BY <1>7, ThrottledSends DEF ChargeableOf
<1> QED
  BY <1>2, <1>3, <1>5, <1>6, <1>7, <1>8, <1>11, <1>12, <1>13
===============================================================================
