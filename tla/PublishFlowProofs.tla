-------------------------- MODULE PublishFlowProofs ---------------------------
(*****************************************************************************)
(* The theorems about PublishFlow, for any number of messages, identifiers   *)
(* and connections, any Receive Maximum and any of the faults that a         *)
(* theorem does not exclude.  PublishFlowInvariants describes the            *)
(* invariant; the two modules extended here show that the steps keep it.     *)
(* What is left are the facts about finite sets and sequences that those     *)
(* proofs take as Laws, the initial states, and the temporal steps.          *)
(*****************************************************************************)
EXTENDS PublishFlowSendProofs, PublishFlowExchangeProofs, FiniteSetTheorems, TLAPS
-------------------------------------------------------------------------------
USE Zenon

\* A set of natural numbers that is not empty has a least element.
LEMMA LeastElement ==
    ASSUME NEW C \in SUBSET Nat, C # {}
    PROVE  \E n \in C : \A m \in C : n <= m
<1> DEFINE F == {C \cap (0..n) : n \in C}
           R == StrictSubsetOrdering(Nat)
<1>1. F \subseteq FiniteSubsetsOf(Nat) /\ F # {}
  <2> SUFFICES ASSUME NEW n \in C
               PROVE  C \cap (0..n) \in FiniteSubsetsOf(Nat)
    OBVIOUS
  <2>1. IsFiniteSet(C \cap (0..n))
    <3>1. IsFiniteSet(0..n)
      BY FS_Interval, SMT
    <3>2. C \cap (0..n) \in SUBSET (0..n)
      OBVIOUS
    <3> QED
      BY <3>1, <3>2, FS_Subset
  <2> QED
    BY <2>1 DEF FiniteSubsetsOf
<1>2. IsWellFoundedOn(R, FiniteSubsetsOf(Nat))
  BY FS_StrictSubsetOrderingWellFounded
<1> HIDE DEF R
<1>3. PICK X \in F : \A Y \in F : <<Y, X>> \notin R
  <2> HIDE DEF F
  <2> QED
    BY <1>1, <1>2, WFMin
<1>4. PICK n \in C : X = C \cap (0..n)
  OBVIOUS
<1>5. ASSUME NEW m \in C, m < n PROVE FALSE
  <2> DEFINE Y == C \cap (0..m)
  <2>1. n \in X /\ n \notin Y /\ Y \subseteq X
    BY <1>4, <1>5, SMT
  <2>2. <<Y, X>> \in R
    BY <2>1, <1>4 DEF R, StrictSubsetOrdering
  <2> QED
    BY <1>3, <2>2
<1> QED
  BY <1>5, SMT

\* The ranks of a finite set of numbers are 1 up to its cardinality, in the
\* order of the numbers.
LEMMA RankFacts ==
    ASSUME NEW I \in SUBSET Nat, IsFiniteSet(I)
    PROVE  /\ Cardinality(I) \in Nat
           /\ \A k \in I : Rank(I, k) \in 1..Cardinality(I)
           /\ \A k, l \in I : k < l => Rank(I, k) < Rank(I, l)
           /\ \A i \in 1..Cardinality(I) : \E k \in I : Rank(I, k) = i
<1> DEFINE Below(k) == {j \in I : j <= k}
           n == Cardinality(I)
<1>1. n \in Nat
  BY FS_CardinalityType
<1>2. \A k \in I : /\ IsFiniteSet(Below(k)) /\ Cardinality(Below(k)) \in Nat
                   /\ Cardinality(Below(k)) <= n
  <2> TAKE k \in I
  <2>1. Below(k) \in SUBSET I
    OBVIOUS
  <2>2. IsFiniteSet(Below(k)) /\ Cardinality(Below(k)) <= n
    BY <2>1, FS_Subset
  <2> QED
    BY <2>2, FS_CardinalityType
<1>3. \A k \in I : Rank(I, k) \in 1..n
  <2> TAKE k \in I
  <2>1. Below(k) # {}
    BY SMT
  <2>2. Cardinality(Below(k)) # 0
    BY <1>2, <2>1, FS_EmptySet
  <2>3. Rank(I, k) = Cardinality(Below(k))
    BY DEF Rank
  <2> HIDE DEF Below, n
  <2> QED
    BY <1>1, <1>2, <2>2, <2>3, SMT
<1>4. ASSUME NEW k \in I, NEW l \in I, k < l
      PROVE  Rank(I, k) < Rank(I, l)
  <2>1. k \in Nat /\ l \in Nat /\ l <= l /\ ~(l <= k)
    BY <1>4, SMT
  <2>2. \A j \in I : j <= k => j <= l
    BY <1>4, SMT
  <2>3. Below(k) \in SUBSET Below(l) /\ l \in Below(l) /\ l \notin Below(k)
    BY <2>1, <2>2
  <2>4. /\ Cardinality(Below(k)) <= Cardinality(Below(l))
        /\ Cardinality(Below(k)) # Cardinality(Below(l))
    BY <1>2, <2>3, FS_Subset
  <2> QED
    BY <1>2, <2>4, SMT DEF Rank
<1>5. \A i \in 1..n : \E k \in I : Rank(I, k) = i
  <2> DEFINE f == [k \in I |-> Rank(I, k)]
  <2>1. f \in [I -> 1..n]
    BY <1>3
  <2>2. \A k, l \in I : f[k] = f[l] => k = l
    <3> SUFFICES ASSUME NEW k \in I, NEW l \in I, Rank(I, k) = Rank(I, l), k # l
                 PROVE  FALSE
      OBVIOUS
    <3>1. k < l \/ l < k
      BY SMT
    <3> QED
      BY <1>3, <1>4, <3>1, SMT
  <2>3. f \in Injection(I, 1..n)
    BY <2>1, <2>2 DEF Injection, IsInjective
  <2>4. IsFiniteSet(1..n) /\ Cardinality(1..n) = n
    BY <1>1, FS_Interval, SMT
  <2>5. f \in Surjection(I, 1..n)
    BY <2>3, <2>4, FS_Injection
  <2> QED
    BY <2>1, <2>5 DEF Surjection
<1> QED
  BY <1>1, <1>3, <1>4, <1>5

\* At keeps the requests at the positions I and their order.
LEMMA AtFacts ==
    ASSUME NEW S, NEW q \in Seq(S), NEW I \in SUBSET DOMAIN q
    PROVE  /\ At(q, I) \in Seq(S)
           /\ Cardinality(I) \in Nat /\ Len(At(q, I)) = Cardinality(I)
           /\ \E h : /\ Picks(At(q, I), q, h)
                     /\ \A k \in I : \E i \in 1..Len(At(q, I)) : h[i] = k
                     /\ \A i \in 1..Len(At(q, I)) : h[i] \in I
<1> DEFINE n == Cardinality(I)
           h == [i \in 1..n |-> CHOOSE k \in I : Rank(I, k) = i]
<1>1. I \in SUBSET Nat /\ IsFiniteSet(I)
  <2>1. DOMAIN q = 1..Len(q) /\ Len(q) \in Nat
    BY SMT
  <2>2. IsFiniteSet(1..Len(q))
    BY <2>1, FS_Interval, SMT
  <2> QED
    BY <2>1, <2>2, FS_Subset, SMT
<1>2. /\ n \in Nat
      /\ \A k \in I : Rank(I, k) \in 1..n
      /\ \A k, l \in I : k < l => Rank(I, k) < Rank(I, l)
      /\ \A i \in 1..n : \E k \in I : Rank(I, k) = i
  BY <1>1, RankFacts
<1>3. \A i \in 1..n : h[i] \in I /\ Rank(I, h[i]) = i
  BY <1>2
<1>4. \A i, j \in 1..n : i < j => h[i] < h[j]
  <2> SUFFICES ASSUME NEW i \in 1..n, NEW j \in 1..n, i < j, ~(h[i] < h[j])
               PROVE  FALSE
    OBVIOUS
  <2> HIDE DEF h
  <2>1. h[i] \in I /\ h[j] \in I /\ Rank(I, h[i]) = i /\ Rank(I, h[j]) = j
    BY <1>3
  <2>2. h[i] \in Nat /\ h[j] \in Nat /\ i \in Nat /\ j \in Nat
    BY <2>1, <1>1, <1>2, SMT
  <2>3. h[j] < h[i] \/ h[i] = h[j]
    BY <2>2, SMT
  <2> QED
    BY <1>2, <2>1, <2>2, <2>3, SMT
<1>5. \A k \in I : \E i \in 1..n : h[i] = k
  <2> TAKE k \in I
  <2>1. Rank(I, k) \in 1..n
    BY <1>2
  <2> WITNESS Rank(I, k) \in 1..n
  <2> SUFFICES ASSUME h[Rank(I, k)] # k PROVE FALSE
    OBVIOUS
  <2>2. PICK l \in I : l = h[Rank(I, k)] /\ Rank(I, l) = Rank(I, k)
    BY <1>3, <2>1
  <2>3. l < k \/ k < l
    BY <1>1, <2>2, SMT
  <2>4. Rank(I, l) \in Nat /\ Rank(I, k) \in Nat
    BY <1>2, SMT
  <2> QED
    BY <1>2, <2>2, <2>3, <2>4, SMT
<1>6. At(q, I) = [i \in 1..n |-> q[h[i]]]
  BY SMT DEF At, Rank
<1> HIDE DEF h, n
<1>7. \A i \in 1..n : h[i] \in DOMAIN q /\ q[h[i]] \in S
  BY <1>3, SMT
<1>8. At(q, I) \in Seq(S) /\ Len(At(q, I)) = n
  BY <1>2, <1>6, <1>7, SMT
<1>9. h \in [1..n -> DOMAIN q]
  BY <1>7 DEF h
<1>10. Picks(At(q, I), q, h)
  BY <1>4, <1>6, <1>8, <1>9 DEF Picks
<1> QED
  BY <1>2, <1>3, <1>5, <1>8, <1>10 DEF n

\* Sorted lists a set of requests that Before orders, in that order.
LEMMA SortedFacts ==
    ASSUME NEW R, IsFiniteSet(R),
           \A r \in R : ~Before(r, r),
           \A r, s \in R : r # s => Before(r, s) \/ Before(s, r),
           \A r, s, t \in R : Before(r, s) /\ Before(s, t) => Before(r, t)
    PROVE  /\ Sorted(R) \in Seq(R)
           /\ \A r \in R : \E i \in 1..Len(Sorted(R)) : Sorted(R)[i] = r
           /\ \A i, j \in 1..Len(Sorted(R)) : i < j => Before(Sorted(R)[i], Sorted(R)[j])
<1> DEFINE n == Cardinality(R)
           Front(r) == {s \in R : Before(s, r)}
           place == [r \in R |-> Cardinality(Front(r)) + 1]
<1>1. n \in Nat
  BY FS_CardinalityType
<1>2. \A r \in R : /\ IsFiniteSet(Front(r)) /\ Cardinality(Front(r)) \in Nat
                   /\ Cardinality(Front(r)) < n
  <2> TAKE r \in R
  <2>1. Front(r) \in SUBSET R /\ r \notin Front(r)
    OBVIOUS
  <2>2. /\ IsFiniteSet(Front(r)) /\ Cardinality(Front(r)) <= n
        /\ Cardinality(Front(r)) # n
    BY <2>1, FS_Subset
  <2>3. Cardinality(Front(r)) \in Nat
    BY <2>2, FS_CardinalityType
  <2> QED
    BY <1>1, <2>2, <2>3, SMT
<1>3. place \in [R -> 1..n]
  BY <1>1, <1>2, SMT
<1>4. \A r, s \in R : Before(r, s) => place[r] < place[s]
  <2> SUFFICES ASSUME NEW r \in R, NEW s \in R, Before(r, s)
               PROVE  place[r] < place[s]
    OBVIOUS
  <2>1. Front(r) \in SUBSET Front(s) /\ r \in Front(s) /\ r \notin Front(r)
    OBVIOUS
  <2>2. /\ Cardinality(Front(r)) <= Cardinality(Front(s))
        /\ Cardinality(Front(r)) # Cardinality(Front(s))
    BY <1>2, <2>1, FS_Subset
  <2>3. place[r] = Cardinality(Front(r)) + 1 /\ place[s] = Cardinality(Front(s)) + 1
    OBVIOUS
  <2> HIDE DEF Front, place
  <2> QED
    BY <1>2, <2>2, <2>3, SMT
<1> HIDE DEF Front
<1>5. \A r, s \in R : place[r] = place[s] => r = s
  <2> HIDE DEF place
  <2> QED
    BY <1>3, <1>4, SMT
<1>6. \A i \in 1..n : \E r \in R : place[r] = i
  <2>1. place \in Injection(R, 1..n)
    BY <1>3, <1>5 DEF Injection, IsInjective
  <2>2. IsFiniteSet(1..n) /\ Cardinality(1..n) = n
    BY <1>1, FS_Interval, SMT
  <2>3. place \in Surjection(R, 1..n)
    BY <2>1, <2>2, FS_Injection
  <2> QED
    BY <1>3, <2>3 DEF Surjection
<1>7. Sorted(R) = [i \in 1..n |-> CHOOSE r \in R : Cardinality(Front(r)) = i - 1]
  BY DEF Sorted, Front
<1>8. \A i \in 1..n : \A r \in R : Cardinality(Front(r)) = i - 1 <=> place[r] = i
  BY <1>1, <1>2, SMT
<1>9. \A i \in 1..n : Sorted(R)[i] \in R /\ place[Sorted(R)[i]] = i
  BY <1>6, <1>7, <1>8, SMT
<1> HIDE DEF place, n
<1>10. Sorted(R) \in Seq(R) /\ Len(Sorted(R)) = n
  <2>1. Sorted(R) = [i \in 1..n |-> Sorted(R)[i]]
    BY <1>7
  <2> QED
    BY <1>1, <1>9, <2>1, SMT
<1>11. \A r \in R : Sorted(R)[place[r]] = r
  BY <1>3, <1>5, <1>9
<1>12. ASSUME NEW i \in 1..n, NEW j \in 1..n, i < j
       PROVE  Before(Sorted(R)[i], Sorted(R)[j])
  BY <1>1, <1>4, <1>9, <1>12, SMT
<1> QED
  BY <1>3, <1>10, <1>11, <1>12

\* What the proofs of the steps take for granted of finite sets and of the
\* operators of the write queue.
LEMMA LawsHold == Laws
<1>1. IntervalLaw
  <2> SUFFICES ASSUME NEW n \in Nat PROVE IsFiniteSet(1..n) /\ Cardinality(1..n) = n
    BY DEF IntervalLaw
  <2> QED
    BY FS_Interval, SMT
<1>2. SmallLaw
  BY FS_EmptySet, FS_Singleton DEF SmallLaw
<1>3. SubsetLaw
  <2> SUFFICES ASSUME NEW S, NEW T, IsFiniteSet(S), T \in SUBSET S
               PROVE  /\ IsFiniteSet(T) /\ Cardinality(T) \in Nat /\ Cardinality(S) \in Nat
                      /\ Cardinality(T) <= Cardinality(S)
                      /\ T # S => Cardinality(T) < Cardinality(S)
    BY DEF SubsetLaw
  <2>1. IsFiniteSet(T) /\ Cardinality(T) <= Cardinality(S)
        /\ (Cardinality(T) = Cardinality(S) => T = S)
    BY FS_Subset
  <2>2. Cardinality(T) \in Nat /\ Cardinality(S) \in Nat
    BY <2>1, FS_CardinalityType
  <2> QED
    BY <2>1, <2>2, SMT
<1>4. CoverLaw
  <2> SUFFICES ASSUME NEW S, NEW T, NEW U, IsFiniteSet(S), IsFiniteSet(T),
                      U \in SUBSET (S \cup T)
               PROVE  Cardinality(U) <= Cardinality(S) + Cardinality(T)
    BY DEF CoverLaw
  <2>1. IsFiniteSet(S \cap T)
    BY FS_Intersection
  <2>2. /\ IsFiniteSet(S \cup T)
        /\ Cardinality(S \cup T) = Cardinality(S) + Cardinality(T) - Cardinality(S \cap T)
    BY FS_Union
  <2>3. /\ Cardinality(S) \in Nat /\ Cardinality(T) \in Nat
        /\ Cardinality(S \cap T) \in Nat
    BY <2>1, FS_CardinalityType
  <2>4. Cardinality(U) <= Cardinality(S \cup T) /\ IsFiniteSet(U)
    BY <2>2, FS_Subset
  <2>5. Cardinality(U) \in Nat
    BY <2>4, FS_CardinalityType
  <2> QED
    BY <2>2, <2>3, <2>4, <2>5, SMT
<1>5. ImageLaw
  <2> SUFFICES ASSUME NEW S, NEW T, NEW f, IsFiniteSet(S), f \in [S -> T],
                      \A t \in T : \E s \in S : f[s] = t
               PROVE  /\ IsFiniteSet(T)
                      /\ (\A r, s \in S : f[r] = f[s] => r = s)
                         => Cardinality(T) = Cardinality(S)
    BY DEF ImageLaw
  <2>1. f \in Surjection(S, T)
    BY DEF Surjection
  <2>2. (\A r, s \in S : f[r] = f[s] => r = s) => f \in Injection(S, T)
    BY DEF Injection, IsInjective
  <2> QED
    BY <2>1, <2>2, FS_Surjection
<1>6. LeastLaw
  BY LeastElement DEF LeastLaw
<1>7. AtLaw
  BY AtFacts DEF AtLaw
<1>8. SortedLaw
  BY SortedFacts DEF SortedLaw
<1> QED
  BY <1>1, <1>2, <1>3, <1>4, <1>5, <1>6, <1>7, <1>8 DEF Laws

\* The variables keep their types, and every publish_send_op that is sending has
\* exactly one request, whatever the handlers of the sender, the stream and the
\* replies did in between.
LEMMA BasicInvariant == Spec => []Basic
  BY LawsHold, InitBasic, NextBasic, PTL DEF Spec

\* What waits for a reply sent its packet on the connection at hand.
LEMMA ConnectionInvariant == Spec => []ConnectionInv
<1>1. Init => ConnectionInv
  BY SMT DEF Init, ConnectionInv, OnConnection, Current
<1> QED
  BY LawsHold, <1>1, BasicInvariant, ConnectionNext, PTL DEF Spec

\* Every publish_send_op has one way to go on, for any number of messages, QoS
\* levels, Receive Maximum values, reconnects and faults: its packet is queued or
\* being written once, or it waits for a reply on the current connection, and what
\* could be written is being written.
THEOREM OneWayOnHolds == Spec => []OneWayOn
<1>1. Init => NoForgottenRequest
  <2> SUFFICES ASSUME Init PROVE Chosen(<<>>, limit, quota) = {}
    BY DEF Init, NoForgottenRequest
  <2>1. <<>> \in Seq(ReqSet) /\ quota \in Int
    BY LimitAssumption, SMT DEF Init
  <2>2. Chosen(<<>>, limit, quota) \in SUBSET DOMAIN <<>>
    BY LawsHold, <2>1, ChosenFacts
  <2> QED
    BY <2>2, SMT
<1>2. Basic /\ ConnectionInv => WaitsOnCurrentConnection
  BY DEF ConnectionInv, OnConnection, WaitsOnCurrentConnection, Current, Waiting, OnWire,
         Packet
<1>3. Basic /\ ConnectionInv /\ NoForgottenRequest => OneWayOn
  BY LawsHold, <1>2, OneRequest DEF OneWayOn
<1> QED
  BY LawsHold, <1>1, <1>3, BasicInvariant, ConnectionInvariant, NoForgottenNext, PTL DEF Spec

\* What was sent, is being sent and is queued is in the order of initiation.
LEMMA LineInvariant == Spec => []Line
<1>1. Init => Line
  BY SMT DEF Init, Line, WireLine
<1> QED
  BY LawsHold, <1>1, BasicInvariant, ConnectionInvariant, LineNext, PTL DEF Spec

\* PUBLISH packets go out in the order in which async_publish was called, on
\* every connection, also when they are sent again: for any number of messages
\* within the window of the serial numbers and whatever else happens.
THEOREM InOrderHolds == Spec => []InOrder
<1>1. Line => InOrder
  BY PublishFlowAssumption, SMT DEF Line, WireLine, InOrder, Publishes, Ahead, Msgs
<1> QED
  BY <1>1, LineInvariant, PTL

\* No PUBLISH packet is sent twice on one connection, whatever happens.
THEOREM SentOnceHolds == Spec => []SentOncePerConnection
<1>1. ASSUME Basic, Line, NEW i \in Publishes, NEW j \in Publishes, wire[i].msg = wire[j].msg
      PROVE  i = j
  <2>1. i \in Nat /\ j \in Nat /\ i \in DOMAIN wire /\ j \in DOMAIN wire
        /\ wire[i].type = "PUBLISH" /\ wire[j].type = "PUBLISH"
    BY <1>1, SMT DEF Publishes, Basic, FlowTypeOK, NetTypeOK
  <2>2. wire[i].msg \in Nat
    BY <1>1, <2>1, PublishFlowAssumption, SMT DEF Line, WireLine, Msgs
  <2>3. ~(i < j) /\ ~(j < i)
    BY <1>1, <2>1, <2>2, SMT DEF Line, WireLine, Ahead
  <2> QED
    BY <2>1, <2>3, SMT
<1>2. Basic /\ Line => SentOncePerConnection
  BY <1>1 DEF SentOncePerConnection
<1> QED
  BY <1>2, BasicInvariant, LineInvariant, PTL

\* No two operations in progress use the same packet identifier.
LEMMA PidsInvariant == Spec => []PidsApart
<1>1. Init => PidsApart
  BY SMT DEF Init, PidsApart, Live
<1> QED
  BY LawsHold, <1>1, BasicInvariant, PidsNext, PTL DEF Spec

\* Without cancellation of single operations, none is ever marked.
LEMMA NoneCancelledInvariant ==
    ASSUME "cancel_op" \notin Faults
    PROVE  Spec => []NoneCancelled
<1>1. Init => NoneCancelled
  BY SMT DEF Init, NoneCancelled
<1> QED
  BY LawsHold, <1>1, BasicInvariant, NoneCancelledNext, PTL DEF Spec

\* The quota of a connection covers the operations that hold it.
LEMMA QuotaInvariant ==
    ASSUME "cancel_op" \notin Faults
    PROVE  Spec => []QuotaOK
<1>1. Init => QuotaOK
  BY DEF Init, QuotaOK, Covered
<1> QED
  BY LawsHold, <1>1, BasicInvariant, ConnectionInvariant, LineInvariant,
     NoneCancelledInvariant, QuotaNext, PTL DEF Spec

\* The client never has more unacknowledged QoS 1 and QoS 2 PUBLISH packets on a
\* connection than the Receive Maximum of its CONNACK allows, whatever the values
\* the broker announces and however often it announces a new one, as long as no
\* operation is cancelled on its own.
THEOREM ReceiveMaximumHolds ==
    ASSUME "cancel_op" \notin Faults
    PROVE  Spec => []ReceiveMaximum
<1> DEFINE A == Basic /\ ConnectionInv /\ Line /\ PidsApart /\ QuotaOK
<1>1. Spec => []A
  BY BasicInvariant, ConnectionInvariant, LineInvariant, PidsInvariant, QuotaInvariant, PTL
<1>2. Init => ReceiveMaximum
  <2> SUFFICES ASSUME Init PROVE ReceiveMaximum
    OBVIOUS
  <2>1. {m \in Published : ops[m].qos # 0 /\ Live(m)} = {}
    BY SMT DEF Init, Published, Publishes
  <2>2. recvMax = MAX_LIMIT /\ Cardinality({}) <= MAX_LIMIT
    BY FS_EmptySet, LimitAssumption, SMT DEF Init
  <2> QED
    BY <2>1, <2>2 DEF ReceiveMaximum
<1>3. A /\ open => ReceiveMaximum
  BY LawsHold, OpenWithinMaximum
<1>4. (A /\ open => ReceiveMaximum)'
  BY <1>3, PTL
<1>5. A /\ A' /\ ReceiveMaximum /\ [Next]_vars => ReceiveMaximum'
  BY LawsHold, <1>4, ClosedSendsNothing
<1> QED
  BY <1>1, <1>2, <1>5, PTL DEF Spec

\* Without mqtt_client::cancel the stream stays open.
LEMMA StaysOpenInvariant ==
    ASSUME "cancel" \notin Faults
    PROVE  Spec => []StaysOpen
<1>1. Init => StaysOpen
  BY DEF Init, StaysOpen
<1>2. Basic /\ StaysOpen /\ [Next]_vars => StaysOpen'
  <2> SUFFICES ASSUME Basic, StaysOpen, [Next]_vars PROVE open' = open
    BY DEF StaysOpen
  <2>1. ASSUME NEW m \in Msgs, NEW q \in QosSet, Publish(m, q) \/ PublishFails(m, q)
        PROVE  open' = open
    BY <2>1, PublishFailsBasic DEF Publish
  <2>2. ASSUME NEW m \in Msgs, CancelOp(m) \/ RunPosted(m) PROVE open' = open
    BY <2>2 DEF CancelOp, RunPosted
  <2>3. ASSUME Cancel \/ NoRecovery PROVE FALSE
    BY <2>3 DEF Cancel, NoRecovery, CloseClient
  <2>4. CASE WriteSome
    BY <2>4 DEF WriteSome
  <2>5. CASE WriteDone
    BY <2>5 DEF WriteDone
  <2>6. CASE WriteAborted
    BY <2>6 DEF WriteAborted
  <2>7. CASE ReadReply
    BY <2>7 DEF ReadReply
  <2>8. CASE Sentry
    BY <2>8 DEF Sentry
  <2>9. CASE Reconnect
    <3>1. open'
      BY <2>9, ReconnectShape
    <3>2. open' \in BOOLEAN
      BY <2>9, ReconnectShape DEF NetTypeOK
    <3> QED
      BY <3>1, <3>2 DEF StaysOpen
  <2>10. CASE Break \/ BrokerReceive
    BY <2>10, NetworkBasic
  <2>11. CASE UNCHANGED vars
    BY <2>11 DEF vars, client
  <2> QED
    BY <2>1, <2>2, <2>3, <2>4, <2>5, <2>6, <2>7, <2>8, <2>9, <2>10, <2>11
    DEF Next, Reconnect
<1> QED
  BY <1>1, <1>2, BasicInvariant, PTL DEF Spec

\* async_sender implements the window of SendQuota (ImplementsWindow): as long as
\* no operation is cancelled and the client is not closed, every step of the
\* client, the network and the broker charges a throttled request once, when it
\* is taken, gives the charge back once, and starts a new window in resend().
THEOREM WindowImplemented ==
    ASSUME "cancel" \notin Faults, "cancel_op" \notin Faults
    PROVE  Spec => ImplementsWindow
<1>1. Init => Window!QuotaInit
  <2> SUFFICES ASSUME Init PROVE Window!QuotaInit
    OBVIOUS
  <2>1. Basic
    BY InitBasic
  <2>2. limit = MAX_LIMIT /\ quota = MAX_LIMIT /\ queue = <<>>
        /\ \A m \in Msgs : ops[m].phase = "idle"
    BY DEF Init
  <2>3. ThrottledOf(queue) = {} /\ ChargeableOf(ops) = {}
    BY <2>2, SMT DEF ThrottledOf, ChargeableOf
  <2> QED
    BY <2>1, <2>2, <2>3, WindowView DEF Window!QuotaInit
<1>2. /\ Basic /\ Basic' /\ ConnectionInv /\ NoneCancelled /\ QuotaOK /\ StaysOpen
      /\ [Next]_vars
      => [Window!QuotaNext]_(Window!QuotaVars)
  BY LawsHold, WindowSimulation
<1>3. Spec => [](Basic /\ ConnectionInv /\ NoneCancelled /\ QuotaOK /\ StaysOpen)
  BY BasicInvariant, ConnectionInvariant, NoneCancelledInvariant, QuotaInvariant,
     StaysOpenInvariant, PTL
<1> QED
  BY <1>1, <1>2, <1>3, PTL DEF Spec, ImplementsWindow, Window!QuotaSpec

\* Every reply under way answers a packet of the operation that will take it.
LEMMA ExchangeInvariant ==
    ASSUME "cancel_op" \notin Faults
    PROVE  Spec => []ExchangeOK
<1>1. Init => ExchangeOK
  <2> SUFFICES ASSUME Init PROVE ExchangeOK
    OBVIOUS
  <2>1. /\ \A m \in Msgs : ops[m].phase = "idle"
        /\ c2b = <<>> /\ b2c = <<>> /\ fast = <<>> /\ session = {}
    BY DEF Init
  <2>2. Accepted(ops, delivered)
    BY <2>1 DEF Accepted
  <2>3. Exchange(ops, batch, sent, <<>>, <<>>, <<>>, delivered)
    <3>1. Apart(<<>>, <<>>, <<>>)
      BY SMT DEF Apart
    <3> QED
      BY <3>1, SMT DEF Exchange
  <2>4. Kept(ops, <<>>, <<>>, delivered, {})
    BY <2>1 DEF Kept
  <2> QED
    BY <2>1, <2>2, <2>3, <2>4 DEF ExchangeOK
<1> QED
  BY LawsHold, <1>1, ExchangeNext, BasicInvariant, ConnectionInvariant, PidsInvariant,
     NoneCancelledInvariant, PTL DEF Spec

\* async_publish reports success only for a message that the broker accepted
\* (AckedMeansDelivered): across reconnects, resend() and reuse of a packet
\* identifier, replies::dispatch and the fast replies never give an operation the
\* reply to another one.  It takes that no operation is cancelled: a cancelled one
\* frees its identifier while the exchange is still under way at the broker.
THEOREM AckedMeansDeliveredHolds ==
    ASSUME "cancel_op" \notin Faults
    PROVE  Spec => []AckedMeansDelivered
<1>1. ExchangeOK => AckedMeansDelivered
  BY DEF ExchangeOK, Accepted, AckedMeansDelivered
<1> QED
  BY <1>1, ExchangeInvariant, PTL

\* A QoS 2 message is accepted at most once (ExactlyOnce), whatever is lost and
\* sent again, while the broker keeps the session and no operation is cancelled:
\* until the PUBREL, its identifier stays with the broker and with no other
\* operation of the client.
THEOREM ExactlyOnceHolds ==
    ASSUME "session_lost" \notin Faults, "cancel_op" \notin Faults
    PROVE  Spec => []ExactlyOnce
<1>1. Init => OnceOK
  <2> SUFFICES ASSUME Init PROVE OnceOK
    OBVIOUS
  <2>1. /\ \A m \in Msgs : ops[m].phase = "idle" /\ ops[m].qos = 0 /\ delivered[m] = 0
        /\ c2b = <<>>
    BY DEF Init
  <2>2. DOMAIN c2b = {}
    BY <2>1, SMT
  <2>3. OncePackets(ops, c2b, delivered, session)
    BY <2>1, <2>2, SMT DEF OncePackets
  <2>4. OnceOps(ops, delivered, session)
    BY <2>1 DEF OnceOps
  <2> QED
    BY <2>3, <2>4 DEF OnceOK
<1>2. OnceOK => ExactlyOnce
  BY DEF OnceOK, OncePackets, ExactlyOnce
<1> QED
  BY LawsHold, <1>1, <1>2, OnceNext, BasicInvariant, PidsInvariant, ExchangeInvariant, PTL DEF Spec
===============================================================================
