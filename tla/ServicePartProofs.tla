-------------------------- MODULE ServicePartProofs --------------------------
(***************************************************************************)
(* The parts that client_service and the stream are built from, each for   *)
(* every value of its constants: Variable Byte Integers, the packet        *)
(* identifiers, the connection mutex and the Receive Maximum window.  The  *)
(* modules of the four parts share no name, so one module extends them     *)
(* all; no proof uses two of them.                                         *)
(***************************************************************************)
EXTENDS Varint, PacketIdAllocator, AsyncMutex, SendQuota,
        SequenceTheorems, FiniteSetTheorems, TLAPS

-------------------------------------------------------------------------------
(* Variable Byte Integers: every value of 28 bits, at any position of any    *)
(* buffer.                                                                   *)

\* Splitting off a digit of seven bits loses nothing.
LEMMA Digit ==
    ASSUME NEW n \in Nat
    PROVE  /\ n \div 128 \in Nat
           /\ n % 128 \in 0..127
           /\ n = (n % 128) + 128 * (n \div 128)
  BY SMT

\* A byte with the continuation bit set carries its lower seven bits.
LEMMA Continued ==
    ASSUME NEW d \in 0..127
    PROVE  /\ 128 + d >= 128
           /\ (128 + d) % 128 = d
  BY SMT

\* The size that the encoders announce (variable_length) is the size of what
\* they append (to_variable_bytes).
THEOREM VarintLength ==
    ASSUME NEW n \in Nat
    PROVE  Len(ToVariableBytes(n)) = VariableLength(n)
  BY SMT DEF ToVariableBytes, VariableLength

\* The bytes of n stand in b from position first on.
Holds(b, first, n) ==
    \A i \in 1..Len(ToVariableBytes(n)) :
        b[first + i - 1] = ToVariableBytes(n)[i]

\* How the bytes of n look to the parser: all but the last have the
\* continuation bit, and their digits add up to n.
LEMMA Layout ==
    ASSUME NEW n \in Nat, n <= MaxVarint, NEW b \in Seq(0..255),
           NEW first \in Nat \ {0}, Holds(b, first, n)
    PROVE  \/ /\ VariableLength(n) = 1
              /\ b[first + 0] < 128
              /\ n = b[first + 0]
           \/ /\ VariableLength(n) = 2
              /\ ~(b[first + 0] < 128) /\ b[first + 1] < 128
              /\ n = (b[first + 0] % 128) + 128 * b[first + 1]
           \/ /\ VariableLength(n) = 3
              /\ ~(b[first + 0] < 128) /\ ~(b[first + 1] < 128)
              /\ b[first + 2] < 128
              /\ n = (b[first + 0] % 128) + 128 * (b[first + 1] % 128)
                     + 16384 * b[first + 2]
           \/ /\ VariableLength(n) = 4
              /\ ~(b[first + 0] < 128) /\ ~(b[first + 1] < 128)
              /\ ~(b[first + 2] < 128) /\ b[first + 3] < 128
              /\ n = (b[first + 0] % 128) + 128 * (b[first + 1] % 128)
                     + 16384 * (b[first + 2] % 128) + 2097152 * b[first + 3]
<1> DEFINE v1 == n \div 128
           v2 == v1 \div 128
           v3 == v2 \div 128
<1>1. /\ v1 \in Nat /\ n % 128 \in 0..127 /\ n = (n % 128) + 128 * v1
      /\ v2 \in Nat /\ v1 % 128 \in 0..127 /\ v1 = (v1 % 128) + 128 * v2
      /\ v3 \in Nat /\ v2 % 128 \in 0..127 /\ v2 = (v2 % 128) + 128 * v3
  BY Digit, SMT
<1>2. v3 <= 127
  BY <1>1, SMT DEF MaxVarint
<1> HIDE DEF v1, v2, v3
<1>3. ToVariableBytes(n) = IF n <= 127 THEN <<n>>
        ELSE IF v1 <= 127 THEN <<128 + (n % 128), v1>>
        ELSE IF v2 <= 127 THEN <<128 + (n % 128), 128 + (v1 % 128), v2>>
        ELSE <<128 + (n % 128), 128 + (v1 % 128), 128 + (v2 % 128), v3>>
  BY SMT DEF ToVariableBytes, MaxVarint, v1, v2, v3
<1>4. VariableLength(n) = Len(ToVariableBytes(n))
  BY VarintLength, SMT
<1> DEFINE d0 == n % 128
           d1 == v1 % 128
           d2 == v2 % 128
<1>5. /\ d0 \in 0..127 /\ d1 \in 0..127 /\ d2 \in 0..127 /\ v3 \in 0..127
      /\ n = d0 + 128 * v1 /\ v1 = d1 + 128 * v2 /\ v2 = d2 + 128 * v3
      /\ (128 + d0) % 128 = d0 /\ (128 + d1) % 128 = d1 /\ (128 + d2) % 128 = d2
  BY <1>1, <1>2, Continued, SMT
<1>6. ToVariableBytes(n) = IF n <= 127 THEN <<n>>
        ELSE IF v1 <= 127 THEN <<128 + d0, v1>>
        ELSE IF v2 <= 127 THEN <<128 + d0, 128 + d1, v2>>
        ELSE <<128 + d0, 128 + d1, 128 + d2, v3>>
  BY <1>3
<1> HIDE DEF d0, d1, d2
<1>7. CASE n <= 127
  <2>1. ToVariableBytes(n) = <<n>>
    BY <1>6, <1>7
  <2>2. b[first + 0] = n /\ VariableLength(n) = 1
    BY <2>1, <1>4, SMT DEF Holds
  <2> QED
    BY <2>2, <1>7, SMT
<1>8. CASE n > 127 /\ v1 <= 127
  <2>1. ToVariableBytes(n) = <<128 + d0, v1>>
    BY <1>6, <1>8, SMT
  <2>2. b[first + 0] = 128 + d0 /\ b[first + 1] = v1 /\ VariableLength(n) = 2
    BY <2>1, <1>4, <1>5, SMT DEF Holds
  <2> QED
    BY <2>2, <1>8, <1>5, <1>1, SMT
<1>9. CASE n > 127 /\ v1 > 127 /\ v2 <= 127
  <2>1. ToVariableBytes(n) = <<128 + d0, 128 + d1, v2>>
    BY <1>6, <1>9, <1>1, SMT
  <2>2. /\ b[first + 0] = 128 + d0 /\ b[first + 1] = 128 + d1
        /\ b[first + 2] = v2 /\ VariableLength(n) = 3
    BY <2>1, <1>4, <1>5, SMT DEF Holds
  <2>3. n = d0 + 128 * d1 + 16384 * v2
    BY <1>5, <1>1, SMT
  <2> QED
    BY <2>2, <2>3, <1>9, <1>5, <1>1, SMT
<1>10. CASE n > 127 /\ v1 > 127 /\ v2 > 127
  <2>1. ToVariableBytes(n) = <<128 + d0, 128 + d1, 128 + d2, v3>>
    BY <1>6, <1>10, <1>1, SMT
  <2>2. /\ b[first + 0] = 128 + d0 /\ b[first + 1] = 128 + d1
        /\ b[first + 2] = 128 + d2 /\ b[first + 3] = v3 /\ VariableLength(n) = 4
    BY <2>1, <1>4, <1>5, SMT DEF Holds
  <2>3. n = d0 + 128 * d1 + 16384 * d2 + 2097152 * v3
    BY <1>5, <1>1, SMT
  <2> QED
    BY <2>2, <2>3, <1>5, SMT
<1> QED
  BY <1>1, <1>7, <1>8, <1>9, <1>10, SMT

\* varint_parser reads back what to_variable_bytes wrote, wherever it stands in
\* a buffer and whatever follows, and stops right behind it.
THEOREM VarintRoundTrip ==
    ASSUME NEW n \in Nat, n <= MaxVarint, NEW b \in Seq(0..255),
           NEW first \in Nat \ {0}, NEW last \in Nat,
           Holds(b, first, n), first + VariableLength(n) <= last
    PROVE  VarintParse(b, first, last) = Parsed(n, first + VariableLength(n))
  BY Layout, SMT DEF VarintParse

\* A prefix of a Variable Byte Integer is never taken for one: varint_parser
\* fails when the buffer ends before the last byte, which is when assemble_op
\* goes on reading.
THEOREM VarintCutOff ==
    ASSUME NEW n \in Nat, n <= MaxVarint, NEW b \in Seq(0..255),
           NEW first \in Nat \ {0}, NEW last \in Nat,
           Holds(b, first, n), last < first + VariableLength(n)
    PROVE  VarintParse(b, first, last) = Fail
  BY Layout, SMT DEF VarintParse
-------------------------------------------------------------------------------
(* packet_id_allocator: for every number of identifiers, 65535 included, the *)
(* vector of free intervals is ordered, coalesced and describes exactly the  *)
(* unused identifiers, and the allocator implements PidPool.                 *)

PidInv == TypeOK /\ Coalesced /\ FreeIsUnused

\* Whether x lies in the interval r.
In(x, r) == r.end < x /\ x <= r.start

\* All identifiers are free at the start.
LEMMA PidInvInit == Init => PidInv
  <1> SUFFICES ASSUME Init PROVE PidInv
    OBVIOUS
  <1> DEFINE r == [start |-> MaxPid, end |-> 0]
  <1>1. r \in Interval /\ r.start = MaxPid /\ r.end = 0
    BY MaxPidAssumption DEF Interval, Ids
  <1>2. free_ids = <<r>> /\ Len(free_ids) = 1 /\ free_ids[1] = r
    BY DEF Init
  <1> HIDE DEF r
  <1>3. TypeOK
    BY <1>1, <1>2, MaxPidAssumption DEF Init, TypeOK
  <1>4. Coalesced
    BY <1>1, <1>2, MaxPidAssumption DEF Coalesced
  <1>5. FreeIsUnused
    BY <1>1, <1>2, MaxPidAssumption DEF Init, FreeIsUnused, Ids
  <1> QED
    BY <1>3, <1>4, <1>5 DEF PidInv

\* The last interval holds the smallest identifiers.
LEMMA LowestLast ==
    ASSUME PidInv, free_ids # <<>>
    PROVE  LET n == Len(free_ids)
           IN  /\ n \in 1..Len(free_ids)
               /\ free_ids[n] \in Interval
               /\ free_ids[n].end + 1 \in Ids \ used
               /\ \A x \in Ids \ used : free_ids[n].end + 1 <= x
  <1> DEFINE n == Len(free_ids)
  <1>1. n \in 1..Len(free_ids) /\ n \in Nat /\ free_ids[n] \in Interval
    BY EmptySeq DEF PidInv, TypeOK
  <1>2. free_ids[n].end < free_ids[n].start
    BY <1>1 DEF PidInv, Coalesced
  <1>3. free_ids[n].end + 1 \in Ids \ used
    BY <1>1, <1>2, MaxPidAssumption DEF PidInv, FreeIsUnused, Interval, Ids
  <1>4. ASSUME NEW x \in Ids \ used PROVE free_ids[n].end + 1 <= x
    <2>1. PICK i \in 1..Len(free_ids) :
             free_ids[i].end < x /\ x <= free_ids[i].start
      BY <1>4 DEF PidInv, FreeIsUnused
    <2>2. free_ids[i] \in Interval
      BY DEF PidInv, TypeOK
    <2>3. CASE i = n
      BY <1>1, <2>1, <2>3 DEF Interval, Ids
    <2>4. CASE i < n
      <3>1. free_ids[n].start < free_ids[i].end
        BY <1>1, <2>4 DEF PidInv, Coalesced
      <3> QED
        BY <1>1, <1>2, <2>1, <2>2, <3>1 DEF Interval, Ids
    <2> QED
      BY <1>1, <2>3, <2>4
  <1> QED
    BY <1>1, <1>3, <1>4

\* allocate() keeps the invariant.
LEMMA AllocateInv == PidInv /\ Allocate => PidInv'
  <1> SUFFICES ASSUME PidInv, Allocate PROVE PidInv'
    OBVIOUS
  <1>1. CASE free_ids = <<>> /\ ret' = 0 /\ UNCHANGED <<free_ids, used>>
    BY <1>1, MaxPidAssumption DEF PidInv, TypeOK, Coalesced, FreeIsUnused
  <1>2. CASE free_ids # <<>>
    <2> DEFINE n == Len(free_ids)
               pid == free_ids[n].end + 1
    <2>1. /\ n \in 1..Len(free_ids) /\ n \in Nat
          /\ free_ids[n] \in Interval
          /\ pid \in Ids \ used
          /\ free_ids \in Seq(Interval)
      BY <1>2, LowestLast DEF PidInv, TypeOK
    <2>2. /\ ret' = pid
          /\ used' = used \cup {pid}
          /\ free_ids' = IF free_ids[n].start = pid
                         THEN SubSeq(free_ids, 1, n - 1)
                         ELSE [free_ids EXCEPT ![n] =
                                 [start |-> free_ids[n].start, end |-> pid]]
      BY <1>2 DEF Allocate
    <2>3. CASE free_ids[n].start = pid
      <3>1. /\ free_ids' \in Seq(Interval)
            /\ Len(free_ids') = n - 1
            /\ \A i \in 1..(n - 1) : free_ids'[i] = free_ids[i]
        <4>1. free_ids' = SubSeq(free_ids, 1, n - 1)
          BY <2>2, <2>3
        <4> HIDE DEF n
        <4> QED
          BY <2>1, <4>1, SubSeqProperties
      <3>2. TypeOK'
        BY <2>1, <2>2, <3>1 DEF PidInv, TypeOK, Ids
      <3>3. Coalesced'
        BY <2>1, <3>1 DEF PidInv, Coalesced
      <3>4. ASSUME NEW x \in Ids
            PROVE  x \notin used' <=> \E i \in 1..Len(free_ids') :
                     free_ids'[i].end < x /\ x <= free_ids'[i].start
        <4>1. In(x, free_ids[n]) <=> x = pid
          BY <2>1, <2>3 DEF In, Interval, Ids
        <4>2. \A i \in 1..(n - 1) : ~In(pid, free_ids[i])
          <5>1. ASSUME NEW i \in 1..(n - 1) PROVE ~In(pid, free_ids[i])
            <6>1. free_ids[n].start < free_ids[i].end /\ free_ids[i] \in Interval
              BY <2>1 DEF PidInv, Coalesced
            <6> QED
              BY <2>1, <2>3, <6>1 DEF In, Interval, Ids
          <5> QED
            BY <5>1
        <4>3. x \notin used <=> \E i \in 1..n : In(x, free_ids[i])
          BY DEF PidInv, FreeIsUnused, In
        <4>4. x \notin used' <=> \E i \in 1..(n - 1) : In(x, free_ids[i])
          BY <2>1, <2>2, <4>1, <4>2, <4>3
        <4> QED
          BY <2>1, <3>1, <4>4 DEF In
      <3> QED
        BY <3>2, <3>3, <3>4 DEF PidInv, FreeIsUnused
    <2>4. CASE free_ids[n].start # pid
      <3> DEFINE r == [start |-> free_ids[n].start, end |-> pid]
      <3>1. r \in Interval /\ r.start = free_ids[n].start /\ r.end = pid
        BY <2>1 DEF Interval, Ids
      <3>2. /\ free_ids' \in Seq(Interval)
            /\ Len(free_ids') = n
            /\ free_ids'[n] = r
            /\ \A i \in 1..(n - 1) : free_ids'[i] = free_ids[i]
        BY <2>1, <2>2, <2>4, <3>1
      <3> HIDE DEF r
      <3>3. TypeOK'
        BY <2>1, <2>2, <3>2 DEF PidInv, TypeOK, Ids
      <3>4. pid < r.start
        BY <2>1, <2>4, <3>1 DEF PidInv, Coalesced, Interval, Ids
      <3>5. Coalesced'
        <4>1. ASSUME NEW i \in 1..n PROVE free_ids'[i].end < free_ids'[i].start
          BY <2>1, <3>1, <3>2, <3>4 DEF PidInv, Coalesced
        <4>2. ASSUME NEW i \in 1..n, NEW j \in 1..n, i < j
              PROVE  free_ids'[j].start < free_ids'[i].end
          BY <2>1, <3>1, <3>2, <4>2 DEF PidInv, Coalesced
        <4> QED
          BY <3>2, <4>1, <4>2 DEF Coalesced
      <3>6. ASSUME NEW x \in Ids
            PROVE  x \notin used' <=> \E i \in 1..Len(free_ids') :
                     free_ids'[i].end < x /\ x <= free_ids'[i].start
        <4>1. In(x, r) <=> In(x, free_ids[n]) /\ x # pid
          BY <2>1, <3>1 DEF In, Interval, Ids
        <4>2. \A i \in 1..(n - 1) : ~In(pid, free_ids[i])
          <5>1. ASSUME NEW i \in 1..(n - 1) PROVE ~In(pid, free_ids[i])
            <6>1. free_ids[n].start < free_ids[i].end /\ free_ids[i] \in Interval
              BY <2>1 DEF PidInv, Coalesced
            <6>2. /\ pid \in Int /\ free_ids[n].start \in Int
                  /\ free_ids[i].end \in Int
              BY <2>1, <6>1 DEF Interval, Ids
            <6>3. pid < free_ids[n].start
              BY <3>1, <3>4
            <6> HIDE DEF pid
            <6>4. ~(free_ids[i].end < pid)
              BY <6>1, <6>2, <6>3
            <6> QED
              BY <6>4 DEF In
          <5> QED
            BY <5>1
        <4> QED
          BY <2>1, <2>2, <3>2, <4>1, <4>2 DEF PidInv, FreeIsUnused, In
      <3> QED
        BY <3>3, <3>5, <3>6 DEF PidInv, FreeIsUnused
    <2> QED
      BY <2>3, <2>4
  <1> QED
    BY <1>1, <1>2 DEF Allocate

\* Where a used identifier lies among the free intervals.
LEMMA AroundPid ==
    ASSUME PidInv, NEW pid \in used, NEW it, UpperBound(pid, it)
    PROVE  /\ pid \in Ids
           /\ \A i \in 1..(it - 1) : pid <= free_ids[i].end
           /\ \A i \in 1..(it - 2) : pid < free_ids[i].end
           /\ \A i \in it..Len(free_ids) : free_ids[i].start < pid
  <1>0. pid \in Ids /\ it \in 1..(Len(free_ids) + 1) /\ Len(free_ids) \in Nat
    BY DEF PidInv, TypeOK, UpperBound
  <1>1. \A i \in 1..Len(free_ids) : free_ids[i] \in Interval
    BY DEF PidInv, TypeOK
  <1>2. \A i \in 1..(it - 1) : pid <= free_ids[i].end
    BY <1>0, <1>1 DEF UpperBound, PidInv, FreeIsUnused, Interval, Ids
  <1>3. ASSUME NEW i \in 1..(it - 2) PROVE pid < free_ids[i].end
    <2>1. /\ pid <= free_ids[it - 1].end
          /\ free_ids[it - 1].end < free_ids[it - 1].start
          /\ free_ids[it - 1].start < free_ids[i].end
      BY <1>0, <1>2 DEF PidInv, Coalesced
    <2> QED
      BY <1>0, <1>1, <2>1 DEF Interval, Ids
  <1>4. ASSUME NEW i \in it..Len(free_ids) PROVE free_ids[i].start < pid
    <2>1. free_ids[it].start < pid
      BY <1>0, <1>1 DEF UpperBound, Interval, Ids
    <2>2. CASE i = it
      BY <2>1, <2>2
    <2>3. CASE i > it
      <3>1. /\ free_ids[i].start < free_ids[it].end
            /\ free_ids[it].end < free_ids[it].start
        BY <1>0, <2>3 DEF PidInv, Coalesced
      <3> QED
        BY <1>0, <1>1, <2>1, <3>1 DEF Interval, Ids
    <2> QED
      BY <1>0, <2>2, <2>3
  <1> QED
    BY <1>0, <1>2, <1>3, <1>4

\* The elements of a sequence put together from a front, one element, a back.
LEMMA Splice ==
    ASSUME NEW S, NEW r \in S, NEW front \in Seq(S), NEW back \in Seq(S)
    PROVE  LET s == front \o <<r>> \o back
           IN  /\ s \in Seq(S) /\ Len(s) = Len(front) + 1 + Len(back)
               /\ \A i \in 1..Len(front) : s[i] = front[i]
               /\ s[Len(front) + 1] = r
               /\ \A i \in 1..Len(back) : s[Len(front) + 1 + i] = back[i]
  <1> DEFINE t == front \o <<r>>
             s == t \o back
  <1>1. <<r>> \in Seq(S) /\ Len(<<r>>) = 1 /\ <<r>>[1] = r
    OBVIOUS
  <1>2. /\ t \in Seq(S)
        /\ Len(t) = Len(front) + 1
        /\ \A i \in 1..Len(front) : t[i] = front[i]
        /\ t[Len(front) + 1] = r
    BY <1>1, ConcatProperties
  <1>3. Len(front) \in Nat /\ Len(back) \in Nat
    BY LenProperties
  <1> HIDE DEF t
  <1>4. /\ s \in Seq(S) /\ Len(s) = Len(t) + Len(back)
        /\ \A i \in 1..(Len(t) + Len(back)) :
              s[i] = IF i <= Len(t) THEN t[i] ELSE back[i - Len(t)]
    BY <1>2, ConcatProperties
  <1> HIDE DEF s
  <1>5. ASSUME NEW i \in 1..Len(back) PROVE s[Len(front) + 1 + i] = back[i]
    <2>1. /\ Len(t) + i \in 1..(Len(t) + Len(back))
          /\ ~(Len(t) + i <= Len(t)) /\ Len(t) + i - Len(t) = i
          /\ Len(front) + 1 + i = Len(t) + i
      BY <1>2, <1>3
    <2> QED
      BY <1>4, <2>1
  <1>6. /\ \A i \in 1..Len(front) : s[i] = front[i]
        /\ s[Len(front) + 1] = r
    BY <1>2, <1>3, <1>4
  <1> QED
    BY <1>2, <1>4, <1>5, <1>6 DEF s, t

\* free() keeps the invariant, whichever neighbours the identifier joins.
LEMMA FreeInv == ASSUME PidInv, NEW pid \in Ids, Free(pid) PROVE PidInv'
  <1> DEFINE n == Len(free_ids)
  <1>1. /\ pid \in used /\ used' = used \ {pid} /\ ret' = ret
        /\ free_ids \in Seq(Interval) /\ n \in Nat
        /\ \A i \in 1..n : free_ids[i] \in Interval
        /\ \A i \in 1..n : free_ids[i].start \in Nat /\ free_ids[i].end \in Nat
        /\ pid \in Nat /\ pid >= 1
    <2>1. /\ free_ids \in Seq(Interval)
          /\ pid \in used /\ used' = used \ {pid} /\ ret' = ret
      BY DEF Free, PidInv, TypeOK
    <2>2. \A i \in 1..n : free_ids[i] \in Interval
      BY <2>1
    <2> QED
      BY MaxPidAssumption, <2>1, <2>2 DEF Interval, Ids
  <1>n. n \in Nat /\ pid \in Nat /\ pid >= 1 /\ \A x \in Ids : x \in Nat
    BY <1>1, MaxPidAssumption DEF Ids
  <1>2. PICK it \in 1..(n + 1) :
          /\ UpperBound(pid, it)
          /\ LET above == it # 1 /\ free_ids[it - 1].end = pid
                 below == it # n + 1 /\ pid - 1 = free_ids[it].start
             IN  \/ /\ below /\ ~above
                    /\ free_ids' =
                         [free_ids EXCEPT ![it] =
                            [start |-> pid, end |-> free_ids[it].end]]
                 \/ /\ below /\ above
                    /\ free_ids' =
                         SubSeq(free_ids, 1, it - 2)
                         \o <<[start |-> free_ids[it - 1].start,
                               end |-> free_ids[it].end]>>
                         \o SubSeq(free_ids, it + 1, n)
                 \/ /\ ~below /\ ~above
                    /\ free_ids' = SubSeq(free_ids, 1, it - 1)
                                   \o <<[start |-> pid, end |-> pid - 1]>>
                                   \o SubSeq(free_ids, it, n)
                 \/ /\ ~below /\ above
                    /\ free_ids' =
                         [free_ids EXCEPT ![it - 1] =
                            [start |-> free_ids[it - 1].start, end |-> pid - 1]]
    BY DEF Free
  <1> DEFINE above == it # 1 /\ free_ids[it - 1].end = pid
             below == it # n + 1 /\ pid - 1 = free_ids[it].start
  <1>3. /\ \A i \in 1..(it - 1) : pid <= free_ids[i].end
        /\ \A i \in 1..(it - 2) : pid < free_ids[i].end
        /\ \A i \in it..n : free_ids[i].start < pid
    BY <1>1, <1>2, AroundPid
  <1>4. /\ \A i \in 1..n : free_ids[i].end < free_ids[i].start
        /\ \A i, j \in 1..n : i < j => free_ids[j].start < free_ids[i].end
        /\ \A x \in Ids : x \notin used <=> \E i \in 1..n : In(x, free_ids[i])
    BY DEF PidInv, Coalesced, FreeIsUnused, In
  <1>5. \A x \in Ids : x \notin used' <=>
                         x = pid \/ \E i \in 1..n : In(x, free_ids[i])
    BY <1>1, <1>4
  <1>6. ASSUME free_ids' \in Seq(Interval),
               \A i \in 1..Len(free_ids') : free_ids'[i].end < free_ids'[i].start,
               \A i, j \in 1..Len(free_ids') :
                  i < j => free_ids'[j].start < free_ids'[i].end,
               \A x \in Ids : (\E i \in 1..Len(free_ids') : In(x, free_ids'[i]))
                  <=> x = pid \/ \E i \in 1..n : In(x, free_ids[i])
        PROVE  PidInv'
    BY <1>1, <1>5, <1>6 DEF PidInv, TypeOK, Coalesced, FreeIsUnused, In
  <1> HIDE DEF n
  <1>a. CASE below /\ ~above
    <2> DEFINE r == [start |-> pid, end |-> free_ids[it].end]
    <2>1. it \in 1..n /\ free_ids[it] \in Interval /\ pid - 1 = free_ids[it].start
      BY <1>1, <1>a
    <2>2. r \in Interval /\ r.start = pid /\ r.end = free_ids[it].end
      BY <2>1 DEF Interval
    <2>3. free_ids' = [free_ids EXCEPT ![it] = r]
      BY <1>2, <1>a DEF n
    <2> HIDE DEF r
    <2>4. /\ free_ids' \in Seq(Interval) /\ Len(free_ids') = n
          /\ \A i \in 1..n : free_ids'[i] = IF i = it THEN r ELSE free_ids[i]
      BY <1>1, <2>1, <2>2, <2>3 DEF n
    <2>5. \A i \in 1..(it - 1) : pid < free_ids[i].end
      <3>1. ASSUME it # 1 PROVE pid < free_ids[it - 1].end
        <4>1. it - 1 \in 1..(it - 1) /\ it - 1 \in 1..n
          BY <1>n, <2>1, <3>1
        <4>2. pid <= free_ids[it - 1].end /\ free_ids[it - 1].end \in Nat
          BY <1>1, <1>3, <4>1
        <4>3. pid # free_ids[it - 1].end
          BY <1>a, <3>1
        <4> QED
          BY <1>n, <4>2, <4>3
      <3> QED
        BY <1>2, <1>3, <3>1
    <2>6. \A i \in 1..n : free_ids'[i].end < free_ids'[i].start
      <3>1. r.end < r.start
        BY <1>1, <1>4, <2>1, <2>2
      <3> QED
        BY <1>4, <2>4, <3>1
    <2>7. ASSUME NEW i \in 1..n, NEW j \in 1..n, i < j
          PROVE  free_ids'[j].start < free_ids'[i].end
      <3>1. CASE j = it
        <4>1. free_ids'[j] = r /\ free_ids'[i] = free_ids[i] /\ i \in 1..(it - 1)
          BY <1>1, <2>4, <2>7, <3>1
        <4> QED
          BY <2>2, <2>5, <4>1
      <3>2. CASE j # it
        <4>1. free_ids'[j] = free_ids[j] /\ free_ids'[i].end = free_ids[i].end
          BY <2>2, <2>4, <3>2
        <4> QED
          BY <1>4, <2>7, <4>1
      <3> QED
        BY <3>1, <3>2
    <2>8. \A x \in Ids : In(x, r) <=> x = pid \/ In(x, free_ids[it])
      BY <1>4, <2>1, <2>2 DEF In, Interval, Ids
    <2>9. \A x \in Ids : (\E i \in 1..n : In(x, free_ids'[i]))
                         <=> x = pid \/ \E i \in 1..n : In(x, free_ids[i])
      BY <2>1, <2>4, <2>8
    <2> QED
      BY <1>6, <2>4, <2>6, <2>7, <2>9
  <1>b. CASE below /\ above
    <2> DEFINE r == [start |-> free_ids[it - 1].start, end |-> free_ids[it].end]
               front == SubSeq(free_ids, 1, it - 2)
               back == SubSeq(free_ids, it + 1, n)
    <2>1. /\ it \in 2..n /\ free_ids[it] \in Interval
          /\ free_ids[it - 1] \in Interval
          /\ pid - 1 = free_ids[it].start /\ pid = free_ids[it - 1].end
      BY <1>1, <1>b
    <2>i. it \in 2..n /\ n \in Nat /\ it \in 1..n /\ it - 1 \in 1..n
      BY <1>n, <2>1
    <2>t. /\ free_ids[it].start \in Nat /\ free_ids[it].end \in Nat
          /\ free_ids[it - 1].start \in Nat /\ free_ids[it - 1].end \in Nat
      BY <1>1, <2>i
    <2>2. /\ r \in Interval /\ r.start = free_ids[it - 1].start
          /\ r.end = free_ids[it].end
      BY <2>1 DEF Interval
    <2>3. free_ids' = front \o <<r>> \o back
      BY <1>2, <1>b DEF n
    <2>4. /\ front \in Seq(Interval) /\ Len(front) = it - 2
          /\ \A i \in 1..(it - 2) : front[i] = free_ids[i]
          /\ back \in Seq(Interval) /\ Len(back) = n - it
          /\ \A i \in 1..(n - it) : back[i] = free_ids[it + i]
      BY <1>1, <2>1, SubSeqProperties DEF n
    <2> HIDE DEF r, front, back
    <2>5. /\ free_ids' \in Seq(Interval) /\ Len(free_ids') = n - 1
          /\ \A i \in 1..(it - 2) : free_ids'[i] = free_ids[i]
          /\ free_ids'[it - 1] = r
          /\ \A i \in it..(n - 1) : free_ids'[i] = free_ids[i + 1]
      <3>1. /\ free_ids' \in Seq(Interval)
            /\ Len(free_ids') = Len(front) + 1 + Len(back)
            /\ \A i \in 1..Len(front) : free_ids'[i] = front[i]
            /\ free_ids'[Len(front) + 1] = r
            /\ \A i \in 1..Len(back) : free_ids'[Len(front) + 1 + i] = back[i]
        <4>1. r \in Interval /\ front \in Seq(Interval) /\ back \in Seq(Interval)
          BY <2>2, <2>4
        <4> DEFINE s == front \o <<r>> \o back
        <4>2. /\ s \in Seq(Interval)
              /\ Len(s) = Len(front) + 1 + Len(back)
              /\ \A i \in 1..Len(front) : s[i] = front[i]
              /\ s[Len(front) + 1] = r
              /\ \A i \in 1..Len(back) : s[Len(front) + 1 + i] = back[i]
          BY <4>1, Splice
        <4>3. free_ids' = s
          BY <2>3
        <4> HIDE DEF s
        <4> QED
          BY <4>2, <4>3
      <3>2. /\ Len(front) = it - 2 /\ Len(back) = n - it
            /\ it - 2 + 1 = it - 1 /\ it - 2 + 1 + n - it = n - 1
        BY <1>1, <2>1, <2>4
      <3>3. ASSUME NEW i \in it..(n - 1) PROVE free_ids'[i] = free_ids[i + 1]
        <4>1. /\ i - it + 1 \in 1..(n - it)
              /\ Len(front) + 1 + (i - it + 1) = i
              /\ it + (i - it + 1) = i + 1
          BY <2>i, <3>2
        <4> QED
          <5>1. free_ids'[i] = back[i - it + 1]
            BY <3>1, <3>2, <4>1
          <5> QED
            BY <2>4, <4>1, <5>1
      <3> QED
        BY <1>1, <2>1, <2>4, <3>1, <3>2, <3>3
    <2>6. r.end < r.start
      <3>1. /\ free_ids[it].end < free_ids[it].start
            /\ free_ids[it - 1].end < free_ids[it - 1].start
        BY <1>4, <2>i
      <3> QED
        BY <1>n, <2>1, <2>2, <2>t, <3>1
    <2>7. \A i \in 1..(n - 1) : free_ids'[i].end < free_ids'[i].start
      <3>1. ASSUME NEW i \in 1..(n - 1)
            PROVE  free_ids'[i].end < free_ids'[i].start
        <4>1. CASE i \in 1..(it - 2)
          <5>1. i \in 1..n
            BY <2>i, <4>1
          <5> QED
            BY <1>4, <2>5, <4>1, <5>1
        <4>2. CASE i = it - 1
          BY <2>5, <2>6, <4>2
        <4>3. CASE i \in it..(n - 1)
          <5>1. i + 1 \in 1..n
            BY <2>i, <4>3
          <5> QED
            BY <1>4, <2>5, <4>3, <5>1
        <4> QED
          BY <2>i, <4>1, <4>2, <4>3
      <3> QED
        BY <3>1
    <2>8. ASSUME NEW i \in 1..(n - 1), NEW j \in 1..(n - 1), i < j
          PROVE  free_ids'[j].start < free_ids'[i].end
      <3> DEFINE src(k) == IF k < it THEN k ELSE k + 1
                 tgt(k) == IF k < it - 1 THEN k ELSE k + 1
      <3>1. /\ free_ids'[j].start = free_ids[src(j)].start
            /\ free_ids'[i].end = free_ids[tgt(i)].end
            /\ src(j) \in 1..n /\ tgt(i) \in 1..n
        <4>1. CASE i \in 1..(it - 2) /\ j \in 1..(it - 2)
          <5>1. src(j) = j /\ tgt(i) = i /\ i \in 1..n /\ j \in 1..n
            BY <2>i, <4>1
          <5> QED
            BY <2>5, <4>1, <5>1
        <4>2. CASE i \in 1..(it - 2) /\ j = it - 1
          <5>1. /\ src(j) = it - 1 /\ tgt(i) = i
                /\ i \in 1..n /\ it - 1 \in 1..n
            BY <2>i, <4>2
          <5> QED
            BY <2>2, <2>5, <4>2, <5>1
        <4>3. CASE i \in 1..(it - 2) /\ j \in it..(n - 1)
          <5>1. src(j) = j + 1 /\ tgt(i) = i
            BY <2>1, <4>3
          <5>3. i \in 1..n /\ j + 1 \in 1..n
            BY <2>i, <4>3
          <5>2. free_ids'[j] = free_ids[j + 1] /\ free_ids'[i] = free_ids[i]
            BY <2>5, <4>3
          <5> QED
            BY <5>1, <5>2, <5>3
        <4>4. CASE i = it - 1 /\ j \in it..(n - 1)
          <5>1. /\ src(j) = j + 1 /\ tgt(i) = it
                /\ j + 1 \in 1..n /\ it \in 1..n
            BY <2>i, <4>4
          <5> QED
            BY <2>2, <2>5, <4>4, <5>1
        <4>5. CASE i \in it..(n - 1) /\ j \in it..(n - 1)
          <5>1. /\ src(j) = j + 1 /\ tgt(i) = i + 1
                /\ i + 1 \in 1..n /\ j + 1 \in 1..n
            BY <2>i, <4>5
          <5>2. free_ids'[j] = free_ids[j + 1] /\ free_ids'[i] = free_ids[i + 1]
            BY <2>5, <4>5
          <5> QED
            BY <5>1, <5>2
        <4> QED
          BY <2>i, <2>8, <4>1, <4>2, <4>3, <4>4, <4>5
      <3>2. CASE tgt(i) < src(j)
        BY <1>4, <3>1, <3>2
      <3>3. CASE ~(tgt(i) < src(j))
        BY <1>1, <2>1, <2>8, <3>3
      <3> QED
        BY <3>2, <3>3
    <2>9. \A x \in Ids : In(x, r) <=> \/ x = pid \/ In(x, free_ids[it])
                                      \/ In(x, free_ids[it - 1])
      <3>1. /\ free_ids[it].end < free_ids[it].start
            /\ free_ids[it - 1].end < free_ids[it - 1].start
        BY <1>4, <2>i
      <3> QED
        BY <1>n, <2>1, <2>2, <2>t, <3>1 DEF In
    <2>10. ASSUME NEW x \in Ids
           PROVE  (\E i \in 1..(n - 1) : In(x, free_ids'[i]))
                  <=> x = pid \/ \E i \in 1..n : In(x, free_ids[i])
      <3>1. ASSUME NEW i \in 1..(n - 1), In(x, free_ids'[i])
            PROVE  x = pid \/ \E k \in 1..n : In(x, free_ids[k])
        <4>1. CASE i \in 1..(it - 2)
          <5>1. i \in 1..n
            BY <2>i, <4>1
          <5> QED
            BY <2>5, <3>1, <4>1, <5>1
        <4>2. CASE i = it - 1
          <5>1. it \in 1..n /\ it - 1 \in 1..n
            BY <2>i
          <5> QED
            BY <2>5, <2>9, <3>1, <4>2, <5>1
        <4>3. CASE i \in it..(n - 1)
          <5>1. i + 1 \in 1..n
            BY <2>i, <4>3
          <5> QED
            BY <2>5, <3>1, <4>3, <5>1
        <4> QED
          BY <2>i, <4>1, <4>2, <4>3
      <3>2. ASSUME x = pid PROVE \E i \in 1..(n - 1) : In(x, free_ids'[i])
        BY <1>1, <2>1, <2>5, <2>9, <3>2
      <3>3. ASSUME NEW k \in 1..n, In(x, free_ids[k])
            PROVE  \E i \in 1..(n - 1) : In(x, free_ids'[i])
        <4>1. CASE k < it - 1
          BY <1>1, <2>1, <2>5, <3>3, <4>1
        <4>2. CASE k = it - 1 \/ k = it
          BY <1>1, <2>1, <2>5, <2>9, <3>3, <4>2
        <4>3. CASE k > it
          <5>1. k - 1 \in 1..(n - 1) /\ free_ids'[k - 1] = free_ids[k]
            BY <1>1, <2>1, <2>5, <4>3
          <5> QED
            BY <3>3, <5>1
        <4> QED
          BY <2>i, <4>1, <4>2, <4>3
      <3> QED
        BY <3>1, <3>2, <3>3
    <2> QED
      BY <1>6, <2>5, <2>7, <2>8, <2>10
  <1>c. CASE ~below /\ ~above
    <2> DEFINE r == [start |-> pid, end |-> pid - 1]
               front == SubSeq(free_ids, 1, it - 1)
               back == SubSeq(free_ids, it, n)
    <2>1. it \in 1..(n + 1) /\ it \in Nat
      BY <1>1
    <2>2. r \in Interval /\ r.start = pid /\ r.end = pid - 1
      BY <1>1, MaxPidAssumption DEF Interval, Ids
    <2>3. free_ids' = front \o <<r>> \o back
      BY <1>2, <1>c DEF n
    <2>4. /\ front \in Seq(Interval) /\ Len(front) = it - 1
          /\ \A i \in 1..(it - 1) : front[i] = free_ids[i]
          /\ back \in Seq(Interval) /\ Len(back) = n + 1 - it
          /\ \A i \in 1..(n + 1 - it) : back[i] = free_ids[it + i - 1]
      BY <1>1, <2>1, SubSeqProperties DEF n
    <2> HIDE DEF r, front, back
    <2>5. /\ free_ids' \in Seq(Interval) /\ Len(free_ids') = n + 1
          /\ \A i \in 1..(it - 1) : free_ids'[i] = free_ids[i]
          /\ free_ids'[it] = r
          /\ \A i \in (it + 1)..(n + 1) : free_ids'[i] = free_ids[i - 1]
      <3> DEFINE s == front \o <<r>> \o back
      <3>1. /\ s \in Seq(Interval)
            /\ Len(s) = Len(front) + 1 + Len(back)
            /\ \A i \in 1..Len(front) : s[i] = front[i]
            /\ s[Len(front) + 1] = r
            /\ \A i \in 1..Len(back) : s[Len(front) + 1 + i] = back[i]
        <4>1. r \in Interval /\ front \in Seq(Interval) /\ back \in Seq(Interval)
          BY <2>2, <2>4
        <4> QED
          BY <4>1, Splice
      <3>2. free_ids' = s
        BY <2>3
      <3> HIDE DEF s
      <3>3. Len(front) + 1 = it /\ it + Len(back) = n + 1
        BY <1>1, <2>1, <2>4
      <3>4. ASSUME NEW i \in (it + 1)..(n + 1) PROVE s[i] = free_ids[i - 1]
        <4>1. i - it \in 1..(n + 1 - it) /\ it + (i - it) = i
              /\ it + (i - it) - 1 = i - 1
          BY <1>1, <2>1
        <4>2. s[i] = back[i - it]
          BY <2>4, <3>1, <3>3, <4>1
        <4> QED
          BY <2>4, <4>1, <4>2
      <3> QED
        BY <2>4, <3>1, <3>2, <3>3, <3>4
    <2>6. ASSUME NEW i \in 1..(it - 1)
          PROVE  /\ i \in 1..n /\ free_ids'[i] = free_ids[i]
                 /\ pid < free_ids[i].end
      <3>1. i \in 1..n /\ (it # 1 => it - 1 \in 1..n)
        BY <1>1, <2>1
      <3>2. CASE i = it - 1
        <4>1. free_ids[i].end # pid /\ pid <= free_ids[i].end
          BY <1>3, <1>c, <2>1, <3>2
        <4> QED
          BY <1>1, <2>5, <3>1, <4>1
      <3>3. CASE i \in 1..(it - 2)
        BY <1>3, <2>5, <3>1, <3>3
      <3> QED
        BY <2>1, <3>2, <3>3
    <2>7. ASSUME NEW i \in (it + 1)..(n + 1)
          PROVE  /\ i - 1 \in 1..n /\ free_ids'[i] = free_ids[i - 1]
                 /\ free_ids[i - 1].start < pid - 1
      <3>1. i - 1 \in 1..n /\ i - 1 \in it..n /\ it \in 1..n
        BY <1>1, <2>1
      <3>2. free_ids[i - 1].start < pid /\ free_ids[it].start < pid
        BY <1>3, <3>1
      <3>3. free_ids[it].start # pid - 1
        BY <1>1, <1>c, <3>1
      <3>4. CASE i - 1 = it
        <4>1. free_ids[it].start \in Nat
          BY <1>1, <3>1
        <4>2. free_ids[i - 1].start < pid - 1
          BY <1>n, <3>2, <3>3, <3>4, <4>1
        <4> QED
          BY <2>5, <3>1, <4>2
      <3>5. CASE i - 1 > it
        <4>1. /\ free_ids[i - 1].start < free_ids[it].end
              /\ free_ids[it].end < free_ids[it].start
          BY <1>4, <3>1, <3>5
        <4>2. /\ free_ids[it].start \in Nat /\ free_ids[it].end \in Nat
              /\ free_ids[i - 1].start \in Nat
          BY <1>1, <3>1
        <4>3. free_ids[i - 1].start < pid - 1
          BY <1>n, <3>2, <4>1, <4>2
        <4> QED
          BY <2>5, <3>1, <4>3
      <3> QED
        BY <2>1, <3>1, <3>4, <3>5
    <2>8. ASSUME NEW i \in 1..(n + 1)
          PROVE  free_ids'[i].end < free_ids'[i].start
      <3>1. CASE i = it
        BY <1>1, <2>2, <2>5, <3>1
      <3>2. CASE i \in 1..(it - 1)
        BY <1>4, <2>6, <3>2
      <3>3. CASE i \in (it + 1)..(n + 1)
        BY <1>4, <2>7, <3>3
      <3> QED
        BY <2>1, <3>1, <3>2, <3>3
    <2>9. ASSUME NEW i \in 1..(n + 1), NEW j \in 1..(n + 1), i < j
          PROVE  free_ids'[j].start < free_ids'[i].end
      <3>1. CASE j \in 1..(it - 1)
        <4>1. i \in 1..(it - 1)
          BY <2>1, <2>9, <3>1
        <4> QED
          BY <1>4, <2>6, <2>9, <3>1, <4>1
      <3>2. CASE j = it
        <4>1. i \in 1..(it - 1)
          BY <2>1, <2>9, <3>2
        <4> QED
          BY <2>2, <2>5, <2>6, <3>2, <4>1
      <3>3. CASE j \in (it + 1)..(n + 1)
        <4>1. CASE i \in 1..(it - 1)
          <5>1. i < j - 1
            BY <2>1, <3>3, <4>1
          <5> QED
            BY <1>4, <2>6, <2>7, <3>3, <4>1, <5>1
        <4>2. CASE i = it
          BY <2>2, <2>5, <2>7, <3>3, <4>2
        <4>3. CASE i \in (it + 1)..(n + 1)
          <5>1. i - 1 < j - 1
            BY <2>1, <2>9, <3>3, <4>3
          <5> QED
            BY <1>4, <2>7, <3>3, <4>3, <5>1
        <4> QED
          BY <2>1, <4>1, <4>2, <4>3
      <3> QED
        BY <2>1, <3>1, <3>2, <3>3
    <2>10. \A x \in Ids : In(x, r) <=> x = pid
      BY <1>1, <2>2, MaxPidAssumption DEF In, Ids
    <2>11. ASSUME NEW x \in Ids
           PROVE  (\E i \in 1..(n + 1) : In(x, free_ids'[i]))
                  <=> x = pid \/ \E i \in 1..n : In(x, free_ids[i])
      <3>1. ASSUME NEW i \in 1..(n + 1), In(x, free_ids'[i])
            PROVE  x = pid \/ \E k \in 1..n : In(x, free_ids[k])
        <4>1. CASE i = it
          BY <2>5, <2>10, <3>1, <4>1
        <4>2. CASE i \in 1..(it - 1)
          BY <2>6, <3>1, <4>2
        <4>3. CASE i \in (it + 1)..(n + 1)
          BY <2>7, <3>1, <4>3
        <4> QED
          BY <2>1, <4>1, <4>2, <4>3
      <3>2. ASSUME x = pid PROVE \E i \in 1..(n + 1) : In(x, free_ids'[i])
        BY <2>1, <2>5, <2>10, <3>2
      <3>3. ASSUME NEW k \in 1..n, In(x, free_ids[k])
            PROVE  \E i \in 1..(n + 1) : In(x, free_ids'[i])
        <4>1. CASE k < it
          <5>1. k \in 1..(it - 1) /\ k \in 1..(n + 1)
            BY <1>1, <2>1, <4>1
          <5> QED
            BY <2>6, <3>3, <5>1
        <4>2. CASE k >= it
          <5>1. k + 1 \in (it + 1)..(n + 1) /\ k + 1 \in 1..(n + 1)
                /\ (k + 1) - 1 = k
            BY <1>1, <2>1, <4>2
          <5> QED
            BY <2>5, <3>3, <5>1
        <4> QED
          BY <1>1, <2>1, <4>1, <4>2
      <3> QED
        BY <3>1, <3>2, <3>3
    <2> QED
      BY <1>6, <2>5, <2>8, <2>9, <2>11
  <1>d. CASE ~below /\ above
    <2> DEFINE r == [start |-> free_ids[it - 1].start, end |-> pid - 1]
    <2>1. /\ it - 1 \in 1..n /\ free_ids[it - 1] \in Interval
          /\ pid = free_ids[it - 1].end /\ it \in Nat
      BY <1>1, <1>d
    <2>2. r \in Interval /\ r.start = free_ids[it - 1].start /\ r.end = pid - 1
      <3>1. pid - 1 \in 0..MaxPid
        BY MaxPidAssumption DEF Ids
      <3> QED
        BY <2>1, <3>1 DEF Interval
    <2>t. free_ids[it - 1].start \in Nat /\ free_ids[it - 1].end < free_ids[it - 1].start
      BY <1>1, <1>4, <2>1
    <2>3. free_ids' = [free_ids EXCEPT ![it - 1] = r]
      BY <1>2, <1>d DEF n
    <2> HIDE DEF r
    <2>4. /\ free_ids' \in Seq(Interval) /\ Len(free_ids') = n
          /\ \A i \in 1..n : free_ids'[i] = IF i = it - 1 THEN r ELSE free_ids[i]
      BY <1>1, <2>1, <2>2, <2>3 DEF n
    <2>5. \A i \in it..n : free_ids[i].start < pid - 1
      <3>1. ASSUME NEW i \in it..n PROVE free_ids[i].start < pid - 1
        <4>1. i \in 1..n /\ it \in 1..n /\ it # n + 1
          BY <1>1, <2>1
        <4>2. free_ids[i].start < pid /\ free_ids[it].start < pid
              /\ free_ids[it].start # pid - 1
          BY <1>1, <1>3, <1>d, <2>1, <4>1
        <4>3. CASE i = it
          BY <1>1, <4>1, <4>2, <4>3
        <4>4. CASE i > it
          <5>1. /\ free_ids[i].start < free_ids[it].end
                /\ free_ids[it].end < free_ids[it].start
            BY <1>4, <4>1, <4>4
          <5> QED
            <6>1. /\ free_ids[it].start \in Nat /\ free_ids[it].end \in Nat
                  /\ free_ids[i].start \in Nat
              BY <1>1, <4>1
            <6> QED
              BY <1>n, <4>2, <5>1, <6>1
        <4> QED
          BY <2>1, <4>3, <4>4
      <3> QED
        BY <3>1
    <2>6. \A i \in 1..n : free_ids'[i].end < free_ids'[i].start
      <3>1. r.end < r.start
        BY <1>n, <2>1, <2>2, <2>t
      <3> QED
        BY <1>4, <2>4, <3>1
    <2>7. ASSUME NEW i \in 1..n, NEW j \in 1..n, i < j
          PROVE  free_ids'[j].start < free_ids'[i].end
      <3>1. CASE i = it - 1
        <4>1. free_ids'[i] = r /\ free_ids'[j] = free_ids[j] /\ j \in it..n
          BY <1>1, <2>1, <2>4, <2>7, <3>1
        <4> QED
          BY <2>2, <2>5, <4>1
      <3>2. CASE i # it - 1
        <4>1. free_ids'[i] = free_ids[i] /\ free_ids'[j].start = free_ids[j].start
          BY <2>2, <2>4, <3>2
        <4> QED
          BY <1>4, <2>7, <4>1
      <3> QED
        BY <3>1, <3>2
    <2>8. ASSUME NEW x \in Ids
          PROVE  In(x, r) <=> x = pid \/ In(x, free_ids[it - 1])
      <3>1. x \in Nat /\ (pid - 1 < x <=> x = pid \/ pid < x)
        BY <1>n
      <3> QED
        BY <1>n, <2>1, <2>2, <2>t, <3>1 DEF In
    <2>9. \A x \in Ids : (\E i \in 1..n : In(x, free_ids'[i]))
                         <=> x = pid \/ \E i \in 1..n : In(x, free_ids[i])
      BY <2>1, <2>4, <2>8
    <2> QED
      BY <1>6, <2>4, <2>6, <2>7, <2>9
  <1> QED
    BY <1>2, <1>a, <1>b, <1>c, <1>d DEF n

\* Each step of the allocator is a step of the pool.
LEMMA StepSimulation == PidInv /\ [Next]_vars => [Pool!Next]_(Pool!vars)
  <1> SUFFICES ASSUME PidInv, [Next]_vars PROVE [Pool!Next]_(Pool!vars)
    OBVIOUS
  <1>1. CASE Allocate
    <2>1. CASE free_ids = <<>> /\ ret' = 0 /\ UNCHANGED <<free_ids, used>>
      <3>1. used = Ids
        <4>1. Len(free_ids) = 0 /\ used \subseteq Ids
          BY <2>1, EmptySeq DEF PidInv, TypeOK
        <4>2. \A x \in Ids : x \in used
          BY <4>1 DEF PidInv, FreeIsUnused
        <4> QED
          BY <4>1, <4>2
      <3> QED
        BY <2>1, <3>1 DEF Pool!Next, Pool!Allocate, Pool!Ids, Ids
    <2>2. CASE free_ids # <<>>
      <3> DEFINE pid == free_ids[Len(free_ids)].end + 1
      <3>1. pid \in Ids \ used /\ \A x \in Ids \ used : pid <= x
        BY <2>2, LowestLast
      <3>2. ret' = pid /\ used' = used \cup {pid}
        BY <1>1, <2>2 DEF Allocate
      <3> HIDE DEF pid
      <3> QED
        BY <3>1, <3>2 DEF Pool!Next, Pool!Allocate, Pool!Ids, Ids
    <2> QED
      BY <1>1, <2>1, <2>2 DEF Allocate
  <1>2. ASSUME NEW pid \in Ids, Free(pid) PROVE Pool!Next
    BY <1>2 DEF Free, Pool!Next, Pool!Free, Pool!Ids, Ids
  <1>3. CASE UNCHANGED vars
    BY <1>3 DEF vars, Pool!vars
  <1> QED
    BY <1>1, <1>2, <1>3 DEF Next

\* Every step keeps the invariant.
LEMMA PidInvNext == PidInv /\ [Next]_vars => PidInv'
  <1> SUFFICES ASSUME PidInv, [Next]_vars PROVE PidInv'
    OBVIOUS
  <1>1. CASE UNCHANGED vars
    BY <1>1 DEF vars, PidInv, TypeOK, Coalesced, FreeIsUnused
  <1> QED
    BY <1>1, AllocateInv, FreeInv DEF Next

\* The invariant holds throughout.
LEMMA PidInvAlways == Spec => []PidInv
  BY PidInvInit, PidInvNext, PTL DEF Spec

\* The vector of free intervals stays ordered and coalesced, whatever the order
\* in which operations complete and free() their identifiers.
THEOREM AllocatorCoalesces == Spec => []Coalesced
  BY PidInvAlways, PTL DEF PidInv

\* No identifier is lost or handed out to two operations.
THEOREM AllocatorExact == Spec => []FreeIsUnused
  BY PidInvAlways, PTL DEF PidInv

\* allocate() and free() implement the pool: the smallest unused identifier is
\* handed out, and 0 (pid_overrun) exactly when all of them are in use.
THEOREM AllocatorImplementsPool == Spec => ImplementsPool
  <1>1. Init => Pool!Init
    BY DEF Init, Pool!Init
  <1> QED
    BY <1>1, PidInvAlways, StepSimulation, PTL
       DEF Spec, ImplementsPool, Pool!Spec
-------------------------------------------------------------------------------
(* async_mutex: for every set of operations it excludes, wakes its waiters   *)
(* and completes each request once; the conjunction of the three with the    *)
(* type invariant is inductive.  It also implements FifoLock.                *)

MutexInv == MutexTypeOK /\ MutualExclusion /\ NoLostWakeup /\ CompletesOnce

\* Cancelling the k-th slot removes exactly that operation from the deque.
LEMMA BlankSlot ==
    ASSUME MutexTypeOK, CompletesOnce, NEW k \in DOMAIN waiting, waiting[k] # NoOp,
           waiting' = [waiting EXCEPT ![k] = NoOp]
    PROVE  /\ waiting' \in Seq(Ops \cup {NoOp})
           /\ Queued' = Queued \ {waiting[k]}
           /\ \A i, j \in DOMAIN waiting' :
                 waiting'[i] = waiting'[j] /\ waiting'[i] # NoOp => i = j
  <1>1. waiting \in Seq(Ops \cup {NoOp})
    BY DEF MutexTypeOK
  <1>2. waiting' \in Seq(Ops \cup {NoOp}) /\ DOMAIN waiting' = DOMAIN waiting
    BY <1>1
  <1>3. \A i \in DOMAIN waiting :
           waiting'[i] = IF i = k THEN NoOp ELSE waiting[i]
    BY <1>1
  <1>4. Queued' = Queued \ {waiting[k]}
    BY <1>1, <1>2, <1>3 DEF Queued, CompletesOnce
  <1> QED
    BY <1>2, <1>3, <1>4 DEF CompletesOnce

\* unlock() drops the empty slots in front and the handler it grants.
LEMMA DropFront ==
    ASSUME MutexTypeOK, CompletesOnce, NEW k \in 1..Len(waiting), waiting[k] # NoOp,
           \A j \in 1..(k - 1) : waiting[j] = NoOp,
           waiting' = SubSeq(waiting, k + 1, Len(waiting))
    PROVE  /\ waiting' \in Seq(Ops \cup {NoOp})
           /\ Queued' = Queued \ {waiting[k]}
           /\ \A i, j \in DOMAIN waiting' :
                 waiting'[i] = waiting'[j] /\ waiting'[i] # NoOp => i = j
  <1>1. waiting \in Seq(Ops \cup {NoOp}) /\ DOMAIN waiting = 1..Len(waiting)
    BY DEF MutexTypeOK
  <1>2. /\ waiting' \in Seq(Ops \cup {NoOp})
        /\ DOMAIN waiting' = 1..(Len(waiting) - k)
        /\ \A i \in DOMAIN waiting' : waiting'[i] = waiting[k + i]
    BY <1>1
  <1>3. Queued' \subseteq Queued \ {waiting[k]}
    BY <1>1, <1>2 DEF Queued, CompletesOnce
  <1>4. ASSUME NEW op \in Queued, op # waiting[k]
        PROVE  op \in Queued'
    <2>1. PICK i \in DOMAIN waiting : waiting[i] = op /\ op # NoOp
      BY DEF Queued
    <2>2. i > k
      BY <1>1, <1>4, <2>1
    <2>3. i - k \in DOMAIN waiting' /\ waiting'[i - k] = op
      BY <1>1, <1>2, <2>1, <2>2
    <2> QED
      BY <2>1, <2>3 DEF Queued
  <1>5. ASSUME NEW i \in DOMAIN waiting', NEW j \in DOMAIN waiting',
               waiting'[i] = waiting'[j], waiting'[i] # NoOp
        PROVE  i = j
    <2>1. k + i \in DOMAIN waiting /\ k + j \in DOMAIN waiting
      BY <1>1, <1>2
    <2>2. k + i = k + j
      BY <1>2, <1>5, <2>1 DEF CompletesOnce
    <2> QED
      BY <1>1, <1>2, <2>2
  <1> QED
    BY <1>2, <1>3, <1>4, <1>5

\* Queueing a request appends it to the deque.
LEMMA QueueRequest ==
    ASSUME MutexTypeOK, CompletesOnce, NEW op \in Ops, op \notin Queued,
           waiting' = Append(waiting, op)
    PROVE  /\ waiting' \in Seq(Ops \cup {NoOp})
           /\ Queued' = Queued \cup {op}
           /\ \A i, j \in DOMAIN waiting' :
                 waiting'[i] = waiting'[j] /\ waiting'[i] # NoOp => i = j
  <1>1. waiting \in Seq(Ops \cup {NoOp}) /\ DOMAIN waiting = 1..Len(waiting)
    BY DEF MutexTypeOK
  <1>2. /\ waiting' \in Seq(Ops \cup {NoOp})
        /\ DOMAIN waiting' = 1..(Len(waiting) + 1)
        /\ \A i \in DOMAIN waiting : waiting'[i] = waiting[i]
        /\ waiting'[Len(waiting) + 1] = op
    BY <1>1
  <1>3. op # NoOp
    BY NoOpAssumption
  <1>4. Queued' = Queued \cup {op}
    <2>1. Queued \cup {op} \subseteq Queued'
      BY <1>1, <1>2, <1>3 DEF Queued
    <2>2. Queued' \subseteq Queued \cup {op}
      BY <1>1, <1>2, <1>3 DEF Queued
    <2> QED
      BY <2>1, <2>2
  <1> QED
    BY <1>1, <1>2, <1>4 DEF CompletesOnce, Queued

\* Nobody waits in an empty deque.
LEMMA NobodyQueued ==
    waiting = <<>> => Queued = {} /\ DOMAIN waiting = {}
                      /\ waiting \in Seq(Ops \cup {NoOp})
  <1>1. waiting = <<>> => DOMAIN waiting = {}
    BY EmptySeq
  <1> QED
    BY <1>1 DEF Queued

\* A new mutex is unlocked with an empty deque.
LEMMA MutexInvInit == MutexInit => MutexInv
  BY NobodyQueued
     DEF MutexInit, MutexInv, MutexTypeOK, MutualExclusion, NoLostWakeup, CompletesOnce

\* Every operation on the mutex keeps the invariant.
LEMMA MutexInvNext == MutexInv /\ [MutexNext]_MutexVars => MutexInv'
  <1> SUFFICES ASSUME MutexInv, [MutexNext]_MutexVars PROVE MutexInv'
    OBVIOUS
  <1> USE DEF MutexInv
  <1>1. ASSUME NEW op \in Ops, Lock(op) PROVE MutexInv'
    <2>1. CASE locked
      <3>1. /\ waiting' = Append(waiting, op)
            /\ UNCHANGED <<locked, granted, aborted, holding>>
        BY <1>1, <2>1 DEF Lock
      <3>2. op \notin Queued \cup granted \cup aborted \cup holding
        BY <1>1 DEF Lock, Outstanding
      <3> QED
        BY <2>1, <3>1, <3>2, QueueRequest
           DEF MutexTypeOK, MutualExclusion, NoLostWakeup, CompletesOnce
    <2>2. CASE ~locked
      <3>1. /\ locked' = TRUE
            /\ granted' = granted \cup {op}
            /\ UNCHANGED <<waiting, aborted, holding>>
        BY <1>1, <2>2 DEF Lock
      <3>2. op \notin Queued \cup granted \cup aborted \cup holding
        BY <1>1 DEF Lock, Outstanding
      <3>3. granted \cup holding = {} /\ Queued' = Queued
        BY <2>2, <3>1 DEF NoLostWakeup, Queued
      <3> QED
        BY <3>1, <3>2, <3>3
           DEF MutexTypeOK, MutualExclusion, NoLostWakeup, CompletesOnce
    <2> QED
      BY <2>1, <2>2
  <1>2. ASSUME NEW op \in Ops, RunGranted(op) PROVE MutexInv'
    <2>1. Queued' = Queued
      BY <1>2 DEF RunGranted, Queued
    <2> QED
      BY <1>2, <2>1 DEF RunGranted, MutexTypeOK, MutualExclusion, NoLostWakeup,
                        CompletesOnce
  <1>3. ASSUME NEW op \in Ops, RunAborted(op) PROVE MutexInv'
    <2>1. Queued' = Queued
      BY <1>3 DEF RunAborted, Queued
    <2> QED
      BY <1>3, <2>1 DEF RunAborted, MutexTypeOK, MutualExclusion, NoLostWakeup,
                        CompletesOnce
  <1>4. ASSUME NEW op \in Ops, Unlock(op) PROVE MutexInv'
    <2>0. granted = {} /\ holding = {op} /\ holding' = {} /\ aborted' = aborted
      BY <1>4 DEF Unlock, MutualExclusion, CompletesOnce
    <2>1. CASE Queued = {} /\ waiting' = <<>> /\ locked' = FALSE
               /\ UNCHANGED granted
      <3>1. Queued' = {} /\ DOMAIN waiting' = {}
            /\ waiting' \in Seq(Ops \cup {NoOp})
        BY <2>1, EmptySeq DEF Queued
      <3> QED
        BY <2>0, <2>1, <3>1 DEF MutexTypeOK, MutualExclusion, NoLostWakeup,
                                CompletesOnce
    <2>2. ASSUME NEW k \in 1..Len(waiting),
                 waiting[k] # NoOp,
                 \A j \in 1..(k - 1) : waiting[j] = NoOp,
                 waiting' = SubSeq(waiting, k + 1, Len(waiting)),
                 granted' = granted \cup {waiting[k]},
                 UNCHANGED locked
          PROVE  MutexInv'
      <3>1. waiting[k] \in Queued /\ waiting[k] \in Ops
        BY <2>2 DEF Queued, MutexTypeOK
      <3>2. locked
        BY <2>0 DEF NoLostWakeup
      <3> QED
        BY <2>0, <2>2, <3>1, <3>2, DropFront
           DEF MutexTypeOK, MutualExclusion, NoLostWakeup, CompletesOnce
    <2> QED
      BY <1>4, <2>1, <2>2 DEF Unlock
  <1>5. ASSUME NEW op \in Ops, CancelWaitingOp(op) PROVE MutexInv'
    <2>1. PICK k \in DOMAIN waiting :
             /\ waiting[k] = op
             /\ waiting' = [waiting EXCEPT ![k] = NoOp]
             /\ aborted' = aborted \cup {op}
             /\ UNCHANGED <<locked, granted, holding>>
      BY <1>5 DEF CancelWaitingOp
    <2>2. op # NoOp /\ op \in Queued
      BY <2>1, NoOpAssumption DEF Queued
    <2>3. /\ waiting' \in Seq(Ops \cup {NoOp})
          /\ Queued' = Queued \ {op}
          /\ \A i, j \in DOMAIN waiting' :
                waiting'[i] = waiting'[j] /\ waiting'[i] # NoOp => i = j
      BY <2>1, <2>2, BlankSlot
    <2>4. MutexTypeOK'
      BY <2>1, <2>3 DEF MutexTypeOK
    <2>5. MutualExclusion' /\ NoLostWakeup'
      BY <2>1, <2>3 DEF MutualExclusion, NoLostWakeup
    <2>6. CompletesOnce'
      BY <2>1, <2>2, <2>3 DEF CompletesOnce
    <2> QED
      BY <2>4, <2>5, <2>6
  <1>6. CASE Cancel
    <2>1. Queued' = {} /\ Queued \subseteq Ops
      BY <1>6 DEF Cancel, Queued, MutexTypeOK
    <2> QED
      BY <1>6, <2>1 DEF Cancel, MutexTypeOK, MutualExclusion, NoLostWakeup,
                        CompletesOnce
  <1>7. CASE UNCHANGED MutexVars
    BY <1>7 DEF MutexVars, MutexTypeOK, MutualExclusion, NoLostWakeup, CompletesOnce,
                Queued
  <1> QED
    BY <1>1, <1>2, <1>3, <1>4, <1>5, <1>6, <1>7 DEF MutexNext

\* The invariant holds throughout.
LEMMA MutexInvAlways == MutexSpec => []MutexInv
  BY MutexInvInit, MutexInvNext, PTL DEF MutexSpec

\* The variables of async_mutex keep their types.
THEOREM MutexTyped == MutexSpec => []MutexTypeOK
  BY MutexInvAlways, PTL DEF MutexInv

\* reconnect_op and shutdown_op never own the mutex at the same time.
THEOREM MutexExcludes == MutexSpec => []MutualExclusion
  BY MutexInvAlways, PTL DEF MutexInv

\* unlock() and cancel() never strand the lock: it is held exactly when
\* somebody will unlock it, and nobody waits for a free mutex.
THEOREM MutexWakes == MutexSpec => []NoLostWakeup
  BY MutexInvAlways, PTL DEF MutexInv

\* No lock request is completed twice, whatever races cancel() and unlock().
THEOREM MutexCompletesOnce == MutexSpec => []CompletesOnce
  BY MutexInvAlways, PTL DEF MutexInv

\* There is one owner at most, and Owner names it.
LEMMA OwnerNamed ==
    ASSUME MutualExclusion
    PROVE  /\ granted \cup holding = {} => Owner = NoOp
           /\ \A op \in granted \cup holding : Owner = op
  BY DEF MutualExclusion, Owner

\* The pairs of InFront, slot by slot.
LEMMA InFrontFacts ==
    ASSUME CompletesOnce, NEW i \in DOMAIN waiting, NEW j \in DOMAIN waiting,
           waiting[i] # NoOp, waiting[j] # NoOp
    PROVE  <<waiting[i], waiting[j]>> \in InFront <=> i < j
  <1>1. <<waiting[i], waiting[j]>> \in Queued \X Queued
    BY DEF Queued
  <1>2. ASSUME NEW k \in DOMAIN waiting, NEW l \in DOMAIN waiting, k < l,
               waiting[k] = waiting[i], waiting[l] = waiting[j]
        PROVE  i < j
    BY <1>2 DEF CompletesOnce
  <1> QED
    BY <1>1, <1>2 DEF InFront

\* A request that was queued is behind all the others.
LEMMA QueuedLast ==
    ASSUME MutexTypeOK, NEW op \in Ops, op \notin Queued, waiting' = Append(waiting, op)
    PROVE  InFront' = InFront \cup (Queued \X {op})
  <1>1. waiting \in Seq(Ops \cup {NoOp}) /\ DOMAIN waiting = 1..Len(waiting)
    BY DEF MutexTypeOK
  <1>2. /\ DOMAIN waiting' = 1..(Len(waiting) + 1) /\ Len(waiting) \in Nat
        /\ \A i \in DOMAIN waiting : waiting'[i] = waiting[i]
        /\ waiting'[Len(waiting) + 1] = op
    BY <1>1
  <1>3. op # NoOp
    BY NoOpAssumption
  <1>4. Queued' = Queued \cup {op}
    <2>1. Queued \cup {op} \subseteq Queued'
      BY <1>1, <1>2, <1>3 DEF Queued
    <2>2. Queued' \subseteq Queued \cup {op}
      BY <1>1, <1>2, <1>3 DEF Queued
    <2> QED
      BY <2>1, <2>2
  <1>5. ASSUME NEW p \in Queued', NEW q \in Queued'
        PROVE  (<<p, q>> \in InFront') <=> (<<p, q>> \in InFront \cup (Queued \X {op}))
    <2>1. CASE q = op
      <3>1. <<p, q>> \notin InFront
        BY <2>1 DEF InFront
      <3>2. CASE p = op
        <4>1. \A i \in DOMAIN waiting' : waiting'[i] = op => i = Len(waiting) + 1
          BY <1>1, <1>2, <1>3 DEF Queued
        <4> QED
          BY <1>1, <1>2, <2>1, <3>1, <3>2, <4>1 DEF InFront
      <3>3. CASE p # op
        <4>1. PICK i \in DOMAIN waiting : waiting[i] = p
          BY <1>4, <3>3 DEF Queued
        <4>2. i < Len(waiting) + 1 /\ i \in DOMAIN waiting'
          BY <1>1, <1>2
        <4>3. <<p, q>> \in InFront'
          BY <1>2, <2>1, <4>1, <4>2 DEF InFront
        <4> QED
          BY <1>4, <2>1, <3>3, <4>3
      <3> QED
        BY <3>2, <3>3
    <2>2. CASE q # op
      <3>1. \A j \in DOMAIN waiting' : waiting'[j] = q => j \in DOMAIN waiting
        BY <1>1, <1>2, <2>2
      <3>2. ASSUME NEW i \in DOMAIN waiting', NEW j \in DOMAIN waiting', i < j,
                   waiting'[i] = p, waiting'[j] = q
            PROVE  <<p, q>> \in InFront
        <4>1. j \in DOMAIN waiting
          BY <3>1, <3>2
        <4>2. i \in DOMAIN waiting
          BY <1>1, <1>2, <3>2, <4>1
        <4>3. p \in Queued /\ q \in Queued
          BY <1>2, <1>5, <3>2, <4>1, <4>2 DEF Queued
        <4> QED
          BY <1>2, <3>2, <4>1, <4>2, <4>3 DEF InFront
      <3>3. <<p, q>> \in InFront => <<p, q>> \in InFront'
        BY <1>1, <1>2, <1>4 DEF InFront
      <3> QED
        BY <2>2, <3>2, <3>3 DEF InFront
    <2> QED
      BY <2>1, <2>2
  <1>6. InFront' \subseteq Queued' \X Queued'
    BY DEF InFront
  <1>7. InFront \cup (Queued \X {op}) \subseteq Queued' \X Queued'
    BY <1>4 DEF InFront
  <1> QED
    BY <1>5, <1>6, <1>7

\* The k-th slot is emptied or dropped with the empty ones in front of it: its
\* operation leaves the line and the others keep their order.
LEMMA SlotLeaves ==
    ASSUME MutexTypeOK, CompletesOnce, NEW k \in DOMAIN waiting, waiting[k] # NoOp,
           Queued' = Queued \ {waiting[k]},
           \/ waiting' = [waiting EXCEPT ![k] = NoOp]
           \/ /\ \A j \in 1..(k - 1) : waiting[j] = NoOp
              /\ waiting' = SubSeq(waiting, k + 1, Len(waiting))
    PROVE  InFront' = {e \in InFront : waiting[k] \notin {e[1], e[2]}}
  <1>1. waiting \in Seq(Ops \cup {NoOp}) /\ DOMAIN waiting = 1..Len(waiting)
    BY DEF MutexTypeOK
  <1>2. ASSUME NEW p \in Queued', NEW q \in Queued'
        PROVE  (<<p, q>> \in InFront') <=> (<<p, q>> \in InFront)
    <2>1. PICK i \in DOMAIN waiting : waiting[i] = p
      BY <1>2 DEF Queued
    <2>2. PICK j \in DOMAIN waiting : waiting[j] = q
      BY <1>2 DEF Queued
    <2>3. p # NoOp /\ q # NoOp /\ i # k /\ j # k
      BY <1>2, <2>1, <2>2 DEF Queued
    <2>4. <<p, q>> \in InFront <=> i < j
      BY <2>1, <2>2, <2>3, InFrontFacts
    <2>5. CASE waiting' = [waiting EXCEPT ![k] = NoOp]
      <3>1. /\ DOMAIN waiting' = DOMAIN waiting
            /\ \A l \in DOMAIN waiting : waiting'[l] = IF l = k THEN NoOp ELSE waiting[l]
        BY <1>1, <2>5
      <3>2. \A l \in DOMAIN waiting : /\ waiting'[l] = p <=> l = i
                                      /\ waiting'[l] = q <=> l = j
        BY <2>1, <2>2, <2>3, <3>1 DEF CompletesOnce
      <3>3. <<p, q>> \in InFront' <=> i < j
        BY <1>2, <3>1, <3>2 DEF InFront
      <3> QED
        BY <2>4, <3>3
    <2>6. CASE /\ \A l \in 1..(k - 1) : waiting[l] = NoOp
               /\ waiting' = SubSeq(waiting, k + 1, Len(waiting))
      <3>1. /\ DOMAIN waiting' = 1..(Len(waiting) - k) /\ k \in Nat /\ Len(waiting) \in Nat
            /\ \A l \in DOMAIN waiting' : waiting'[l] = waiting[k + l]
        BY <1>1, <2>6
      <3>2. i > k /\ j > k
        BY <1>1, <2>1, <2>2, <2>3, <2>6
      <3>3. i - k \in DOMAIN waiting' /\ j - k \in DOMAIN waiting'
        BY <1>1, <3>1, <3>2
      <3>4. ASSUME NEW l \in DOMAIN waiting'
            PROVE  /\ waiting'[l] = p <=> l = i - k
                   /\ waiting'[l] = q <=> l = j - k
        <4>1. k + l \in DOMAIN waiting
          BY <1>1, <3>1
        <4>2. (waiting[k + l] = p <=> k + l = i) /\ (waiting[k + l] = q <=> k + l = j)
          BY <2>1, <2>2, <2>3, <4>1 DEF CompletesOnce
        <4> QED
          BY <1>1, <3>1, <4>2
      <3>5. <<p, q>> \in InFront' <=> i - k < j - k
        BY <1>2, <3>3, <3>4 DEF InFront
      <3> QED
        BY <1>1, <2>4, <3>1, <3>5
    <2> QED
      BY <2>5, <2>6
  <1>3. InFront' \subseteq Queued' \X Queued' /\ InFront \subseteq Queued \X Queued
    BY DEF InFront
  <1>4. ASSUME NEW e \in InFront, waiting[k] \notin {e[1], e[2]} PROVE e \in InFront'
    BY <1>2, <1>3, <1>4
  <1>5. ASSUME NEW e \in InFront' PROVE e \in InFront /\ waiting[k] \notin {e[1], e[2]}
    BY <1>2, <1>3, <1>5
  <1> QED
    BY <1>4, <1>5

\* Every step on the mutex is a step of the first-come first-served lock, or one
\* that the lock does not see.
LEMMA FifoStep == MutexInv /\ MutexInv' /\ [MutexNext]_MutexVars => [Abstract!Next]_(Abstract!vars)
  <1> SUFFICES ASSUME MutexInv, MutexInv', [MutexNext]_MutexVars,
                      ~(UNCHANGED <<Owner, Queued, InFront>>)
               PROVE  Abstract!Next
    BY DEF Abstract!vars
  <1> USE DEF MutexInv
  <1>1. waiting' = waiting => Queued' = Queued /\ InFront' = InFront
    BY DEF Queued, InFront
  <1>2. ASSUME NEW op \in Ops, Lock(op) PROVE Abstract!Request(op)
    <2>1. op \notin Queued \cup granted \cup holding
      BY <1>2 DEF Lock, Outstanding
    <2>2. CASE locked
      <3>1. waiting' = Append(waiting, op) /\ UNCHANGED <<granted, holding>>
        BY <1>2, <2>2 DEF Lock
      <3>2. PICK o \in granted \cup holding : Owner = o
        BY <2>2, OwnerNamed DEF NoLostWakeup
      <3>3. Owner \notin {NoOp, op} /\ Owner' = Owner
        BY <2>1, <3>1, <3>2, NoOpAssumption DEF Owner, MutexTypeOK
      <3>4. Queued' = Queued \cup {op} /\ InFront' = InFront \cup (Queued \X {op})
        BY <2>1, <3>1, QueueRequest, QueuedLast
      <3> QED
        BY <2>1, <3>3, <3>4 DEF Abstract!Request
    <2>3. CASE ~locked
      <3>1. granted \cup holding = {} /\ Queued = {}
        BY <2>3 DEF NoLostWakeup
      <3>2. waiting' = waiting /\ op \in granted'
        BY <1>2, <2>3 DEF Lock
      <3>3. Owner = NoOp
        BY <3>1, OwnerNamed
      <3>4. Owner' = op
        BY <3>2, OwnerNamed DEF MutualExclusion, Owner
      <3> QED
        BY <1>1, <2>1, <3>1, <3>2, <3>3, <3>4, NoOpAssumption DEF Abstract!Request
    <2> QED
      BY <2>2, <2>3
  <1>3. ASSUME NEW op \in Ops, RunGranted(op) PROVE FALSE
    <2>1. waiting' = waiting /\ op \in granted \cup holding /\ op \in (granted \cup holding)'
      BY <1>3 DEF RunGranted
    <2>2. Owner = op
      BY <2>1, OwnerNamed
    <2>3. Owner' = op
      BY <2>1 DEF MutualExclusion, Owner
    <2> QED
      BY <1>1, <2>1, <2>2, <2>3
  <1>4. ASSUME NEW op \in Ops, RunAborted(op) PROVE FALSE
    BY <1>1, <1>4 DEF RunAborted, Owner
  <1>5. ASSUME NEW op \in Ops, Unlock(op) PROVE Abstract!Release
    <2>1. granted = {} /\ holding = {op} /\ holding' = {}
      BY <1>5 DEF Unlock, MutualExclusion, CompletesOnce
    <2>2. Owner = op /\ Owner # NoOp
      BY <2>1, OwnerNamed, NoOpAssumption
    <2>3. CASE Queued = {} /\ waiting' = <<>> /\ locked' = FALSE /\ UNCHANGED granted
      <3>1. DOMAIN waiting' = {}
        BY <2>3, EmptySeq
      <3>2. Queued' = {} /\ InFront' = {} /\ InFront = {}
        BY <2>3, <3>1 DEF Queued, InFront
      <3>3. Owner' = NoOp
        BY <2>1, <2>3 DEF Owner
      <3> QED
        BY <2>2, <2>3, <3>2, <3>3 DEF Abstract!Release
    <2>4. ASSUME NEW k \in 1..Len(waiting), waiting[k] # NoOp,
                 \A j \in 1..(k - 1) : waiting[j] = NoOp,
                 waiting' = SubSeq(waiting, k + 1, Len(waiting)),
                 granted' = granted \cup {waiting[k]}
          PROVE  Abstract!Release
      <3>1. k \in DOMAIN waiting /\ DOMAIN waiting = 1..Len(waiting)
        BY <2>4 DEF MutexTypeOK
      <3>2. waiting[k] \in Queued
        BY <2>4, <3>1 DEF Queued
      <3>3. Owner' = waiting[k]
        BY <2>1, <2>4 DEF Owner
      <3>4. Queued' = Queued \ {waiting[k]}
        BY <2>4, DropFront
      <3>5. InFront' = {e \in InFront : waiting[k] \notin {e[1], e[2]}}
        BY <2>4, <3>1, <3>4, SlotLeaves
      <3>6. ASSUME NEW other \in Queued \ {waiting[k]}
            PROVE  <<waiting[k], other>> \in InFront
        <4>1. PICK j \in DOMAIN waiting : waiting[j] = other /\ other # NoOp
          BY DEF Queued
        <4>2. k < j
          BY <2>4, <3>1, <3>6, <4>1
        <4> QED
          BY <2>4, <3>1, <4>1, <4>2, InFrontFacts
      <3>7. Abstract!Leave(waiting[k])
        BY <3>4, <3>5 DEF Abstract!Leave
      <3> QED
        BY <2>2, <3>2, <3>3, <3>6, <3>7 DEF Abstract!Release
    <2> QED
      BY <1>5, <2>3, <2>4 DEF Unlock
  <1>6. ASSUME NEW op \in Ops, CancelWaitingOp(op) PROVE Abstract!Withdraw(op)
    <2>1. PICK k \in DOMAIN waiting :
             /\ waiting[k] = op
             /\ waiting' = [waiting EXCEPT ![k] = NoOp]
             /\ UNCHANGED <<granted, holding>>
      BY <1>6 DEF CancelWaitingOp
    <2>2. op # NoOp /\ op \in Queued
      BY <2>1, NoOpAssumption DEF Queued
    <2>3. Queued' = Queued \ {op}
      BY <2>1, <2>2, BlankSlot
    <2>4. InFront' = {e \in InFront : op \notin {e[1], e[2]}}
      BY <2>1, <2>2, <2>3, SlotLeaves
    <2>5. Owner' = Owner
      BY <2>1 DEF Owner
    <2> QED
      BY <2>2, <2>3, <2>4, <2>5 DEF Abstract!Withdraw, Abstract!Leave
  <1>7. CASE Cancel
    <2>1. Owner' = Owner
      BY <1>7 DEF Cancel, Owner
    <2>2. DOMAIN waiting' = {}
      BY <1>7, EmptySeq DEF Cancel
    <2>3. Queued' = {} /\ InFront' = {}
      BY <2>2 DEF Queued, InFront
    <2> QED
      BY <2>1, <2>3 DEF Abstract!Next, Abstract!WithdrawAll
  <1>8. CASE UNCHANGED MutexVars
    BY <1>1, <1>8 DEF MutexVars, Owner
  <1> QED
    BY <1>2, <1>3, <1>4, <1>5, <1>6, <1>7, <1>8 DEF MutexNext, Abstract!Next

\* async_mutex is a first-come first-served lock (ImplementsFifoLock): whatever
\* requests are cancelled meanwhile, unlock() hands the mutex to the one that has
\* waited longest.
THEOREM MutexImplementsFifoLock == MutexSpec => ImplementsFifoLock
  <1>1. MutexInit => Abstract!Init
    <2> SUFFICES ASSUME MutexInit PROVE Owner = NoOp /\ Queued = {} /\ InFront = {}
      BY DEF Abstract!Init
    <2>1. Queued = {}
      BY NobodyQueued DEF MutexInit
    <2> QED
      BY <2>1 DEF MutexInit, Owner, InFront
  <1> QED
    BY <1>1, FifoStep, MutexInvAlways, PTL DEF MutexSpec, ImplementsFifoLock, Abstract!Spec
-------------------------------------------------------------------------------
(* The Receive Maximum window: the inductive invariant is the type,          *)
(* ChargedOnce (so that a request taken from the queue adds to what is in    *)
(* flight) and QuotaCovered.                                                 *)

QuotaInv == QuotaTypeOK /\ ChargedOnce /\ QuotaCovered

\* Sets of operations are finite and their cardinality is a natural number.
LEMMA SendersFinite ==
    ASSUME QuotaConstants, NEW S \in SUBSET Senders
    PROVE  IsFiniteSet(S) /\ Cardinality(S) \in Nat
BY FS_Subset, FS_CardinalityType DEF QuotaConstants

\* Taking operations out of the queue adds their number to what is in flight.
LEMMA Charge ==
    ASSUME QuotaConstants, NEW f \in SUBSET Senders, NEW T \in SUBSET Senders, T \cap f = {}
    PROVE  Cardinality(f \cup T) = Cardinality(f) + Cardinality(T)
<1>1. Cardinality(f \cup T)
      = Cardinality(f) + Cardinality(T) - Cardinality(f \cap T)
  BY SendersFinite, FS_Union
<1>2. Cardinality(f \cap T) = 0
  <2>1. f \cap T = {}
    OBVIOUS
  <2> QED BY <2>1, FS_EmptySet
<1> QED BY <1>1, <1>2, SendersFinite

\* do_write keeps the window: if the quota covers what is in flight before, it
\* does after, whatever the write takes.
LEMMA DoWriteKeepsInv ==
    ASSUME QuotaConstants, NEW q \in SUBSET Senders, NEW f \in SUBSET Senders, NEW k \in 0..MAX_LIMIT,
           q \cap f = {},
           limit' \in 1..MAX_LIMIT,
           limit' # MAX_LIMIT => k + Cardinality(f) <= limit',
           DoWrite(q, f, k)
    PROVE  QuotaInv'
<1>1. PICK T \in SUBSET q :
        /\ queued' = q \ T
        /\ inflight' = f \cup T
        /\ \/ limit' = MAX_LIMIT /\ quota' = k
           \/ /\ limit' # MAX_LIMIT
              /\ Cardinality(T) <= k
              /\ quota' = k - Cardinality(T)
  BY DEF DoWrite
<1>2. Cardinality(f) \in Nat /\ Cardinality(T) \in Nat
  BY SendersFinite
<1>3. queued' \in SUBSET Senders /\ inflight' \in SUBSET Senders
  BY <1>1
<1>4. quota' \in 0..MAX_LIMIT
  BY <1>1, <1>2 DEF QuotaConstants
<1>5. ChargedOnce'
  BY <1>1 DEF ChargedOnce
<1>6. Cardinality(inflight') = Cardinality(f) + Cardinality(T)
  BY <1>1, Charge
<1>7. QuotaCovered'
  BY <1>1, <1>2, <1>6 DEF QuotaCovered, QuotaConstants
<1> QED BY <1>3, <1>4, <1>5, <1>7 DEF QuotaInv, QuotaTypeOK

\* Initially nothing is in flight and there is no limit.
LEMMA QuotaInvInit == QuotaConstants /\ QuotaInit => QuotaInv
BY DEF QuotaConstants, QuotaInit, QuotaInv, QuotaTypeOK, ChargedOnce, QuotaCovered

\* Every operation of the sender keeps the window.
LEMMA QuotaInvNext == QuotaConstants /\ QuotaInv /\ [QuotaNext]_QuotaVars => QuotaInv'
<1> SUFFICES ASSUME QuotaConstants, QuotaInv, [QuotaNext]_QuotaVars PROVE QuotaInv'
  OBVIOUS
<1>m. MAX_LIMIT \in Nat \ {0}
  BY DEF QuotaConstants
<1>t. /\ limit \in 1..MAX_LIMIT /\ quota \in 0..MAX_LIMIT
      /\ queued \in SUBSET Senders /\ inflight \in SUBSET Senders
      /\ Cardinality(inflight) \in Nat
  BY SendersFinite DEF QuotaInv, QuotaTypeOK
<1>c. /\ queued \cap inflight = {}
      /\ limit # MAX_LIMIT => quota + Cardinality(inflight) <= limit
  BY DEF QuotaInv, ChargedOnce, QuotaCovered
<1>1. ASSUME NEW op \in Senders, AsyncSend(op) PROVE QuotaInv'
  BY <1>1, <1>m, <1>t, <1>c, DoWriteKeepsInv DEF AsyncSend
<1>2. ASSUME NEW op \in Senders, op \in inflight
      PROVE  Cardinality(inflight \ {op}) = Cardinality(inflight) - 1
  BY <1>2, <1>t, SendersFinite, FS_RemoveElement
<1>3. ASSUME NEW op \in Senders, ThrottledOpDone(op) PROVE QuotaInv'
  <2>1. op \in inflight /\ limit' = limit
        /\ DoWrite(queued, inflight \ {op}, Returned)
    BY <1>3 DEF ThrottledOpDone
  <2>2. Cardinality(inflight \ {op}) = Cardinality(inflight) - 1
        /\ Cardinality(inflight \ {op}) \in Nat
    BY <2>1, <1>2, <1>t, SendersFinite
  <2>3. Returned \in 0..MAX_LIMIT
        /\ (limit # MAX_LIMIT => Returned + Cardinality(inflight \ {op}) <= limit)
    BY <2>2, <1>m, <1>t, <1>c DEF Returned
  <2> QED BY <2>1, <2>3, <1>t, <1>c, DoWriteKeepsInv
<1>4. ASSUME NEW op \in Senders, SendAgain(op) PROVE QuotaInv'
  <2>1. op \in inflight /\ limit' = limit
        /\ DoWrite(queued \cup {op}, inflight \ {op}, quota)
    BY <1>4 DEF SendAgain
  <2>2. Cardinality(inflight \ {op}) = Cardinality(inflight) - 1
    BY <2>1, <1>2
  <2>3. limit # MAX_LIMIT => quota + Cardinality(inflight \ {op}) <= limit
    BY <2>2, <1>t, <1>c
  <2> QED BY <2>1, <2>3, <1>t, <1>c, DoWriteKeepsInv
<1>5. CASE Write
  BY <1>5, <1>t, <1>c, DoWriteKeepsInv DEF Write
<1>6. ASSUME NEW lim \in 1..MAX_LIMIT, Resend(lim) PROVE QuotaInv'
  <2>1. limit' = lim /\ DoWrite(queued \cup inflight, {}, lim)
    BY <1>6 DEF Resend
  <2>2. lim \in 0..MAX_LIMIT /\ lim + Cardinality({}) <= lim
    BY FS_EmptySet
  <2> QED BY <2>1, <2>2, <1>t, DoWriteKeepsInv
<1>7. CASE UNCHANGED QuotaVars
  BY <1>7 DEF QuotaInv, QuotaTypeOK, ChargedOnce, QuotaCovered, QuotaVars
<1> QED BY <1>1, <1>3, <1>4, <1>5, <1>6, <1>7 DEF QuotaNext

\* The invariant always holds.
LEMMA QuotaInvAlways ==
    ASSUME QuotaConstants
    PROVE  QuotaSpec => []QuotaInv
<1>1. QuotaInit => QuotaInv
  BY QuotaInvInit
<1>2. QuotaInv /\ [QuotaNext]_QuotaVars => QuotaInv'
  BY QuotaInvNext
<1> QED BY <1>1, <1>2, PTL DEF QuotaSpec

\* For any number of operations and any Receive Maximum, _quota covers what is
\* in flight after any sequence of async_send, throttled_op_done, completed
\* writes and resend().
THEOREM QuotaAlwaysCovered ==
    ASSUME QuotaConstants
    PROVE  QuotaSpec => []QuotaCovered
<1>1. QuotaInv => QuotaCovered
  BY DEF QuotaInv
<1>2. QuotaSpec => []QuotaInv
  BY QuotaInvAlways
<1> QED BY <1>1, <1>2, PTL

\* An operation is never charged to the quota twice.
THEOREM QuotaChargesOnce ==
    ASSUME QuotaConstants
    PROVE  QuotaSpec => []ChargedOnce
<1>1. QuotaInv => ChargedOnce
  BY DEF QuotaInv
<1>2. QuotaSpec => []QuotaInv
  BY QuotaInvAlways
<1> QED BY <1>1, <1>2, PTL

\* The client never has more operations in flight than the Receive Maximum.
THEOREM WindowHolds ==
    ASSUME QuotaConstants
    PROVE  QuotaSpec => []WindowRespected
<1>1. QuotaInv => WindowRespected
  <2> SUFFICES ASSUME QuotaInv, limit # MAX_LIMIT PROVE Cardinality(inflight) <= limit
    BY DEF WindowRespected
  <2>1. Cardinality(inflight) \in Nat /\ quota \in Nat /\ limit \in Nat
    BY SendersFinite DEF QuotaInv, QuotaTypeOK
  <2> QED BY <2>1 DEF QuotaInv, QuotaCovered
<1>2. QuotaSpec => []QuotaInv
  BY QuotaInvAlways
<1> QED BY <1>1, <1>2, PTL
===============================================================================
