-------------------------- MODULE PacketIdAllocator --------------------------
(***************************************************************************)
(* detail::packet_id_allocator: the free packet identifiers as a vector of *)
(* intervals in descending order.  The interval [start, end] stands for    *)
(* the identifiers x with end < x <= start, so the smallest free one is    *)
(* one above the end of the last interval.                                 *)
(*                                                                         *)
(* A definition named after another one with a remark (AllocateFromFront   *)
(* after Allocate) is a mistaken form of it, which some property rules out.*)
(***************************************************************************)
EXTENDS Naturals, Sequences

CONSTANT MaxPid    \* MAX_PACKET_ID, 65535 in the code

ASSUME MaxPidAssumption == MaxPid \in Nat \ {0}

VARIABLES
    free_ids,   \* _free_ids
    used,       \* ghost: the identifiers handed out and not freed
    ret         \* ghost: the result of the last allocate()

vars == <<free_ids, used, ret>>

Ids == 1..MaxPid
Interval == [start : Ids, end : 0..MaxPid]

TypeOK ==
    /\ free_ids \in Seq(Interval)
    /\ used \in SUBSET Ids
    /\ ret \in 0..MaxPid

Init ==
    /\ free_ids = <<[start |-> MaxPid, end |-> 0]>>
    /\ used = {}
    /\ ret = 0

AllocateFromFront ==
    /\ free_ids # <<>>
    /\ LET pid == free_ids[1].end + 1
       IN  /\ ret' = pid
           /\ used' = used \cup {pid}
           /\ free_ids' = IF free_ids[1].start = pid THEN Tail(free_ids)
                          ELSE [free_ids EXCEPT ![1] =
                                  [start |-> free_ids[1].start, end |-> pid]]

\* allocate(): 0 when nothing is free, else the lowest identifier of the last
\* interval, which is popped when that was its only one.
Allocate ==
    \/ /\ free_ids = <<>>
       /\ ret' = 0
       /\ UNCHANGED <<free_ids, used>>
    \/ /\ free_ids # <<>>
       /\ LET n == Len(free_ids)
              pid == free_ids[n].end + 1
          IN  /\ ret' = pid
              /\ used' = used \cup {pid}
              /\ free_ids' = IF free_ids[n].start = pid
                             THEN SubSeq(free_ids, 1, n - 1)
                             ELSE [free_ids EXCEPT ![n] =
                                     [start |-> free_ids[n].start, end |-> pid]]

\* std::upper_bound: the first interval that lies entirely below pid.
UpperBound(pid, it) ==
    /\ it \in 1..(Len(free_ids) + 1)
    /\ \A i \in 1..(it - 1) : pid <= free_ids[i].start
    /\ it <= Len(free_ids) => pid > free_ids[it].start

FreeEmptyInterval(pid) ==
    /\ pid \in used
    /\ used' = used \ {pid}
    /\ UNCHANGED ret
    /\ \E it \in 1..(Len(free_ids) + 1) :
          /\ UpperBound(pid, it)
          /\ free_ids' = SubSeq(free_ids, 1, it - 1)
                         \o <<[start |-> pid, end |-> pid]>>
                         \o SubSeq(free_ids, it, Len(free_ids))

\* free(): extend the interval above, the one below, join the two, or insert.
Free(pid) ==
    /\ pid \in used
    /\ used' = used \ {pid}
    /\ UNCHANGED ret
    /\ \E it \in 1..(Len(free_ids) + 1) :
          /\ UpperBound(pid, it)
          /\ LET n == Len(free_ids)
                 above == it # 1 /\ free_ids[it - 1].end = pid
                 below == it # n + 1 /\ pid - 1 = free_ids[it].start
             IN  \/ /\ below /\ ~above
                    /\ free_ids' =
                         [free_ids EXCEPT ![it] =
                            [start |-> pid, end |-> free_ids[it].end]]
                 \/ /\ below /\ above
                    /\ free_ids' =
                         SubSeq(free_ids, 1, it - 2)
                         \o <<[start |-> free_ids[it - 1].start,
                               end |-> free_ids[it].end]>>
                         \o SubSeq(free_ids, it + 1, n)
                 \/ /\ ~below /\ ~above
                    /\ free_ids' = SubSeq(free_ids, 1, it - 1)
                                   \o <<[start |-> pid, end |-> pid - 1]>>
                                   \o SubSeq(free_ids, it, n)
                 \/ /\ ~below /\ above
                    /\ free_ids' =
                         [free_ids EXCEPT ![it - 1] =
                            [start |-> free_ids[it - 1].start, end |-> pid - 1]]

Next == Allocate \/ \E pid \in Ids : Free(pid)

Spec == Init /\ [][Next]_vars
-------------------------------------------------------------------------------
\* free() coalesces: the intervals are not empty, descend and never touch, so
\* the vector stays as short as it can be and upper_bound may rely on the order.
Coalesced ==
    /\ \A i \in 1..Len(free_ids) : free_ids[i].end < free_ids[i].start
    /\ \A i, j \in 1..Len(free_ids) :
          i < j => free_ids[j].start < free_ids[i].end

\* The intervals describe exactly the identifiers that no operation holds, so
\* allocate() neither hands out an identifier twice nor loses one.
FreeIsUnused ==
    \A x \in Ids : x \notin used <=>
        \E i \in 1..Len(free_ids) :
            free_ids[i].end < x /\ x <= free_ids[i].start

\* allocate() and free() implement the pool of identifiers: an operation gets
\* the smallest identifier not in use, and 0 only when all are in use.
Pool == INSTANCE PidPool
ImplementsPool == Pool!Spec
===============================================================================
