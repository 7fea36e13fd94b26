------------------------------ MODULE WriteQueue ------------------------------
(***************************************************************************)
(* The pure part of async_sender: the order of write requests and the      *)
(* choice of the requests that go into the next write.                     *)
(*                                                                         *)
(* A request is a record [op, serial, throttled, prioritized, terminal]:   *)
(* op is the operation whose handler the request carries, serial its       *)
(* serial number, and the rest are its send flags.  The buffer is what the *)
(* operation holds at the time it is written.                              *)
(*                                                                         *)
(* A definition named after another one with a remark (ChosenOneTooMany    *)
(* after Chosen) is a mistaken form of it, which a property rules out.     *)
(***************************************************************************)
EXTENDS Naturals, Sequences, FiniteSets

CONSTANTS
    SerialMod,   \* 2^SERIAL_BITS, the range of serial_num_t
    MAX_LIMIT    \* the limit that stands for "no Receive Maximum"

ASSUME SerialModAssumption == SerialMod \in Nat /\ SerialMod % 2 = 0
                              /\ SerialMod >= 2

\* write_req::next_serial_num
NextSerial(last) == (last + 1) % SerialMod

BeforeNoWindow(r, s) ==
    IF r.prioritized # s.prioritized THEN r.prioritized ELSE r.serial < s.serial

\* write_req::operator<: prioritized requests first, then serial number
\* arithmetic with a window of half the range.
Before(r, s) ==
    IF r.prioritized # s.prioritized THEN r.prioritized
    ELSE IF r.serial < s.serial
         THEN s.serial - r.serial < SerialMod \div 2
         ELSE r.serial - s.serial >= SerialMod \div 2

\* std::stable_sort of requests of different operations: each one comes after
\* those that are before it.
Sorted(reqs) ==
    [i \in 1..Cardinality(reqs) |->
        CHOOSE r \in reqs : Cardinality({s \in reqs : Before(s, r)}) = i - 1]

ChosenOneTooMany(q, limit, quota) ==
    {i \in DOMAIN q : \/ ~q[i].throttled \/ limit = MAX_LIMIT
                      \/ Cardinality({j \in 1..i : q[j].throttled}) <= quota + 1}

\* The positions of q that do_write moves into the write: the first terminal
\* request alone, or everything, or what the quota admits.
Chosen(q, limit, quota) ==
    LET Throttled(n) == {j \in 1..n : q[j].throttled}
        terminals == {i \in DOMAIN q : q[i].terminal}
    IN  IF terminals # {} THEN {CHOOSE i \in terminals : \A j \in terminals : i <= j}
        ELSE IF limit = MAX_LIMIT THEN DOMAIN q
        ELSE {i \in DOMAIN q : \/ ~q[i].throttled
                               \/ Cardinality(Throttled(i)) <= quota}

\* The requests at positions I, in their order in q.
At(q, I) ==
    [i \in 1..Cardinality(I) |->
        q[CHOOSE k \in I : Cardinality({j \in I : j <= k}) = i]]

\* What do_write takes from the queue, what it leaves, what it costs.
Batch(q, limit, quota) == At(q, Chosen(q, limit, quota))
Rest(q, limit, quota) == At(q, DOMAIN q \ Chosen(q, limit, quota))
Cost(q, limit, quota) ==
    IF limit = MAX_LIMIT THEN 0
    ELSE Cardinality({i \in Chosen(q, limit, quota) : q[i].throttled})
===============================================================================
