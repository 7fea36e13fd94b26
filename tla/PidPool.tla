-------------------------------- MODULE PidPool --------------------------------
(***************************************************************************)
(* What the client's operations rely on when they ask for a packet         *)
(* identifier: they get the smallest one not in use, or 0 when all are.    *)
(* packet_id_allocator (module PacketIdAllocator) implements this.         *)
(***************************************************************************)
EXTENDS Naturals

CONSTANT MaxPid    \* MAX_PACKET_ID

VARIABLES used,    \* the identifiers of the outstanding operations
          ret      \* the result of the last allocation

vars == <<used, ret>>

Ids == 1..MaxPid

Init == used = {} /\ ret = 0

Allocate ==
    \/ used = Ids /\ ret' = 0 /\ used' = used
    \/ \E pid \in Ids \ used :
          /\ \A other \in Ids \ used : pid <= other
          /\ ret' = pid
          /\ used' = used \cup {pid}

Free(pid) == pid \in used /\ used' = used \ {pid} /\ ret' = ret

Next == Allocate \/ \E pid \in Ids : Free(pid)

Spec == Init /\ [][Next]_vars
===============================================================================
