----------------------------- MODULE BoundedDeque -----------------------------
(***************************************************************************)
(* bounded_deque, the container of the receive channel: what handlers      *)
(* store and async_receive has not taken yet.  A definition named after    *)
(* another one with a remark is a mistaken form of it, which a property    *)
(* rules out.                                                              *)
(***************************************************************************)
EXTENDS SequencesExt

CONSTANT MAX_SIZE

\* push_back
PushBackDropsNewest(buffer, e) ==
    IF Len(buffer) = MAX_SIZE THEN buffer ELSE Append(buffer, e)

PushBack(buffer, e) ==
    Append(IF Len(buffer) = MAX_SIZE THEN Tail(buffer) ELSE buffer, e)

\* pop_front, after front: what a receive takes
PopFront(buffer) == Tail(buffer)
===============================================================================
