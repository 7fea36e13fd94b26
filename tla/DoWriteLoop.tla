------------------------------ MODULE DoWriteLoop ------------------------------
(***************************************************************************)
(* async_sender::do_write as the code computes it: the search for a        *)
(* terminal request, the move of the whole queue, or the scan that moves   *)
(* requests out one by one, leaving empty ones behind for remove_if.       *)
(* PublishFlow uses the closed forms of WriteQueue.  PurgeClears is a      *)
(* mistaken form of Purge, which a property rules out.                     *)
(***************************************************************************)
EXTENDS WriteQueue, SequencesExt

Empty == [op |-> 0, throttled |-> FALSE, terminal |-> FALSE]    \* no handler

\* One iteration of the scan: s is [queue, write_queue, quota], i the position.
Scan(s, i) ==
    IF s.queue[i].throttled /\ s.quota = 0 THEN s
    ELSE [queue |-> [s.queue EXCEPT ![i] = Empty],
          write_queue |-> Append(s.write_queue, s.queue[i]),
          quota |-> IF s.queue[i].throttled THEN s.quota - 1 ELSE s.quota]

PurgeClears(s) == [s EXCEPT !.queue = <<>>]

\* Return at once if nothing was taken, else remove_if and erase.
Purge(s) ==
    IF s.write_queue = <<>> THEN s
    ELSE [s EXCEPT !.queue = SelectSeq(@, LAMBDA r : r # Empty)]

DoWriteResult(q, limit, quota) ==
    LET terminal == SelectInSeq(q, LAMBDA r : r.terminal)
    IN  IF terminal # 0
        THEN [queue |-> RemoveAt(q, terminal), write_queue |-> <<q[terminal]>>,
              quota |-> quota]
        ELSE IF limit = MAX_LIMIT
        THEN [queue |-> <<>>, write_queue |-> q, quota |-> quota]
        ELSE Purge(FoldLeft(Scan, [queue |-> q, write_queue |-> <<>>, quota |-> quota],
                            [i \in DOMAIN q |-> i]))
===============================================================================
