----------------------------- MODULE StreamService -----------------------------
(***************************************************************************)
(* What autoconnect_stream promises to the reader and the writer of the    *)
(* client: an operation ends with try_again only after the stream that it  *)
(* was started on was replaced, with operation_aborted or no_recovery only *)
(* when the client is closed, and a closed client is not opened again.     *)
(* PublishFlow and PublishReceive are built on this.                       *)
(***************************************************************************)
EXTENDS Integers

CONSTANTS Ops,    \* the operations: one read, one write
          None    \* no stream

VARIABLES gen,    \* the number of the current stream
          open,   \* cancel() was not called
          on,     \* the stream that each operation works on, or None
          res     \* how the operation ended last

vars == <<gen, open, on, res>>

Init ==
    /\ gen = 0 /\ open = TRUE
    /\ on \in [Ops -> {None, 0}]
    /\ res = [o \in Ops |-> "none"]

Justified(o, r) ==
    \/ r = "ok" /\ open'
    \/ r = "try_again" /\ open' /\ on[o] < gen'
    \/ r \in {"aborted", "no_recovery"} /\ ~open'

Stays(o) == on'[o] = on[o] /\ res'[o] = res[o]
Starts(o) == on[o] = None /\ on'[o] = gen' /\ res'[o] = res[o]

\* A reader starts again at once.
Ends(o) ==
    /\ on[o] # None
    /\ on'[o] \in {None, gen'}
    /\ Justified(o, res'[o])

Next ==
    /\ gen' \in {gen, gen + 1}
    /\ open' \in BOOLEAN
    /\ open' \/ gen' # gen => open
    /\ DOMAIN on' = Ops /\ DOMAIN res' = Ops
    /\ \A o \in Ops : Stays(o) \/ Starts(o) \/ Ends(o)

Spec == Init /\ [][Next]_vars
===============================================================================
