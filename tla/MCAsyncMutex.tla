----------------------------- MODULE MCAsyncMutex -----------------------------
(* Model of AsyncMutex for TLC: three operations that keep locking. *)
EXTENDS AsyncMutex
===============================================================================
