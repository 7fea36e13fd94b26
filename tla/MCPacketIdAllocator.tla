------------------------- MODULE MCPacketIdAllocator -------------------------
(* Model of PacketIdAllocator for TLC: seven identifiers, every set of them *)
(* in use and every order of freeing them.                                  *)
EXTENDS PacketIdAllocator
===============================================================================
