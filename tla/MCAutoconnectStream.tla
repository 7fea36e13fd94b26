-------------------------- MODULE MCAutoconnectStream --------------------------
EXTENDS AutoconnectStream
===============================================================================
