------------------------------ MODULE MCLifeCycle ------------------------------
EXTENDS LifeCycle
================================================================================
