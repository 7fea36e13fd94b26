------------------------------- MODULE MCSession -------------------------------
EXTENDS Session

\* All operations are about one topic.
TopicDef == [o \in Ops |-> "t1"]
================================================================================
