---------------------------- MODULE MCPublishReceive ----------------------------
\* PublishReceive for TLC; the instances are in the .cfg files.
EXTENDS PublishReceive
===============================================================================
