------------------------------ MODULE MCRaftLog ------------------------------
EXTENDS RaftLog
=============================================================================
