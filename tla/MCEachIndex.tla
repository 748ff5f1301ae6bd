---------------------------- MODULE MCEachIndex ----------------------------
EXTENDS EachIndex
=============================================================================
