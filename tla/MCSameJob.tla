------------------------------ MODULE MCSameJob ------------------------------
EXTENDS SameJob
=============================================================================
