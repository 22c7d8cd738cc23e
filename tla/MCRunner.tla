------------------------------ MODULE MCRunner ------------------------------
EXTENDS Runner

CONSTANTS n1, n2, n3

MCNodeNames == <<n1, n2, n3>>

=============================================================================
