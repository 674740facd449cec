------------------------------ MODULE MCLocalApi ------------------------------
EXTENDS LocalApi
=============================================================================
