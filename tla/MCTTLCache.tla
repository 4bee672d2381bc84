------------------------------ MODULE MCTTLCache ------------------------------
\* The instance of TTLCache for TLC gives all its constants in the .cfg.
EXTENDS TTLCache, TLC
=============================================================================
