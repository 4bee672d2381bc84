--------------------------- MODULE MCProviderClient ---------------------------
\* Instances of ProviderClient for TLC; the callers are interchangeable.
EXTENDS ProviderClient, TLC

CallerSymmetry == Permutations(Callers)
=============================================================================
