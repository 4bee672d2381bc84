-------------------------- MODULE MCEnrichmentQuota --------------------------
\* Instances of EnrichmentQuota for TLC; the callers are interchangeable.
EXTENDS EnrichmentQuota, TLC

CallerSymmetry == Permutations(Callers)
=============================================================================
