---------------------------- MODULE MCLogStaging -----------------------------
\* LogStaging for TLC: logs are, and base names are, interchangeable.
EXTENDS LogStaging, TLC

Symmetry == Permutations(Logs) \cup Permutations(Names)

=============================================================================
