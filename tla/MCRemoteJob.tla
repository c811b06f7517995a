----------------------------- MODULE MCRemoteJob -----------------------------
\* RemoteJob for TLC: the hosts are interchangeable model values, and so are the
\* directories.
EXTENDS RemoteJob, TLC

ScopeSymmetry == Permutations(Hosts) \cup Permutations(Dirs)

=============================================================================
