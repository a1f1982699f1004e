-------------------------- MODULE MCContainedWorker --------------------------
EXTENDS ContainedWorker, TLC

HostSymmetry == Permutations(Hosts)
==============================================================================
