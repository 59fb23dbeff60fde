---------------------------- MODULE MCAgentSync ----------------------------
EXTENDS AgentSync

Symmetry == Permutations(Devices)
=============================================================================
