-------------------------- MODULE MCControllerApi --------------------------
EXTENDS ControllerApi, TLC

\* Signing in goes with each kind of request; enrollment and storage share no
\* rows with each other.
MixesV == {{"signIn", "createEnrollmentToken"}, {"createEnrollmentToken", "enroll", "heartbeat"},
           {"saveStorage", "testStorage"}}

Symmetry == Permutations(Requests) \cup Permutations(Devices) \cup Permutations(Backends)
              \cup Permutations(Sessions) \cup Permutations(Tokens)
=============================================================================
