--------------------------- MODULE MCFullRemoval ---------------------------
EXTENDS FullRemoval

InPlay == keychain \cup here.registry \cup away.registry \cup job.left

\* Nobody waits while another command runs.
Alone == Idle \/ plan = NoPlan

\* After one fault either only the configured providers are in play or no
\* command waits while another one runs, after two faults both.
FewFaults ==
    /\ faults > 0 => InPlay \subseteq Configured \/ Alone
    /\ faults > 1 => InPlay \subseteq Configured /\ Alone
=============================================================================
