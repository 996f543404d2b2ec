--------------------------- MODULE MCCredentials ---------------------------
EXTENDS Credentials, TLC

CONSTANTS a, c1, c2, t1

Symmetry == Permutations(Clis)

=============================================================================
