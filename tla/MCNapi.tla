--------------------------------- MODULE MCNapi --------------------------------
EXTENDS NapiDriver, TLC

CONSTANTS p1, p2

SomePayloads == {p1, p2}
PayloadSymmetry == Permutations(SomePayloads)
================================================================================
