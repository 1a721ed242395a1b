------------------------- MODULE MCRangeAcquisition -------------------------
EXTENDS RangeAcquisition, TLC

MCSymmetry == Permutations(Sessions)

=============================================================================
