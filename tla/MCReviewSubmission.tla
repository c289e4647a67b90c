------------------------- MODULE MCReviewSubmission -------------------------
EXTENDS ReviewSubmission, TLC

CONSTANTS w1, w2

MCTwoWorkers == {w1, w2}
\* One head: nobody pushes.
MCNext == PassTime \/ \E w \in Workers : Step(w) \/ Restart(w)
MCSpec == SubInit /\ [][MCNext]_subVars

MCSymmetry == Permutations(MCTwoWorkers)
=============================================================================
