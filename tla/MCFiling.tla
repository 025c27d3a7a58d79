------------------------------ MODULE MCFiling ------------------------------
(* Instances of Filing for TLC.                                              *)
EXTENDS Filing, TLC

\* One form stands for the three that are always signed together.
OneForm == {"security_plan"}

\* What the product's screens send to PUT /status (frontend, utils/constants.ts):
\* the three decisions on a handed-over dossier and the end of the activity.
ScreenMoves ==
  { <<"handed", "approved">>, <<"handed", "supplement">>, <<"handed", "refused">>,
    <<"ongoing", "ended">> }

RequestSymmetry == Permutations(Requests)
=============================================================================
