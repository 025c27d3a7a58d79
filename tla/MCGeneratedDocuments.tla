------------------------ MODULE MCGeneratedDocuments ------------------------
(* Instances of GeneratedDocuments for TLC.                                  *)
EXTENDS GeneratedDocuments

CONSTANTS a, b, c

\* Two texts where the document is rendered at once, under a number that another request
\* may hold; the other documents are rendered from committed rows.
InstanceFilled == ({"activity_plan"} \X {a, b}) \cup ((Templates \ {"activity_plan"}) \X {c})

InstanceSymmetry ==
  Permutations(Requests) \cup Permutations({a, b}) \cup Permutations(Signatures)
=============================================================================
