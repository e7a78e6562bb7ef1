--------------------------- MODULE MCOfflineSlice ---------------------------
(***************************************************************************)
(* A small instance of OfflineSlice: five stages, of which the first       *)
(* stands for INGEST to TRANSLATE, two workspaces and one job.             *)
(***************************************************************************)
EXTENDS OfflineSlice, TLC

FiveStages == 5
TTSPlace == 2
RENDERPlace == 3
SidedStages == {2, 3, 4}

CONSTANTS w1, w2, src, cfg

Request(w, fresh) == [ws |-> w, fresh |-> fresh, source |-> src, config |-> cfg]
\* With somewhere to go while w2 is empty, and from the second workspace on.
Requests == {Request(w1, w2), Request(w2, None)}
JustOne == {Request(w1, None)}

Symmetry == Permutations(Voices) \union Permutations(Times)
=============================================================================
