-------------------------- MODULE MCSourceUpload --------------------------
(* Model values and symmetry for the runs of SourceUpload. *)
EXTENDS SourceUpload, TLC

\* Two files a browser may pick: they differ in name and in size.
TwoIntents == {[name |-> "a.mp4", size |-> 1], [name |-> "b.mp4", size |-> 2]}

ReqSymmetry == Permutations(Reqs)
===========================================================================
