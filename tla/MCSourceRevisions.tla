-------------------------- MODULE MCSourceRevisions --------------------------
(* Publishers, trees and identities of the runs of SourceRevisions. *)
EXTENDS SourceRevisions, TLC

CONSTANTS p1, p2, u, c, f, here, files

Alike == Permutations(Publishers)

\* Users leave an uploaded tree for a folder while it is the only revision and not indexed yet.
FromUpload == {<<k, {k}, NoRows>> : k \in Uploads \X {None}}
=============================================================================
