--------------------------- MODULE MCReviewArchive ---------------------------
(***************************************************************************)
(* Small instances of ReviewArchive for TLC.                               *)
(***************************************************************************)
EXTENDS ReviewArchive, MCReviewRoom

\* Two students of a term: a position, a recommendation and the end of one
\* review, a dispute in the other.
ArchiveCalls ==
  {Ask("respond", s1, k1, ta), Ask("commit", s1, None, None), Ask("complete", s1, None, None),
   Ask("evidence_dispute", s2, k2, tb)}

=============================================================================
