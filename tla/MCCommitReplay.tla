--------------------------- MODULE MCCommitReplay ---------------------------
(* CommitReplay on a small instance                                        *)
EXTENDS CommitReplay
=============================================================================
