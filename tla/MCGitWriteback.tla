--------------------------- MODULE MCGitWriteback ---------------------------
(* Small instances of GitWriteback for TLC.                                *)
EXTENDS GitWriteback

CONSTANTS memo, page
=============================================================================
