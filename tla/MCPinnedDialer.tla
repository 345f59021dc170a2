---------------------------- MODULE MCPinnedDialer ----------------------------
(* Small instances of the pinned dialer for TLC. *)
EXTENDS PinnedDialer, TLC

CONSTANTS h1, h2

MCHashes == {h1, h2}
=============================================================================
