---------------------------- MODULE MCAskStream -----------------------------
(* Small instances of AskStream for TLC. *)
EXTENDS AskStream
CONSTANTS r1
=============================================================================
