-------------------------- MODULE MCEncodeCommand --------------------------
(* Two runs, over several chapters and over one.                           *)
EXTENDS EncodeCommand

CONSTANTS r1, r2

MCRuns == {r1, r2}
MCJoined == {r1}
=============================================================================
