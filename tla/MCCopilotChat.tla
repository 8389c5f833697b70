---------------------------- MODULE MCCopilotChat ----------------------------
(* One panel of a user, and a script of another user about the same asset.  *)
EXTENDS CopilotChat, TLC

CONSTANTS ann, bob, rooftop, panel, script

MCUsers == {ann, bob}
MCUserOf == panel :> ann @@ script :> bob
MCAssetOf == panel :> rooftop @@ script :> rooftop
=============================================================================
