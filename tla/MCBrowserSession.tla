-------------------------- MODULE MCBrowserSession --------------------------
(* Two users, one of them with two organizations, in two tabs of one browser. *)
EXTENDS BrowserSession, TLC

CONSTANTS ann, bob, home, annex, plant

MCUsers == {ann, bob}
MCOrgs == {home, annex, plant}
MCFirstMembers == ann :> {home, annex} @@ bob :> {}
=============================================================================
