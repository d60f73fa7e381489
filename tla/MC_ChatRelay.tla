----------------------------- MODULE MC_ChatRelay ------------------------------
(* One session between a seeker and a volunteer, who do the same things. *)
EXTENDS ChatRelay
CONSTANTS seeker, volunteer
MCParty == {seeker, volunteer}
MCSymmetry == Permutations(MCParty)
=============================================================================
