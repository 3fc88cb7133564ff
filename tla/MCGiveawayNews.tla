--------------------------- MODULE MCGiveawayNews ---------------------------
(***************************************************************************)
(* GiveawayNews with one giveaway of the feed, which may be given away for *)
(* good or for a time and change between the two, and one manual giveaway. *)
(***************************************************************************)
EXTENDS GiveawayNews

CONSTANTS u1, game, gift

MCUsers == {u1}
MCFeed == {game}
MCManual == {gift}
MCKinds == {"keep", "weekend"}
MCForGood == [kind |-> "keep", ends |-> 0]
MCProfiles ==
    {[on |-> TRUE, premium |-> TRUE, kinds |-> MCKinds],
     [on |-> FALSE, premium |-> FALSE, kinds |-> MCKinds]}
MCTerms == {MCForGood, [kind |-> "weekend", ends |-> 1]}
=============================================================================
