--------------------------- MODULE MCPriceMonitor ---------------------------
(***************************************************************************)
(* PriceMonitor on a two-rule instance: a Premium owner with quiet hours   *)
(* and a Free owner without, two prices and a three-hour day.            *)
(***************************************************************************)
EXTENDS PriceMonitor, TLC

CONSTANTS pro, free, s1, s2

Price(final, discount) ==
    [initial |-> 30, final |-> final, discount |-> discount, currency |-> "EUR"]

MCRules == {pro, free}
MCPremium == {pro}
MCPrices == {Price(30, 0), Price(10, 66)}
MCCheckHours == (pro :> 1) @@ (free :> 2)
MCQuiet ==
    (pro :> [on |-> TRUE, start |-> 2, end |-> 1])
    @@ (free :> [on |-> FALSE, start |-> 0, end |-> 0])

Setting(max, disc, known, any, policy) ==
    [maxPrice |-> max, minDiscount |-> disc, newLow |-> TRUE, knownLow |-> known,
     anyDrop |-> any, dropAmount |-> NoValue, dropPercent |-> NoValue,
     policy |-> policy]

\* The three price-drop conditions together: their names need 33 characters.
ThreeDrops ==
    [Setting(NoValue, NoValue, FALSE, TRUE, "reentry")
        EXCEPT !.dropAmount = 5, !.dropPercent = 20]

OneTarget == {Setting(10, NoValue, FALSE, TRUE, p) : p \in Policies}

MCNarrowSettings ==
    (pro :> OneTarget) @@ (free :> {Setting(NoValue, 33, FALSE, FALSE, "on_change")})

MCSettings ==
    [MCNarrowSettings EXCEPT ![pro] = {s \in @ : s.policy # "reentry"} \cup {ThreeDrops}]
MCSlots == {s1, s2}
MCEditPrices == {30}
=============================================================================
