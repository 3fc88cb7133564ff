------------------------ MODULE MCNotificationRules ------------------------
(***************************************************************************)
(* The decisions of NotificationRules over small inputs.  TLC picks one    *)
(* input per behaviour: a moment and quiet hours of a six-hour day, or a   *)
(* rule, an observed price and a price history.                            *)
(***************************************************************************)
EXTENDS NotificationRules

VARIABLE input

Hours == 0..DayLength - 1

QuietInputs == [kind : {"quiet"}, t : Hours, start : Hours, end : Hours]

Amounts == {0, 10, 30}
Price(final, currency) ==
    [initial |-> 30, final |-> final, currency |-> currency,
     discount |-> (100 * (30 - final)) \div 30]
Observed == {Price(final, currency) : final \in Amounts, currency \in {"EUR", "USD"}}

RuleInputs ==
    [maxPrice : {NoValue, 0, 10}, minDiscount : {NoValue, 66}, lowOnly : {FALSE},
     newLow : BOOLEAN, knownLow : BOOLEAN, anyDrop : BOOLEAN,
     dropAmount : {NoValue, 20}, dropPercent : {NoValue, 100}]

\* A factor of 3 into the target currency, or a failed conversion.
PriceInputs ==
    [kind : {"price"}, rule : RuleInputs, premium : BOOLEAN, price : Observed,
     latest : Observed \cup {NoValue}, low : Amounts \cup {NoValue},
     rate : {1, 3, NoValue}]

Init == input \in QuietInputs \/ input \in PriceInputs

\* The quiet hours run on: the clock moves to the end of the wait.
Wait ==
    /\ input.kind = "quiet"
    /\ IsQuiet(input.t, input.start, input.end) /\ input.start # input.end
    /\ input' = [input EXCEPT !.t = HourAfter(@, QuietWait(@, input.start, input.end))]

\* The price is stored and checked again.
CheckAgain ==
    /\ input.kind = "price"
    /\ PriceChanged(input.latest, input.price)
    /\ input' = [input EXCEPT !.latest = input.price,
                    !.low = IF @ = NoValue \/ input.price.final < @
                            THEN input.price.final ELSE @]

Next == Wait \/ CheckAgain

Spec == Init /\ [][Next]_input

\* QuietWaitIsExact on every input.
QuietWaitExact ==
    input.kind = "quiet" => QuietWaitIsExact(input.t, input.start, input.end)

\* MatchHasItsReason on every input.
MatchesHaveReasons ==
    input.kind = "price" =>
        MatchHasItsReason(input.rule, input.premium, input.price, input.latest,
                          input.low, input.rate)

\* MovementIsToldOnce on every input.
MovementsToldOnce ==
    input.kind = "price" =>
        MovementIsToldOnce(input.rule, input.premium, input.price, input.latest,
                           input.low, input.rate)
=============================================================================
