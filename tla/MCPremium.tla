----------------------------- MODULE MCPremium -----------------------------
(***************************************************************************)
(* The instance of MCPremiumLedger and one of PremiumTools.  A behaviour   *)
(* is of one of them; the tools' variables are NoValue in the ledger's,    *)
(* and the ledger's as it begins in the tools'.                            *)
(***************************************************************************)
EXTENDS MCPremiumLedger

CONSTANTS Kept, Rules, Regions, MaxRegions, Handlers   \* those of PremiumTools

ASSUME ToolsAssumption == IsFiniteSet(Regions) /\ MaxRegions \in Nat

VARIABLES part, fsm, panel, chat, crossed, selected, owned, premium, acting

OfTools == <<fsm, panel, chat, crossed, selected, owned, premium, acting>>

Tools == INSTANCE PremiumTools WITH None <- NoValue

NoTools ==
    /\ fsm = NoValue /\ panel = NoValue /\ chat = NoValue /\ crossed = NoValue
    /\ selected = NoValue /\ owned = NoValue /\ premium = NoValue /\ acting = NoValue

BothInit ==
    /\ Init
    /\ \/ part = "tools" /\ Tools!Init
       \/ part = "ledger" /\ NoTools

BothNext ==
    /\ UNCHANGED part
    /\ \/ part = "ledger" /\ Next /\ UNCHANGED OfTools
       \/ part = "tools" /\ Tools!Next /\ UNCHANGED vars

BothSpec == BothInit /\ [][BothNext]_<<part, vars, OfTools>>

\* Regions within MAX_COMPARISON_REGIONS: RegionsWithinLimit of PremiumTools.
RegionsWithinLimit == part = "tools" => Tools!RegionsWithinLimit

\* The tools' variables are of their types, and the buttons of a comparison work:
\* TypeOK and ButtonsAreAlive of PremiumTools.
ToolsWork == part = "tools" => Tools!TypeOK /\ Tools!ButtonsAreAlive
=============================================================================
