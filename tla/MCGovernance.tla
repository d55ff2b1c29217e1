----------------------------- MODULE MCGovernance -----------------------------
(* Two names over seven sessions: one that trades throughout, one that stops,   *)
(* starts late or pauses; every field of the record wrong in every way.        *)
EXTENDS Governance

History(a, b) == [d \in 1..7 |-> [s \in Symbols |-> IF s = "steady" THEN a[d] ELSE b[d]]]
MCPanels ==
    {History(<<2, 2, 2, 2, 2, 2, 2>>, b) : b \in
        {<<2, 2, 2, 2, 0, 0, 0>>, <<0, 0, 1, 1, 2, 2, 2>>, <<1, 2, 0, 2, 1, 1, 0>>}}

MCListedOn == [s \in {"steady", "other"} |-> IF s = "other" THEN 2 ELSE 0]

Best == [sharpe |-> 90, lower |-> 10, dsr |-> 97, pbo |-> "number", overfit |-> 20,
         excess |-> "some", gain |-> 5, stressed |-> 60, years |-> 60]
MCOutcomes == {Best, [Best EXCEPT !.pbo = "nan"], [Best EXCEPT !.excess = "none"],
               [Best EXCEPT !.sharpe = 49]}

MCMeasured ==
    [f \in Numbers |->
       CASE f = "deflated_sharpe_ratio" -> 96
         [] f \in Shares \cup Fractions -> 10
         [] f \in {"open_reconciliation_breaks", "active_risk_limit_breaches"} -> 0
         [] OTHER -> 1000]

MCOddities ==
    {<<f, v>> : f \in Fields, v \in {Nothing, NaN, Infinity, Text(""), Text("someone"),
                                     Date(0), Number(1), Boolean(TRUE), Naive(MaxClock)}}
      \cup {<<f, Number(n)>> : f \in Numbers, n \in {-2001, -1, 0, 101, 2001, 10001}}
      \cup {<<f, Instant(MaxClock + 2)>> : f \in Instants}
=============================================================================
