-------------------------------- MODULE Prices --------------------------------
(* What an order is priced at and what history says: the quotes and the series of   *)
(* the providers, which share nothing but the market they come from.             *)
EXTENDS Quotes, History

(* What a symbol's call computes from what the broker holds of it, whatever        *)
(* happens meanwhile, and that it is right: every bar gets the close that is due.  *)
Computed(bars, events, adjust) ==
    HandleMissing(IF adjust THEN ApplyAdjustment(Normalized(bars), events) ELSE Normalized(bars))
SeriesAgree ==
    \A bars \in Series, events \in Splits, adjust \in BOOLEAN :
        ClosesOf(Computed(bars, events, adjust)) = Due(bars, events, adjust)

(* What an order is priced at and what history says.                         *)
PricesHold == QuotesHold /\ HistoryHolds
=============================================================================
