----------------------------- MODULE MCCampaign -----------------------------
(* Three days of a few minutes: a quiet market, in which a round trip costs   *)
(* nothing; one that falls past the loss limit and then the stop; one that    *)
(* rises first, so that the drawdown limit is met before the loss limit; and *)
(* a plan with a day without bars.                                           *)
EXTENDS Campaign

MCSessions ==
    {<< <<10, 10, 10>>, <<10, 10, 10>>, <<10, 11, 10>> >>,
     << <<10, 8, 9>>, <<7, 8, 5>>, <<5, 6, 6>> >>,
     << <<10, 14, 11, 12>>, <<11, 11, 13>>, <<13, 12, 12>> >>,
     << <<10, 11, 12>>, <<>>, <<12, 12, 12>> >>}
=============================================================================
