---------------------------- MODULE MCPortfolio -----------------------------
(* Two names of one sector, signals of two strengths from two sleeves, limits *)
(* that bind in a book of a few shares; and the swing sleeve alone.          *)
EXTENDS Portfolio

CONSTANTS A, B

MCSector == (A :> "IT") @@ (B :> "IT")
MCSleeves == <<"longterm", "swing">>
MCLimits == [position |-> 50, sector |-> 75, sleeve |-> 60, turnover |-> 60,
             cash |-> 10, names |-> 2, single |-> 40, slots |-> 2, orders |-> 2]

Sig(s, b, d, e, w) ==
    [symbol |-> s, sleeve |-> b, direction |-> d, edge |-> e, tilt |-> e,
     stamped |-> w, ceiling |-> 20, estimated |-> TRUE]
MCProposals ==
    {{}, {Sig(A, "swing", "LONG", 1, 40)},
     {Sig(A, "swing", "LONG", 2, 30), Sig(B, "swing", "LONG", 1, 30)},
     {Sig(A, "swing", "LONG", 1, 30), Sig(B, "swing", "LONG", 1, 30)},
     {Sig(A, "longterm", "EXIT", 2, 30), Sig(B, "swing", "LONG", 1, 40)},
     {Sig(A, "longterm", "LONG", 1, 20), Sig(A, "swing", "LONG", 1, 40)},
     {Sig(B, "swing", "LONG", 1, 40), [Sig(A, "swing", "LONG", 1, 20) EXCEPT !.estimated = FALSE]}}
MCSwingOnly == {{Sig(A, "swing", "LONG", 1, 40)}}
=============================================================================
