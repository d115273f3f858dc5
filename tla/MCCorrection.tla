---------------------------- MODULE MCCorrection -----------------------------
(* Correction with contents of all lengths: two that end before the last laser, *)
(* one of them in a wrong id, one that fits, and two that are a line longer.    *)
EXTENDS Correction

AnyLength == {<<"row", "row", "short">>, <<"row", "wrong", "row">>, <<"row", "row", "row">>,
              <<"row", "row", "row", "row">>, <<"row", "row", "row", "wrong">>}
=============================================================================
