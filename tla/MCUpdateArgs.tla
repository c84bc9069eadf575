---------------------------- MODULE MCUpdateArgs ----------------------------
(* Tokens of up to three characters: digits, a sign and a letter. *)
EXTENDS UpdateArgs

Chars == {"-", "3", "9", "x"}

MCVlenTokens == BoundedSeq(Chars, 3) \ {<<>>}
MCFlagTokens == {<<"0">>, <<"3">>, <<"x">>, <<"-", "3">>, <<"9", "9", "9">>}
MCExptimeTokens == {<<"3">>, <<"x">>}
=============================================================================
