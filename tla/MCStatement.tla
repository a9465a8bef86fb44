----------------------------- MODULE MCStatement -----------------------------
(* Result sets of one or two columns for TLC, with names that are the same  *)
(* or differ.                                                              *)
EXTENDS Statement

MCColumns == {<<"a">>, <<"a", "b">>, <<"a", "a">>}

=============================================================================
