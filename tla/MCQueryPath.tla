---------------------------- MODULE MCQueryPath -----------------------------
(***************************************************************************)
(* Instances of QueryPath for TLC.                                         *)
(***************************************************************************)
EXTENDS QueryPath

Texts == BoundedSeq({Quote, "?", "x"}, 2) \union {<<"x", Nul>>, <<Surrogate>>, <<"X", Quote, "0", "1", Quote>>}

Blobs == {<<>>, <<<<"0", "1">>>>, <<<<"1", "0">>, <<"0", "0">>>>}

\* Integers on both sides of all limits.
ParamValues ==
    {NoneValue, <<"bool", TRUE>>, <<"float", "finite">>, <<"float", "nan">>, <<"float", "inf">>}
    \union {<<"int", i>> : i \in {0, MaxInt, MaxInt + 1, -MaxInt - 1, -MaxInt - 2,
                                MaxDouble, MaxDouble + 1, -MaxDouble, -MaxDouble - 1}}
    \union {<<"bytes", b>> : b \in Blobs} \union {<<"str", s>> : s \in Texts}

EveryParams == BoundedSeq(ParamValues, 2)

\* '?' and '?N', mixed, repeated, swapped, and beyond the parameters.
EveryTemplate == {<<0, 0>>, <<1, 2>>, <<2, 1>>, <<0, 1>>, <<2, 0>>, <<2, 2>>, <<3, 0>>}

\* SELECT *, one column, and two columns with one name.
EverySelect == {<<>>, <<<<"b", "b">>>>, <<<<"a", "c">>, <<"b", "c">>>>}

StrangeTexts == {<<"x", Nul, Broken>>, <<Broken>>}
=============================================================================
