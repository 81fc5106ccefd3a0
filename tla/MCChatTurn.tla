----------------------------- MODULE MCChatTurn -----------------------------
(* ChatTurn with an account tool, two tools that read a frame twice at once, *)
(* one with gather and one with gather_bounded, the tool that asks the       *)
(* model, a name in no registry and arguments that are not an object.        *)
EXTENDS ChatTurn

AllCalls ==
    {<<"get_portfolio", "tcs">>, <<"read_chart", "tcs">>,
     <<"compare_symbols", "tcs">>, <<"generate_custom_indicator", "tcs">>,
     <<"read_chart", "null">>, <<"order", "tcs">>}
=============================================================================
