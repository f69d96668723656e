--------------------------- MODULE MCModelStream ----------------------------
(* ModelStream on small instances: payloads and responses of text and tool  *)
(* calls, some of them broken.                                              *)
EXTENDS ModelStream

ToolDelta(n, names, frag) == [NoPayload EXCEPT !.tool = n, !.names = names, !.frag = frag]

Concluding(p) == [p EXCEPT !.usage = TRUE, !.finish = "toolUse"]
MCPayloads ==
    {[NoPayload EXCEPT !.text = <<"a">>],
     [NoPayload EXCEPT !.text = <<"?">>],
     [NoPayload EXCEPT !.usage = TRUE],
     [NoPayload EXCEPT !.text = <<"a">>, !.finish = "stop"],
     [NoPayload EXCEPT !.invalid = "early"],
     [ToolDelta(1, 1, <<"{">>) EXCEPT !.text = <<"b">>],
     [ToolDelta(1, 1, <<"}">>) EXCEPT !.text = <<"b">>, !.invalid = "late"],
     ToolDelta(1, 1, <<"?">>),
     Concluding(ToolDelta(1, 1, <<"}">>)),
     Concluding([ToolDelta(2, 0, <<"{", "}">>) EXCEPT !.text = <<"b">>]),
     Concluding([NoPayload EXCEPT !.text = <<"a">>])}

MCResponses ==
    {<<>>, <<TextBlock(<<>>)>>, <<TextBlock(<<"a">>), ToolBlock(1, <<"{", "}">>)>>}
=============================================================================
