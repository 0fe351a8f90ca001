------------------------- MODULE MCConversationBuffer -------------------------
(* Constants of the TLC runs.  Round 1 stays below every threshold, 2 takes *)
(* it over both, 3 is compressed and then cut, 4 is one user message.       *)
EXTENDS ConversationBuffer

MCBatch == [r \in Rounds |-> CASE r = 1 -> <<11, 12>> [] r = 2 -> <<21, 22, 23>>
                                [] r = 3 -> <<31, 32, 33>> [] r = 4 -> <<41>>]

MCMessages == {11, 12, 21, 22, 23, 31, 32, 33, 41}

MCRawBytes == [m \in MCMessages |-> CASE m = 32 -> 7 [] m = 33 -> 4 [] m = 12 -> 2 [] OTHER -> 1]

MCCompressedBytes == [MCRawBytes EXCEPT ![32] = 4]

MCToolCalls == {12, 22, 23, 32}
=============================================================================
