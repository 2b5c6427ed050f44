------------------------------- MODULE MCWire -------------------------------
(* Tokens around the byte boundary, two MACs and three JSON texts of two   *)
(* payloads: the empty object, the empty object followed by a space, which *)
(* has the same value, and a short stand-in for an object with contents.   *)
EXTENDS Conversions

ThreeJSON == {<<123, 125>>, <<123, 125, 32>>, <<123, 48, 125>>}
TwoPayloads == {"empty", "full"}
Unmarshal == [j \in ThreeJSON |-> IF j = <<123, 48, 125>> THEN "full" ELSE "empty"]
Marshal == [v \in TwoPayloads |-> IF v = "full" THEN <<123, 48, 125>> ELSE <<123, 125>>]
TwoEUI64 == {<<1, 2, 3, 4, 5, 6, 7, 8>>, <<0, 0, 0, 0, 0, 0, 0, 0>>}
EdgeTokens == {0, 1, 255, 256, 513, 65535}
EdgeBytes == 0 .. 6 \cup {255}
=============================================================================
