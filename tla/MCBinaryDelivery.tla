-------------------------- MODULE MCBinaryDelivery --------------------------
(* Binary 1 is the image's and knows config 1 only, binary 2 knows both    *)
(* configs: rolling back to 1 while the config moves to 2 is what the two  *)
(* watchers can get wrong.                                                 *)
EXTENDS BinaryDelivery

MCAccepts(b, c) == <<b, c>> \in {<<1, 1>>, <<2, 1>>, <<2, 2>>}
MCFixed == [c \in Configs |-> 1]

=============================================================================
