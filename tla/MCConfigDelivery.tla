-------------------------- MODULE MCConfigDelivery --------------------------
(* Five configs: 1 and 2 differ in reloadable fields only, 3 does not      *)
(* parse, 4 is rejected by the binary, 5 changes a non-reloadable field.   *)
EXTENDS ConfigDelivery

MCFixed == [c \in Configs |-> IF c = 5 THEN 2 ELSE 1]

=============================================================================
