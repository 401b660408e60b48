------------------------------ MODULE MCKbItems ------------------------------
(* Two processes on one name, up to four writing operations.               *)
EXTENDS KbItems

CONSTANTS c1, c2

MC_Client == {c1, c2}
MC_Value == {1, 2}
MC_Profiles == {"queue", "value", "list", "unique", "volatile"}
MC_Unique == {"unique"}
=============================================================================
