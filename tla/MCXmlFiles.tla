------------------------------ MODULE MCXmlFiles -------------------------------
(***************************************************************************)
(* Instances of XmlFiles for TLC.                                          *)
(***************************************************************************)
EXTENDS XmlFiles

None == [n \in {} |-> ""]
XY == [n \in {"x", "y"} |-> IF n = "x" THEN "1" ELSE "2"]
XZ == [n \in {"x", "z"} |-> IF n = "x" THEN "1" ELSE "2"]

Tags == {Start("a", None), Start("b", XY)}
Escaped == {<<"t", "&lt;">>}
Searches == {[element |-> "b", attributes |-> a] : a \in {None, XY, XZ}}
================================================================================
