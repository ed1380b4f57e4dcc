------------------------------ MODULE MCTemplate ------------------------------
(***************************************************************************)
(* The documents of the run: no property, one of every kind of value,      *)
(* alone and before a number, so that each is once the last of its list;   *)
(* and what is sent after it in the same document.                         *)
(***************************************************************************)
EXTENDS Template

MCNodeList == {<<>>} \cup {<<[key |-> "a", val |-> v]>> : v \in Val}
              \cup {<<[key |-> "a", val |-> v], [key |-> "b", val |-> "num"]>> : v \in Val}
MCSelfList == {<<[key |-> "d", val |-> v]>> : v \in Val}
MCEvent == [id : {"x"}, nodes : MCNodeList]
MCEventList ==
  {<<e, [id |-> "y", nodes |-> <<[key |-> "a", val |-> "num"]>>]>> : e \in MCEvent}
MCRawText == {EventText(e) : e \in MCEvent}
MCOldText == {<<>>, <<"o", "o", "o", "o", "o", "o", "o", "o">>}
=============================================================================
