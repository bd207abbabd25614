----------------------------- MODULE MCHarness -----------------------------
(* Instances of Harness: five functions and the plans the model may emit.   *)
EXTENDS Harness

MCTools == {"look", "check", "pay", "note", "wipe"}
MCParams == [t \in MCTools |-> CASE t = "pay" -> {"x"} [] t = "check" -> {"y"} [] OTHER -> {}]
MCLevels == [t \in MCTools |-> CASE t \in {"look", "check"} -> "read" [] t = "wipe" -> "destructive" [] OTHER -> "write"]
MCOverrides ==
  [t \in MCTools |-> [mode |-> None, confirm |-> IF t = "note" THEN "no" ELSE "unset"]]
MCRegistries == {MCTools, MCTools \ {"note"}}
FewRegistries == {{"look", "pay"}}
MCBlocked == [s \in {"new", "paid"} |-> IF s = "paid" THEN {"pay"} ELSE {}]
MCMoves == [s \in {"new", "paid"} |-> [t \in MCTools |-> IF t = "pay" THEN "paid" ELSE s]]

Step(id, tool, hints, produces) == [id |-> id, tool |-> tool, hints |-> hints, produces |-> produces]
Few == {<<Step(1, "pay", {}, {})>>, <<Step(1, "pay", {"x"}, {})>>}
Twice == Few \cup {<<Step(1, "pay", {"x"}, {}), Step(2, "pay", {"x"}, {})>>}
MCProposals == {
  <<Step(1, "look", {}, {"x"}), Step(2, "pay", {}, {})>>,
  <<Step(1, "pay", {"x"}, {"y"}), Step(2, "pay", {"x"}, {}), Step(3, "check", {}, {})>>,
  <<Step(1, "pay", {}, {"y"}), Step(2, "check", {}, {"x"}), Step(3, "note", {}, {})>>,
  <<Step(1, "wipe", {}, {}), Step(1, "note", {}, {})>>,
  <<Step(1, None, {"x", "y"}, {})>> }
=============================================================================
