----------------------------- MODULE MCListPage -----------------------------
(* Three rows, one of them checked; "Egg" and "egg" are one name, and part   *)
(* of "eggs".                                                                *)
EXTENDS ListPage
MCTexts == {"egg", "Egg", "eggs"}
MCNorm == [t \in MCTexts |-> IF t = "Egg" THEN "egg" ELSE t]
MCWithin == [t \in MCTexts |-> IF t = "eggs" THEN {} ELSE {"eggs"}]
MCStart == <<[text |-> "egg", checked |-> FALSE], [text |-> "Egg", checked |-> TRUE],
             [text |-> "eggs", checked |-> FALSE]>>
MCMenus == {{"add", "pick", "toggle"}, {"add", "grow"}, {"add", "pick", "pile"}, {"toggle", "resync"},
            {"drag", "theirs"}, {"drag", "grow", "shrink"}, {"drag", "pile"},
            {"drag", "delete", "add"}, {"rename", "pile"}, {"rename", "theirs"},
            {"toggle", "theirs"}, {"toggle", "shrink"}, {"delete", "shrink", "theirs"},
            {"date", "delete"}}
=============================================================================
