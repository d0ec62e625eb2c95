--------------------------- MODULE MCListsSidebar ---------------------------
(* Three lists on home, one of them in the trash; one on work, two to come.  *)
EXTENDS ListsSidebar
MCHome == <<"home", "home", "home", "work", "home", "home">>
MCKind == <<"todo", "grocery", "todo", "todo", "todo", "todo">>
MCMenus == {{"move", "delete"}, {"delete", "trash"}, {"move", "trash", "purge"}, {"move", "create"},
            {"move", "order", "filter", "trash"}, {"move", "rename"}, {"create", "order"},
            {"order", "added", "moved", "ordered"}, {"create", "added", "ordered"}, {"create", "moved"},
            {"rename", "moved", "renamed"}, {"trash", "purge", "moved"}}
=============================================================================
