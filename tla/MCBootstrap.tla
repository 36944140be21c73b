---------------------------- MODULE MCBootstrap -----------------------------
(***************************************************************************)
(* Two instances; table_definition, and route_definition with a relation   *)
(* and a junction table, both with their unique keys.                      *)
(***************************************************************************)
EXTENDS Bootstrap, TLC

MCTableSeq == <<"table", "route">>
MCSnapCol == [t \in {"table", "route"} |->
                IF t = "route" THEN {"name", "icon"} ELSE {"name"}]
MCSnapRef == [t \in {"table", "route"} |->
                IF t = "route" THEN {"table"} ELSE {}]
MCOldRef  == [t \in {"table", "route"} |->
                IF t = "route" THEN {"route"} ELSE {}]
MCRecordSeq == <<"row", "get", "main", "hook", "drop", "item">>
MCKindOf == [r \in {"row", "get", "main", "hook", "drop", "item"} |->
               CASE r = "row"  -> "setting" [] r = "get" -> "method"
                 [] r = "main" -> "route"   [] r = "hook" -> "hook"
                 [] OTHER      -> "menu"]
MCRefOf  == [r \in {"row", "get", "main", "hook", "drop", "item"} |->
               CASE r = "main" -> "table" [] r = "hook" -> "main"
                 [] r = "item" -> "drop"  [] OTHER -> "none"]
=============================================================================
