------------------------------ MODULE MCServer ------------------------------
(* Instances of Server, and of the Registry below it, for TLC. *)
EXTENDS Server

(* "/a/a" and "/a/a/b" lie below "/a"; "/b" has no ancestor but "/". *)
MCPaths == {<<"a", "a">>, <<"a", "a", "b">>, <<"b">>}

Entry(path, algorithm, burst) ==
    [path |-> path, settings |-> [algorithm |-> algorithm, burst |-> burst]]

(* With "/" and "/a"; with "/a" and "/a/a/b" only; with an algorithm New refuses.
   config.Load always adds "/" and refuses unknown algorithms, but NewRegistry is
   exported and handles both: Match may find no parent, New may fail. *)
MCConfigLists ==
    {<<Entry(Root, 1, 0), Entry(<<"a">>, 2, 3)>>,
     <<Entry(<<"a">>, 1, 2), Entry(<<"a", "a", "b">>, 2, 0)>>,
     <<Entry(Root, 1, 0), Entry(<<"a">>, 9, 3)>>}
=============================================================================
