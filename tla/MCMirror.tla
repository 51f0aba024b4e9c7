------------------------------ MODULE MCMirror ------------------------------
(* Instances of Mirror for TLC. *)
EXTENDS Mirror

(* "/", "/a" and "/b" are configured, in another order than that of their strings;
   "/a/b" and "/a/b/c" are dynamic. *)
MCOrder == <<Root, <<"a">>, <<"a", "b">>, <<"a", "b", "c">>, <<"b">>>>
MCConfigRows == <<<<"b">>, <<"a">>, Root>>

(* Two requests for one path, configured or dynamic; or for two dynamic paths, one
   below the other. *)
MCAskedChoices ==
    {[r \in Requests |-> <<"a">>],
     [r \in Requests |-> <<"a", "b">>],
     [r \in Requests |-> IF r = "r2" THEN <<"a", "b", "c">> ELSE <<"a", "b">>]}
=============================================================================
