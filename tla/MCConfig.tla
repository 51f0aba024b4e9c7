------------------------------ MODULE MCConfig ------------------------------
(* Instances of Config for TLC. *)
EXTENDS Config, FiniteSets

Empty == [f \in Fields |-> Unset(f)]

(* Settings in which some fields are unset, some valid and some not. *)
MCSettings ==
    {[Empty EXCEPT !["algorithm"] = a, !["maxQueueSize"] = m, !["tokensPerWindow"] = t,
                   !["defaultTokens"] = d, !["windowSeconds"] = w, !["rate"] = r] :
        a \in {"", "strict", "token_window", "other"}, m \in {-1, 0, 5},
        t \in {0, 3}, d \in {0, 2, 4}, w \in {0, 1}, r \in {-1, 0, 7, 2 * 10 ^ 9}}

(* No endpoint, one of any kind at "/" or elsewhere, or two. *)
MCRawEndpoints ==
    {<<>>}
    \cup {<<[path |-> p, settings |-> s]>> : p \in {"/", "/a"}, s \in MCSettings}
    \cup {<<[path |-> "/a", settings |-> s], [path |-> "/", settings |-> Empty]>> :
            s \in MCSettings}

MCRawDefaults ==
    {[f \in Defaulted |->
        CASE f = "algorithm"       -> a
          [] f = "maxQueueSize"    -> m
          [] f = "tokensPerWindow" -> t
          [] f \in {"queueTimeout", "latencyCompensation"} -> q
          [] OTHER                 -> Unset(f)] :
        a \in {"", "sliding_window", "token_window"}, m \in {0, 9}, t \in {0, 2}, q \in {0, 6}}
=============================================================================
