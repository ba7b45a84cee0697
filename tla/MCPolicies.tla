----------------------------- MODULE MCPolicies -----------------------------
(* Policies on a small instance: a user with two terminals at a, who       *)
(* promotes and syncs in one and changes policies in the other, and b,     *)
(* which serves and where an agent has written a key into a file. A key is *)
(* forbidden everywhere by one version of policy 1, in one file only by    *)
(* the other, which also wants agents' changesets reported; policy 2       *)
(* warns, and has a misspelled severity; a fourth text does not parse.     *)
EXTENDS Policies

CONSTANTS a, b, user, admin, server, cfg, src, plain, key, strict, narrow, warns, typo

MCReplica == {a, b}
MCPath == {cfg, src}
MCContent == {plain, key}
MCText == {strict, narrow, warns, typo}
MCProc == {user, admin, server}

MCHome == [p \in MCProc |-> IF p = server THEN b ELSE a]
MCMay == [p \in MCProc |-> CASE p = user   -> {"promote", "sync"}
                             [] p = admin  -> {"add", "remove"}
                             [] p = server -> {"serve"}]

ForKeys(sev, where) ==
  [kind |-> "pattern", severity |-> sev, compiles |-> TRUE, hits |-> {key}, scope |-> where,
   noAgents |-> FALSE, review |-> FALSE, most |-> 9, forbidden |-> {}]
NoAgents ==
  [kind |-> "changeset", severity |-> "block", compiles |-> TRUE, hits |-> {}, scope |-> {},
   noAgents |-> TRUE, review |-> FALSE, most |-> 9, forbidden |-> {}]

MCNameOf == [t \in MCText |-> IF t = warns THEN 2 ELSE 1]
MCWording == [t \in MCText |-> CASE t = strict -> {ForKeys("none", {})}
                                 [] t = narrow -> {ForKeys("block", {cfg}), NoAgents}
                                 [] t = warns  -> {ForKeys("warn", {}), ForKeys("other", {src})}
                                 [] t = typo   -> {[NoAgents EXCEPT !.kind = "other"]}]

MCFirstTree == [r \in MCReplica |-> [q \in MCPath |->
  CASE q = cfg -> plain [] r = b /\ q = src -> key [] OTHER -> Gone]]
MCFirstPolicies == [r \in MCReplica |-> [n \in {1, 2} |->
                      IF r = b /\ n = 2 THEN warns ELSE IF r = a /\ n = 1 THEN strict ELSE Absent]]

(* A fourth command follows no death and no second changeset.              *)
MCNext == Next /\ (commands' <= 3 \/ (deaths' = 0 /\ Len(cs') <= 1))
MCSpec == Init /\ [][MCNext]_vars
=============================================================================
