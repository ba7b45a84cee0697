---------------------------- MODULE MCGitBridge ----------------------------
(* The workloads of the bridge runs.                                       *)
EXTENDS GitBridge, TLC

CONSTANTS p1, p2, origin, mirror

MCProc   == {p1, p2}
MCRepo   == {origin, mirror}
MCBranch == <<"dev", "main">>

(* A program, a link and a submodule; and a checkout of them.              *)
Files    == ("run" :> "100755") @@ ("lnk" :> "120000") @@ ("dep" :> "160000")
Program  == "run" :> "100755"
Checkout == ("run" :> "file") @@ ("lnk" :> "link")
Empty    == <<>>

First  == [msg |-> "first", tree |-> Files, signed |-> TRUE, parents |-> <<>>]
Alone  == [msg |-> "first", tree |-> Program, signed |-> TRUE, parents |-> <<>>]
Second == [msg |-> "second", tree |-> Program, signed |-> FALSE, parents |-> <<First>>]
Side   == [msg |-> "side", tree |-> Program, signed |-> FALSE, parents |-> <<First>>]
Merge  == [msg |-> "merge", tree |-> Files, signed |-> FALSE, parents |-> <<Second, Side>>]

Does(op, g, k)       == [op |-> op, g |-> g, k |-> k]
Commits(g, b, m, sg) == [op |-> "commit", g |-> g, b |-> b, msg |-> m, signed |-> sg, tree |-> Files]
Promotes(m)          == [op |-> "promote", msg |-> m]
Git(g, cs, rs) == [commits |-> [r \in MCRepo |-> IF r = g THEN cs ELSE {}],
                   gitRefs |-> [r \in MCRepo |-> IF r = g THEN rs ELSE <<>>]]
With(s, w, t) == s @@ [wd |-> w, todo |-> t]

Merged == Git(origin, {First, Second, Side, Merge}, ("main" :> Merge) @@ ("dev" :> Side))
Small  == Git(origin, {First}, "main" :> First)
Tiny   == Git(origin, {Alone}, "main" :> Alone)

Importing == With(Merged, Empty, {Does("import", origin, 1), Does("import", origin, 2), Promotes("own")})
Bridging  == With(Small, Checkout, {Does("bridge", origin, 1), Does("bridge", origin, 2), Promotes("own"),
                                   Commits(origin, "main", "theirs", TRUE), Commits(origin, "dev", "aside", FALSE)})
Watching  == With(Tiny, Materialized({"run"}), {Does("watch", origin, 1), Promotes("own"),
                                   Commits(origin, "main", "theirs", FALSE), Commits(origin, "main", "later", TRUE)})
Crossing  == With(Tiny, Materialized({"run"}), {Does("watch", origin, 1), Promotes("own"), Does("export", origin, 1),
                                   Commits(origin, "main", "theirs", FALSE)})
Trading   == With(Tiny, Empty, {Does("import", origin, 1), Does("export", origin, 1), Promotes("own"),
                                  Commits(origin, "main", "theirs", FALSE), Does("import", origin, 2)})

Moving    == With(Small, Empty, {Does("import", origin, 1), Does("export", mirror, 1), Does("export", origin, 2),
                                  Promotes("own"), Does("import", mirror, 2)})

MCScenarios == {Importing, Bridging, Watching, Crossing, Trading, Moving}
=============================================================================
