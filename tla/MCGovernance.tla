---------------------------- MODULE MCGovernance ----------------------------
(* The workloads of the governance run: in each, the commands two users    *)
(* and their programs give in any order, and the tables they find.         *)
EXTENDS Governance, SequencesExt

CONSTANTS p1, p2, ann, bob, bot

MCProc     == {p1, p2}
MCPerson   == {ann, bob}
MCAgent    == {bot}
MCMatches  == {<<"*", "main">>, <<"*", "dev">>, <<"main", "main">>}

(* Changeset cs writes a file of the module ann owns, and drops another.   *)
GQ == INSTANCE GraphQuery
File(name)  == <<"crates", name, "lib">>
Earlier(cs) == File("core") :> cs - 1 @@ File("old") :> 0
Later(cs)   == File("core") :> cs
Owned(m, n) == [from |-> m, to |-> n, rel |-> "owned-by", both |-> FALSE]
Ownership   == {Owned("core", ann), Owned("old", bob)}
MCOwnersOf  == [cs \in 1 .. 3 |-> SetToSeq(
  GQ!Owners({"core", "old", ann, bob}, Ownership, GQ!ChangedPaths(Earlier(cs), Later(cs))))]

Swap       == Permutations(MCProc)

MCRules == [rule \in {"large-changeset", "unusual-scope", "burst-activity"} |->
              [threshold |-> IF rule = "burst-activity" THEN 1 ELSE 2, enabled |-> TRUE]]

Assigned0(role) == [role |-> role, expires |-> Never]

Fresh == [todo |-> {}, roles |-> <<>>, roleHistory |-> <<>>, protections |-> <<>>, reviews |-> <<>>, decisions |-> <<>>,
          head |-> "main", events |-> <<>>, integrations |-> <<>>, scores |-> <<>>,
          rules |-> MCRules, budgets |-> <<>>, log |-> <<>>]

Pending == <<[cs |-> 1, status |-> "pending"]>>
Strict  == [pattern |-> "main", min |-> 1, human |-> TRUE, role |-> "maintainer"]
Lax     == [pattern |-> "*", min |-> 0, human |-> FALSE, role |-> "reader"]

Says(who, what, human) == [op |-> "decide", cs |-> 1, by |-> who, decision |-> what, human |-> human]
Merges(who) == [op |-> "merge", cs |-> 1, by |-> who]

Deciding ==
  [Fresh EXCEPT !.reviews = Pending,
     !.roles = ann :> Assigned0("maintainer"), !.protections = <<Strict>>,
     !.todo = {Says(ann, "approve", TRUE), Says(bob, "reject", TRUE), Says(bob, "approve", TRUE), Merges(ann)}]

Machine ==
  [Fresh EXCEPT !.reviews = Pending,
     !.roles = ann :> [role |-> "maintainer", expires |-> 2], !.protections = <<Strict>>,
     !.todo = {Says(bob, "approve", FALSE), Says(ann, "request_changes", TRUE), Says(ann, "approve", TRUE), Merges(ann)}]

Guarding ==
  [Fresh EXCEPT !.reviews = <<[cs |-> 1, status |-> "approved"]>>,
     !.decisions = <<1, bob>> :> [decision |-> "approve", human |-> TRUE],
     !.roles = bob :> [role |-> "owner", expires |-> 2], !.protections = <<Strict, Lax>>,
     !.todo = {[op |-> "assign", who |-> ann, role |-> "maintainer", expires |-> 2],
               [op |-> "assign", who |-> ann, role |-> "contributor", expires |-> Never],
               [op |-> "revoke", who |-> ann], [op |-> "protect", rule |-> Strict],
               [op |-> "switch", branch |-> "dev"], Merges(ann)}]

Requesting ==
  [Fresh EXCEPT !.todo = {[op |-> "request", cs |-> 1, by |-> ann], [op |-> "request", cs |-> 1, by |-> bob],
                          [op |-> "comment", cs |-> 1, by |-> bob], Says(ann, "approve", TRUE), Merges(bob)}]

Hooked == <<[backend |-> "slack", types |-> {AllTypes}], [backend |-> "hook", types |-> {"review.rejected", "changeset.promoted"}]>>

(* Snapshots: what each file consists of.                                  *)
Short == "a" :> {1}
Long  == "a" :> {1, 2, 3}
Wide  == Long @@ ("b" :> {1}) @@ ("c" :> {}) @@ ("d" :> {})

Promoting ==
  [Fresh EXCEPT !.roles = (ann :> Assigned0("owner")) @@ (bob :> Assigned0("contributor")),
     !.todo = {[op |-> "promote", cs |-> 1, by |-> ann, tree |-> Long],
               [op |-> "promote", cs |-> 2, by |-> ann, tree |-> Wide],
               [op |-> "request", cs |-> 2, by |-> bob],
               [op |-> "configure", rule |-> "unusual-scope", threshold |-> 5, enabled |-> FALSE]}]

Spending ==
  [Fresh EXCEPT
     !.budgets = "*" :> [limit |-> 4, percent |-> 50],
     !.todo = {[op |-> "promote", cs |-> 1, by |-> ann, tree |-> Short],
               [op |-> "propose", cs |-> 2, by |-> bot, tree |-> Long],
               [op |-> "report", cs |-> 1, agent |-> "", model |-> "m", cost |-> 1],
               [op |-> "report", cs |-> 1, agent |-> bot, model |-> "", cost |-> 2],
               [op |-> "report", cs |-> 2, agent |-> bot, model |-> "m", cost |-> 2],
               [op |-> "budget", pattern |-> "src", limit |-> 2, percent |-> 80],
               [op |-> "resolve", id |-> 1]}]

Telling ==
  [Fresh EXCEPT !.integrations = Hooked,
     !.roles = bob :> Assigned0("maintainer"),
     !.reviews = <<[cs |-> 1, status |-> "approved"]>>,
     !.decisions = <<1, bob>> :> [decision |-> "approve", human |-> TRUE],
     !.events = <<[type |-> "review.approved", target |-> 1, dispatched |-> FALSE]>>,
     !.todo = {[op |-> "promote", cs |-> 2, by |-> ann, tree |-> Short],
               [op |-> "dispatch"], [op |-> "dispatch", again |-> TRUE],
               [op |-> "ack", id |-> 1, by |-> bob], [op |-> "ackall", by |-> ann]}]

Wiring ==
  [Fresh EXCEPT !.integrations = Hooked,
     !.reviews = <<[cs |-> 1, status |-> "rejected"]>>,
     !.decisions = (<<1, ann>> :> [decision |-> "reject", human |-> TRUE])
                   @@ (<<1, bob>> :> [decision |-> "approve", human |-> TRUE]),
     !.events = <<[type |-> "review.rejected", target |-> 1, dispatched |-> FALSE],
                  [type |-> "review.approved", target |-> 1, dispatched |-> FALSE]>>,
     !.todo = {[op |-> "dispatch"], [op |-> "dispatch", again |-> TRUE],
               [op |-> "integrate", backend |-> "slack", types |-> {"review.approved"}],
               [op |-> "disconnect", backend |-> "hook"]}]

Scores(n) == [op |-> "event", agent |-> bot, type |-> "changeset_merged", n |-> n]
Rating ==
  [Fresh EXCEPT
     !.todo = {Scores(1), Scores(2), [op |-> "event", agent |-> bot, type |-> "regression"],
               [op |-> "event", agent |-> bot, type |-> "changeset_promoted"],
               [op |-> "override", agent |-> bot, status |-> "blocked", until |-> 2],
               [op |-> "module", agent |-> bot, pattern |-> "src", status |-> "sandboxed"]}]
Resetting ==
  [Fresh EXCEPT
     !.todo = {Scores(1), Scores(2), [op |-> "event", agent |-> bot, type |-> "regression"],
               [op |-> "event", agent |-> bot, type |-> "review_comment"],
               [op |-> "reset", agent |-> bot],
               [op |-> "configure", rule |-> "no-such-rule", threshold |-> 1, enabled |-> TRUE]}]

(* The roles a scenario starts with were assigned, one after another.      *)
MCScenarios ==
  {[s EXCEPT !.roleHistory = SetToSeq({[who |-> w, old |-> None, new |-> s.roles[w].role] : w \in DOMAIN s.roles})] :
     s \in {Deciding, Machine, Guarding, Requesting, Promoting, Spending, Telling, Wiring, Rating, Resetting}}
=============================================================================
