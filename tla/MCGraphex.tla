----------------------------- MODULE MCGraphex -----------------------------
(* The workloads of the graph run: the commands two people and an agent    *)
(* give in any order in two replicas, and the graph they find.             *)
EXTENDS Graphex, GraphQuery

CONSTANTS p1, p2, A, B, api, web

MCProc    == {p1, p2}
MCReplica == {A, B}
MCNode    == {api, web}
Swap      == Permutations(MCProc)

Content(r, source, text, tier) ==
  [source |-> source, text |-> text, tier |-> tier, updated |-> 1,
   key |-> <<r, tier, 0>>]
Row(r, state, source, tier) ==
  [state |-> state, tier |-> tier, blob |-> Content(r, source, "first", tier),
   created |-> 1, updated |-> 1, local |-> TRUE, decided |-> IF state = "proposed" THEN None ELSE state]

Graph(atA, atB) == [r \in MCReplica |-> IF r = A THEN atA ELSE atB]
Live(r)  == Row(r, "active", "human", "agent-readable")
Asked(r) == Row(r, "proposed", "agent", "public")

Adds(r, n, tier) == [op |-> "add", r |-> r, n |-> n, text |-> "new", tier |-> tier]
Proposes(r, n)   == [op |-> "propose", r |-> r, n |-> n, text |-> "idea", tier |-> "public"]
Does(op, r, n)   == [op |-> op, r |-> r, n |-> n]
Syncs(r, s, k)   == [op |-> "sync", r |-> r, s |-> s, k |-> k]
Rotates(r)       == [op |-> "rotate", r |-> r]

Editing ==
  [rows |-> Graph((api :> Live(A)) @@ (web :> Row(A, "archived", "human", "human-only")), <<>>),
   writes |-> {<<api, 1>>, <<web, 1>>},
   todo |-> {Rotates(A), Adds(A, api, "human-only"), Does("reject", A, api), Proposes(A, api)}]

Reviewing ==
  [rows |-> Graph(api :> Asked(A), <<>>), writes |-> {<<api, 1>>},
   todo |-> {Does("accept", A, api), Proposes(A, web), Does("accept", A, web),
             [op |-> "infer", r |-> A, n |-> web, text |-> "why", tier |-> "agent-readable"],
             [op |-> "link", r |-> A, from |-> api, to |-> web, both |-> TRUE]}]

Meeting ==
  [rows |-> Graph(api :> Live(A), api :> [Live(A) EXCEPT !.local = FALSE]), writes |-> {<<api, 1>>},
   todo |-> {Syncs(A, B, 1), Syncs(B, A, 2), Does("reject", A, api), Proposes(B, api),
             [op |-> "link", r |-> B, from |-> api, to |-> web, both |-> FALSE]}]

Sharing ==
  [Meeting EXCEPT !.todo = (@ \ {Does("reject", A, api)}) \cup {Adds(B, web, "public")}]

Renewing ==
  [rows |-> Graph(api :> Live(A), <<>>), writes |-> {<<api, 1>>},
   todo |-> {Rotates(A), Syncs(A, B, 1), Syncs(B, A, 2), Does("reject", A, api), Does("reject", B, api)}]

(* What a query sees of a replica: its edges, and the nodes an agent may   *)
(* be shown.                                                               *)
EdgesOf(r) == {[from |-> e[1], to |-> e[2], rel |-> "uses", both |-> edges[r][e]] : e \in DOMAIN edges[r]}
ShownOf(r) == {n \in DOMAIN rows[r] : rows[r][n].tier # "human-only"}
Asking     == [subject : {Wild, api}, rel : {Wild}, object : {Wild, web}]

(* Each question asked of a graph is answered as it is read: `query`, of   *)
(* any small graph and of each replica, also where edges arrived without   *)
(* their nodes; `project`; and the inference of a promotion.               *)
AnswersRight ==
  /\ QueryIsPaths /\ ProjectionFits /\ SuggestOnce
  /\ \A r \in {s \in Replica : edges[s] # <<>>}, pat \in Asking :
       Run(DOMAIN rows[r], EdgesOf(r), ShownOf(r), pat, 2) = PathsOf(DOMAIN rows[r], ShownOf(r), EdgesOf(r), pat)

MCScenarios == {Editing, Reviewing, Meeting, Sharing, Renewing}
=============================================================================
