------------------------------- MODULE Graphex -------------------------------
(***************************************************************************)
(* The knowledge graph (gpp-graphex): nodes sealed under the key of their  *)
(* tier, a row for each in graph.db, proposals waiting for a person, the   *)
(* rotation of the keys, and the exchange of the index between replicas.   *)
(* A node is one <<type, name>>: its id is the hash of the two.            *)
(***************************************************************************)
EXTENDS Commands, SequencesExt, FiniteSetsExt

CONSTANTS
  Replica,    \* repositories; a command names the one it works in
  Node,       \* node identities
  Scenarios   \* the graphs, and the commands to come, to start from

Tiers    == <<"public", "agent-readable", "agent-restricted", "human-only">>
Tier     == ToSet(Tiers)
State    == {"proposed", "active", "deprecated", "archived"}
Source   == {"human", "agent", "approved", "inferred"}

(* A node as it was encoded at a time up to t, with the key its blob was   *)
(* sealed with; and its row in the index.                                  *)
NodeOK(node, t) ==
  /\ DOMAIN node = {"source", "text", "tier", "updated", "key"}
  /\ node.tier \in Tier /\ node.source \in Source /\ node.updated \in 0 .. t
RowOK(row, t) ==
  /\ DOMAIN row = {"state", "tier", "blob", "created", "updated", "local", "decided"}
  /\ NodeOK(row.blob, t) /\ row.tier = row.blob.tier /\ row.state \in State
  /\ row.created \in 0 .. t /\ row.updated \in 0 .. t /\ row.local \in BOOLEAN

(* A row without what each replica keeps for itself.                       *)
Bare(row) == [row EXCEPT !.local = TRUE, !.created = 0]

(* A command that people, agents or peers may give.                        *)
Named(c) ==
  /\ c.r \in Replica
  /\ c.op = "sync" => c.s \in Replica
  /\ c.op \in {"add", "propose", "infer", "accept", "reject"} => c.n \in Node
  /\ c.op \in {"add", "propose", "infer"} => c.tier \in Tier

(* A graph as commands that ran alone leave it: people have decided the    *)
(* active nodes, what was stored here can be opened, and two replicas that *)
(* have a node of one timestamp have it from one write.                    *)
GraphOK(rs, ws) ==
  /\ DOMAIN rs = Replica
  /\ \A r \in Replica : IsFiniteSet(DOMAIN rs[r]) /\ DOMAIN rs[r] \subseteq Node
  /\ \A r \in Replica : \A n \in DOMAIN rs[r] :
       LET row == rs[r][n]
       IN  /\ RowOK(row, 1) /\ <<n, row.updated>> \in ws
           /\ row.state = "active" => row.decided = "active"
           /\ row.local => row.tier = "public" \/ row.blob.key = <<r, row.tier, 0>>
           /\ \A s \in Replica : n \in DOMAIN rs[s] /\ rs[s][n].updated = row.updated => Bare(rs[s][n]) = Bare(row)

ASSUME ScenariosAssumption ==
  \A s \in Scenarios : GraphOK(s.rows, s.writes) /\ \A c \in s.todo : Named(c)

VARIABLES
  rows,       \* rows[r]: the table graph_nodes, a function from nodes to rows
  edges,      \* edges[r]: the table graph_edges, a function from keys to attributes
  tierKeys,   \* tierKeys[r]: the key files, a function from tiers to versions
  pending,    \* pending[r]: the nodes with a proposal file
  audit,      \* audit[r]: the table graph_access_log
  writes,     \* history: <<node, timestamp>> of every row written by a command
  ambiguous,  \* history: nodes written twice under one timestamp, or set back
  shaken,     \* history: replicas where a rotation met another writer, or died
  met         \* history: the pairs of replicas that have exchanged their indexes as they are

graphVars == <<rows, edges, tierKeys, pending, audit>>
history   == <<writes, ambiguous>>
vars      == <<cmdVars, graphVars, history, shaken, met>>

(* A blob: the node as it was encoded, and the key it was sealed with.     *)
Seal(r, node) == [node EXCEPT !.key = <<r, node.tier, tierKeys[r][node.tier]>>]
Opens(r, row) ==
  row.tier = "public" \/ row.blob.key = <<r, row.tier, tierKeys[r][row.tier]>>
Readable(r, n) == n \in DOMAIN rows[r] /\ Opens(r, rows[r][n])

(* Rows upserted in a table: each replaces the row with its key.           *)
Upsert(new, table) ==
  [k \in DOMAIN new \cup DOMAIN table |-> IF k \in DOMAIN new THEN new[k] ELSE table[k]]

(* list_nodes, of all states.                                              *)
Listed(r) == [n \in DOMAIN rows[r] |-> rows[r][n].state]

(* put_edge: the edge replaces one with its ends and relation.             *)
PutEdge(es, from, to, both) == Upsert([e \in {<<from, to>>} |-> both], es)

Encoded(c, source) ==
  [source |-> source, text |-> c.text, tier |-> c.tier, updated |-> now, key |-> None]

NodeRow(c) == <<"graph", c.r, c.n>>

Init ==
  /\ \E s \in Scenarios : todo = s.todo /\ rows = s.rows /\ writes = s.writes
  /\ now = 1 /\ deaths = 0 /\ tainted = {}
  /\ proc = [p \in Proc |-> Idle]
  /\ edges = [r \in Replica |-> <<>>] /\ tierKeys = [r \in Replica |-> [t \in Tier |-> 0]]
  /\ pending = [r \in Replica |-> {}] /\ audit = [r \in Replica |-> {}]
  /\ ambiguous = {} /\ shaken = {} /\ met = {}
-----------------------------------------------------------------------------
(* put_node, for each node of a queue: the key of the tier is read and the *)
(* content sealed and stored; then the row is inserted or updated, with    *)
(* the node's own timestamp.                                               *)
Put(n, node, state, decided) == [n |-> n, node |-> node, state |-> state, decided |-> decided]

PutSeal(p) ==
  LET put == Head(Mem(p))
  IN  /\ At(p, "put")
      /\ Continue(p, Goto(p, "put.row", <<[put EXCEPT !.node = Seal(Cmd(p).r, @)]>> \o Tail(Mem(p))))
      /\ UNCHANGED <<graphVars, history>>

Written(r, n, stamp) ==
  /\ writes' = writes \cup {<<n, stamp>>}
  /\ ambiguous' = IF <<n, stamp>> \in writes \/ (n \in DOMAIN rows[r] /\ stamp < rows[r][n].updated)
                  THEN ambiguous \cup {n} ELSE ambiguous

(* decided: history, what people last decided of the node; local: history, *)
(* the content the row points at was put by a command of this replica.     *)
PutRow(p) ==
  LET put == Head(Mem(p))
      r == Cmd(p).r
      known == put.n \in DOMAIN rows[r]
      row == [state |-> put.state, tier |-> put.node.tier, blob |-> put.node,
              created |-> IF known THEN rows[r][put.n].created ELSE put.node.updated,
              updated |-> put.node.updated, local |-> TRUE,
              decided |-> IF put.decided # None THEN put.decided
                          ELSE IF known THEN rows[r][put.n].decided ELSE None]
  IN  /\ At(p, "put.row")
      /\ rows' = [rows EXCEPT ![r] = Upsert([n \in {put.n} |-> row], @)]
      /\ Written(r, put.n, row.updated)
      /\ Continue(p, IF Len(Mem(p)) = 1 THEN Return(p) ELSE Goto(p, "put", Tail(Mem(p))))
      /\ UNCHANGED <<edges, tierKeys, pending, audit>>

(* set_state stamps the row, and leaves the content as it was sealed.      *)
SetState(p) ==
  LET r == Cmd(p).r
      n == Cmd(p).n
  IN  /\ At(p, "state")
      /\ rows' = [rows EXCEPT ![r][n] = [@ EXCEPT !.state = Mem(p), !.updated = now, !.decided = Mem(p)]]
      /\ Written(r, n, now)
      /\ Continue(p, Return(p))
      /\ UNCHANGED <<edges, tierKeys, pending, audit>>
-----------------------------------------------------------------------------
(* gpp graphex add; propose_graph_update of an agent; gpp graphex infer,   *)
(* for modules that were not in the graph when it looked.                  *)
Add(p, c) ==
  /\ c.op = "add"
  /\ Begin(p, c, "put", NodeRow(c), <<Put(c.n, Encoded(c, "human"), "active", "active")>>, <<>>)

Propose(p, c) ==
  /\ c.op = "propose"
  /\ Begin(p, c, "put", NodeRow(c), <<Put(c.n, Encoded(c, "agent"), "proposed", None)>>, <<"pending", "log">>)

(* Mutant of Infer: what is inferred is in the graph at once.              *)
Infer_Active(p, c) ==
  /\ c.op = "infer"
  /\ IF c.n \in DOMAIN Listed(c.r) THEN Only(p, c)
     ELSE Begin(p, c, "put", NodeRow(c), <<Put(c.n, Encoded(c, "inferred"), "active", None)>>, <<>>)

Infer(p, c) ==
  /\ c.op = "infer"
  /\ IF c.n \in DOMAIN Listed(c.r) THEN Only(p, c)
     ELSE Begin(p, c, "put", NodeRow(c), <<Put(c.n, Encoded(c, "inferred"), "proposed", None)>>, <<"pending">>)

WriteProposal(p) ==
  /\ At(p, "pending")
  /\ pending' = [pending EXCEPT ![Cmd(p).r] = @ \cup {Cmd(p).n}]
  /\ Continue(p, Return(p))
  /\ UNCHANGED <<rows, edges, tierKeys, audit, history>>

LogAccess(p) ==
  /\ At(p, "log")
  /\ audit' = [audit EXCEPT ![Cmd(p).r] = @ \cup {[action |-> Cmd(p).op, nodes |-> {Cmd(p).n}]}]
  /\ Continue(p, Return(p))
  /\ UNCHANGED <<rows, edges, tierKeys, pending, history>>

(* gpp graphex accept: an agent's node is stored anew with its approver,   *)
(* any other gets the state; one that cannot be opened is an error.        *)
Accept(p, c) ==
  /\ c.op = "accept"
  /\ IF ~Readable(c.r, c.n) THEN Only(p, c)
     ELSE LET node == rows[c.r][c.n].blob
          IN  IF node.source \in {"agent", "approved"}
              THEN Begin(p, c, "put", NodeRow(c),
                         <<Put(c.n, [node EXCEPT !.source = "approved", !.updated = now], "active", "active")>>,
                         <<"clear">>)
              ELSE Begin(p, c, "state", NodeRow(c), "active", <<"clear">>)

Reject(p, c) ==
  /\ c.op = "reject"
  /\ IF c.n \notin DOMAIN rows[c.r] THEN Only(p, c)
     ELSE Begin(p, c, "state", NodeRow(c), "archived", <<"clear">>)

ClearProposal(p) ==
  /\ At(p, "clear")
  /\ pending' = [pending EXCEPT ![Cmd(p).r] = @ \ {Cmd(p).n}]
  /\ Continue(p, Return(p))
  /\ UNCHANGED <<rows, edges, tierKeys, audit, history>>

(* gpp graphex link, and AddEdge of an agent: both ends must be in the     *)
(* graph.                                                                  *)
Link(p, c) ==
  /\ c.op = "link"
  /\ Only(p, c)
  /\ edges' = IF {c.from, c.to} \subseteq DOMAIN rows[c.r]
              THEN [edges EXCEPT ![c.r] = PutEdge(@, c.from, c.to, c.both)] ELSE edges
  /\ UNCHANGED <<rows, tierKeys, pending, audit, history>>
-----------------------------------------------------------------------------
(* gpp keys rotate: the rows are listed, every node is opened, the keys    *)
(* are written tier by tier, and every node is put again, in the state and *)
(* with the timestamp that were read.                                      *)
Rotate(p, c) ==
  /\ c.op = "rotate"
  /\ Begin(p, c, "rotate.read", NoRow, Listed(c.r), <<>>)

(* Mutant of RotateRead: what is archived is left as it is.                 *)
RotateRead_Live(p) ==
  LET r == Cmd(p).r
      puts == SetToSeq({Put(n, rows[r][n].blob, Mem(p)[n], None) : n \in {m \in DOMAIN Mem(p) : Mem(p)[m] # "archived"}})
  IN  /\ At(p, "rotate.read")
      /\ Continue(p, IF \E n \in DOMAIN Mem(p) : ~Opens(r, rows[r][n]) THEN Idle
                     ELSE Goto(p, "rotate.keys", [left |-> Tiers, puts |-> puts]))
      /\ UNCHANGED <<graphVars, history>>

RotateRead(p) ==
  LET r == Cmd(p).r
      puts == SetToSeq({Put(n, rows[r][n].blob, Mem(p)[n], None) : n \in DOMAIN Mem(p)})
  IN  /\ At(p, "rotate.read")
      /\ Continue(p, IF \E n \in DOMAIN Mem(p) : ~Opens(r, rows[r][n]) THEN Idle
                     ELSE Goto(p, "rotate.keys", [left |-> Tiers, puts |-> puts]))
      /\ UNCHANGED <<graphVars, history>>

RotateKeys(p) ==
  LET left == Tail(Mem(p).left)
  IN  /\ At(p, "rotate.keys")
      /\ tierKeys' = [tierKeys EXCEPT ![Cmd(p).r][Head(Mem(p).left)] = @ + 1]
      /\ Continue(p, IF left # <<>> THEN Goto(p, "rotate.keys", [Mem(p) EXCEPT !.left = left])
                     ELSE IF Mem(p).puts = <<>> THEN Return(p) ELSE Goto(p, "put", Mem(p).puts))
      /\ UNCHANGED <<rows, edges, pending, audit, history>>
-----------------------------------------------------------------------------
(* Mutant of Newer: what a replica has is never replaced.                   *)
Newer_First(mine, theirs) == FALSE

(* import_index: of two rows the one with the higher timestamp stays, with *)
(* the creation time of mine; an edge that is there stays as it is.  What  *)
(* becomes of a row depends on that row alone, so they go in at once.      *)
Newer(mine, theirs) == theirs.updated > mine.updated

Import(s, index) ==
  LET mine == rows[s]
      taken == {n \in DOMAIN index.rows : n \in DOMAIN mine => Newer(mine[n], index.rows[n])}
      row(n) == [index.rows[n] EXCEPT !.local = FALSE,
                                      !.created = IF n \in DOMAIN mine THEN mine[n].created ELSE @]
  IN  /\ rows' = [rows EXCEPT ![s] = Upsert([n \in taken |-> row(n)], @)]
      /\ edges' = [edges EXCEPT ![s] = Upsert(@, index.edges)]

Index(r) == [rows |-> rows[r], edges |-> edges[r]]

(* A session of gpp sync: c.r pushes its index to c.s, which imports it    *)
(* and pushes its own.  export_index reads the nodes, then the edges.      *)
Sync(p, c) ==
  /\ c.op = "sync"
  /\ Begin(p, c, "sync.edges", NoRow, rows[c.r], <<>>)

SyncEdges(p) ==
  /\ At(p, "sync.edges")
  /\ Continue(p, Goto(p, "sync.push", [rows |-> Mem(p), edges |-> edges[Cmd(p).r]]))
  /\ UNCHANGED <<graphVars, history>>

SyncPush(p) ==
  /\ At(p, "sync.push")
  /\ Import(Cmd(p).s, Mem(p))
  /\ Continue(p, Goto(p, "sync.answer", Mem(p)))
  /\ UNCHANGED <<tierKeys, pending, audit, history>>

SyncAnswer(p) ==
  /\ At(p, "sync.answer")
  /\ Continue(p, Goto(p, "sync.answer.edges", [sent |-> Mem(p), rows |-> rows[Cmd(p).s]]))
  /\ UNCHANGED <<graphVars, history>>

SyncAnswerEdges(p) ==
  /\ At(p, "sync.answer.edges")
  /\ Continue(p, Goto(p, "sync.pull", [sent |-> Mem(p).sent, got |-> [rows |-> Mem(p).rows, edges |-> edges[Cmd(p).s]]]))
  /\ UNCHANGED <<graphVars, history>>

SyncPull(p) ==
  /\ At(p, "sync.pull")
  /\ Import(Cmd(p).r, Mem(p).got)
  /\ Continue(p, Return(p))
  /\ UNCHANGED <<tierKeys, pending, audit, history>>
-----------------------------------------------------------------------------
Rotating(p, r) == Cmd(p).op = "rotate" /\ Cmd(p).r = r /\ ~At(p, "rotate.read")
Writing(p, r)  == proc[p].at \in {"put", "put.row", "state", "sync.push", "sync.pull"} /\
                  (r = Cmd(p).r \/ (Cmd(p).op = "sync" /\ Cmd(p).s = r))

Commanded == \E p \in Proc, c \in todo :
  /\ \/ Add(p, c) \/ Propose(p, c) \/ Infer(p, c) \/ Accept(p, c) \/ Reject(p, c)
     \/ Rotate(p, c) \/ Sync(p, c)
  /\ UNCHANGED <<graphVars, history>>

Stepped == \E p \in Proc :
  \/ PutSeal(p) \/ PutRow(p) \/ SetState(p) \/ WriteProposal(p) \/ ClearProposal(p) \/ LogAccess(p)
  \/ RotateRead(p) \/ RotateKeys(p)
  \/ SyncEdges(p) \/ SyncPush(p) \/ SyncAnswer(p) \/ SyncAnswerEdges(p) \/ SyncPull(p)
  \/ \E c \in todo : Link(p, c)
  \/ Die(p) /\ UNCHANGED <<graphVars, history>>

(* A rotation is disturbed by any other command of its replica that is     *)
(* half-way through a write while it runs, or that changes a row.          *)
Watch ==
  /\ shaken' = shaken \cup {r \in Replica : \E p \in Proc :
       /\ Cmd(p).op = "rotate" /\ Cmd(p).r = r
       /\ \/ proc'[p] = Idle /\ proc[p].at \in {"rotate.keys", "put", "put.row"} /\ deaths' # deaths
          \/ \E q \in Proc \ {p} : Writing(q, r)}
  /\ met' = {m \in met : \A r \in m : rows'[r] = rows[r] /\ edges'[r] = edges[r]}
             \cup {{Cmd(p).r, Cmd(p).s} : p \in {q \in Proc :
                     /\ At(q, "sync.pull") /\ proc'[q] # proc[q] /\ deaths' = deaths
                     /\ Mem(q).sent = Index(Cmd(q).r) /\ Mem(q).got = Index(Cmd(q).s)}}

Next == (Commanded \/ Stepped \/ (Tick /\ UNCHANGED <<graphVars, history>>)) /\ Watch

Spec == Init /\ [][Next]_vars
-----------------------------------------------------------------------------
TypeOK ==
  /\ now \in 1 .. MaxNow /\ deaths \in 0 .. MaxDeaths
  /\ \A r \in Replica :
       /\ tierKeys[r] \in [Tier -> Nat]
       /\ pending[r] \subseteq DOMAIN rows[r]
       /\ \A n \in DOMAIN rows[r] : n \in Node /\ RowOK(rows[r][n], now)
       /\ \A e \in DOMAIN edges[r] : {e[1], e[2]} \subseteq UNION {DOMAIN rows[s] : s \in Replica}

(* What a command of a replica stored there, the replica can open: no row  *)
(* points at content of its own under a key that was rotated away,         *)
(* whatever commands ran before and after, unless a rotation met another   *)
(* writer or died.  While the rotation runs its rows wait for the new      *)
(* keys; and rows that an exchange brought may be anybody's, or may bring  *)
(* back content that the replica itself had sealed under older keys.       *)
SealedOpens ==
  \A r \in Replica \ shaken : (\A p \in Proc : ~Rotating(p, r)) =>
    \A n \in DOMAIN rows[r] : rows[r][n].local => Opens(r, rows[r][n])

(* Only people make a node active: what an agent proposed or inference     *)
(* suggested waits for its acceptance, and what a person rejected stays    *)
(* out, through rotations and imports, until a person decides again.  Only *)
(* a rotation that met another writer brings back the state it had read.   *)
PeopleDecide ==
  shaken = {} => \A r \in Replica : \A n \in DOMAIN rows[r] :
    rows[r][n].state = "active" => rows[r][n].decided = "active"

(* Replicas that have exchanged their indexes have the same edges and the  *)
(* same nodes in the same states, unless two writes of a node bear one     *)
(* timestamp or a write bears an older one than the row it replaced: so    *)
(* does every write of a rotation, and a command that was slow to write.   *)
(* Where there is no third replica, the edges have both of their ends.     *)
ExchangedAgree ==
  \A m \in met : \A r, s \in m :
    /\ DOMAIN rows[r] = DOMAIN rows[s] /\ DOMAIN edges[r] = DOMAIN edges[s]
    /\ Replica = m => \A e \in DOMAIN edges[r] : {e[1], e[2]} \subseteq DOMAIN rows[r]
    /\ \A n \in DOMAIN rows[r] \ ambiguous : Bare(rows[r][n]) = Bare(rows[s][n])

(* What every state of the graph keeps besides: the types, edges between   *)
(* nodes some replica has, and rows that open.                             *)
GraphInv == TypeOK /\ SealedOpens
=============================================================================
