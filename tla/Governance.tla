----------------------------- MODULE Governance -----------------------------
(***************************************************************************)
(* The governance of a repository: `gpp promote` records the cost and the  *)
(* anomalies of a changeset, opens its review and notifies the reviewers;  *)
(* reviews are decided and merged through the gate of roles and            *)
(* protections; events are dispatched; agents are scored.  The tables lie  *)
(* in seven databases, and nothing holds the commands apart.               *)
(***************************************************************************)
EXTENDS Review, Notify, Trust, Ledger

CONSTANTS
  OwnersOf,   \* the people the knowledge graph names for a changeset, in order
  Scenarios   \* the states of the tables, and the commands to come, to start from

Changeset == DOMAIN OwnersOf

(* A command that users or programs may give.                              *)
CommandOK(c) ==
  /\ c.op # None
  /\ c.op \in {"assign", "revoke"} => c.who \in Person
  /\ c.op = "assign" => c.role \in Role /\ c.expires \in Nat
  /\ c.op = "protect" => c.rule.role \in Role
  /\ c.op \in {"decide", "merge"} => c.by \in Person
  /\ c.op = "decide" => c.decision \in Decision
  /\ c.op \in {"request", "decide", "merge", "promote", "report"} => c.cs \in Changeset
  /\ c.op \in {"event", "override", "reset"} => c.agent \in Agent
  /\ c.op = "event" => c.type \in STRING \ {"reset"}
  /\ c.op = "report" => c.cost \in Nat
  /\ c.op = "budget" => c.limit \in Nat /\ c.percent \in Nat

(* Tables as commands that all ran alone leave them.                       *)
TablesOK(s) ==
  /\ s.reviews \in Seq([cs : Changeset, status : Status])
  /\ \A w \in DOMAIN s.roles : w \in Person /\ s.roles[w].role \in Role /\ s.roles[w].expires \in Nat
  /\ Numbered(s.protections) /\ \A k \in DOMAIN s.protections : s.protections[k].role \in Role
  /\ s.roleHistory \in Seq(RoleChange)
  /\ \A w \in Person : Tells(s.roleHistory, w, IF w \in DOMAIN s.roles THEN s.roles[w].role ELSE None)
  /\ \A r \in DOMAIN s.reviews :
       s.reviews[r].status # "merged" => Fits(s.reviews[r].status, Voices(s.decisions, r))
  /\ \A r, q \in DOMAIN s.reviews : s.reviews[r].cs = s.reviews[q].cs => r = q
  /\ s.events \in Seq([type : EventTypes \ {"changeset.promoted"}, target : Changeset, dispatched : BOOLEAN])
  /\ \A a \in DOMAIN s.scores : a \in Agent /\ s.scores[a] = NewRow
  /\ Numbered(s.integrations)
  /\ \A i, k \in DOMAIN s.integrations : s.integrations[i].backend = s.integrations[k].backend => i = k
  /\ s.rules = DefaultRules
  /\ \A b \in DOMAIN s.budgets : s.budgets[b].limit \in Nat /\ s.budgets[b].percent \in Nat
  /\ s.log \in Seq({s.log[i] : i \in DOMAIN s.log})
  /\ \A i \in DOMAIN s.log : s.log[i].at \in Nat /\ ~s.log[i].promoted
  /\ \A i, k \in DOMAIN s.log : s.log[i].cs = s.log[k].cs => i = k
  /\ \A k \in DOMAIN s.decisions : /\ k[1] \in DOMAIN s.reviews /\ k[2] \in Person
                                   /\ s.decisions[k].decision \in Decision

(* A promotion makes a changeset of its own: the id is a hash over parents, *)
(* content, author and time.                                               *)
Promotes(c) == c.op \in {"promote", "propose"}
OwnIds(s) ==
  \A c \in s.todo : Promotes(c) =>
    /\ \A i \in DOMAIN s.log : s.log[i].cs # c.cs
    /\ \A d \in s.todo : Promotes(d) /\ d.cs = c.cs => d = c

ASSUME ScenariosAssumption ==
  \A s \in Scenarios : TablesOK(s) /\ OwnIds(s) /\ \A c \in s.todo : CommandOK(c)
ASSUME OwnersAssumption ==
  \A cs \in DOMAIN OwnersOf : OwnersOf[cs] \in Seq(Person) /\ \A i, k \in DOMAIN OwnersOf[cs] :
                               OwnersOf[cs][i] = OwnersOf[cs][k] => i = k

VARIABLE calm  \* history: calm[p], no one has disturbed the merge p is running

vars == <<cmdVars, rbacVars, reviewVars, notifyVars, trustVars, ledgerVars, calm>>

Init ==
  /\ \E s \in Scenarios :
       /\ todo = s.todo
       /\ roles = s.roles /\ protections = s.protections
       /\ reviews = s.reviews /\ decisions = s.decisions /\ head = s.head
       /\ events = s.events /\ integrations = s.integrations
       /\ scores = s.scores /\ rules = s.rules /\ budgets = s.budgets
       /\ log = s.log /\ roleHistory = s.roleHistory
  /\ now = 1 /\ deaths = 0 /\ tainted = {}
  /\ proc = [p \in Proc |-> Idle]
  /\ comments = {} /\ inbox = <<>> /\ deliveryLog = {} /\ arrived = EmptyBag
  /\ agentEvents = <<>> /\ moduleOverrides = <<>>
  /\ costs = <<>> /\ anomalies = <<>> /\ reports = <<>> /\ tuned = {}
  /\ calm = [p \in Proc |-> TRUE]
-----------------------------------------------------------------------------
(* Mutant of Promote: the event is emitted before the review is opened.    *)
Promote_Early(p, c) ==
  /\ c.op = "promote"
  /\ log' = Append(log, [cs |-> c.cs, by |-> c.by, at |-> now, promoted |-> TRUE, tree |-> c.tree])
  /\ Begin(p, c, "cost", CostRow(c.cs), None, <<"detect", "suggest", "emit", "request">>)
  /\ UNCHANGED <<costs, budgets, rules, anomalies, reports, tuned>>

(* gpp promote: the changeset is in the history, then what is recorded of  *)
(* it, one database after another.  Its author is the configured person,   *)
(* so no agent is ever scored for it.                                      *)
Promote(p, c) ==
  /\ c.op = "promote"
  /\ log' = Append(log, [cs |-> c.cs, by |-> c.by, at |-> now, promoted |-> TRUE, tree |-> c.tree])
  /\ Begin(p, c, "cost", CostRow(c.cs), None, <<"detect", "suggest", "request", "emit">>)
  /\ UNCHANGED <<costs, budgets, rules, anomalies, reports, tuned>>

(* propose_changeset of the SDK: a promotion no one records.               *)
Propose(p, c) ==
  /\ c.op = "propose"
  /\ Only(p, c)
  /\ log' = Append(log, [cs |-> c.cs, by |-> c.by, at |-> now, promoted |-> FALSE, tree |-> c.tree])
  /\ UNCHANGED <<costs, budgets, rules, anomalies, reports, tuned>>

(* suggest_reviewers; a role that expired still counts.                    *)
Maintainers == {m \in List : Rank[roles[m[2]].role] >= Rank["maintainer"]}

(* suggest_reviewers_with_owners: the owners first, then the maintainers   *)
(* who are not among them.                                                 *)
Owners(cs) == {OwnersOf[cs][i] : i \in DOMAIN OwnersOf[cs]}
Reviewers(cs) ==
  {<<i, OwnersOf[cs][i]>> : i \in DOMAIN OwnersOf[cs]}
    \cup {<<Len(OwnersOf[cs]) + m[1], m[2]>> : m \in {o \in Maintainers : o[2] \notin Owners(cs)}}

Suggest(p) ==
  /\ At(p, "suggest")
  /\ Continue(p, [Return(p) EXCEPT !.to = Reviewers(Cmd(p).cs)])
-----------------------------------------------------------------------------
Rbac == /\ \E p \in Proc : RbacStep(p) \/ \E c \in todo : RbacBegin(p, c)
        /\ UNCHANGED <<reviewVars, notifyVars, trustVars, ledgerVars>>

Reviewing == /\ \E p \in Proc : \/ ReviewStep(p) \/ RequestFor(p, Cmd(p).cs)
                                \/ \E c \in todo : ReviewBegin(p, c)
             /\ UNCHANGED <<rbacVars, notifyVars, trustVars, ledgerVars>>

Notifying == /\ \E p \in Proc : NotifyStep(p) \/ \E c \in todo : NotifyBegin(p, c)
             /\ UNCHANGED <<rbacVars, reviewVars, trustVars, ledgerVars>>

Scoring == /\ \E p \in Proc : TrustStep(p) \/ \E c \in todo : TrustBegin(p, c)
           /\ UNCHANGED <<rbacVars, reviewVars, notifyVars, ledgerVars>>

Recording == /\ \E p \in Proc : LedgerStep(p) \/ \E c \in todo : LedgerBegin(p, c) \/ Promote(p, c) \/ Propose(p, c)
             /\ UNCHANGED <<rbacVars, reviewVars, notifyVars, trustVars>>

Between == /\ Tick \/ \E p \in Proc : Suggest(p) \/ Die(p)
           /\ UNCHANGED <<rbacVars, reviewVars, notifyVars, trustVars, ledgerVars>>

(* What the gate reads, and whether anything of it changes under a merge.  *)
GateVars == <<roles, protections, reviews, decisions, head, now>>
Merging(p) == Cmd(p).op = "merge"
Watch == calm' = [p \in Proc |-> ~Merging(p)' \/ ~Merging(p) \/ (calm[p] /\ UNCHANGED GateVars)]

Next == (Rbac \/ Reviewing \/ Notifying \/ Scoring \/ Recording \/ Between) /\ Watch

Spec == Init /\ [][Next]_vars
-----------------------------------------------------------------------------
TypeOK ==
  /\ now \in 1 .. MaxNow /\ deaths \in 0 .. MaxDeaths /\ calm \in [Proc -> BOOLEAN]
  /\ \A w \in DOMAIN roles : w \in Person /\ roles[w].role \in Role
  /\ \A r \in DOMAIN reviews : reviews[r].status \in Status
  /\ \A k \in DOMAIN decisions : k[1] \in DOMAIN reviews /\ k[2] \in Person
  /\ \A n \in DOMAIN inbox : inbox[n].event \in DOMAIN events /\ inbox[n].to \in Person
  /\ \A d \in deliveryLog : d.event \in DOMAIN events /\ d.status \in {"sent", "failed"}
  /\ \A a \in DOMAIN scores : a \in Agent /\ scores[a].status \in TrustStatus
  /\ \A cs \in DOMAIN costs : InLog(cs) /\ costs[cs].used \in Nat
  /\ \A n \in DOMAIN anomalies : anomalies[n].rule \in DOMAIN rules

(* The gate, asked about one state of the tables.                          *)
GateOpen(r, by) ==
  /\ reviews[r].status = "approved"
  /\ \A rule \in ProtectionFor(head) :
       /\ rule.role # "reader" => /\ by \in DOMAIN roles /\ Rank[roles[by].role] >= Rank[rule.role]
                                  /\ roles[by].expires # Never => now < roles[by].expires
       /\ Approvals(r) >= rule.min
       /\ rule.human => HumanApproval(r)

(* A review is merged only by a command whose approval, protection and     *)
(* role checks all held of one state: those `gpp review merge` reads one   *)
(* after another, unless a decision, a role, a protection, a switch or the *)
(* clock came between.  What comes between may never merge a review that   *)
(* was not approved when the command looked last; and merged is the last   *)
(* status ("pending -> approved / changes_requested / rejected -> merged"),*)
(* which only a decision that ran during the merge undoes.                 *)
MergeJustified ==
  [][\A r \in DOMAIN reviews :
       /\ reviews[r].status # "merged" /\ reviews'[r].status = "merged" =>
            \E p \in Proc : /\ At(p, "merge.write") /\ Mem(p).review = r
                            /\ calm[p] => GateOpen(r, Cmd(p).by)
                            /\ ReviewRow(r) \notin tainted => reviews[r].status = "approved"
       /\ reviews[r].status = "merged" /\ ReviewRow(r) \notin tainted' => reviews'[r].status = "merged"]_vars

(* An event says that a changeset was promoted only when everything `gpp   *)
(* promote` records of it is there: a cost row, a review, an anomaly for a *)
(* size over a rule nobody configured; and the owners and maintainers have *)
(* it in their inboxes once the command is over.                           *)
PromotionRecorded ==
  \A e \in DOMAIN events : events[e].type = "changeset.promoted" =>
    LET cs == events[e].target
    IN  /\ InLog(cs) /\ cs \in DOMAIN costs /\ ByChangeset(cs) # 0
        /\ costs[cs].lines > rules["large-changeset"].threshold /\ "large-changeset" \notin tuned
           => \E n \in DOMAIN anomalies : anomalies[n].rule = "large-changeset" /\ anomalies[n].cs = cs
        /\ (deaths = 0 /\ \A p \in Proc : ~(At(p, "emit.notify") /\ Mem(p) = e)) =>
             \A i \in DOMAIN OwnersOf[cs] :
               \E n \in DOMAIN inbox : inbox[n].event = e /\ inbox[n].to = OwnersOf[cs][i]

(* What the tables say of each other in every state: the types, the keys   *)
(* between tables, one review a changeset, and the history of roles.       *)
TablesAgree == TypeOK /\ OneReview /\ HistoryTellsRoles
=============================================================================
