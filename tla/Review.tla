------------------------------- MODULE Review -------------------------------
(***************************************************************************)
(* Reviews (gpp-review) and the merge gate of `gpp review merge`: requests *)
(* and decisions one SQL statement at a time, and what the gate reads      *)
(* before a review is marked merged.                                       *)
(***************************************************************************)
EXTENDS Rbac

VARIABLES
  reviews,    \* the table reviews: [cs, status], a review's number is its row
  decisions,  \* a function from <<review, reviewer>> to [decision, human]
  comments,   \* the table review_comments: [review, by]
  head        \* the branch HEAD names

reviewVars == <<reviews, decisions, comments, head>>

Status   == {"pending", "approved", "changes_requested", "rejected", "merged"}
Decision == {"approve", "request_changes", "reject"}

ReviewRow(r)   == <<"review", r>>
RequestRow(cs) == <<"request", cs>>

(* by_changeset: the first review of a changeset, 0 for none.              *)
ByChangeset(cs) ==
  LET rs == {r \in DOMAIN reviews : reviews[r].cs = cs} IN IF rs = {} THEN 0 ELSE Min(rs)

Voices(table, r) == {table[k].decision : k \in {d \in DOMAIN table : d[1] = r}}
Said(r) == Voices(decisions, r)

(* Mutant of Recompute: one approval outweighs what others object.          *)
Recompute_Approved(r) ==
  CASE "approve" \in Said(r)         -> "approved"
    [] "reject" \in Said(r)          -> "rejected"
    [] "request_changes" \in Said(r) -> "changes_requested"
    [] OTHER                         -> "pending"

Recompute(r) ==
  CASE "reject" \in Said(r)          -> "rejected"
    [] "reject" \notin Said(r) /\ "request_changes" \in Said(r) -> "changes_requested"
    [] Said(r) = {"approve"}         -> "approved"
    [] Said(r) = {}                  -> "pending"

Approvals(r) == Cardinality({k \in DOMAIN decisions : k[1] = r /\ decisions[k].decision = "approve"})
HumanApproval(r) ==
  \E k \in DOMAIN decisions : k[1] = r /\ decisions[k] = [decision |-> "approve", human |-> TRUE]
-----------------------------------------------------------------------------
(* Mutant of Request: a review is inserted without a look at the table.    *)
Request_Unseen(p, c) ==
  /\ c.op = "request"
  /\ Begin(p, c, "request.insert", RequestRow(c.cs), None, <<>>)
  /\ UNCHANGED reviewVars

(* request: a review of the changeset is returned, or one is inserted.     *)
Request(p, c) ==
  /\ c.op = "request"
  /\ IF ByChangeset(c.cs) # 0 THEN Only(p, c)
     ELSE Begin(p, c, "request.insert", RequestRow(c.cs), None, <<>>)
  /\ UNCHANGED reviewVars

(* The same, as a part of another command.                                 *)
RequestFor(p, cs) ==
  /\ At(p, "request")
  /\ IF ByChangeset(cs) # 0 THEN Continue(p, Return(p))
     ELSE Continue(p, [Goto(p, "request.insert", None) EXCEPT !.on = RequestRow(cs)])
  /\ UNCHANGED reviewVars

RequestInsert(p) ==
  /\ At(p, "request.insert")
  /\ reviews' = Append(reviews, [cs |-> Cmd(p).cs, status |-> "pending"])
  /\ Continue(p, Return(p))
  /\ UNCHANGED <<decisions, comments, head>>

(* decide: the review is read, the decision stored, the status computed    *)
(* anew from all decisions, and written.                                   *)
Decide(p, c) ==
  LET r == ByChangeset(c.cs)
  IN  /\ c.op = "decide"
      /\ IF r = 0 \/ (r # 0 /\ reviews[r].status = "merged") THEN Only(p, c)
         ELSE Begin(p, c, "decide.put", ReviewRow(r), r, <<"emit">>)
      /\ UNCHANGED reviewVars

DecidePut(p) ==
  /\ At(p, "decide.put")
  /\ decisions' = Replaced(decisions, <<Mem(p), Cmd(p).by>>, [decision |-> Cmd(p).decision, human |-> Cmd(p).human])
  /\ Continue(p, Goto(p, "decide.fold", Mem(p)))
  /\ UNCHANGED <<reviews, comments, head>>

DecideFold(p) ==
  /\ At(p, "decide.fold")
  /\ Continue(p, Goto(p, "decide.write", [review |-> Mem(p), status |-> Recompute(Mem(p))]))
  /\ UNCHANGED reviewVars

DecideWrite(p) ==
  /\ At(p, "decide.write")
  /\ reviews' = [reviews EXCEPT ![Mem(p).review].status = Mem(p).status]
  /\ Continue(p, Return(p))
  /\ UNCHANGED <<decisions, comments, head>>

Comment(p, c) ==
  LET r == ByChangeset(c.cs)
  IN  /\ c.op = "comment"
      /\ Only(p, c)
      /\ comments' = IF r = 0 THEN comments ELSE comments \cup {[review |-> r, by |-> c.by]}
      /\ UNCHANGED <<reviews, decisions, head>>
-----------------------------------------------------------------------------
(* gpp review merge.  What the gate wants to know is read one table after  *)
(* another: the status, both counts of approvals, HEAD, the protection and *)
(* the role; then ReviewStore::merge reads the status again and writes.    *)
Merge(p, c) ==
  LET r == ByChangeset(c.cs)
  IN  /\ c.op = "merge"
      /\ IF r = 0 THEN Only(p, c)
         ELSE IF reviews[r].status # "approved" THEN Only(p, c)
         ELSE Begin(p, c, "merge.count", NoRow, [review |-> r], <<>>)
      /\ UNCHANGED reviewVars

MergeCount(p) ==
  /\ At(p, "merge.count")
  /\ Continue(p, Goto(p, "merge.human", [review |-> Mem(p).review, approvals |-> Approvals(Mem(p).review)]))
  /\ UNCHANGED reviewVars

MergeHuman(p) ==
  /\ At(p, "merge.human")
  /\ Continue(p, Goto(p, "merge.branch", [review |-> Mem(p).review, approvals |-> Mem(p).approvals,
                                           human |-> HumanApproval(Mem(p).review)]))
  /\ UNCHANGED reviewVars

MergeBranch(p) ==
  /\ At(p, "merge.branch")
  /\ Continue(p, Goto(p, "merge.rule", [review |-> Mem(p).review, approvals |-> Mem(p).approvals,
                                         human |-> Mem(p).human, branch |-> head]))
  /\ UNCHANGED reviewVars

(* can_merge: a branch without a rule is free.  The caller is no agent and *)
(* always says that the policies passed.                                   *)
MergeRule(p) ==
  LET rules == ProtectionFor(Mem(p).branch)
  IN  /\ At(p, "merge.rule")
      /\ IF rules = {} THEN Continue(p, Goto(p, "merge.recheck", [review |-> Mem(p).review]))
         ELSE Continue(p, Goto(p, "merge.role", [review |-> Mem(p).review, approvals |-> Mem(p).approvals,
                                                 human |-> Mem(p).human, rule |-> CHOOSE r \in rules : TRUE]))
      /\ UNCHANGED reviewVars

(* Mutant of Allowed: enough approvals make up for a missing human one.     *)
Allowed_AnyApproval(rule, role, approvals, human) ==
  /\ Rank[role] >= Rank[rule.role]
  /\ approvals >= rule.min

Allowed(rule, role, approvals, human) ==
  /\ Rank[role] >= Rank[rule.role]
  /\ approvals >= rule.min
  /\ rule.human => human

MergeRole(p) ==
  /\ At(p, "merge.role")
  /\ IF Allowed(Mem(p).rule, RoleOf(Cmd(p).by), Mem(p).approvals, Mem(p).human)
     THEN Continue(p, Goto(p, "merge.recheck", [review |-> Mem(p).review]))
     ELSE Continue(p, Idle)
  /\ UNCHANGED reviewVars

MergeRecheck(p) ==
  /\ At(p, "merge.recheck")
  /\ IF reviews[Mem(p).review].status = "approved"
     THEN Continue(p, [Goto(p, "merge.write", Mem(p)) EXCEPT !.on = ReviewRow(Mem(p).review)])
     ELSE Continue(p, Idle)
  /\ UNCHANGED reviewVars

MergeWrite(p) ==
  /\ At(p, "merge.write")
  /\ reviews' = [reviews EXCEPT ![Mem(p).review].status = "merged"]
  /\ Continue(p, Return(p))
  /\ UNCHANGED <<decisions, comments, head>>

SwitchBranch(p, c) ==
  /\ c.op = "switch"
  /\ Only(p, c)
  /\ head' = c.branch
  /\ UNCHANGED <<reviews, decisions, comments>>
-----------------------------------------------------------------------------
ReviewBegin(p, c) ==
  Request(p, c) \/ Decide(p, c) \/ Comment(p, c) \/ Merge(p, c) \/ SwitchBranch(p, c)

ReviewStep(p) ==
  \/ RequestInsert(p)
  \/ DecidePut(p) \/ DecideFold(p) \/ DecideWrite(p)
  \/ MergeCount(p) \/ MergeHuman(p) \/ MergeBranch(p) \/ MergeRule(p) \/ MergeRole(p)
  \/ MergeRecheck(p) \/ MergeWrite(p)
-----------------------------------------------------------------------------
(* A status and the decisions it stands for.                               *)
Fits(status, said) ==
  /\ status = "rejected" <=> "reject" \in said
  /\ status = "approved" <=> said = {"approve"}
  /\ status = "pending" <=> said = {}

(* The status of a review is what its decisions say: any rejection rejects *)
(* it, no decision is forgotten.  Two deciders at once, a decision during  *)
(* a merge, or a death between the statements can break this.              *)
StatusIsFold ==
  \A r \in DOMAIN reviews :
    (ReviewRow(r) \notin tainted /\ ~Updating(ReviewRow(r)) /\ reviews[r].status # "merged")
    => Fits(reviews[r].status, Said(r))

(* A changeset has one review ("idempotent: returns the existing one"),    *)
(* unless two requests looked before either inserted.                      *)
OneReview ==
  \A r, s \in DOMAIN reviews :
    reviews[r].cs = reviews[s].cs /\ r # s => RequestRow(reviews[r].cs) \in tainted
=============================================================================
