-------------------------------- MODULE Rbac --------------------------------
(***************************************************************************)
(* Roles and branch protections (gpp-rbac): the tables of rbac.db, the     *)
(* statements of assign, revoke and protect, and the questions the merge   *)
(* gate and the reviewer suggestion ask.                                   *)
(***************************************************************************)
EXTENDS Commands

CONSTANTS
  Person,      \* identities of people
  Matches      \* <<pattern, branch>>: the glob matches the branch

VARIABLES
  roles,        \* a function from identities to [role, expires]
  roleHistory,  \* the table role_history, in order
  protections   \* the table branch_protections, a function from row ids

rbacVars == <<roles, roleHistory, protections>>

Rank    == [reader |-> 0, contributor |-> 1, maintainer |-> 2, owner |-> 3]
Role    == DOMAIN Rank
Revoked == "(revoked)"
Never   == 0

RoleChange == [who : Person, old : Role \cup {None}, new : Role \cup {Revoked}]

RoleRow(who) == <<"role", who>>
Assigned(who) == IF who \in DOMAIN roles THEN roles[who].role ELSE None
-----------------------------------------------------------------------------
(* role_of: no role, or one whose time is over, is a reader's.            *)
RoleOf(who) ==
  IF who \in DOMAIN roles /\ (roles[who].expires = Never \/ roles[who].expires > now)
  THEN roles[who].role ELSE "reader"

(* list: what is stored, expired or not, in the order of the role's text.  *)
Position == [reader |-> 1, owner |-> 2, maintainer |-> 3, contributor |-> 4]
List == {<<Position[roles[w].role], w>> : w \in DOMAIN roles}

(* protection_for: the first row whose glob matches; {} for none.          *)
ProtectionFor(branch) ==
  LET hits == {k \in DOMAIN protections : <<protections[k].pattern, branch>> \in Matches}
  IN  IF hits = {} THEN {} ELSE {protections[Min(hits)]}
-----------------------------------------------------------------------------
AssignRead(p, c) ==
  /\ c.op = "assign"
  /\ Begin(p, c, "assign.write", RoleRow(c.who), Assigned(c.who), <<>>)
  /\ UNCHANGED rbacVars

AssignWrite(p) ==
  /\ At(p, "assign.write")
  /\ roles' = Replaced(roles, Cmd(p).who, [role |-> Cmd(p).role, expires |-> Cmd(p).expires])
  /\ Continue(p, Goto(p, "assign.log", Mem(p)))
  /\ UNCHANGED <<roleHistory, protections>>

AssignLog(p) ==
  /\ At(p, "assign.log")
  /\ roleHistory' = Append(roleHistory, [who |-> Cmd(p).who, old |-> Mem(p), new |-> Cmd(p).role])
  /\ Continue(p, Return(p))
  /\ UNCHANGED <<roles, protections>>

RevokeRead(p, c) ==
  /\ c.op = "revoke"
  /\ IF Assigned(c.who) = None THEN Only(p, c)
     ELSE Begin(p, c, "revoke.delete", RoleRow(c.who), Assigned(c.who), <<>>)
  /\ UNCHANGED rbacVars

RevokeDelete(p) ==
  /\ At(p, "revoke.delete")
  /\ roles' = [w \in DOMAIN roles \ {Cmd(p).who} |-> roles[w]]
  /\ Continue(p, Goto(p, "revoke.log", Mem(p)))
  /\ UNCHANGED <<roleHistory, protections>>

RevokeLog(p) ==
  /\ At(p, "revoke.log")
  /\ roleHistory' = Append(roleHistory, [who |-> Cmd(p).who, old |-> Mem(p), new |-> Revoked])
  /\ Continue(p, Return(p))
  /\ UNCHANGED <<roles, protections>>

(* protect: INSERT OR REPLACE gives the pattern a new row, the last one.   *)
Protect(p, c) ==
  LET others == {k \in DOMAIN protections : protections[k].pattern # c.rule.pattern}
  IN  /\ c.op = "protect"
      /\ Only(p, c)
      /\ protections' = Replaced([k \in others |-> protections[k]], NextId(protections), c.rule)
      /\ UNCHANGED <<roles, roleHistory>>

RbacBegin(p, c) == AssignRead(p, c) \/ RevokeRead(p, c) \/ Protect(p, c)
RbacStep(p) == AssignWrite(p) \/ AssignLog(p) \/ RevokeDelete(p) \/ RevokeLog(p)
-----------------------------------------------------------------------------
(* What the first n rows of a history say of an identity: the role the     *)
(* last of its rows left it, or none.                                      *)
After(new) == IF new = Revoked THEN None ELSE new
Leaves(history, n, who, role) ==
  \/ role = None /\ \A i \in 1..n : history[i].who # who
  \/ \E i \in 1..n : /\ history[i].who = who /\ role = After(history[i].new)
                     /\ \A k \in i + 1 .. n : history[k].who # who

(* Each row starts from the role the row before left, and the last one     *)
(* names the role the table holds.                                         *)
Tells(history, who, role) ==
  /\ \A n \in DOMAIN history : history[n].who = who => Leaves(history, n - 1, who, history[n].old)
  /\ Leaves(history, Len(history), who, role)

(* The role history explains the roles ("every role change is logged"):    *)
(* its rows form a chain that ends in the role an identity has, unless two *)
(* commands changed that role at once or one died changing it.             *)
HistoryTellsRoles ==
  \A who \in Person : RoleRow(who) \notin tainted /\ ~Updating(RoleRow(who)) =>
    Tells(roleHistory, who, Assigned(who))
=============================================================================
