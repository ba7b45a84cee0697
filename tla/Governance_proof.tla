-------------------------- MODULE Governance_proof --------------------------
(***************************************************************************)
(* Proofs about the governance of a repository, for any processes, people, *)
(* agents, changesets, tables to start from and commands to come.  Each    *)
(* database has a part of the invariant of its own: what its rows, the     *)
(* commands that have one in hand and the history of the command line say  *)
(* of each other.  A row is spoken for while one command has it in hand;   *)
(* once two had it, or one died with it, it is tainted.                    *)
(***************************************************************************)
EXTENDS Governance, FiniteSetTheorems, WellFoundedInduction, TLAPS

-----------------------------------------------------------------------------
(* The arithmetic of trust scores, for any counts.                         *)

(* A limit an agent reaches, it reaches as well with more changesets that  *)
(* survived and fewer regressions.                                         *)
LEMMA AtLeastMonotone ==
  ASSUME NEW s \in Nat, NEW t \in Nat, NEW q \in Nat, NEW r \in Nat, s <= t, q <= r
  PROVE  /\ AtLeast(90, s, r) => AtLeast(90, t, q)
         /\ AtLeast(70, s, r) => AtLeast(70, t, q)
         /\ AtLeast(50, s, r) => AtLeast(50, t, q) BY DEF AtLeast, ScoreNum, ScoreDen

(* The limits are nested: who reaches one reaches those below it.          *)
LEMMA AtLeastNested ==
  ASSUME NEW s \in Nat, NEW r \in Nat
  PROVE  /\ AtLeast(90, s, r) => AtLeast(70, s, r)
         /\ AtLeast(70, s, r) => AtLeast(50, s, r) BY DEF AtLeast, ScoreNum, ScoreDen

LEMMA StandingByLimits ==
  ASSUME NEW s \in Nat, NEW r \in Nat
  PROVE  /\ StatusFor(s, r) \in TrustStatus
         /\ Standing(StatusFor(s, r)) \in 0 .. 3
         /\ Standing(StatusFor(s, r)) >= 3 <=> AtLeast(90, s, r)
         /\ Standing(StatusFor(s, r)) >= 2 <=> AtLeast(70, s, r)
         /\ Standing(StatusFor(s, r)) >= 1 <=> AtLeast(50, s, r)
<1>1. CASE AtLeast(90, s, r) BY <1>1, AtLeastNested DEF StatusFor, Standing, TrustStatus
<1>2. CASE ~AtLeast(90, s, r) /\ AtLeast(70, s, r) BY <1>2, AtLeastNested DEF StatusFor, Standing, TrustStatus
<1>3. CASE ~AtLeast(90, s, r) /\ ~AtLeast(70, s, r) /\ AtLeast(50, s, r)
  BY <1>3 DEF StatusFor, Standing, TrustStatus
<1>4. CASE ~AtLeast(90, s, r) /\ ~AtLeast(70, s, r) /\ ~AtLeast(50, s, r)
  BY <1>4 DEF StatusFor, Standing, TrustStatus
<1> QED BY <1>1, <1>2, <1>3, <1>4

(* The score lies above 0 and within 100 whatever the counts are, so the   *)
(* clamp in compute_score, which the model leaves out, changes nothing.    *)
THEOREM ScoreInRange ==
  ASSUME NEW s \in Nat, NEW r \in Nat
  PROVE  0 < ScoreNum(s, r) /\ ScoreNum(s, r) <= 100 * ScoreDen(s, r) /\ 0 < ScoreDen(s, r)
  BY DEF ScoreNum, ScoreDen

(* An agent whose changesets survived more often and regressed less never  *)
(* stands lower: no merged changeset costs an agent a status, and no       *)
(* regression earns one (compute_score and status_for together).           *)
THEOREM StandingMonotone ==
  ASSUME NEW s \in Nat, NEW t \in Nat, NEW q \in Nat, NEW r \in Nat, s <= t, q <= r
  PROVE  Standing(StatusFor(s, r)) <= Standing(StatusFor(t, q))
<1>1. /\ Standing(StatusFor(s, r)) \in 0 .. 3
      /\ Standing(StatusFor(t, q)) \in 0 .. 3 BY StandingByLimits
<1>2. \A k \in 1 .. 3 : Standing(StatusFor(s, r)) >= k => Standing(StatusFor(t, q)) >= k
  <2>1. Standing(StatusFor(s, r)) >= 1 => Standing(StatusFor(t, q)) >= 1 BY StandingByLimits, AtLeastMonotone
  <2>2. Standing(StatusFor(s, r)) >= 2 => Standing(StatusFor(t, q)) >= 2 BY StandingByLimits, AtLeastMonotone
  <2>3. Standing(StatusFor(s, r)) >= 3 => Standing(StatusFor(t, q)) >= 3 BY StandingByLimits, AtLeastMonotone
  <2> QED BY <2>1, <2>2, <2>3
<1> QED BY <1>1, <1>2

(* The comment at compute_score: regressions count for one and a half.     *)
(* An agent is blocked exactly when its regressions, counted so, outnumber *)
(* its changesets that survived; a new agent is not.                       *)
THEOREM BlockedExactly ==
  ASSUME NEW s \in Nat, NEW r \in Nat
  PROVE  StatusFor(s, r) = "blocked" <=> 3 * r > 2 * s
<1>1. AtLeast(50, s, r) <=> ~(3 * r > 2 * s) BY DEF AtLeast, ScoreNum, ScoreDen
<1> QED BY <1>1, AtLeastNested DEF StatusFor

-----------------------------------------------------------------------------

(* The statements a command may stand before, the parts that follow each,  *)
(* and the row it has in hand there.                                       *)
LabelsOf(op) ==
  CASE op = "assign"    -> {"assign.write", "assign.log"}
    [] op = "revoke"    -> {"revoke.delete", "revoke.log"}
    [] op = "request"   -> {"request.insert"}
    [] op = "decide"    -> {"decide.put", "decide.fold", "decide.write", "emit"}
    [] op = "merge"     -> {"merge.count", "merge.human", "merge.branch", "merge.rule",
                            "merge.role", "merge.recheck", "merge.write"}
    [] op = "dispatch"  -> {"dispatch.integrations", "dispatch.send", "dispatch.log", "dispatch.mark"}
    [] op = "event"     -> {"event.store", "event.bump", "event.read", "event.write"}
    [] op = "override"  -> {"manual.store"}
    [] op = "reset"     -> {"manual.store"}
    [] op = "configure" -> {"configure.switch"}
    [] op = "promote"   -> {"cost", "detect", "detect.rule", "detect.raise", "suggest",
                            "request", "request.insert", "emit", "emit.notify"}
    [] OTHER            -> {}

RestOf(op, at) ==
  CASE at = "cost" -> <<"detect", "suggest", "request", "emit">>
    [] at \in {"detect", "detect.rule", "detect.raise"} -> <<"suggest", "request", "emit">>
    [] at = "suggest" -> <<"request", "emit">>
    [] at = "request" \/ (at = "request.insert" /\ op = "promote") -> <<"emit">>
    [] at \in {"decide.put", "decide.fold", "decide.write"} -> <<"emit">>
    [] OTHER -> <<>>

RowAt(at, cmd, mem) ==
  CASE at \in {"assign.write", "assign.log", "revoke.delete", "revoke.log"} -> RoleRow(cmd.who)
    [] at = "request.insert" -> RequestRow(cmd.cs)
    [] at \in {"decide.put", "decide.fold"} -> ReviewRow(mem)
    [] at \in {"decide.write", "merge.write"} -> ReviewRow(mem.review)
    [] at \in {"dispatch.integrations", "dispatch.send", "dispatch.log", "dispatch.mark"} -> Outbox
    [] at \in {"event.store", "event.bump", "event.read", "event.write"} -> AgentRow(cmd.agent)
    [] at = "manual.store" /\ mem = "reset" -> AgentRow(cmd.agent)
    [] at = "cost" -> CostRow(cmd.cs)
    [] OTHER -> NoRow

ProcFields == {"at", "cmd", "rest", "on", "mem", "to"}

ProcOK(s) ==
  /\ DOMAIN s = ProcFields
  /\ s.at = "idle" => s = Idle
  /\ s.at # "idle" => CommandOK(s.cmd) /\ s.at \in LabelsOf(s.cmd.op)
  /\ s.rest = RestOf(s.cmd.op, s.at)
  /\ s.on = RowAt(s.at, s.cmd, s.mem)
  /\ s.to # {} => s.at \in {"request", "request.insert", "emit", "emit.notify"} /\ s.cmd.op = "promote"

ProcsOK == DOMAIN proc = Proc /\ \A p \in Proc : ProcOK(proc[p])

(* Two commands have the same row in hand only once the row is tainted.    *)
Excl == \A p, q \in Proc : p # q /\ proc[p].on # NoRow /\ proc[q].on = proc[p].on => proc[p].on \in tainted

TodoOK == \A c \in todo : CommandOK(c)

Base == ProcsOK /\ Excl /\ TodoOK

(* What a step of p does to the processes.                                 *)
Moves(p) ==
  /\ DOMAIN proc' = Proc
  /\ \A q \in Proc \ {p} : proc'[q] = proc[q]
  /\ ProcOK(proc'[p])
  /\ todo' \subseteq todo /\ tainted \subseteq tainted'
  /\ proc'[p].on # NoRow =>
       \A q \in Proc \ {p} : proc[q].on = proc'[p].on => proc'[p].on \in tainted'

(* ... among the statements of one component.                              *)
MovesIn(p, labels) == Moves(p) /\ proc[p].at \in labels /\ proc'[p].at \in labels

RbacLabels   == {"idle", "assign.write", "assign.log", "revoke.delete", "revoke.log"}
RequestLabels == {"idle", "request", "request.insert", "emit"}
DecideLabels == {"idle", "decide.put", "decide.fold", "decide.write", "emit"}
MergeLabels  == {"idle", "merge.count", "merge.human", "merge.branch", "merge.rule", "merge.role",
                 "merge.recheck", "merge.write"}
EmitLabels   == {"idle", "emit", "emit.notify"}
DispatchLabels == {"idle", "dispatch.integrations", "dispatch.send", "dispatch.log", "dispatch.mark"}
TrustLabels  == {"idle", "event.store", "event.bump", "event.read", "event.write", "manual.store"}
CostLabels   == {"idle", "cost", "detect", "configure.switch"}
DetectLabels == {"detect", "detect.rule", "detect.raise", "suggest"}

(* The steps by what they are about, with all they leave alone.            *)
RbacMove(p) ==
  /\ RbacStep(p) \/ \E c \in todo : RbacBegin(p, c)
  /\ UNCHANGED <<reviewVars, notifyVars, trustVars, ledgerVars>>
RequestMove(p) ==
  /\ RequestFor(p, Cmd(p).cs) \/ RequestInsert(p) \/ \E c \in todo : Request(p, c)
  /\ UNCHANGED <<rbacVars, notifyVars, trustVars, ledgerVars>>
DecideMove(p) ==
  /\ \/ DecidePut(p) \/ DecideFold(p) \/ DecideWrite(p)
     \/ \E c \in todo : Decide(p, c) \/ Comment(p, c)
  /\ UNCHANGED <<rbacVars, notifyVars, trustVars, ledgerVars>>
MergeMove(p) ==
  /\ \/ MergeCount(p) \/ MergeHuman(p) \/ MergeBranch(p) \/ MergeRule(p) \/ MergeRole(p)
     \/ MergeRecheck(p) \/ MergeWrite(p)
     \/ \E c \in todo : Merge(p, c) \/ SwitchBranch(p, c)
  /\ UNCHANGED <<rbacVars, notifyVars, trustVars, ledgerVars>>
EmitMove(p) ==
  /\ EmitEvent(p) \/ EmitNotify(p)
  /\ UNCHANGED <<rbacVars, reviewVars, trustVars, ledgerVars>>
DispatchMove(p) ==
  /\ \/ DispatchIntegrations(p) \/ DispatchSend(p) \/ DispatchLog(p) \/ DispatchMark(p)
     \/ \E c \in todo : NotifyBegin(p, c)
  /\ UNCHANGED <<rbacVars, reviewVars, trustVars, ledgerVars>>
TrustMove(p) ==
  /\ TrustStep(p) \/ \E c \in todo : TrustBegin(p, c)
  /\ UNCHANGED <<rbacVars, reviewVars, notifyVars, ledgerVars>>
CostMove(p) ==
  /\ CostRecord(p) \/ ConfigureSwitch(p) \/ \E c \in todo : LedgerBegin(p, c) \/ Promote(p, c) \/ Propose(p, c)
  /\ UNCHANGED <<rbacVars, reviewVars, notifyVars, trustVars>>
DetectMove(p) ==
  /\ DetectCount(p) \/ DetectRule(p) \/ DetectRaise(p)
  /\ UNCHANGED <<rbacVars, reviewVars, notifyVars, trustVars>>
SuggestMove(p) == Suggest(p) /\ UNCHANGED <<rbacVars, reviewVars, notifyVars, trustVars, ledgerVars>>
DieMove(p)     == Die(p) /\ UNCHANGED <<rbacVars, reviewVars, notifyVars, trustVars, ledgerVars>>
-----------------------------------------------------------------------------
LEMMA MovesBase ==
  ASSUME Base, NEW p \in Proc, Moves(p)
  PROVE  Base'
<1>1. ProcsOK' /\ TodoOK' BY DEF Base, ProcsOK, TodoOK, Moves
<1>2. Excl' BY DEF Base, Excl, Moves
<1> QED BY <1>1, <1>2 DEF Base

LEMMA StepMoves ==
  ASSUME Base, NEW p \in Proc, NEW s, ProcOK(s), Step(p, s), todo' \subseteq todo
  PROVE  Moves(p) /\ proc'[p] = s
<1>1. /\ DOMAIN proc' = Proc /\ proc'[p] = s /\ \A q \in Proc \ {p} : proc'[q] = proc[q]
      /\ tainted' = tainted \cup {proc[q].on : q \in {o \in Proc \ {p} : s.on # NoRow /\ proc[o].on = s.on}}
  BY DEF Step, Base, ProcsOK
<1>2. ASSUME s.on # NoRow, NEW q \in Proc \ {p}, proc[q].on = s.on
      PROVE  s.on \in tainted' BY <1>1, <1>2
<1> QED BY <1>1, <1>2 DEF Moves

LEMMA SameMoves ==
  ASSUME Base, NEW p \in Proc, proc' = proc, todo' \subseteq todo, tainted \subseteq tainted'
  PROVE  Moves(p) BY DEF Base, ProcsOK, Excl, Moves

LEMMA OnlyMoves ==
  ASSUME Base, NEW p \in Proc, NEW c, Only(p, c), NEW labels, "idle" \in labels
  PROVE  MovesIn(p, labels) BY SameMoves DEF Only, MovesIn, At

LEMMA IdleOK == ProcOK(Idle) BY DEF ProcOK, Idle, ProcFields, NoCmd, None, NoRow, RestOf, RowAt

LEMMA ReturnOK ==
  ASSUME NEW p, ProcOK(proc[p]), proc[p].at # "idle", proc[p].to = {} \/ proc[p].rest # <<>>
  PROVE  /\ ProcOK(Return(p))
         /\ proc[p].rest = <<>> => Return(p) = Idle
         /\ proc[p].rest # <<>> => /\ Return(p).at = Head(proc[p].rest)
                                   /\ Return(p).cmd = proc[p].cmd
                                   /\ Return(p).to = proc[p].to
<1> DEFINE s == proc[p]
<1>1. CASE s.rest = <<>> BY <1>1, IdleOK DEF Return
<1>2. CASE s.rest # <<>>
  <2> DEFINE t == [s EXCEPT !.at = Head(s.rest), !.rest = Tail(s.rest), !.on = NoRow, !.mem = None]
  <2>1. Return(p) = t BY <1>2 DEF Return
  <2>2. t.cmd = s.cmd /\ t.to = s.to /\ t.at = Head(s.rest) /\ t.rest = Tail(s.rest) /\ t.on = NoRow
        /\ DOMAIN t = ProcFields BY DEF ProcOK, ProcFields
  <2>3. s.rest = RestOf(s.cmd.op, s.at) /\ CommandOK(s.cmd) /\ s.at \in LabelsOf(s.cmd.op) BY DEF ProcOK
  <2>4. ASSUME NEW op \in {"promote", "decide"}, s.cmd.op = op,
               NEW at \in LabelsOf(op), t.at = at, NEW rest, t.rest = rest, RestOf(op, at) = rest,
               at \in {"detect", "suggest", "request", "emit"},
               s.to # {} => at = "emit"
        PROVE  ProcOK(t)
    <3>1. RowAt(at, t.cmd, t.mem) = NoRow /\ at # "idle" BY <2>4 DEF RowAt
    <3> HIDE DEF t
    <3> QED BY <2>2, <2>3, <2>4, <3>1 DEF ProcOK
  <2> HIDE DEF t
  <2>5. CASE s.at = "cost"
    <3>1. s.rest = <<"detect", "suggest", "request", "emit">> /\ s.cmd.op = "promote" /\ s.to = {}
      BY <2>3, <2>5 DEF RestOf, LabelsOf, ProcOK
    <3>2. t.at = "detect" /\ t.rest = <<"suggest", "request", "emit">> BY <3>1, <2>2
    <3> QED BY <3>1, <3>2, <2>4, <2>1, <2>2, <1>2 DEF RestOf, LabelsOf
  <2>6. CASE s.at \in {"detect", "detect.rule", "detect.raise"}
    <3>1. s.rest = <<"suggest", "request", "emit">> /\ s.cmd.op = "promote" /\ s.to = {}
      BY <2>3, <2>6 DEF RestOf, LabelsOf, ProcOK
    <3>2. t.at = "suggest" /\ t.rest = <<"request", "emit">> BY <3>1, <2>2
    <3> QED BY <3>1, <3>2, <2>4, <2>1, <2>2, <1>2 DEF RestOf, LabelsOf
  <2>7. CASE s.at = "suggest"
    <3>1. s.rest = <<"request", "emit">> /\ s.cmd.op = "promote" /\ s.to = {}
      BY <2>3, <2>7 DEF RestOf, LabelsOf, ProcOK
    <3>2. t.at = "request" /\ t.rest = <<"emit">> BY <3>1, <2>2
    <3> QED BY <3>1, <3>2, <2>4, <2>1, <2>2, <1>2 DEF RestOf, LabelsOf
  <2>8. CASE s.at \in {"request", "request.insert"}
    <3>1. s.rest = <<"emit">> /\ s.cmd.op = "promote" BY <2>3, <2>8, <1>2 DEF RestOf, LabelsOf
    <3>2. t.at = "emit" /\ t.rest = <<>> BY <3>1, <2>2
    <3> QED BY <3>1, <3>2, <2>4, <2>1, <2>2, <1>2 DEF RestOf, LabelsOf
  <2>9. CASE s.at \in {"decide.put", "decide.fold", "decide.write"}
    <3>1. s.rest = <<"emit">> /\ s.cmd.op = "decide" /\ s.to = {} BY <2>3, <2>9 DEF RestOf, LabelsOf, ProcOK
    <3>2. t.at = "emit" /\ t.rest = <<>> BY <3>1, <2>2
    <3> QED BY <3>1, <3>2, <2>4, <2>1, <2>2, <1>2 DEF RestOf, LabelsOf
  <2> QED BY <2>3, <2>5, <2>6, <2>7, <2>8, <2>9, <1>2 DEF RestOf
<1> QED BY <1>1, <1>2

LEMMA GotoOK ==
  ASSUME NEW p, ProcOK(proc[p]), NEW op, Cmd(p).op = op, NEW at, At(p, at), at # "idle",
         NEW label \in LabelsOf(op), label # "idle", NEW mem,
         RestOf(op, label) = RestOf(op, at),
         RowAt(label, Cmd(p), mem) = RowAt(at, Cmd(p), Mem(p)),
         proc[p].to # {} => label = "emit.notify"
  PROVE  ProcOK(Goto(p, label, mem))
<1> DEFINE s == proc[p]
           t == Goto(p, label, mem)
<1>1. DOMAIN t = ProcFields /\ t.at = label /\ t.cmd = s.cmd /\ t.rest = s.rest /\ t.on = s.on
      /\ t.to = s.to /\ t.mem = mem BY DEF ProcOK, ProcFields, Goto
<1>2. CommandOK(s.cmd) /\ s.rest = RestOf(op, at) /\ s.cmd.op = op
      /\ s.on = RowAt(label, s.cmd, mem) /\ (s.to # {} => s.cmd.op = "promote") BY DEF ProcOK, Cmd, At, Mem
<1> HIDE DEF t, s
<1>3. ProcOK(t) BY <1>1, <1>2 DEF ProcOK, s
<1> QED BY <1>3 DEF t

LEMMA BeginMoves ==
  ASSUME Base, NEW p \in Proc, NEW c \in todo, NEW label \in LabelsOf(c.op), label # "idle",
         NEW on, NEW mem, NEW rest, rest = RestOf(c.op, label), on = RowAt(label, c, mem),
         Begin(p, c, label, on, mem, rest), NEW labels, "idle" \in labels, label \in labels
  PROVE  MovesIn(p, labels)
<1> DEFINE t == [Idle EXCEPT !.at = label, !.cmd = c, !.on = on, !.mem = mem, !.rest = rest]
<1>1. DOMAIN t = ProcFields /\ t.at = label /\ t.cmd = c /\ t.rest = rest /\ t.on = on /\ t.to = {}
      /\ t.mem = mem BY DEF Idle, ProcFields
<1>2. CommandOK(c) BY DEF Base, TodoOK
<1>3. Step(p, t) /\ todo' \subseteq todo BY DEF Begin
<1> HIDE DEF t
<1>4. ProcOK(t) BY <1>1, <1>2, <1>3 DEF ProcOK
<1>5. Moves(p) /\ proc'[p] = t BY <1>3, <1>4, StepMoves
<1> QED BY <1>1, <1>5 DEF Begin, At, MovesIn

LEMMA ContinueMoves ==
  ASSUME Base, NEW p \in Proc, NEW s, ProcOK(s), Continue(p, s),
         NEW labels, proc[p].at \in labels, s.at \in labels
  PROVE  MovesIn(p, labels) BY StepMoves DEF Continue, MovesIn

LEMMA GoMoves ==
  ASSUME Base, NEW p \in Proc, NEW op, Cmd(p).op = op, NEW at, At(p, at), at # "idle",
         NEW label \in LabelsOf(op), label # "idle", NEW mem, Continue(p, Goto(p, label, mem)),
         RestOf(op, label) = RestOf(op, at),
         RowAt(label, Cmd(p), mem) = RowAt(at, Cmd(p), Mem(p)),
         proc[p].to # {} => label = "emit.notify",
         NEW labels, at \in labels, label \in labels
  PROVE  MovesIn(p, labels)
<1>1. ProcOK(Goto(p, label, mem)) BY GotoOK DEF Base, ProcsOK
<1>2. Goto(p, label, mem).at = label BY DEF Goto, Base, ProcsOK, ProcOK, ProcFields
<1> QED BY <1>1, <1>2, ContinueMoves DEF At

LEMMA ReturnMoves ==
  ASSUME Base, NEW p \in Proc, ~At(p, "idle"), proc[p].to = {} \/ proc[p].rest # <<>>,
         Continue(p, Return(p)), NEW labels, proc[p].at \in labels,
         proc[p].rest = <<>> => "idle" \in labels,
         proc[p].rest # <<>> => Head(proc[p].rest) \in labels
  PROVE  MovesIn(p, labels)
<1>1. ProcOK(Return(p)) BY ReturnOK DEF Base, ProcsOK, At
<1>2. Return(p).at \in labels BY ReturnOK DEF Base, ProcsOK, At, Idle
<1> QED BY <1>1, <1>2, ContinueMoves

(* The commands whose statements a label is one of.                        *)
LEMMA OpOf ==
  ASSUME Base, NEW p \in Proc, NEW at, At(p, at), at # "idle"
  PROVE  /\ at \in LabelsOf(Cmd(p).op) /\ proc[p].on = RowAt(at, Cmd(p), Mem(p))
         /\ proc[p].rest = RestOf(Cmd(p).op, at) /\ CommandOK(Cmd(p))
         /\ proc[p].to # {} => /\ Cmd(p).op = "promote"
                               /\ at \in {"request", "request.insert", "emit", "emit.notify"}
         /\ DOMAIN proc[p] = ProcFields BY DEF Base, ProcsOK, ProcOK, At, Cmd, Mem
-----------------------------------------------------------------------------
LEMMA RbacMoves ==
  ASSUME Base, NEW p \in Proc, RbacMove(p)
  PROVE  MovesIn(p, RbacLabels)
<1>1. ASSUME NEW c \in todo, AssignRead(p, c) PROVE MovesIn(p, RbacLabels)
  <2>1. c.op = "assign" /\ Begin(p, c, "assign.write", RoleRow(c.who), Assigned(c.who), <<>>)
    BY <1>1 DEF AssignRead
  <2> QED BY <2>1, BeginMoves DEF LabelsOf, RestOf, RowAt, RbacLabels
<1>2. ASSUME NEW c \in todo, RevokeRead(p, c) PROVE MovesIn(p, RbacLabels)
  <2>1. c.op = "revoke" /\ (Only(p, c) \/ Begin(p, c, "revoke.delete", RoleRow(c.who), Assigned(c.who), <<>>))
    BY <1>2 DEF RevokeRead
  <2> QED BY <2>1, OnlyMoves, BeginMoves DEF LabelsOf, RestOf, RowAt, RbacLabels
<1>3. ASSUME NEW c \in todo, Protect(p, c) PROVE MovesIn(p, RbacLabels)
  BY <1>3, OnlyMoves DEF Protect, RbacLabels
<1>4. ASSUME AssignWrite(p) PROVE MovesIn(p, RbacLabels)
  <2>1. At(p, "assign.write") /\ Continue(p, Goto(p, "assign.log", Mem(p))) BY <1>4 DEF AssignWrite
  <2>2. Cmd(p).op = "assign" /\ proc[p].to = {} BY <2>1, OpOf DEF LabelsOf
  <2>3. /\ "assign.log" \in LabelsOf("assign") /\ RestOf("assign", "assign.log") = RestOf("assign", "assign.write")
        /\ RowAt("assign.log", Cmd(p), Mem(p)) = RowAt("assign.write", Cmd(p), Mem(p))
        /\ "assign.write" \in RbacLabels /\ "assign.log" \in RbacLabels
    BY DEF LabelsOf, RestOf, RowAt, RbacLabels
  <2> QED BY <2>1, <2>2, <2>3, GoMoves
<1>5. ASSUME AssignLog(p) PROVE MovesIn(p, RbacLabels)
  <2>1. At(p, "assign.log") /\ Continue(p, Return(p)) BY <1>5 DEF AssignLog
  <2>2. proc[p].rest = <<>> /\ proc[p].to = {} BY <2>1, OpOf DEF LabelsOf, RestOf
  <2> QED BY <2>1, <2>2, ReturnMoves DEF At, RbacLabels
<1>6. ASSUME RevokeDelete(p) PROVE MovesIn(p, RbacLabels)
  <2>1. At(p, "revoke.delete") /\ Continue(p, Goto(p, "revoke.log", Mem(p))) BY <1>6 DEF RevokeDelete
  <2>2. Cmd(p).op = "revoke" /\ proc[p].to = {} BY <2>1, OpOf DEF LabelsOf
  <2>3. /\ "revoke.log" \in LabelsOf("revoke") /\ RestOf("revoke", "revoke.log") = RestOf("revoke", "revoke.delete")
        /\ RowAt("revoke.log", Cmd(p), Mem(p)) = RowAt("revoke.delete", Cmd(p), Mem(p))
        /\ "revoke.delete" \in RbacLabels /\ "revoke.log" \in RbacLabels
    BY DEF LabelsOf, RestOf, RowAt, RbacLabels
  <2> QED BY <2>1, <2>2, <2>3, GoMoves
<1>7. ASSUME RevokeLog(p) PROVE MovesIn(p, RbacLabels)
  <2>1. At(p, "revoke.log") /\ Continue(p, Return(p)) BY <1>7 DEF RevokeLog
  <2>2. proc[p].rest = <<>> /\ proc[p].to = {} BY <2>1, OpOf DEF LabelsOf, RestOf
  <2> QED BY <2>1, <2>2, ReturnMoves DEF At, RbacLabels
<1> QED BY <1>1, <1>2, <1>3, <1>4, <1>5, <1>6, <1>7 DEF RbacMove, RbacStep, RbacBegin

LEMMA RequestMoves ==
  ASSUME Base, NEW p \in Proc, RequestMove(p)
  PROVE  MovesIn(p, RequestLabels)
<1>1. ASSUME NEW c \in todo, Request(p, c) PROVE MovesIn(p, RequestLabels)
  <2>1. c.op = "request" /\ (Only(p, c) \/ Begin(p, c, "request.insert", RequestRow(c.cs), None, <<>>))
    BY <1>1 DEF Request
  <2>2. /\ "request.insert" \in LabelsOf("request") /\ RestOf("request", "request.insert") = <<>>
        /\ RowAt("request.insert", c, None) = RequestRow(c.cs)
        /\ "idle" \in RequestLabels /\ "request.insert" \in RequestLabels
    BY DEF LabelsOf, RestOf, RowAt, RequestLabels
  <2> QED BY <2>1, <2>2, OnlyMoves, BeginMoves
<1>2. ASSUME RequestFor(p, Cmd(p).cs) PROVE MovesIn(p, RequestLabels)
  <2> DEFINE s == [Goto(p, "request.insert", None) EXCEPT !.on = RequestRow(Cmd(p).cs)]
  <2>1. At(p, "request") /\ (Continue(p, Return(p)) \/ Continue(p, s)) BY <1>2 DEF RequestFor
  <2>2. /\ Cmd(p).op = "promote" /\ proc[p].rest = <<"emit">> /\ DOMAIN proc[p] = ProcFields
        /\ CommandOK(Cmd(p)) BY <2>1, OpOf DEF LabelsOf, RestOf
  <2>3. DOMAIN s = ProcFields /\ s.at = "request.insert" /\ s.cmd = Cmd(p) /\ s.rest = <<"emit">>
        /\ s.on = RequestRow(Cmd(p).cs) BY <2>2 DEF Goto, Cmd, ProcFields
  <2> HIDE DEF s
  <2>4. ProcOK(s) BY <2>2, <2>3 DEF ProcOK, LabelsOf, RestOf, RowAt
  <2>5. CASE Continue(p, s) BY <2>1, <2>3, <2>4, <2>5, ContinueMoves DEF At, RequestLabels
  <2>6. CASE Continue(p, Return(p))
    <3>1. proc[p].rest # <<>> /\ Head(proc[p].rest) = "emit" BY <2>2
    <3> QED BY <2>1, <2>6, <3>1, ReturnMoves DEF At, RequestLabels
  <2> QED BY <2>1, <2>5, <2>6
<1>3. ASSUME RequestInsert(p) PROVE MovesIn(p, RequestLabels)
  <2>1. At(p, "request.insert") /\ Continue(p, Return(p)) BY <1>3 DEF RequestInsert
  <2>2. proc[p].rest = <<"emit">> \/ (proc[p].rest = <<>> /\ proc[p].to = {}) BY <2>1, OpOf DEF LabelsOf, RestOf
  <2> QED BY <2>1, <2>2, ReturnMoves DEF At, RequestLabels
<1> QED BY <1>1, <1>2, <1>3 DEF RequestMove

LEMMA DecideMoves ==
  ASSUME Base, NEW p \in Proc, DecideMove(p)
  PROVE  MovesIn(p, DecideLabels)
<1>1. ASSUME NEW c \in todo, Decide(p, c) PROVE MovesIn(p, DecideLabels)
  <2>1. c.op = "decide" /\ (Only(p, c) \/ Begin(p, c, "decide.put", ReviewRow(ByChangeset(c.cs)), ByChangeset(c.cs), <<"emit">>))
    BY <1>1 DEF Decide
  <2>2. /\ "decide.put" \in LabelsOf("decide") /\ RestOf("decide", "decide.put") = <<"emit">>
        /\ RowAt("decide.put", c, ByChangeset(c.cs)) = ReviewRow(ByChangeset(c.cs))
        /\ "idle" \in DecideLabels /\ "decide.put" \in DecideLabels BY DEF LabelsOf, RestOf, RowAt, DecideLabels
  <2> QED BY <2>1, <2>2, OnlyMoves, BeginMoves
<1>2. ASSUME DecidePut(p) PROVE MovesIn(p, DecideLabels)
  <2>1. At(p, "decide.put") /\ Continue(p, Goto(p, "decide.fold", Mem(p))) BY <1>2 DEF DecidePut
  <2>2. Cmd(p).op = "decide" /\ proc[p].to = {} BY <2>1, OpOf DEF LabelsOf
  <2>3. /\ "decide.fold" \in LabelsOf("decide") /\ RestOf("decide", "decide.fold") = RestOf("decide", "decide.put")
        /\ RowAt("decide.fold", Cmd(p), Mem(p)) = RowAt("decide.put", Cmd(p), Mem(p))
        /\ "decide.put" \in DecideLabels /\ "decide.fold" \in DecideLabels
    BY DEF LabelsOf, RestOf, RowAt, DecideLabels
  <2> QED BY <2>1, <2>2, <2>3, GoMoves
<1>3. ASSUME DecideFold(p) PROVE MovesIn(p, DecideLabels)
  <2>1. At(p, "decide.fold") /\ Continue(p, Goto(p, "decide.write", [review |-> Mem(p), status |-> Recompute(Mem(p))]))
    BY <1>3 DEF DecideFold
  <2>2. Cmd(p).op = "decide" /\ proc[p].to = {} BY <2>1, OpOf DEF LabelsOf
  <2>3. /\ "decide.write" \in LabelsOf("decide") /\ RestOf("decide", "decide.write") = RestOf("decide", "decide.fold")
        /\ RowAt("decide.write", Cmd(p), [review |-> Mem(p), status |-> Recompute(Mem(p))]) = RowAt("decide.fold", Cmd(p), Mem(p))
        /\ "decide.fold" \in DecideLabels /\ "decide.write" \in DecideLabels
    BY DEF LabelsOf, RestOf, RowAt, DecideLabels
  <2> QED BY <2>1, <2>2, <2>3, GoMoves
<1>4. ASSUME DecideWrite(p) PROVE MovesIn(p, DecideLabels)
  <2>1. At(p, "decide.write") /\ Continue(p, Return(p)) BY <1>4 DEF DecideWrite
  <2>2. proc[p].rest = <<"emit">> /\ proc[p].to = {} BY <2>1, OpOf DEF LabelsOf, RestOf
  <2> QED BY <2>1, <2>2, ReturnMoves DEF At, DecideLabels
<1>5. ASSUME NEW c \in todo, Comment(p, c) PROVE MovesIn(p, DecideLabels)
  BY <1>5, OnlyMoves DEF Comment, DecideLabels
<1> QED BY <1>1, <1>2, <1>3, <1>4, <1>5 DEF DecideMove

LEMMA MergeGoes ==
  ASSUME Base, NEW p \in Proc, NEW at \in MergeLabels \ {"idle", "merge.write"}, At(p, at),
         \E label \in MergeLabels \ {"idle", "merge.write"} : \E mem : Continue(p, Goto(p, label, mem))
  PROVE  MovesIn(p, MergeLabels)
<1>0. PICK label \in MergeLabels \ {"idle", "merge.write"} : \E mem : Continue(p, Goto(p, label, mem)) OBVIOUS
<1>1. PICK mem : Continue(p, Goto(p, label, mem)) BY <1>0
<1>2. Cmd(p).op = "merge" /\ proc[p].to = {} BY OpOf DEF LabelsOf, MergeLabels
<1>3. label \in LabelsOf("merge") /\ RestOf("merge", label) = RestOf("merge", at)
      /\ RowAt(label, Cmd(p), mem) = RowAt(at, Cmd(p), Mem(p)) BY DEF LabelsOf, RestOf, RowAt, MergeLabels
<1> QED BY <1>1, <1>2, <1>3, GoMoves

LEMMA MergeMoves ==
  ASSUME Base, NEW p \in Proc, MergeMove(p)
  PROVE  MovesIn(p, MergeLabels)
<1>1. ASSUME NEW c \in todo, Merge(p, c) PROVE MovesIn(p, MergeLabels)
  <2>1. c.op = "merge" /\ (Only(p, c) \/ Begin(p, c, "merge.count", NoRow, [review |-> ByChangeset(c.cs)], <<>>))
    BY <1>1 DEF Merge
  <2>2. /\ "merge.count" \in LabelsOf("merge") /\ RestOf("merge", "merge.count") = <<>>
        /\ RowAt("merge.count", c, [review |-> ByChangeset(c.cs)]) = NoRow
        /\ "idle" \in MergeLabels /\ "merge.count" \in MergeLabels BY DEF LabelsOf, RestOf, RowAt, MergeLabels
  <2> QED BY <2>1, <2>2, OnlyMoves, BeginMoves
<1>2. ASSUME MergeCount(p) PROVE MovesIn(p, MergeLabels)
  <2>1. At(p, "merge.count") /\ \E label \in {"merge.human"} : \E mem : Continue(p, Goto(p, label, mem))
    BY <1>2 DEF MergeCount
  <2> QED BY <2>1, MergeGoes DEF MergeLabels
<1>3. ASSUME MergeHuman(p) PROVE MovesIn(p, MergeLabels)
  <2>1. At(p, "merge.human") /\ \E label \in {"merge.branch"} : \E mem : Continue(p, Goto(p, label, mem))
    BY <1>3 DEF MergeHuman
  <2> QED BY <2>1, MergeGoes DEF MergeLabels
<1>4. ASSUME MergeBranch(p) PROVE MovesIn(p, MergeLabels)
  <2>1. At(p, "merge.branch") /\ \E label \in {"merge.rule"} : \E mem : Continue(p, Goto(p, label, mem))
    BY <1>4 DEF MergeBranch
  <2> QED BY <2>1, MergeGoes DEF MergeLabels
<1>5. ASSUME MergeRule(p) PROVE MovesIn(p, MergeLabels)
  <2>1. At(p, "merge.rule") /\ \E label \in {"merge.recheck", "merge.role"} : \E mem : Continue(p, Goto(p, label, mem))
    BY <1>5 DEF MergeRule
  <2> QED BY <2>1, MergeGoes DEF MergeLabels
<1>6. ASSUME MergeRole(p) PROVE MovesIn(p, MergeLabels)
  <2>1. /\ At(p, "merge.role")
        /\ (\E label \in {"merge.recheck"} : \E mem : Continue(p, Goto(p, label, mem))) \/ Continue(p, Idle)
    BY <1>6 DEF MergeRole
  <2>2. CASE Continue(p, Idle) BY <2>1, <2>2, IdleOK, ContinueMoves DEF At, Idle, MergeLabels
  <2> QED BY <2>1, <2>2, MergeGoes DEF MergeLabels
<1>7. ASSUME MergeRecheck(p) PROVE MovesIn(p, MergeLabels)
  <2> DEFINE s == [Goto(p, "merge.write", Mem(p)) EXCEPT !.on = ReviewRow(Mem(p).review)]
  <2>1. At(p, "merge.recheck") /\ (Continue(p, s) \/ Continue(p, Idle)) BY <1>7 DEF MergeRecheck
  <2>2. /\ Cmd(p).op = "merge" /\ proc[p].rest = <<>> /\ DOMAIN proc[p] = ProcFields
        /\ CommandOK(Cmd(p)) /\ proc[p].to = {} BY <2>1, OpOf DEF LabelsOf, RestOf
  <2>3. DOMAIN s = ProcFields /\ s.at = "merge.write" /\ s.cmd = Cmd(p) /\ s.rest = <<>>
        /\ s.on = ReviewRow(s.mem.review) /\ s.to = {} BY <2>2 DEF Goto, Cmd, ProcFields
  <2> HIDE DEF s
  <2>4. ProcOK(s) BY <2>2, <2>3 DEF ProcOK, LabelsOf, RestOf, RowAt
  <2>5. CASE Continue(p, s) BY <2>1, <2>3, <2>4, <2>5, ContinueMoves DEF At, MergeLabels
  <2>6. CASE Continue(p, Idle) BY <2>1, <2>6, IdleOK, ContinueMoves DEF At, Idle, MergeLabels
  <2> QED BY <2>1, <2>5, <2>6
<1>8. ASSUME MergeWrite(p) PROVE MovesIn(p, MergeLabels)
  <2>1. At(p, "merge.write") /\ Continue(p, Return(p)) BY <1>8 DEF MergeWrite
  <2>2. proc[p].rest = <<>> /\ proc[p].to = {} BY <2>1, OpOf DEF LabelsOf, RestOf
  <2> QED BY <2>1, <2>2, ReturnMoves DEF At, MergeLabels
<1>9. ASSUME NEW c \in todo, SwitchBranch(p, c) PROVE MovesIn(p, MergeLabels)
  BY <1>9, OnlyMoves DEF SwitchBranch, MergeLabels
<1> QED BY <1>1, <1>2, <1>3, <1>4, <1>5, <1>6, <1>7, <1>8, <1>9 DEF MergeMove

LEMMA EmitMoves ==
  ASSUME Base, NEW p \in Proc, EmitMove(p)
  PROVE  MovesIn(p, EmitLabels)
<1>1. ASSUME EmitEvent(p) PROVE MovesIn(p, EmitLabels)
  <2>1. /\ At(p, "emit")
        /\ proc[p].to = {} => Continue(p, Return(p))
        /\ proc[p].to # {} => Continue(p, Goto(p, "emit.notify", Len(events) + 1)) BY <1>1 DEF EmitEvent
  <2>2. proc[p].rest = <<>> BY <2>1, OpOf DEF RestOf
  <2>3. CASE proc[p].to = {} BY <2>1, <2>2, <2>3, ReturnMoves DEF At, EmitLabels
  <2>4. CASE proc[p].to # {}
    <3>1. Cmd(p).op = "promote" BY <2>1, <2>4, OpOf
    <3>2. /\ "emit.notify" \in LabelsOf("promote") /\ RestOf("promote", "emit.notify") = RestOf("promote", "emit")
          /\ RowAt("emit.notify", Cmd(p), Len(events) + 1) = RowAt("emit", Cmd(p), Mem(p))
          /\ "emit" \in EmitLabels /\ "emit.notify" \in EmitLabels BY DEF LabelsOf, RestOf, RowAt, EmitLabels
    <3> QED BY <2>1, <2>4, <3>1, <3>2, GoMoves
  <2> QED BY <2>3, <2>4
<1>2. ASSUME EmitNotify(p) PROVE MovesIn(p, EmitLabels)
  <2>1. At(p, "emit.notify") BY <1>2 DEF EmitNotify
  <2>2. PICK to \in proc[p].to :
          Continue(p, [IF proc[p].to \ {to} = {} THEN Return(p) ELSE proc[p]
                         EXCEPT !.to = proc[p].to \ {to}]) BY <1>2 DEF EmitNotify
  <2> DEFINE left == proc[p].to \ {to}
  <2>3. proc[p].rest = <<>> /\ Cmd(p).op = "promote" BY <2>1, OpOf DEF RestOf, LabelsOf
  <2>4. CASE left = {}
    <3>1. Return(p) = Idle BY <2>3 DEF Return
    <3>2. Idle.to = {} /\ Idle = [k \in DOMAIN Idle |-> Idle[k]] /\ Idle.at = "idle" BY DEF Idle
    <3>3. [Idle EXCEPT !.to = {}] = Idle BY <3>2
    <3>4. Continue(p, Idle) BY <2>2, <2>4, <3>1, <3>3
    <3> QED BY <2>1, <3>2, <3>4, IdleOK, ContinueMoves DEF At, EmitLabels
  <2>5. CASE left # {}
    <3>1. ProcOK([proc[p] EXCEPT !.to = left]) /\ [proc[p] EXCEPT !.to = left].at = "emit.notify"
      <4> DEFINE s == [proc[p] EXCEPT !.to = left]
      <4>1. ProcOK(proc[p]) /\ proc[p].at = "emit.notify" /\ proc[p].cmd.op = "promote"
        BY <2>1, <2>3 DEF Base, ProcsOK, At, Cmd
      <4>2. DOMAIN s = ProcFields /\ s.at = "emit.notify" /\ s.cmd = proc[p].cmd /\ s.mem = proc[p].mem
            /\ s.rest = proc[p].rest /\ s.on = proc[p].on BY <4>1 DEF ProcOK, ProcFields
      <4> HIDE DEF s
      <4>3. ProcOK(s) BY <4>1, <4>2 DEF ProcOK
      <4> QED BY <4>2, <4>3 DEF s
    <3>2. Continue(p, [proc[p] EXCEPT !.to = left]) BY <2>2, <2>5
    <3> QED BY <2>1, <3>1, <3>2, ContinueMoves DEF At, EmitLabels
  <2> QED BY <2>4, <2>5
<1> QED BY <1>1, <1>2 DEF EmitMove

LEMMA DispatchGoes ==
  ASSUME Base, NEW p \in Proc, NEW at \in DispatchLabels \ {"idle"}, At(p, at),
         \E label \in DispatchLabels \ {"idle"} : \E mem : Continue(p, Goto(p, label, mem))
  PROVE  MovesIn(p, DispatchLabels)
<1>0. PICK label \in DispatchLabels \ {"idle"} : \E mem : Continue(p, Goto(p, label, mem)) OBVIOUS
<1>1. PICK mem : Continue(p, Goto(p, label, mem)) BY <1>0
<1>2. Cmd(p).op = "dispatch" /\ proc[p].to = {} BY OpOf DEF LabelsOf, DispatchLabels
<1>3. label \in LabelsOf("dispatch") /\ RestOf("dispatch", label) = RestOf("dispatch", at)
      /\ RowAt(label, Cmd(p), mem) = RowAt(at, Cmd(p), Mem(p)) BY DEF LabelsOf, RestOf, RowAt, DispatchLabels
<1> QED BY <1>1, <1>2, <1>3, GoMoves

LEMMA DispatchMoves ==
  ASSUME Base, NEW p \in Proc, DispatchMove(p)
  PROVE  MovesIn(p, DispatchLabels)
<1>1. ASSUME NEW left, NEW from, NEW at \in {"dispatch.integrations", "dispatch.mark"}, At(p, at),
             Continue(p, Sending(p, left, from))
      PROVE  MovesIn(p, DispatchLabels)
  <2>1. Cmd(p).op = "dispatch" /\ proc[p].to = {} /\ proc[p].rest = <<>> BY <1>1, OpOf DEF LabelsOf, RestOf
  <2>2. CASE left = {} BY <1>1, <2>1, <2>2, ReturnMoves DEF At, Sending, DispatchLabels
  <2>3. CASE left # {}
    <3>1. \E label \in {"dispatch.mark", "dispatch.send"} : \E mem : Continue(p, Goto(p, label, mem))
      BY <1>1, <2>3 DEF Sending
    <3> QED BY <1>1, <3>1, DispatchGoes DEF DispatchLabels
  <2> QED BY <2>2, <2>3
<1>2. ASSUME NEW c \in todo, Dispatch(p, c) PROVE MovesIn(p, DispatchLabels)
  <2>1. c.op = "dispatch" /\ Begin(p, c, "dispatch.integrations", Outbox, Undispatched, <<>>)
    BY <1>2 DEF Dispatch
  <2>2. /\ "dispatch.integrations" \in LabelsOf("dispatch") /\ RestOf("dispatch", "dispatch.integrations") = <<>>
        /\ RowAt("dispatch.integrations", c, Undispatched) = Outbox
        /\ "idle" \in DispatchLabels /\ "dispatch.integrations" \in DispatchLabels
    BY DEF LabelsOf, RestOf, RowAt, DispatchLabels
  <2> QED BY <2>1, <2>2, BeginMoves
<1>3. ASSUME NEW c \in todo, AddIntegration(p, c) PROVE MovesIn(p, DispatchLabels)
  BY <1>3, OnlyMoves DEF AddIntegration, DispatchLabels
<1>4. ASSUME NEW c \in todo, RemoveIntegration(p, c) PROVE MovesIn(p, DispatchLabels)
  BY <1>4, OnlyMoves DEF RemoveIntegration, DispatchLabels
<1>5. ASSUME NEW c \in todo, Ack(p, c) PROVE MovesIn(p, DispatchLabels)
  BY <1>5, OnlyMoves DEF Ack, DispatchLabels
<1>6. ASSUME NEW c \in todo, AckAll(p, c) PROVE MovesIn(p, DispatchLabels)
  BY <1>6, OnlyMoves DEF AckAll, DispatchLabels
<1>7. ASSUME DispatchIntegrations(p) PROVE MovesIn(p, DispatchLabels) BY <1>7, <1>1 DEF DispatchIntegrations
<1>8. ASSUME DispatchSend(p) PROVE MovesIn(p, DispatchLabels)
  <2>1. At(p, "dispatch.send") /\ \E label \in {"dispatch.log"} : \E mem : Continue(p, Goto(p, label, mem))
    BY <1>8 DEF DispatchSend
  <2> QED BY <2>1, DispatchGoes DEF DispatchLabels
<1>9. ASSUME DispatchLog(p) PROVE MovesIn(p, DispatchLabels)
  <2>1. At(p, "dispatch.log") /\ \E label \in {"dispatch.mark", "dispatch.send"} : \E mem : Continue(p, Goto(p, label, mem))
    BY <1>9 DEF DispatchLog
  <2> QED BY <2>1, DispatchGoes DEF DispatchLabels
<1>10. ASSUME DispatchMark(p) PROVE MovesIn(p, DispatchLabels) BY <1>10, <1>1 DEF DispatchMark
<1> QED BY <1>2, <1>3, <1>4, <1>5, <1>6, <1>7, <1>8, <1>9, <1>10 DEF DispatchMove, NotifyBegin

LEMMA TrustGoes ==
  ASSUME Base, NEW p \in Proc, NEW at \in TrustLabels \ {"idle", "manual.store"}, At(p, at),
         \E label \in TrustLabels \ {"idle", "manual.store"} : \E mem : Continue(p, Goto(p, label, mem))
  PROVE  MovesIn(p, TrustLabels)
<1>0. PICK label \in TrustLabels \ {"idle", "manual.store"} : \E mem : Continue(p, Goto(p, label, mem)) OBVIOUS
<1>1. PICK mem : Continue(p, Goto(p, label, mem)) BY <1>0
<1>2. Cmd(p).op = "event" /\ proc[p].to = {} BY OpOf DEF LabelsOf, TrustLabels
<1>3. label \in LabelsOf("event") /\ RestOf("event", label) = RestOf("event", at)
      /\ RowAt(label, Cmd(p), mem) = RowAt(at, Cmd(p), Mem(p)) BY DEF LabelsOf, RestOf, RowAt, TrustLabels
<1> QED BY <1>1, <1>2, <1>3, GoMoves

LEMMA TrustMoves ==
  ASSUME Base, NEW p \in Proc, TrustMove(p)
  PROVE  MovesIn(p, TrustLabels)
<1>1. ASSUME NEW c \in todo, RecordEvent(p, c) PROVE MovesIn(p, TrustLabels)
  <2>1. c.op = "event" /\ Begin(p, c, "event.store", AgentRow(c.agent), None, <<>>) BY <1>1 DEF RecordEvent
  <2>2. /\ "event.store" \in LabelsOf("event") /\ RestOf("event", "event.store") = <<>>
        /\ RowAt("event.store", c, None) = AgentRow(c.agent)
        /\ "idle" \in TrustLabels /\ "event.store" \in TrustLabels BY DEF LabelsOf, RestOf, RowAt, TrustLabels
  <2> QED BY <2>1, <2>2, BeginMoves
<1>2. ASSUME EventStore(p) PROVE MovesIn(p, TrustLabels)
  <2>1. At(p, "event.store") /\ \E label \in {"event.read", "event.bump"} : \E mem : Continue(p, Goto(p, label, mem))
    BY <1>2 DEF EventStore
  <2> QED BY <2>1, TrustGoes DEF TrustLabels
<1>3. ASSUME EventBump(p) PROVE MovesIn(p, TrustLabels)
  <2>1. At(p, "event.bump") /\ \E label \in {"event.read"} : \E mem : Continue(p, Goto(p, label, mem))
    BY <1>3 DEF EventBump
  <2> QED BY <2>1, TrustGoes DEF TrustLabels
<1>4. ASSUME EventRead(p) PROVE MovesIn(p, TrustLabels)
  <2>1. At(p, "event.read") /\ \E label \in {"event.write"} : \E mem : Continue(p, Goto(p, label, mem))
    BY <1>4 DEF EventRead
  <2> QED BY <2>1, TrustGoes DEF TrustLabels
<1>5. ASSUME EventWrite(p) PROVE MovesIn(p, TrustLabels)
  <2>1. At(p, "event.write") /\ Continue(p, Return(p)) BY <1>5 DEF EventWrite
  <2>2. proc[p].rest = <<>> /\ proc[p].to = {} BY <2>1, OpOf DEF LabelsOf, RestOf
  <2> QED BY <2>1, <2>2, ReturnMoves DEF At, TrustLabels
<1>6. ASSUME NEW c \in todo, Override(p, c) PROVE MovesIn(p, TrustLabels)
  <2>1. c.op = "override" /\ (Only(p, c) \/ Begin(p, c, "manual.store", NoRow, "manual_override", <<>>))
    BY <1>6 DEF Override
  <2>2. /\ "manual.store" \in LabelsOf("override") /\ RestOf("override", "manual.store") = <<>>
        /\ RowAt("manual.store", c, "manual_override") = NoRow
        /\ "idle" \in TrustLabels /\ "manual.store" \in TrustLabels BY DEF LabelsOf, RestOf, RowAt, TrustLabels
  <2> QED BY <2>1, <2>2, OnlyMoves, BeginMoves
<1>7. ASSUME NEW c \in todo, Reset(p, c) PROVE MovesIn(p, TrustLabels)
  <2>1. c.op = "reset" /\ (Only(p, c) \/ Begin(p, c, "manual.store", AgentRow(c.agent), "reset", <<>>))
    BY <1>7 DEF Reset
  <2>2. /\ "manual.store" \in LabelsOf("reset") /\ RestOf("reset", "manual.store") = <<>>
        /\ RowAt("manual.store", c, "reset") = AgentRow(c.agent)
        /\ "idle" \in TrustLabels /\ "manual.store" \in TrustLabels BY DEF LabelsOf, RestOf, RowAt, TrustLabels
  <2> QED BY <2>1, <2>2, OnlyMoves, BeginMoves
<1>8. ASSUME ManualStore(p) PROVE MovesIn(p, TrustLabels)
  <2>1. At(p, "manual.store") /\ Continue(p, Return(p)) BY <1>8 DEF ManualStore
  <2>2. proc[p].rest = <<>> /\ proc[p].to = {} BY <2>1, OpOf DEF LabelsOf, RestOf
  <2> QED BY <2>1, <2>2, ReturnMoves DEF At, TrustLabels
<1>9. ASSUME NEW c \in todo, SetModuleOverride(p, c) PROVE MovesIn(p, TrustLabels)
  BY <1>9, OnlyMoves DEF SetModuleOverride, TrustLabels
<1> QED BY <1>1, <1>2, <1>3, <1>4, <1>5, <1>6, <1>7, <1>8, <1>9 DEF TrustMove, TrustStep, TrustBegin

LEMMA CostMoves ==
  ASSUME Base, NEW p \in Proc, CostMove(p)
  PROVE  MovesIn(p, CostLabels)
<1>1. ASSUME NEW c \in todo, Report(p, c) PROVE MovesIn(p, CostLabels)
  BY <1>1, SameMoves DEF Report, MovesIn, At, CostLabels
<1>2. ASSUME NEW c \in todo, SetBudget(p, c) PROVE MovesIn(p, CostLabels)
  BY <1>2, OnlyMoves DEF SetBudget, CostLabels
<1>3. ASSUME NEW c \in todo, Resolve(p, c) PROVE MovesIn(p, CostLabels)
  BY <1>3, OnlyMoves DEF Resolve, CostLabels
<1>4. ASSUME NEW c \in todo, Propose(p, c) PROVE MovesIn(p, CostLabels)
  BY <1>4, OnlyMoves DEF Propose, CostLabels
<1>5. ASSUME NEW c \in todo, Configure(p, c) PROVE MovesIn(p, CostLabels)
  <2>1. c.op = "configure" /\ (Only(p, c) \/ Begin(p, c, "configure.switch", NoRow, None, <<>>))
    BY <1>5 DEF Configure
  <2>2. /\ "configure.switch" \in LabelsOf("configure") /\ RestOf("configure", "configure.switch") = <<>>
        /\ RowAt("configure.switch", c, None) = NoRow
        /\ "idle" \in CostLabels /\ "configure.switch" \in CostLabels BY DEF LabelsOf, RestOf, RowAt, CostLabels
  <2> QED BY <2>1, <2>2, OnlyMoves, BeginMoves
<1>6. ASSUME NEW c \in todo, Promote(p, c) PROVE MovesIn(p, CostLabels)
  <2>1. c.op = "promote" /\ Begin(p, c, "cost", CostRow(c.cs), None, <<"detect", "suggest", "request", "emit">>)
    BY <1>6 DEF Promote
  <2>2. /\ "cost" \in LabelsOf("promote") /\ RestOf("promote", "cost") = <<"detect", "suggest", "request", "emit">>
        /\ RowAt("cost", c, None) = CostRow(c.cs)
        /\ "idle" \in CostLabels /\ "cost" \in CostLabels BY DEF LabelsOf, RestOf, RowAt, CostLabels
  <2> QED BY <2>1, <2>2, BeginMoves
<1>7. ASSUME CostRecord(p) PROVE MovesIn(p, CostLabels)
  <2>1. At(p, "cost") /\ Continue(p, Return(p)) BY <1>7 DEF CostRecord
  <2>2. proc[p].rest = <<"detect", "suggest", "request", "emit">> /\ proc[p].to = {}
    BY <2>1, OpOf DEF LabelsOf, RestOf
  <2> QED BY <2>1, <2>2, ReturnMoves DEF At, CostLabels
<1>8. ASSUME ConfigureSwitch(p) PROVE MovesIn(p, CostLabels)
  <2>1. At(p, "configure.switch") /\ Continue(p, Return(p)) BY <1>8 DEF ConfigureSwitch
  <2>2. proc[p].rest = <<>> /\ proc[p].to = {} BY <2>1, OpOf DEF LabelsOf, RestOf
  <2> QED BY <2>1, <2>2, ReturnMoves DEF At, CostLabels
<1> QED BY <1>1, <1>2, <1>3, <1>4, <1>5, <1>6, <1>7, <1>8 DEF CostMove, LedgerBegin

LEMMA DetectMoves ==
  ASSUME Base, NEW p \in Proc, DetectMove(p)
  PROVE  MovesIn(p, DetectLabels)
<1>1. ASSUME DetectCount(p) PROVE MovesIn(p, DetectLabels)
  <2>1. At(p, "detect") /\ \E label \in {"detect.rule"} : \E mem : Continue(p, Goto(p, label, mem))
    BY <1>1 DEF DetectCount
  <2>2. Cmd(p).op = "promote" /\ proc[p].to = {} BY <2>1, OpOf DEF LabelsOf
  <2>3. \A label \in {"detect.rule"} : \A mem :
          /\ label \in LabelsOf("promote") /\ RestOf("promote", label) = RestOf("promote", "detect")
          /\ RowAt(label, Cmd(p), mem) = RowAt("detect", Cmd(p), Mem(p))
          /\ "detect" \in DetectLabels /\ label \in DetectLabels /\ label # "idle"
    BY DEF LabelsOf, RestOf, RowAt, DetectLabels
  <2> QED BY <2>1, <2>2, <2>3, GoMoves
<1>2. ASSUME NEW at \in {"detect.rule", "detect.raise"}, At(p, at), Continue(p, Checked(p))
      PROVE  MovesIn(p, DetectLabels)
  <2>1. Continue(p, Return(p)) \/ \E mem : Continue(p, Goto(p, "detect.rule", mem)) BY <1>2 DEF Checked
  <2>2. Cmd(p).op = "promote" /\ proc[p].to = {} /\ proc[p].rest = <<"suggest", "request", "emit">>
    BY <1>2, OpOf DEF LabelsOf, RestOf
  <2>3. CASE Continue(p, Return(p))
    <3>1. ~At(p, "idle") /\ proc[p].at \in DetectLabels BY <1>2 DEF At, DetectLabels
    <3>2. proc[p].rest # <<>> /\ Head(proc[p].rest) = "suggest" /\ "suggest" \in DetectLabels
      BY <2>2 DEF DetectLabels
    <3> QED BY <2>3, <3>1, <3>2, ReturnMoves
  <2>4. \A mem :
          /\ "detect.rule" \in LabelsOf("promote") /\ RestOf("promote", "detect.rule") = RestOf("promote", at)
          /\ RowAt("detect.rule", Cmd(p), mem) = RowAt(at, Cmd(p), Mem(p))
          /\ at \in DetectLabels /\ "detect.rule" \in DetectLabels /\ at # "idle"
    BY <1>2 DEF LabelsOf, RestOf, RowAt, DetectLabels
  <2> QED BY <1>2, <2>1, <2>2, <2>3, <2>4, GoMoves
<1>3. ASSUME DetectRule(p) PROVE MovesIn(p, DetectLabels)
  <2>1. At(p, "detect.rule") /\ (Continue(p, Goto(p, "detect.raise", Mem(p))) \/ Continue(p, Checked(p)))
    BY <1>3 DEF DetectRule
  <2>2. Cmd(p).op = "promote" /\ proc[p].to = {} BY <2>1, OpOf DEF LabelsOf
  <2>3. /\ "detect.raise" \in LabelsOf("promote") /\ RestOf("promote", "detect.raise") = RestOf("promote", "detect.rule")
        /\ RowAt("detect.raise", Cmd(p), Mem(p)) = RowAt("detect.rule", Cmd(p), Mem(p))
        /\ "detect.rule" \in DetectLabels /\ "detect.raise" \in DetectLabels
    BY DEF LabelsOf, RestOf, RowAt, DetectLabels
  <2> QED BY <2>1, <2>2, <2>3, <1>2, GoMoves
<1>4. ASSUME DetectRaise(p) PROVE MovesIn(p, DetectLabels) BY <1>4, <1>2 DEF DetectRaise
<1> QED BY <1>1, <1>3, <1>4 DEF DetectMove

LEMMA SuggestMoves ==
  ASSUME Base, NEW p \in Proc, Suggest(p)
  PROVE  MovesIn(p, {"suggest", "request"})
<1> DEFINE s == [Return(p) EXCEPT !.to = Reviewers(Cmd(p).cs)]
<1>1. At(p, "suggest") /\ Continue(p, s) BY DEF Suggest
<1>2. /\ Cmd(p).op = "promote" /\ proc[p].rest = <<"request", "emit">> /\ DOMAIN proc[p] = ProcFields
      /\ CommandOK(Cmd(p)) /\ proc[p].to = {} BY <1>1, OpOf DEF LabelsOf, RestOf
<1>3. ProcOK(Return(p)) /\ Return(p).at = "request" /\ Return(p).cmd = Cmd(p)
  BY <1>1, <1>2, ReturnOK DEF Base, ProcsOK, At, Cmd
<1>4. DOMAIN s = ProcFields /\ s.at = "request" /\ s.cmd = Cmd(p) /\ s.rest = Return(p).rest
      /\ s.on = Return(p).on /\ s.mem = Return(p).mem BY <1>3 DEF ProcOK, ProcFields
<1> HIDE DEF s
<1>5. ProcOK(s) BY <1>2, <1>3, <1>4 DEF ProcOK
<1> QED BY <1>1, <1>4, <1>5, ContinueMoves DEF At

LEMMA DieMoves ==
  ASSUME Base, NEW p \in Proc, Die(p)
  PROVE  Moves(p) /\ proc'[p] = Idle /\ (proc[p].on # NoRow => proc[p].on \in tainted')
<1>1. proc'[p] = Idle /\ DOMAIN proc' = Proc /\ \A q \in Proc \ {p} : proc'[q] = proc[q]
  BY DEF Die, Base, ProcsOK
<1> QED BY <1>1, IdleOK DEF Moves, Die, Idle, NoRow
-----------------------------------------------------------------------------
(* Every step is a tick or a move of one process, within one component.    *)
Moved(p) ==
  \/ RbacMove(p) /\ MovesIn(p, RbacLabels)
  \/ RequestMove(p) /\ MovesIn(p, RequestLabels)
  \/ DecideMove(p) /\ MovesIn(p, DecideLabels)
  \/ MergeMove(p) /\ MovesIn(p, MergeLabels)
  \/ EmitMove(p) /\ MovesIn(p, EmitLabels)
  \/ DispatchMove(p) /\ MovesIn(p, DispatchLabels)
  \/ TrustMove(p) /\ MovesIn(p, TrustLabels)
  \/ CostMove(p) /\ MovesIn(p, CostLabels)
  \/ DetectMove(p) /\ MovesIn(p, DetectLabels)
  \/ SuggestMove(p) /\ MovesIn(p, {"suggest", "request"})
  \/ DieMove(p) /\ Moves(p) /\ proc'[p] = Idle /\ (proc[p].on # NoRow => proc[p].on \in tainted')

Still == UNCHANGED <<rbacVars, reviewVars, notifyVars, trustVars, ledgerVars, proc, todo, tainted>>

LEMMA StepCases ==
  ASSUME Base, [Next]_vars
  PROVE  Still \/ \E p \in Proc : Moved(p) /\ Moves(p)
<1>1. CASE Rbac BY <1>1, RbacMoves DEF Rbac, RbacMove, Moved, MovesIn
<1>2. CASE Reviewing
  <2>1. \E p \in Proc : RequestMove(p) \/ DecideMove(p) \/ MergeMove(p)
    BY <1>2 DEF Reviewing, ReviewStep, ReviewBegin, RequestMove, DecideMove, MergeMove
  <2> QED BY <2>1, RequestMoves, DecideMoves, MergeMoves DEF Moved, MovesIn
<1>3. CASE Notifying
  <2>1. \E p \in Proc : EmitMove(p) \/ DispatchMove(p) BY <1>3 DEF Notifying, NotifyStep, EmitMove, DispatchMove
  <2> QED BY <2>1, EmitMoves, DispatchMoves DEF Moved, MovesIn
<1>4. CASE Scoring BY <1>4, TrustMoves DEF Scoring, TrustMove, Moved, MovesIn
<1>5. CASE Recording
  <2>1. \E p \in Proc : CostMove(p) \/ DetectMove(p) BY <1>5 DEF Recording, LedgerStep, CostMove, DetectMove
  <2> QED BY <2>1, CostMoves, DetectMoves DEF Moved, MovesIn
<1>6. CASE Between
  <2>1. Tick => Still BY <1>6 DEF Between, Still, Tick
  <2> QED BY <1>6, <2>1, SuggestMoves, DieMoves DEF Between, SuggestMove, DieMove, Moved, MovesIn
<1>7. CASE UNCHANGED vars BY <1>7 DEF vars, cmdVars, Still
<1> QED BY <1>1, <1>2, <1>3, <1>4, <1>5, <1>6, <1>7 DEF Next

LEMMA BaseInit == Init => Base
<1> SUFFICES ASSUME Init PROVE Base OBVIOUS
<1>1. ProcsOK BY IdleOK DEF Init, ProcsOK
<1>2. Excl BY DEF Init, Excl, Idle
<1>3. TodoOK BY ScenariosAssumption DEF Init, TodoOK
<1> QED BY <1>1, <1>2, <1>3 DEF Base

LEMMA BaseStep == Base /\ [Next]_vars => Base'
<1> SUFFICES ASSUME Base, [Next]_vars PROVE Base' OBVIOUS
<1>1. CASE Still BY <1>1 DEF Still, Base, ProcsOK, Excl, TodoOK
<1> QED BY <1>1, StepCases, MovesBase

(* The fields of a process after its step.                                 *)
LEMMA AfterGoto ==
  ASSUME Base, NEW p \in Proc, NEW at, NEW mem, Continue(p, Goto(p, at, mem))
  PROVE  /\ proc'[p].at = at /\ proc'[p].mem = mem /\ proc'[p].cmd = proc[p].cmd
         /\ proc'[p].on = proc[p].on /\ proc'[p].to = proc[p].to /\ proc'[p].rest = proc[p].rest
<1>1. proc'[p] = Goto(p, at, mem) /\ DOMAIN proc[p] = ProcFields BY DEF Continue, Step, Base, ProcsOK, ProcOK
<1> QED BY <1>1 DEF Goto, ProcFields

LEMMA AfterReturn ==
  ASSUME Base, NEW p \in Proc, ~At(p, "idle"), proc[p].to = {} \/ proc[p].rest # <<>>, Continue(p, Return(p))
  PROVE  /\ proc'[p] = Return(p)
         /\ proc[p].rest = <<>> => proc'[p] = Idle
         /\ proc[p].rest # <<>> => /\ proc'[p].at = Head(proc[p].rest) /\ proc'[p].cmd = proc[p].cmd
                                   /\ proc'[p].to = proc[p].to
         /\ proc'[p].on = NoRow
<1>1. proc'[p] = Return(p) /\ DOMAIN proc[p] = ProcFields /\ ProcOK(proc[p])
  BY DEF Continue, Step, Base, ProcsOK, ProcOK
<1>2. Return(p).on = NoRow BY <1>1 DEF Return, ProcFields, Idle
<1> QED BY <1>1, <1>2, ReturnOK DEF At

LEMMA AfterBegin ==
  ASSUME Base, NEW p \in Proc, NEW c, NEW at, NEW on, NEW mem, NEW rest, Begin(p, c, at, on, mem, rest)
  PROVE  /\ proc[p] = Idle /\ proc[p].on = NoRow
         /\ proc'[p].at = at /\ proc'[p].cmd = c /\ proc'[p].on = on /\ proc'[p].mem = mem
         /\ proc'[p].rest = rest /\ proc'[p].to = {}
         /\ \A q \in Proc \ {p} : proc'[q] = proc[q]
         /\ on # NoRow => \A q \in Proc \ {p} : proc[q].on = on => on \in tainted'
<1> DEFINE t == [Idle EXCEPT !.at = at, !.cmd = c, !.on = on, !.mem = mem, !.rest = rest]
<1>1. proc'[p] = t /\ proc[p] = Idle /\ \A q \in Proc \ {p} : proc'[q] = proc[q]
  BY DEF Begin, Step, Base, ProcsOK, ProcOK, At
<1>2. t.at = at /\ t.cmd = c /\ t.on = on /\ t.mem = mem /\ t.rest = rest /\ t.to = {} /\ Idle.on = NoRow
  BY DEF Idle
<1>3. tainted' = tainted \cup {proc[q].on : q \in {o \in Proc \ {p} : t.on # NoRow /\ proc[o].on = t.on}}
  BY DEF Begin, Step
<1> HIDE DEF t
<1>4. ASSUME on # NoRow, NEW q \in Proc \ {p}, proc[q].on = on PROVE on \in tainted' BY <1>2, <1>3, <1>4
<1> QED BY <1>1, <1>2, <1>4

(* A step of another group touches neither the table a row is of nor the   *)
(* commands at work on it.                                                 *)
LEMMA UpdatingSame ==
  ASSUME Base, NEW p \in Proc, Moves(p), NEW row, proc[p].on # row, proc'[p].on # row
  PROVE  /\ Updating(row)' <=> Updating(row)
         /\ \A q \in Proc : proc'[q].on = row => proc[q].on = row /\ proc'[q] = proc[q] /\ q # p
  BY DEF Moves, Updating

(* The one command at work on a row nobody disturbed.                      *)
LEMMA OnlyUpdater ==
  ASSUME Base, NEW p \in Proc, proc[p].on # NoRow, proc[p].on \notin tainted, NEW q \in Proc,
         proc[q].on = proc[p].on
  PROVE  q = p BY DEF Base, Excl
-----------------------------------------------------------------------------
(* What a role history says of an identity after one more row.             *)
LEMMA TellsOther ==
  ASSUME NEW h \in Seq(RoleChange), NEW e \in RoleChange, NEW who, e.who # who, NEW role, Tells(h, who, role)
  PROVE  Tells(Append(h, e), who, role)
<1> DEFINE g == Append(h, e)
<1>1. Len(h) \in Nat /\ Len(g) = Len(h) + 1 /\ DOMAIN g = 1 .. Len(h) + 1 /\ DOMAIN h = 1 .. Len(h)
      /\ g[Len(h) + 1] = e /\ \A i \in 1 .. Len(h) : g[i] = h[i] OBVIOUS
<1> HIDE DEF g
<1>2. ASSUME NEW n \in 0 .. Len(h), NEW r, Leaves(h, n, who, r) PROVE Leaves(g, n, who, r)
  BY <1>1, <1>2 DEF Leaves
<1>3. Leaves(g, Len(h) + 1, who, role)
  <2>1. Leaves(g, Len(h), who, role) BY <1>1, <1>2 DEF Tells
  <2>2. g[Len(h) + 1].who # who BY <1>1
  <2> QED BY <1>1, <2>1, <2>2 DEF Leaves
<1>4. ASSUME NEW n \in DOMAIN g, g[n].who = who PROVE Leaves(g, n - 1, who, g[n].old)
  <2>1. n \in DOMAIN h /\ g[n] = h[n] BY <1>1, <1>4
  <2>2. Leaves(h, n - 1, who, h[n].old) /\ n - 1 \in 0 .. Len(h) BY <1>1, <1>4, <2>1 DEF Tells
  <2> QED BY <1>2, <2>1, <2>2
<1>5. Tells(g, who, role) BY <1>1, <1>3, <1>4 DEF Tells
<1> QED BY <1>5 DEF g

LEMMA TellsMore ==
  ASSUME NEW h \in Seq(RoleChange), NEW e \in RoleChange, Tells(h, e.who, e.old)
  PROVE  Tells(Append(h, e), e.who, After(e.new))
<1> DEFINE g == Append(h, e)
<1>1. Len(h) \in Nat /\ Len(g) = Len(h) + 1 /\ DOMAIN g = 1 .. Len(h) + 1 /\ DOMAIN h = 1 .. Len(h)
      /\ g[Len(h) + 1] = e /\ \A i \in 1 .. Len(h) : g[i] = h[i] OBVIOUS
<1> HIDE DEF g
<1>2. ASSUME NEW n \in 0 .. Len(h), NEW r, Leaves(h, n, e.who, r) PROVE Leaves(g, n, e.who, r)
  BY <1>1, <1>2 DEF Leaves
<1>3. Leaves(g, Len(h) + 1, e.who, After(e.new)) BY <1>1 DEF Leaves
<1>4. ASSUME NEW n \in DOMAIN g, g[n].who = e.who PROVE Leaves(g, n - 1, e.who, g[n].old)
  <2>1. CASE n = Len(h) + 1 BY <1>1, <1>2, <2>1 DEF Tells
  <2>2. CASE n # Len(h) + 1
    <3>1. n \in DOMAIN h /\ g[n] = h[n] BY <1>1, <1>4, <2>2
    <3>2. Leaves(h, n - 1, e.who, h[n].old) /\ n - 1 \in 0 .. Len(h) BY <1>1, <1>4, <3>1 DEF Tells
    <3> QED BY <1>2, <3>1, <3>2
  <2> QED BY <2>1, <2>2
<1>5. Tells(g, e.who, After(e.new)) BY <1>1, <1>3, <1>4 DEF Tells
<1> QED BY <1>5 DEF g
-----------------------------------------------------------------------------
(* Roles.  What the history says of an identity whose row nobody disturbed *)
(* is the role it has, or the one the command at work on it has read.      *)
RoleStory(who) ==
  /\ ~Updating(RoleRow(who)) => Tells(roleHistory, who, Assigned(who))
  /\ \A p \in Proc : proc[p].on = RoleRow(who) =>
       /\ Tells(roleHistory, who, Mem(p))
       /\ proc[p].at \in {"assign.write", "revoke.delete"} => Assigned(who) = Mem(p)
       /\ proc[p].at = "assign.log" => Assigned(who) = Cmd(p).role
       /\ proc[p].at = "revoke.log" => Assigned(who) = None

RolesOK ==
  /\ \A w \in DOMAIN roles : w \in Person /\ roles[w].role \in Role
  /\ \A p \in Proc : proc[p].at \in RbacLabels \ {"idle"} => Mem(p) \in Role \cup {None}

RoleInv ==
  /\ roleHistory \in Seq(RoleChange)
  /\ RolesOK
  /\ \A who \in Person : RoleRow(who) \notin tainted => RoleStory(who)

LEMMA RoleRowAt ==
  ASSUME Base, NEW p \in Proc, NEW who
  PROVE  proc[p].on = RoleRow(who) <=> proc[p].at \in RbacLabels \ {"idle"} /\ Cmd(p).who = who
<1>1. proc[p].on = RowAt(proc[p].at, Cmd(p), Mem(p)) BY DEF Base, ProcsOK, ProcOK, Cmd, Mem
<1> QED BY <1>1 DEF RowAt, RoleRow, RequestRow, ReviewRow, Outbox, AgentRow, CostRow, NoRow, RbacLabels

(* A step by others on an identity's row.                                  *)
LEMMA StoryKept ==
  ASSUME Base, NEW who, RoleStory(who), NEW p \in Proc, Moves(p),
         proc[p].on # RoleRow(who), proc'[p].on # RoleRow(who), Assigned(who)' = Assigned(who),
         \A r : Tells(roleHistory, who, r) => Tells(roleHistory', who, r)
  PROVE  RoleStory(who)'
<1>1. /\ Updating(RoleRow(who))' <=> Updating(RoleRow(who))
      /\ \A q \in Proc : proc'[q].on = RoleRow(who) => proc[q].on = RoleRow(who) /\ proc'[q] = proc[q] /\ q # p
  BY UpdatingSame
<1> QED BY <1>1 DEF RoleStory, Mem, Cmd

LEMMA RolesElsewhere ==
  ASSUME Base, RoleInv, Base', NEW p \in Proc, Moves(p),
         proc[p].at \notin RbacLabels \ {"idle"}, proc'[p].at \notin RbacLabels \ {"idle"},
         UNCHANGED <<roles, roleHistory>>
  PROVE  RoleInv'
<1>1. RolesOK' BY DEF RoleInv, RolesOK, Moves, Mem
<1>2. ASSUME NEW who \in Person, RoleRow(who) \notin tainted' PROVE RoleStory(who)'
  <2>1. RoleRow(who) \notin tainted /\ RoleStory(who) BY <1>2 DEF Moves, RoleInv
  <2>2. proc[p].on # RoleRow(who) BY RoleRowAt
  <2>3. proc'[p].on # RoleRow(who)
    <3>1. proc'[p].on = RowAt(proc'[p].at, proc'[p].cmd, proc'[p].mem) BY DEF Moves, ProcOK
    <3> QED BY <3>1 DEF RowAt, RoleRow, RequestRow, ReviewRow, Outbox, AgentRow, CostRow, NoRow, RbacLabels
  <2> QED BY <2>1, <2>2, <2>3, StoryKept DEF Assigned
<1> QED BY <1>1, <1>2 DEF RoleInv

LEMMA AssignReadKeeps ==
  ASSUME Base, RoleInv, NEW p \in Proc, NEW c \in todo, Moves(p),
         c.op \in {"assign", "revoke"}, NEW at \in {"assign.write", "revoke.delete"},
         Begin(p, c, at, RoleRow(c.who), Assigned(c.who), <<>>), UNCHANGED <<roles, roleHistory>>
  PROVE  RoleInv'
<1>1. /\ proc[p].on = NoRow /\ proc'[p].at = at /\ proc'[p].cmd = c /\ proc'[p].on = RoleRow(c.who)
      /\ proc'[p].mem = Assigned(c.who) /\ \A q \in Proc \ {p} : proc'[q] = proc[q]
      /\ \A q \in Proc \ {p} : proc[q].on = RoleRow(c.who) => RoleRow(c.who) \in tainted'
  BY AfterBegin DEF RoleRow, NoRow
<1>2. c.who \in Person BY DEF Base, TodoOK, CommandOK
<1>3. RolesOK'
  <2>1. Assigned(c.who) \in Role \cup {None} BY DEF RoleInv, RolesOK, Assigned
  <2> QED BY <1>1, <2>1 DEF RoleInv, RolesOK, Mem
<1>4. ASSUME NEW who \in Person, RoleRow(who) \notin tainted' PROVE RoleStory(who)'
  <2>1. RoleRow(who) \notin tainted /\ RoleStory(who) BY <1>4 DEF Moves, RoleInv
  <2>2. CASE who # c.who
    <3>1. RoleRow(who) # RoleRow(c.who) /\ RoleRow(who) # NoRow BY <2>2 DEF RoleRow, NoRow
    <3> QED BY <1>1, <2>1, <3>1, StoryKept DEF Assigned
  <2>3. CASE who = c.who
    <3>1. ~Updating(RoleRow(who)) BY <1>1, <1>4, <2>3 DEF Updating, RoleRow, NoRow
    <3>2. Tells(roleHistory, who, Assigned(who)) BY <2>1, <3>1 DEF RoleStory
    <3>3. Updating(RoleRow(who))' /\ Assigned(who)' = Assigned(who) BY <1>1, <2>3 DEF Updating, Assigned
    <3>4. ASSUME NEW q \in Proc, proc'[q].on = RoleRow(who) PROVE q = p BY <1>1, <3>1, <3>4 DEF Updating
    <3> QED BY <1>1, <2>3, <3>2, <3>3, <3>4 DEF RoleStory, Mem
  <2> QED BY <2>2, <2>3
<1> QED BY <1>3, <1>4 DEF RoleInv

(* The table is written: the role is the one the command gives, or none.   *)
LEMMA RoleWriteKeeps ==
  ASSUME Base, RoleInv, NEW p \in Proc, Moves(p), AssignWrite(p) \/ RevokeDelete(p)
  PROVE  RoleInv'
<1> DEFINE who == Cmd(p).who
<1>1. /\ At(p, "assign.write") => /\ Continue(p, Goto(p, "assign.log", Mem(p)))
                                  /\ roles' = Replaced(roles, who, [role |-> Cmd(p).role, expires |-> Cmd(p).expires])
      /\ ~At(p, "assign.write") => /\ At(p, "revoke.delete") /\ Continue(p, Goto(p, "revoke.log", Mem(p)))
                                   /\ roles' = [w \in DOMAIN roles \ {who} |-> roles[w]]
      /\ roleHistory' = roleHistory BY DEF AssignWrite, RevokeDelete, At
<1>2. /\ proc'[p].cmd = Cmd(p) /\ proc'[p].mem = Mem(p) /\ proc'[p].on = proc[p].on
      /\ At(p, "assign.write") => proc'[p].at = "assign.log"
      /\ ~At(p, "assign.write") => proc'[p].at = "revoke.log" BY <1>1, AfterGoto DEF Cmd
<1>3. proc[p].on = RoleRow(who) /\ RoleRow(who) # NoRow BY <1>1, RoleRowAt DEF At, RbacLabels, RoleRow, NoRow
<1>4. /\ CommandOK(Cmd(p)) /\ proc[p].at \in LabelsOf(Cmd(p).op) BY <1>1, OpOf DEF At
<1>5. At(p, "assign.write") => Cmd(p).op = "assign" BY <1>4 DEF LabelsOf, At
<1>6. ~At(p, "assign.write") => Cmd(p).op = "revoke" BY <1>1, <1>4 DEF LabelsOf, At
<1>7. who \in Person /\ (At(p, "assign.write") => Cmd(p).role \in Role) BY <1>4, <1>5, <1>6 DEF CommandOK
<1>8. RolesOK'
  <2>1. \A w \in DOMAIN roles' : w \in Person /\ roles'[w].role \in Role
    BY <1>1, <1>7 DEF RoleInv, RolesOK, Replaced
  <2>2. \A q \in Proc : proc'[q].at \in RbacLabels \ {"idle"} => proc'[q].mem \in Role \cup {None}
    BY <1>1, <1>2 DEF RoleInv, RolesOK, Mem, Moves, RbacLabels, At
  <2> QED BY <2>1, <2>2 DEF RolesOK, Mem
<1> HIDE DEF who
<1>9. ASSUME NEW w \in Person, RoleRow(w) \notin tainted' PROVE RoleStory(w)'
  <2>1. RoleRow(w) \notin tainted /\ RoleStory(w) BY <1>9 DEF Moves, RoleInv
  <2>2. CASE w # who
    <3>1. RoleRow(w) # RoleRow(who) BY <2>2 DEF RoleRow
    <3>2. Assigned(w)' = Assigned(w) BY <1>1, <2>2 DEF Assigned, Replaced
    <3> QED BY <1>1, <1>2, <1>3, <2>1, <3>1, <3>2, StoryKept
  <2>3. CASE w = who
    <3>1. \A q \in Proc : proc'[q].on = RoleRow(w) => q = p BY <1>2, <1>3, <2>1, <2>3, OnlyUpdater DEF Moves
    <3>2. Updating(RoleRow(w))' BY <1>2, <1>3, <2>3 DEF Updating
    <3>3. Tells(roleHistory, w, Mem(p)) BY <1>3, <2>1, <2>3 DEF RoleStory
    <3>4. /\ At(p, "assign.write") => Assigned(w)' = Cmd(p).role
          /\ ~At(p, "assign.write") => Assigned(w)' = None BY <1>1, <2>3 DEF Assigned, Replaced
    <3> QED BY <1>1, <1>2, <3>1, <3>2, <3>3, <3>4 DEF RoleStory, Mem, Cmd
  <2> QED BY <2>2, <2>3
<1> QED BY <1>1, <1>8, <1>9 DEF RoleInv

(* The change is logged: the history tells the role again.                 *)
LEMMA RoleLogKeeps ==
  ASSUME Base, RoleInv, NEW p \in Proc, Moves(p), AssignLog(p) \/ RevokeLog(p)
  PROVE  RoleInv'
<1> DEFINE who == Cmd(p).who
           new == IF At(p, "assign.log") THEN Cmd(p).role ELSE Revoked
           row == [who |-> who, old |-> Mem(p), new |-> new]
<1>1. /\ At(p, "assign.log") \/ At(p, "revoke.log")
      /\ Continue(p, Return(p)) /\ roles' = roles /\ roleHistory' = Append(roleHistory, row)
  BY DEF AssignLog, RevokeLog, At
<1>2. /\ CommandOK(Cmd(p)) /\ proc[p].at \in LabelsOf(Cmd(p).op) /\ proc[p].to = {} BY <1>1, OpOf DEF At
<1>3. proc'[p].on = NoRow /\ proc'[p] = Idle
  <2>1. proc[p].rest = <<>> BY <1>1, <1>2, OpOf DEF RestOf, At
  <2> QED BY <1>1, <1>2, <2>1, AfterReturn DEF At
<1>4. proc[p].on = RoleRow(who) /\ RoleRow(who) # NoRow BY <1>1, RoleRowAt DEF At, RbacLabels, RoleRow, NoRow
<1>5. At(p, "assign.log") => Cmd(p).op = "assign" BY <1>2 DEF LabelsOf, At
<1>6. ~At(p, "assign.log") => Cmd(p).op = "revoke" BY <1>1, <1>2 DEF LabelsOf, At
<1>7. row \in RoleChange
  <2>1. who \in Person /\ new \in Role \cup {Revoked} BY <1>2, <1>5, <1>6 DEF CommandOK
  <2>2. Mem(p) \in Role \cup {None} BY <1>1 DEF RoleInv, RolesOK, RbacLabels, At
  <2> QED BY <2>1, <2>2 DEF RoleChange
<1>8. After(new) = IF At(p, "assign.log") THEN Cmd(p).role ELSE None
  BY <1>2, <1>5 DEF After, CommandOK, Role, Rank, Revoked
<1>9. row.who = who /\ row.old = Mem(p) /\ row.new = new OBVIOUS
<1> HIDE DEF row, new, who
<1>10. RolesOK' BY <1>1, <1>3 DEF RoleInv, RolesOK, Mem, Moves, RbacLabels, Idle
<1>11. ASSUME NEW w \in Person, RoleRow(w) \notin tainted' PROVE RoleStory(w)'
  <2>1. RoleRow(w) \notin tainted /\ RoleStory(w) BY <1>11 DEF Moves, RoleInv
  <2>2. CASE w # who
    <3>1. RoleRow(w) # RoleRow(who) /\ NoRow # RoleRow(w) BY <2>2 DEF RoleRow, NoRow
    <3>2. \A r : Tells(roleHistory, w, r) => Tells(roleHistory', w, r)
      BY <1>1, <1>7, <1>9, <2>2, TellsOther DEF RoleInv
    <3> QED BY <1>1, <1>3, <1>4, <2>1, <3>1, <3>2, StoryKept DEF Assigned
  <2>3. CASE w = who
    <3>1. \A q \in Proc : proc'[q].on # RoleRow(w) BY <1>3, <1>4, <2>1, <2>3, OnlyUpdater DEF Moves
    <3>2. Tells(roleHistory, who, Mem(p)) BY <1>4, <2>1, <2>3 DEF RoleStory
    <3>3. Tells(roleHistory', who, After(new)) BY <1>1, <1>7, <1>9, <3>2, TellsMore DEF RoleInv
    <3>4. Assigned(w) = After(new) BY <1>1, <1>4, <1>8, <2>1, <2>3 DEF RoleStory, At
    <3>5. Assigned(w)' = After(new) BY <1>1, <3>4 DEF Assigned
    <3> QED BY <2>3, <3>1, <3>3, <3>5 DEF RoleStory
  <2> QED BY <2>2, <2>3
<1>12. roleHistory' \in Seq(RoleChange) BY <1>1, <1>7 DEF RoleInv
<1> QED BY <1>10, <1>11, <1>12 DEF RoleInv

(* Steps that touch neither the roles nor their history.                   *)
LEMMA RolesStill ==
  ASSUME RoleInv, UNCHANGED <<roles, roleHistory, proc, tainted>>
  PROVE  RoleInv' BY DEF RoleInv, RolesOK, RoleStory, Updating, Assigned, Mem, Cmd

LEMMA RolesMoved ==
  ASSUME Base, RoleInv, NEW p \in Proc, RbacMove(p), Moves(p)
  PROVE  RoleInv'
<1>1. CASE RbacStep(p) BY <1>1, RoleWriteKeeps, RoleLogKeeps DEF RbacStep
<1>2. ASSUME NEW c \in todo, RbacBegin(p, c) PROVE RoleInv'
  <2>1. CASE AssignRead(p, c) BY <2>1, AssignReadKeeps DEF AssignRead, rbacVars
  <2>2. CASE RevokeRead(p, c)
    <3>1. CASE Only(p, c) BY <2>2, <3>1, RolesStill DEF RevokeRead, Only, rbacVars
    <3>2. CASE ~Only(p, c) BY <2>2, <3>2, AssignReadKeeps DEF RevokeRead, rbacVars
    <3> QED BY <3>1, <3>2
  <2>3. CASE Protect(p, c) BY <2>3, RolesStill DEF Protect, Only
  <2> QED BY <1>2, <2>1, <2>2, <2>3 DEF RbacBegin
<1> QED BY <1>1, <1>2 DEF RbacMove

(* A command that dies taints its row.                                     *)
LEMMA RolesDie ==
  ASSUME Base, RoleInv, NEW p \in Proc, Moves(p), proc'[p] = Idle,
         proc[p].on # NoRow => proc[p].on \in tainted', UNCHANGED <<roles, roleHistory>>
  PROVE  RoleInv'
<1>1. RolesOK' BY DEF RoleInv, RolesOK, Moves, Mem, RbacLabels, Idle
<1>2. ASSUME NEW who \in Person, RoleRow(who) \notin tainted' PROVE RoleStory(who)'
  <2>1. RoleRow(who) \notin tainted /\ RoleStory(who) BY <1>2 DEF Moves, RoleInv
  <2>2. proc[p].on # RoleRow(who) /\ proc'[p].on # RoleRow(who) BY <1>2 DEF RoleRow, NoRow, Idle
  <2> QED BY <2>1, <2>2, StoryKept DEF Assigned
<1> QED BY <1>1, <1>2 DEF RoleInv

LEMMA RoleStep == Base /\ RoleInv /\ [Next]_vars => RoleInv'
<1> SUFFICES ASSUME Base, RoleInv, [Next]_vars PROVE RoleInv' OBVIOUS
<1>1. Base' BY BaseStep
<1>2. CASE Still BY <1>2, RolesStill DEF Still, rbacVars
<1>3. ASSUME NEW p \in Proc, Moved(p), Moves(p) PROVE RoleInv'
  <2>1. CASE RbacMove(p) BY <1>3, <2>1, RolesMoved
  <2>2. CASE DieMove(p) /\ proc'[p] = Idle /\ (proc[p].on # NoRow => proc[p].on \in tainted')
    BY <1>3, <2>2, RolesDie DEF DieMove, rbacVars
  <2>3. CASE /\ UNCHANGED rbacVars
             /\ proc[p].at \notin RbacLabels \ {"idle"} /\ proc'[p].at \notin RbacLabels \ {"idle"}
    BY <1>1, <1>3, <2>3, RolesElsewhere DEF rbacVars
  <2>4. \A labels \in {RequestLabels, DecideLabels, MergeLabels, EmitLabels, DispatchLabels, TrustLabels,
                       CostLabels, DetectLabels, {"suggest", "request"}} : labels \cap RbacLabels \subseteq {"idle"}
    BY DEF RbacLabels, RequestLabels, DecideLabels, MergeLabels, EmitLabels, DispatchLabels, TrustLabels,
           CostLabels, DetectLabels
  <2>5. \/ RbacMove(p)
        \/ DieMove(p) /\ proc'[p] = Idle /\ (proc[p].on # NoRow => proc[p].on \in tainted')
        \/ /\ UNCHANGED rbacVars
           /\ \E labels \in {RequestLabels, DecideLabels, MergeLabels, EmitLabels, DispatchLabels, TrustLabels,
                             CostLabels, DetectLabels, {"suggest", "request"}} :
                proc[p].at \in labels /\ proc'[p].at \in labels
    BY <1>3 DEF Moved, MovesIn, RequestMove, DecideMove, MergeMove, EmitMove, DispatchMove, TrustMove,
                CostMove, DetectMove, SuggestMove
  <2> QED BY <2>1, <2>2, <2>3, <2>4, <2>5
<1> QED BY <1>2, <1>3, StepCases

LEMMA RoleInit == Init => RoleInv
<1> SUFFICES ASSUME Init PROVE RoleInv OBVIOUS
<1>1. PICK s \in Scenarios : roles = s.roles /\ roleHistory = s.roleHistory /\ proc = [p \in Proc |-> Idle]
  BY DEF Init
<1>2. TablesOK(s) BY ScenariosAssumption
<1>3. RolesOK BY <1>1, <1>2 DEF RolesOK, TablesOK, RbacLabels, Idle
<1>4. ASSUME NEW who \in Person PROVE RoleStory(who)
  <2>1. Tells(roleHistory, who, Assigned(who)) BY <1>1, <1>2 DEF TablesOK, Assigned
  <2> QED BY <1>1, <2>1 DEF RoleStory, Idle, RoleRow, NoRow
<1> QED BY <1>1, <1>2, <1>3, <1>4 DEF RoleInv, TablesOK

LEMMA RolesTold == RoleInv => HistoryTellsRoles BY DEF RoleInv, RoleStory, HistoryTellsRoles
-----------------------------------------------------------------------------
(* The least number of a set.                                              *)
LEMMA MinOf ==
  ASSUME NEW S \in SUBSET Nat, S # {}
  PROVE  Min(S) \in S /\ \A x \in S : Min(S) <= x
<1> DEFINE R == OpToRel(<, Nat)
<1>1. PICK m \in S : \A k \in S : <<k, m>> \notin R
  <2>1. IsWellFoundedOn(R, Nat) BY NatLessThanWellFounded
  <2> HIDE DEF R
  <2> QED BY <2>1, WFMin
<1>2. ASSUME NEW k \in S, k < m PROVE FALSE
  <2>1. <<k, m>> \in R BY <1>2 DEF OpToRel
  <2> QED BY <2>1, <1>1
<1>3. \A k \in S : m <= k BY <1>2
<1> QED BY <1>3 DEF Min

-----------------------------------------------------------------------------
(* Reviews: which commands have which row in hand.                         *)
LEMMA ReviewRowsAt ==
  ASSUME NEW s, ProcOK(s)
  PROVE  /\ \A cs : s.on = RequestRow(cs) <=> s.at = "request.insert" /\ s.cmd.cs = cs
         /\ \A r : s.on = ReviewRow(r) <=> \/ s.at \in {"decide.put", "decide.fold"} /\ s.mem = r
                                           \/ s.at \in {"decide.write", "merge.write"} /\ s.mem.review = r
<1>1. s.on = RowAt(s.at, s.cmd, s.mem) BY DEF ProcOK
<1> QED BY <1>1 DEF RowAt, RoleRow, RequestRow, ReviewRow, Outbox, AgentRow, CostRow, NoRow

ReviewInner == (DecideLabels \cup MergeLabels \cup {"request.insert"}) \ {"idle", "emit"}

(* Steps by others: the tables stay, a command at work on them died.       *)
ReviewsElsewhere(p) ==
  /\ UNCHANGED reviewVars /\ proc'[p].at \notin ReviewInner
  /\ proc[p].on # NoRow => proc[p].at \notin ReviewInner \/ proc[p].on \in tainted'

LEMMA ReviewCases ==
  ASSUME Base, [Next]_vars
  PROVE  \/ Still
         \/ \E p \in Proc : /\ Moves(p)
                            /\ \/ RequestMove(p) /\ MovesIn(p, RequestLabels)
                               \/ DecideMove(p) /\ MovesIn(p, DecideLabels)
                               \/ MergeMove(p) /\ MovesIn(p, MergeLabels)
                               \/ ReviewsElsewhere(p)
<1>1. SUFFICES ASSUME NEW p \in Proc, Moved(p), Moves(p)
               PROVE  \/ RequestMove(p) /\ MovesIn(p, RequestLabels)
                      \/ DecideMove(p) /\ MovesIn(p, DecideLabels)
                      \/ MergeMove(p) /\ MovesIn(p, MergeLabels)
                      \/ ReviewsElsewhere(p) BY StepCases
<1>2. \A labels \in {RbacLabels, EmitLabels, DispatchLabels, TrustLabels,
                     CostLabels, DetectLabels, {"suggest", "request"}} : labels \cap ReviewInner = {}
  BY DEF RbacLabels, ReviewInner, DecideLabels, MergeLabels, EmitLabels, DispatchLabels, TrustLabels,
         CostLabels, DetectLabels
<1>3. \/ RequestMove(p) /\ MovesIn(p, RequestLabels)
      \/ DecideMove(p) /\ MovesIn(p, DecideLabels)
      \/ MergeMove(p) /\ MovesIn(p, MergeLabels)
      \/ DieMove(p) /\ proc'[p] = Idle /\ (proc[p].on # NoRow => proc[p].on \in tainted')
      \/ /\ UNCHANGED reviewVars
         /\ \E labels \in {RbacLabels, EmitLabels, DispatchLabels, TrustLabels,
                           CostLabels, DetectLabels, {"suggest", "request"}} :
              proc[p].at \in labels /\ proc'[p].at \in labels
  BY <1>1 DEF Moved, MovesIn, RbacMove, EmitMove, DispatchMove, TrustMove, CostMove, DetectMove, SuggestMove
<1>4. CASE DieMove(p) /\ proc'[p] = Idle /\ (proc[p].on # NoRow => proc[p].on \in tainted')
  BY <1>4 DEF DieMove, ReviewsElsewhere, Idle, ReviewInner
<1>5. CASE /\ UNCHANGED reviewVars
           /\ \E labels \in {RbacLabels, EmitLabels, DispatchLabels, TrustLabels,
                             CostLabels, DetectLabels, {"suggest", "request"}} :
                proc[p].at \in labels /\ proc'[p].at \in labels BY <1>2, <1>5 DEF ReviewsElsewhere
<1> QED BY <1>3, <1>4, <1>5

(* What the steps of a request, a decision and a merge do to the command.  *)
LEMMA RequestDoes ==
  ASSUME Base, NEW p \in Proc, RequestMove(p), Moves(p)
  PROVE  \/ /\ UNCHANGED reviewVars /\ proc'[p].at = "request.insert" /\ ByChangeset(proc'[p].cmd.cs) = 0
            /\ proc[p].on = NoRow
         \/ UNCHANGED reviewVars /\ proc'[p].at \in {"idle", "emit"} /\ proc[p].on = NoRow
         \/ /\ At(p, "request.insert") /\ UNCHANGED decisions /\ proc'[p].at \in {"idle", "emit"}
            /\ reviews' = Append(reviews, [cs |-> Cmd(p).cs, status |-> "pending"])
<1>1. ASSUME NEW c \in todo, Request(p, c)
      PROVE  /\ UNCHANGED reviewVars /\ proc[p].on = NoRow
             /\ \/ proc'[p].at = "request.insert" /\ ByChangeset(proc'[p].cmd.cs) = 0
                \/ proc'[p].at = "idle"
  <2>1. CASE ByChangeset(c.cs) # 0
    <3>1. Only(p, c) /\ UNCHANGED reviewVars BY <1>1, <2>1 DEF Request
    <3>2. proc[p] = Idle /\ proc'[p] = Idle BY <3>1 DEF Only, At, Base, ProcsOK, ProcOK
    <3> QED BY <3>1, <3>2 DEF Idle
  <2>2. CASE ByChangeset(c.cs) = 0
    <3>1. Begin(p, c, "request.insert", RequestRow(c.cs), None, <<>>) /\ UNCHANGED reviewVars
      BY <1>1, <2>2 DEF Request
    <3>2. proc[p].on = NoRow /\ proc'[p].at = "request.insert" /\ proc'[p].cmd = c BY <3>1, AfterBegin
    <3> QED BY <2>2, <3>1, <3>2
  <2> QED BY <2>1, <2>2
<1>2. ASSUME RequestFor(p, Cmd(p).cs)
      PROVE  /\ UNCHANGED reviewVars /\ proc[p].on = NoRow
             /\ \/ proc'[p].at = "request.insert" /\ ByChangeset(proc'[p].cmd.cs) = 0
                \/ proc'[p].at = "emit"
  <2>1. /\ At(p, "request") /\ UNCHANGED reviewVars
        /\ ByChangeset(Cmd(p).cs) # 0 => Continue(p, Return(p))
        /\ ByChangeset(Cmd(p).cs) = 0 =>
             Continue(p, [Goto(p, "request.insert", None) EXCEPT !.on = RequestRow(Cmd(p).cs)])
    BY <1>2 DEF RequestFor
  <2>2. proc[p].rest = <<"emit">> /\ DOMAIN proc[p] = ProcFields /\ proc[p].on = NoRow
    BY <2>1, OpOf DEF LabelsOf, RestOf, RowAt
  <2>3. CASE ByChangeset(Cmd(p).cs) # 0
    <3>1. proc[p].rest # <<>> /\ Head(proc[p].rest) = "emit" BY <2>2
    <3> QED BY <2>1, <2>2, <2>3, <3>1, AfterReturn DEF At
  <2>4. CASE ByChangeset(Cmd(p).cs) = 0
    <3> DEFINE s == [Goto(p, "request.insert", None) EXCEPT !.on = RequestRow(Cmd(p).cs)]
    <3>1. proc'[p] = s BY <2>1, <2>4 DEF Continue, Step, Base, ProcsOK
    <3>2. s.at = "request.insert" /\ s.cmd = Cmd(p) BY <2>2 DEF Goto, Cmd, ProcFields
    <3> QED BY <2>1, <2>2, <2>4, <3>1, <3>2
  <2> QED BY <2>3, <2>4
<1>3. ASSUME RequestInsert(p)
      PROVE  /\ At(p, "request.insert") /\ UNCHANGED decisions /\ proc'[p].at \in {"idle", "emit"}
             /\ reviews' = Append(reviews, [cs |-> Cmd(p).cs, status |-> "pending"])
  <2>1. At(p, "request.insert") /\ Continue(p, Return(p)) BY <1>3 DEF RequestInsert
  <2>2. proc[p].rest = <<"emit">> \/ (proc[p].rest = <<>> /\ proc[p].to = {}) BY <2>1, OpOf DEF LabelsOf, RestOf
  <2>3. proc'[p].at \in {"idle", "emit"} BY <2>1, <2>2, AfterReturn DEF At, Idle
  <2> QED BY <1>3, <2>1, <2>3 DEF RequestInsert
<1> QED BY <1>1, <1>2, <1>3 DEF RequestMove

LEMMA DecideDoes ==
  ASSUME Base, NEW p \in Proc, DecideMove(p), Moves(p)
  PROVE  \/ /\ UNCHANGED <<reviews, decisions>> /\ proc[p].on = NoRow /\ proc'[p].at = "decide.put"
            /\ proc'[p].mem = ByChangeset(proc'[p].cmd.cs) /\ proc'[p].mem # 0
            /\ reviews[proc'[p].mem].status # "merged"
         \/ UNCHANGED <<reviews, decisions, proc, tainted>>
         \/ /\ At(p, "decide.put") /\ proc'[p].at = "decide.fold" /\ proc'[p].mem = Mem(p) /\ UNCHANGED reviews
            /\ decisions' = Replaced(decisions, <<Mem(p), Cmd(p).by>>,
                                   [decision |-> Cmd(p).decision, human |-> Cmd(p).human])
         \/ /\ At(p, "decide.fold") /\ proc'[p].at = "decide.write" /\ UNCHANGED <<reviews, decisions>>
            /\ proc'[p].mem = [review |-> Mem(p), status |-> Recompute(Mem(p))]
         \/ /\ At(p, "decide.write") /\ proc'[p].at = "emit" /\ proc'[p].on = NoRow /\ UNCHANGED decisions
            /\ reviews' = [reviews EXCEPT ![Mem(p).review].status = Mem(p).status]
<1>1. ASSUME NEW c \in todo, Decide(p, c)
      PROVE  \/ /\ UNCHANGED <<reviews, decisions>> /\ proc[p].on = NoRow /\ proc'[p].at = "decide.put"
                /\ proc'[p].mem = ByChangeset(proc'[p].cmd.cs) /\ proc'[p].mem # 0
                /\ reviews[proc'[p].mem].status # "merged"
             \/ UNCHANGED <<reviews, decisions, proc, tainted>>
  <2> DEFINE r == ByChangeset(c.cs)
  <2>1. UNCHANGED <<reviews, decisions>> BY <1>1 DEF Decide, reviewVars
  <2>2. CASE Only(p, c) BY <2>1, <2>2 DEF Only
  <2>3. CASE ~Only(p, c)
    <3>1. r # 0 /\ reviews[r].status # "merged" /\ Begin(p, c, "decide.put", ReviewRow(r), r, <<"emit">>)
      BY <1>1, <2>3 DEF Decide
    <3>2. proc[p].on = NoRow /\ proc'[p].at = "decide.put" /\ proc'[p].mem = r /\ proc'[p].cmd = c
      BY <3>1, AfterBegin
    <3> QED BY <2>1, <3>1, <3>2
  <2> QED BY <2>2, <2>3
<1>2. ASSUME NEW c \in todo, Comment(p, c) PROVE UNCHANGED <<reviews, decisions, proc, tainted>>
  BY <1>2 DEF Comment, Only
<1>3. ASSUME DecidePut(p)
      PROVE  /\ At(p, "decide.put") /\ proc'[p].at = "decide.fold" /\ proc'[p].mem = Mem(p) /\ UNCHANGED reviews
             /\ decisions' = Replaced(decisions, <<Mem(p), Cmd(p).by>>,
                                    [decision |-> Cmd(p).decision, human |-> Cmd(p).human])
  BY <1>3, AfterGoto DEF DecidePut
<1>4. ASSUME DecideFold(p)
      PROVE  /\ At(p, "decide.fold") /\ proc'[p].at = "decide.write" /\ UNCHANGED <<reviews, decisions>>
             /\ proc'[p].mem = [review |-> Mem(p), status |-> Recompute(Mem(p))]
  <2>1. /\ At(p, "decide.fold") /\ UNCHANGED <<reviews, decisions>>
        /\ Continue(p, Goto(p, "decide.write", [review |-> Mem(p), status |-> Recompute(Mem(p))]))
    BY <1>4 DEF DecideFold, reviewVars
  <2> QED BY <2>1, AfterGoto
<1>5. ASSUME DecideWrite(p)
      PROVE  /\ At(p, "decide.write") /\ proc'[p].at = "emit" /\ proc'[p].on = NoRow /\ UNCHANGED decisions
             /\ reviews' = [reviews EXCEPT ![Mem(p).review].status = Mem(p).status]
  <2>1. At(p, "decide.write") /\ Continue(p, Return(p)) BY <1>5 DEF DecideWrite
  <2>2. proc[p].rest = <<"emit">> /\ proc[p].to = {} BY <2>1, OpOf DEF LabelsOf, RestOf
  <2>3. proc[p].rest # <<>> /\ Head(proc[p].rest) = "emit" BY <2>2
  <2>4. proc'[p].at = "emit" /\ proc'[p].on = NoRow BY <2>1, <2>3, AfterReturn DEF At
  <2> QED BY <1>5, <2>1, <2>4 DEF DecideWrite
<1> QED BY <1>1, <1>2, <1>3, <1>4, <1>5 DEF DecideMove

LEMMA MergeDoes ==
  ASSUME Base, NEW p \in Proc, MergeMove(p), Moves(p)
  PROVE  /\ UNCHANGED decisions
         /\ \/ /\ UNCHANGED reviews /\ proc[p].on = NoRow /\ proc'[p].at = "merge.count"
               /\ proc'[p].mem.review = ByChangeset(proc'[p].cmd.cs) /\ proc'[p].mem.review # 0
               /\ reviews[proc'[p].mem.review].status = "approved"
            \/ UNCHANGED <<reviews, proc, tainted>>
            \/ /\ UNCHANGED reviews /\ proc[p].on = NoRow /\ proc[p].at \in MergeLabels \ {"idle", "merge.write"}
               /\ proc'[p].at \in MergeLabels \ {"merge.write"} /\ proc'[p].on = NoRow
               /\ proc'[p].at # "idle" => proc'[p].mem.review = Mem(p).review
            \/ /\ At(p, "merge.recheck") /\ UNCHANGED reviews /\ proc[p].on = NoRow
               /\ proc'[p].at = "merge.write" /\ proc'[p].mem = Mem(p)
               /\ reviews[Mem(p).review].status = "approved"
            \/ /\ At(p, "merge.write") /\ proc'[p].at = "idle" /\ proc'[p].on = NoRow
               /\ reviews' = [reviews EXCEPT ![Mem(p).review].status = "merged"]
<1> DEFINE R == /\ UNCHANGED <<reviews, decisions>> /\ proc[p].on = NoRow
                /\ proc[p].at \in MergeLabels \ {"idle", "merge.write"}
                /\ proc'[p].at \in MergeLabels \ {"merge.write"} /\ proc'[p].on = NoRow
                /\ proc'[p].at # "idle" => proc'[p].mem.review = Mem(p).review
<1>1. ASSUME NEW c \in todo, Merge(p, c)
      PROVE  \/ /\ UNCHANGED <<reviews, decisions>> /\ proc[p].on = NoRow /\ proc'[p].at = "merge.count"
                /\ proc'[p].mem.review = ByChangeset(proc'[p].cmd.cs) /\ proc'[p].mem.review # 0
                /\ reviews[proc'[p].mem.review].status = "approved"
             \/ UNCHANGED <<reviews, decisions, proc, tainted>>
  <2> DEFINE r == ByChangeset(c.cs)
  <2>1. UNCHANGED <<reviews, decisions>> BY <1>1 DEF Merge, reviewVars
  <2>2. CASE Only(p, c) BY <2>1, <2>2 DEF Only
  <2>3. CASE ~Only(p, c)
    <3>1. r # 0 /\ reviews[r].status = "approved" /\ Begin(p, c, "merge.count", NoRow, [review |-> r], <<>>)
      BY <1>1, <2>3 DEF Merge
    <3>2. proc[p].on = NoRow /\ proc'[p].at = "merge.count" /\ proc'[p].mem = [review |-> r] /\ proc'[p].cmd = c
      BY <3>1, AfterBegin
    <3> QED BY <2>1, <3>1, <3>2
  <2> QED BY <2>2, <2>3
<1>2. ASSUME NEW c \in todo, SwitchBranch(p, c) PROVE UNCHANGED <<reviews, decisions, proc, tainted>>
  BY <1>2 DEF SwitchBranch, Only
<1>3. ASSUME NEW at \in MergeLabels \ {"idle", "merge.write"}, At(p, at),
             NEW label \in MergeLabels \ {"idle", "merge.write"},
             NEW mem, Continue(p, Goto(p, label, mem)), mem.review = Mem(p).review,
             UNCHANGED <<reviews, decisions>>
      PROVE  R
  <2>1. proc[p].on = NoRow BY <1>3, OpOf DEF MergeLabels, RowAt
  <2> QED BY <1>3, <2>1, AfterGoto DEF At
<1>4. ASSUME NEW at \in MergeLabels \ {"idle", "merge.write"}, At(p, at), Continue(p, Idle),
             UNCHANGED <<reviews, decisions>>
      PROVE  R
  <2>1. proc[p].on = NoRow BY <1>4, OpOf DEF MergeLabels, RowAt
  <2>2. proc'[p] = Idle BY <1>4 DEF Continue, Step, Base, ProcsOK
  <2> QED BY <1>4, <2>1, <2>2 DEF At, Idle, MergeLabels
<1>5. ASSUME MergeCount(p) \/ MergeHuman(p) \/ MergeBranch(p) \/ MergeRule(p) \/ MergeRole(p) PROVE R
  <2>1. UNCHANGED <<reviews, decisions>>
    BY <1>5 DEF MergeCount, MergeHuman, MergeBranch, MergeRule, MergeRole, reviewVars
  <2>2. CASE MergeCount(p) BY <2>1, <2>2, <1>3 DEF MergeCount, MergeLabels
  <2>3. CASE MergeHuman(p) BY <2>1, <2>3, <1>3 DEF MergeHuman, MergeLabels
  <2>4. CASE MergeBranch(p) BY <2>1, <2>4, <1>3 DEF MergeBranch, MergeLabels
  <2>5. CASE MergeRule(p) BY <2>1, <2>5, <1>3 DEF MergeRule, MergeLabels
  <2>6. CASE MergeRole(p) BY <2>1, <2>6, <1>3, <1>4 DEF MergeRole, MergeLabels
  <2> QED BY <1>5, <2>2, <2>3, <2>4, <2>5, <2>6
<1>6. ASSUME MergeRecheck(p)
      PROVE  \/ R
             \/ /\ At(p, "merge.recheck") /\ UNCHANGED <<reviews, decisions>> /\ proc[p].on = NoRow
                /\ proc'[p].at = "merge.write" /\ proc'[p].mem = Mem(p)
                /\ reviews[Mem(p).review].status = "approved"
  <2> DEFINE s == [Goto(p, "merge.write", Mem(p)) EXCEPT !.on = ReviewRow(Mem(p).review)]
  <2>1. At(p, "merge.recheck") /\ UNCHANGED <<reviews, decisions>> /\ "merge.recheck" \in MergeLabels
    BY <1>6 DEF MergeRecheck, reviewVars, MergeLabels
  <2>2. CASE Continue(p, Idle) BY <2>1, <2>2, <1>4
  <2>3. CASE ~Continue(p, Idle)
    <3>1. reviews[Mem(p).review].status = "approved" /\ Continue(p, s) BY <1>6, <2>3 DEF MergeRecheck
    <3>2. DOMAIN proc[p] = ProcFields /\ proc[p].on = NoRow BY <2>1, OpOf DEF RowAt
    <3>3. proc'[p] = s BY <3>1 DEF Continue, Step, Base, ProcsOK
    <3>4. s.at = "merge.write" /\ s.mem = Mem(p) BY <3>2 DEF Goto, ProcFields
    <3> QED BY <2>1, <3>1, <3>2, <3>3, <3>4
  <2> QED BY <2>2, <2>3
<1>7. ASSUME MergeWrite(p)
      PROVE  /\ At(p, "merge.write") /\ proc'[p].at = "idle" /\ proc'[p].on = NoRow /\ UNCHANGED decisions
             /\ reviews' = [reviews EXCEPT ![Mem(p).review].status = "merged"]
  <2>1. At(p, "merge.write") /\ Continue(p, Return(p)) BY <1>7 DEF MergeWrite
  <2>2. proc[p].rest = <<>> /\ proc[p].to = {} BY <2>1, OpOf DEF LabelsOf, RestOf
  <2>3. proc'[p] = Idle BY <2>1, <2>2, AfterReturn DEF At
  <2> QED BY <1>7, <2>3 DEF MergeWrite, Idle
<1>8. \/ R
      \/ \E c \in todo : Merge(p, c) \/ SwitchBranch(p, c)
      \/ MergeRecheck(p) \/ MergeWrite(p) BY <1>5 DEF MergeMove
<1> QED BY <1>1, <1>2, <1>6, <1>7, <1>8

Review == [cs : Changeset, status : Status]

(* What a command on reviews has in hand is in the tables.                 *)
InHand(s) ==
  /\ s.at \in {"decide.put", "decide.fold"} => s.mem \in DOMAIN reviews
  /\ s.at = "decide.write" => s.mem.review \in DOMAIN reviews /\ s.mem.status \in Status \ {"merged"}
  /\ s.at \in MergeLabels \ {"idle"} => s.mem.review \in DOMAIN reviews

DecisionsOK ==
  \A k \in DOMAIN decisions : k[1] \in DOMAIN reviews /\ k[2] \in Person /\ decisions[k].decision \in Decision

ReviewTypes == reviews \in Seq(Review) /\ DecisionsOK /\ \A p \in Proc : InHand(proc[p])

LEMMA ByChangesetIs ==
  ASSUME reviews \in Seq(Review), NEW cs
  PROVE  /\ ByChangeset(cs) # 0 => ByChangeset(cs) \in DOMAIN reviews
         /\ ByChangeset(cs) = 0 => \A r \in DOMAIN reviews : reviews[r].cs # cs
<1> DEFINE rs == {r \in DOMAIN reviews : reviews[r].cs = cs}
<1>1. rs \in SUBSET Nat /\ 0 \notin rs OBVIOUS
<1>2. rs # {} => Min(rs) \in rs BY <1>1, MinOf
<1> QED BY <1>1, <1>2 DEF ByChangeset

LEMMA StatusSet ==
  ASSUME reviews \in Seq(Review), NEW r \in DOMAIN reviews, NEW st \in Status,
         NEW new, new = [reviews EXCEPT ![r].status = st]
  PROVE  /\ new \in Seq(Review) /\ DOMAIN new = DOMAIN reviews
         /\ new[r].status = st /\ \A q \in DOMAIN reviews : new[q].cs = reviews[q].cs
         /\ \A q \in DOMAIN reviews \ {r} : new[q] = reviews[q]
<1>1. reviews[r] \in Review OBVIOUS
<1> DEFINE row == [reviews[r] EXCEPT !.status = st]
<1>2. row \in Review /\ row.status = st /\ row.cs = reviews[r].cs BY <1>1 DEF Review
<1>3. new = [reviews EXCEPT ![r] = row] OBVIOUS
<1> HIDE DEF row
<1> QED BY <1>2, <1>3

LEMMA SaidOK ==
  ASSUME DecisionsOK, NEW r
  PROVE  Said(r) \subseteq Decision BY DEF DecisionsOK, Said, Voices

LEMMA RecomputeFits ==
  ASSUME NEW r, Said(r) \subseteq Decision
  PROVE  Recompute(r) \in Status \ {"merged"} /\ Fits(Recompute(r), Said(r))
<1>1. CASE "reject" \in Said(r) BY <1>1 DEF Recompute, Fits, Status
<1>2. CASE "reject" \notin Said(r) /\ "request_changes" \in Said(r) BY <1>2 DEF Recompute, Fits, Status
<1>3. CASE "reject" \notin Said(r) /\ "request_changes" \notin Said(r)
  <2>1. Said(r) \subseteq {"approve"} BY <1>3 DEF Decision
  <2>2. CASE Said(r) = {"approve"} BY <2>2 DEF Recompute, Fits, Status
  <2>3. CASE Said(r) = {} BY <2>3 DEF Recompute, Fits, Status
  <2> QED BY <2>1, <2>2, <2>3
<1> QED BY <1>1, <1>2, <1>3

LEMMA RequestTypes ==
  ASSUME Base, ReviewTypes, NEW p \in Proc, RequestMove(p), Moves(p)
  PROVE  ReviewTypes'
<1> DEFINE new == [cs |-> Cmd(p).cs, status |-> "pending"]
<1>1. /\ proc'[p].at \in {"request.insert", "idle", "emit"} /\ UNCHANGED decisions
      /\ UNCHANGED reviews \/ (At(p, "request.insert") /\ reviews' = Append(reviews, new))
  BY RequestDoes DEF reviewVars
<1>2. At(p, "request.insert") => new \in Review BY OpOf DEF LabelsOf, CommandOK, Review, Status
<1> HIDE DEF new
<1>3. reviews' \in Seq(Review) /\ DOMAIN reviews \subseteq DOMAIN reviews' BY <1>1, <1>2 DEF ReviewTypes
<1>4. DecisionsOK' BY <1>1, <1>3 DEF ReviewTypes, DecisionsOK
<1>5. InHand(proc[p])' BY <1>1 DEF InHand, MergeLabels
<1>6. \A q \in Proc \ {p} : InHand(proc[q])' BY <1>3 DEF ReviewTypes, InHand, Moves
<1> QED BY <1>3, <1>4, <1>5, <1>6 DEF ReviewTypes

LEMMA DecideTypes ==
  ASSUME Base, ReviewTypes, NEW p \in Proc, DecideMove(p), Moves(p)
  PROVE  ReviewTypes'
<1>1. CASE At(p, "decide.put") /\ proc'[p].at = "decide.fold" /\ proc'[p].mem = Mem(p) /\ reviews' = reviews
           /\ decisions' = Replaced(decisions, <<Mem(p), Cmd(p).by>>,
                                  [decision |-> Cmd(p).decision, human |-> Cmd(p).human])
  <2>1. Mem(p) \in DOMAIN reviews BY <1>1 DEF ReviewTypes, InHand, At, Mem
  <2>2. Cmd(p).by \in Person /\ Cmd(p).decision \in Decision
    <3>1. Cmd(p).op = "decide" /\ CommandOK(Cmd(p)) BY <1>1, OpOf DEF LabelsOf
    <3> QED BY <3>1 DEF CommandOK
  <2>3. DecisionsOK' BY <1>1, <2>1, <2>2 DEF ReviewTypes, DecisionsOK, Replaced
  <2>4. InHand(proc[p])' BY <1>1, <2>1 DEF InHand, MergeLabels
  <2> QED BY <1>1, <2>3, <2>4 DEF ReviewTypes, InHand, Moves
<1>2. CASE At(p, "decide.write") /\ proc'[p].at = "emit" /\ UNCHANGED decisions
           /\ reviews' = [reviews EXCEPT ![Mem(p).review].status = Mem(p).status]
  <2>1. Mem(p).review \in DOMAIN reviews /\ Mem(p).status \in Status BY <1>2 DEF ReviewTypes, InHand, At, Mem
  <2>2. reviews' \in Seq(Review) /\ DOMAIN reviews' = DOMAIN reviews BY <1>2, <2>1, StatusSet DEF ReviewTypes
  <2>3. InHand(proc[p])' BY <1>2 DEF InHand, MergeLabels
  <2> QED BY <1>2, <2>2, <2>3 DEF ReviewTypes, DecisionsOK, InHand, Moves
<1>3. CASE UNCHANGED <<reviews, decisions>> /\ proc'[p].at = "decide.put"
           /\ proc'[p].mem = ByChangeset(proc'[p].cmd.cs) /\ proc'[p].mem # 0
  <2>1. proc'[p].mem \in DOMAIN reviews BY <1>3, ByChangesetIs DEF ReviewTypes
  <2>2. InHand(proc[p])' BY <1>3, <2>1 DEF InHand, MergeLabels
  <2> QED BY <1>3, <2>2 DEF ReviewTypes, DecisionsOK, InHand, Moves
<1>4. CASE UNCHANGED <<reviews, decisions, proc>> BY <1>4 DEF ReviewTypes, DecisionsOK, InHand
<1>5. CASE At(p, "decide.fold") /\ proc'[p].at = "decide.write" /\ UNCHANGED <<reviews, decisions>>
           /\ proc'[p].mem = [review |-> Mem(p), status |-> Recompute(Mem(p))]
  <2>1. Mem(p) \in DOMAIN reviews BY <1>5 DEF ReviewTypes, InHand, At, Mem
  <2>2. Recompute(Mem(p)) \in Status \ {"merged"} BY SaidOK, RecomputeFits DEF ReviewTypes
  <2>3. InHand(proc[p])' BY <1>5, <2>1, <2>2 DEF InHand, MergeLabels
  <2> QED BY <1>5, <2>3 DEF ReviewTypes, DecisionsOK, InHand, Moves
<1> QED BY <1>1, <1>2, <1>3, <1>4, <1>5, DecideDoes

LEMMA MergeTypes ==
  ASSUME Base, ReviewTypes, NEW p \in Proc, MergeMove(p), Moves(p)
  PROVE  ReviewTypes'
<1>1. CASE At(p, "merge.write") /\ proc'[p].at = "idle" /\ UNCHANGED decisions
           /\ reviews' = [reviews EXCEPT ![Mem(p).review].status = "merged"]
  <2>1. Mem(p).review \in DOMAIN reviews BY <1>1 DEF ReviewTypes, InHand, At, Mem, MergeLabels
  <2>2. reviews' \in Seq(Review) /\ DOMAIN reviews' = DOMAIN reviews
    BY <1>1, <2>1, StatusSet DEF ReviewTypes, Status
  <2>3. InHand(proc[p])' BY <1>1 DEF InHand, MergeLabels
  <2> QED BY <1>1, <2>2, <2>3 DEF ReviewTypes, DecisionsOK, InHand, Moves
<1>2. CASE UNCHANGED <<reviews, decisions>> /\ proc'[p].at = "merge.count"
           /\ proc'[p].mem.review = ByChangeset(proc'[p].cmd.cs) /\ proc'[p].mem.review # 0
  <2>1. proc'[p].mem.review \in DOMAIN reviews BY <1>2, ByChangesetIs DEF ReviewTypes
  <2>2. InHand(proc[p])' BY <1>2, <2>1 DEF InHand
  <2> QED BY <1>2, <2>2 DEF ReviewTypes, DecisionsOK, InHand, Moves
<1>3. CASE UNCHANGED <<reviews, decisions, proc>> BY <1>3 DEF ReviewTypes, DecisionsOK, InHand
<1>4. CASE UNCHANGED <<reviews, decisions>> /\ proc[p].at \in MergeLabels \ {"idle"}
           /\ proc'[p].at \in MergeLabels /\ (proc'[p].at # "idle" => proc'[p].mem.review = Mem(p).review)
  <2>1. Mem(p).review \in DOMAIN reviews BY <1>4 DEF ReviewTypes, InHand, Mem
  <2>2. InHand(proc[p])' BY <1>4, <2>1 DEF InHand, MergeLabels
  <2> QED BY <1>4, <2>2 DEF ReviewTypes, DecisionsOK, InHand, Moves
<1>5. {"merge.recheck", "merge.write"} \subseteq MergeLabels \ {"idle"} BY DEF MergeLabels
<1> QED BY <1>1, <1>2, <1>3, <1>4, <1>5, MergeDoes DEF At

LEMMA ReviewTypesStep == Base /\ ReviewTypes /\ [Next]_vars => ReviewTypes'
<1> SUFFICES ASSUME Base, ReviewTypes, [Next]_vars PROVE ReviewTypes' OBVIOUS
<1>1. CASE Still BY <1>1 DEF Still, ReviewTypes, DecisionsOK, InHand, reviewVars
<1>2. ASSUME NEW p \in Proc, Moves(p), ReviewsElsewhere(p) PROVE ReviewTypes'
  <2>1. InHand(proc[p])' BY <1>2 DEF ReviewsElsewhere, InHand, ReviewInner, DecideLabels, MergeLabels
  <2> QED BY <1>2, <2>1 DEF ReviewsElsewhere, ReviewTypes, DecisionsOK, InHand, reviewVars, Moves
<1> QED BY <1>1, <1>2, ReviewCases, RequestTypes, DecideTypes, MergeTypes

LEMMA ReviewTypesInit == Init => ReviewTypes
<1> SUFFICES ASSUME Init PROVE ReviewTypes OBVIOUS
<1>1. PICK s \in Scenarios : reviews = s.reviews /\ decisions = s.decisions /\ proc = [p \in Proc |-> Idle]
  BY DEF Init
<1>2. TablesOK(s) BY ScenariosAssumption
<1>3. InHand(Idle) BY DEF InHand, Idle
<1> QED BY <1>1, <1>2, <1>3 DEF ReviewTypes, DecisionsOK, TablesOK, Review
-----------------------------------------------------------------------------
(* One review a changeset: a request about to insert one has seen none,    *)
(* unless another request is on the same row.                              *)
RequestsOK ==
  /\ OneReview
  /\ \A p \in Proc : At(p, "request.insert") /\ RequestRow(Cmd(p).cs) \notin tainted =>
       \A r \in DOMAIN reviews : reviews[r].cs # Cmd(p).cs

LEMMA RequestsKept ==
  ASSUME RequestsOK, NEW p \in Proc, Moves(p), proc'[p].at # "request.insert",
         DOMAIN reviews' = DOMAIN reviews, \A r \in DOMAIN reviews : reviews'[r].cs = reviews[r].cs
  PROVE  RequestsOK'
<1>1. OneReview' BY DEF RequestsOK, OneReview, Moves
<1> QED BY <1>1 DEF RequestsOK, Moves, At, Cmd

LEMMA RequestInserts ==
  ASSUME Base, ReviewTypes, RequestsOK, NEW p \in Proc, Moves(p), At(p, "request.insert"),
         proc'[p].at # "request.insert",
         reviews' = Append(reviews, [cs |-> Cmd(p).cs, status |-> "pending"])
  PROVE  RequestsOK'
<1> DEFINE cs == Cmd(p).cs
           new == [cs |-> Cmd(p).cs, status |-> "pending"]
           n == Len(reviews) + 1
<1>1. proc[p].on = RequestRow(cs) /\ RequestRow(cs) # NoRow
  <2>1. ProcOK(proc[p]) BY DEF Base, ProcsOK
  <2> QED BY <2>1, ReviewRowsAt DEF At, Cmd, RequestRow, NoRow
<1>2. /\ DOMAIN reviews' = DOMAIN reviews \cup {n} /\ n \notin DOMAIN reviews
      /\ reviews'[n] = new /\ \A r \in DOMAIN reviews : reviews'[r] = reviews[r] BY DEF ReviewTypes
<1>3. RequestRow(cs) \notin tainted => \A r \in DOMAIN reviews : reviews[r].cs # cs BY DEF RequestsOK
<1>4. new.cs = cs OBVIOUS
<1>5. tainted \subseteq tainted' BY DEF Moves
<1> HIDE DEF cs, new, n
<1>6. OneReview'
  <2>1. ASSUME NEW r \in DOMAIN reviews', NEW s \in DOMAIN reviews', reviews'[r].cs = reviews'[s].cs, r # s
        PROVE  RequestRow(reviews'[r].cs) \in tainted'
    <3>1. CASE r \in DOMAIN reviews /\ s \in DOMAIN reviews BY <1>2, <1>5, <2>1, <3>1 DEF RequestsOK, OneReview
    <3>2. CASE r = n \/ s = n BY <1>2, <1>3, <1>4, <1>5, <2>1, <3>2
    <3> QED BY <1>2, <3>1, <3>2
  <2> QED BY <2>1 DEF OneReview
<1>7. ASSUME NEW q \in Proc, At(q, "request.insert")', RequestRow(Cmd(q).cs)' \notin tainted',
             NEW r \in DOMAIN reviews'
      PROVE  reviews'[r].cs # Cmd(q)'.cs
  <2>1. q # p /\ proc'[q] = proc[q] BY <1>7 DEF Moves, At
  <2>2. RequestRow(Cmd(q).cs) \notin tainted /\ Cmd(q)' = Cmd(q) /\ At(q, "request.insert")
    BY <1>5, <1>7, <2>1 DEF At, Cmd, RequestRow
  <2>3. CASE r \in DOMAIN reviews BY <1>2, <2>2, <2>3 DEF RequestsOK
  <2>4. CASE r = n
    <3>1. proc[q].on = RequestRow(Cmd(q).cs)
      <4>1. ProcOK(proc[q]) BY DEF Base, ProcsOK
      <4> QED BY <2>2, <4>1, ReviewRowsAt DEF At, Cmd
    <3>2. proc[q].on # proc[p].on BY <1>1, <2>1, <2>2, <3>1 DEF Base, Excl
    <3>3. Cmd(q).cs # cs BY <1>1, <3>1, <3>2 DEF RequestRow
    <3> QED BY <1>2, <1>4, <2>2, <2>4, <3>3
  <2> QED BY <1>2, <2>3, <2>4
<1> QED BY <1>6, <1>7 DEF RequestsOK

LEMMA RequestLooks ==
  ASSUME Base, ReviewTypes, RequestsOK, NEW p \in Proc, Moves(p), UNCHANGED reviews,
         ByChangeset(proc'[p].cmd.cs) = 0
  PROVE  RequestsOK'
<1>1. OneReview' BY DEF RequestsOK, OneReview, Moves
<1>2. \A r \in DOMAIN reviews : reviews[r].cs # proc'[p].cmd.cs BY ByChangesetIs DEF ReviewTypes
<1> QED BY <1>1, <1>2 DEF RequestsOK, Moves, At, Cmd

LEMMA RequestsStep == Base /\ ReviewTypes /\ RequestsOK /\ [Next]_vars => RequestsOK'
<1> SUFFICES ASSUME Base, ReviewTypes, RequestsOK, [Next]_vars PROVE RequestsOK' OBVIOUS
<1>1. CASE Still BY <1>1 DEF Still, RequestsOK, OneReview, At, Cmd, reviewVars
<1>2. ASSUME NEW p \in Proc, Moves(p), RequestMove(p) PROVE RequestsOK'
  BY <1>2, RequestDoes, RequestLooks, RequestInserts, RequestsKept DEF reviewVars
<1>3. ASSUME NEW p \in Proc, MovesIn(p, DecideLabels), DecideMove(p) PROVE RequestsOK'
  <2>1. proc'[p].at # "request.insert" /\ Moves(p) BY <1>3 DEF MovesIn, DecideLabels
  <2>2. \/ UNCHANGED reviews
        \/ At(p, "decide.write") /\ reviews' = [reviews EXCEPT ![Mem(p).review].status = Mem(p).status]
    BY <1>3, <2>1, DecideDoes
  <2>3. At(p, "decide.write") => Mem(p).review \in DOMAIN reviews /\ Mem(p).status \in Status
    BY DEF ReviewTypes, InHand, At, Mem
  <2>4. DOMAIN reviews' = DOMAIN reviews /\ \A r \in DOMAIN reviews : reviews'[r].cs = reviews[r].cs
    BY <2>2, <2>3, StatusSet DEF ReviewTypes
  <2> QED BY <2>1, <2>4, RequestsKept
<1>4. ASSUME NEW p \in Proc, MovesIn(p, MergeLabels), MergeMove(p) PROVE RequestsOK'
  <2>1. proc'[p].at # "request.insert" /\ Moves(p) BY <1>4 DEF MovesIn, MergeLabels
  <2>2. \/ UNCHANGED reviews
        \/ At(p, "merge.write") /\ reviews' = [reviews EXCEPT ![Mem(p).review].status = "merged"]
    BY <1>4, <2>1, MergeDoes
  <2>3. At(p, "merge.write") => Mem(p).review \in DOMAIN reviews /\ "merged" \in Status
    BY DEF ReviewTypes, InHand, At, Mem, MergeLabels, Status
  <2>4. DOMAIN reviews' = DOMAIN reviews /\ \A r \in DOMAIN reviews : reviews'[r].cs = reviews[r].cs
    BY <2>2, <2>3, StatusSet DEF ReviewTypes
  <2> QED BY <2>1, <2>4, RequestsKept
<1>5. ASSUME NEW p \in Proc, Moves(p), ReviewsElsewhere(p) PROVE RequestsOK'
  BY <1>5, RequestsKept DEF ReviewsElsewhere, reviewVars, ReviewInner
<1> QED BY <1>1, <1>2, <1>3, <1>4, <1>5, ReviewCases

LEMMA RequestsInit == Init => RequestsOK
<1> SUFFICES ASSUME Init PROVE RequestsOK OBVIOUS
<1>1. PICK s \in Scenarios : reviews = s.reviews /\ proc = [p \in Proc |-> Idle] BY DEF Init
<1>2. TablesOK(s) BY ScenariosAssumption
<1> QED BY <1>1, <1>2 DEF RequestsOK, OneReview, TablesOK, At, Idle
-----------------------------------------------------------------------------
(* The status of a review whose row nobody disturbed is the one its        *)
(* decisions say, or the command at work on it is about to write that one. *)
ReviewStory(r) ==
  /\ ~Updating(ReviewRow(r)) /\ reviews[r].status # "merged" => Fits(reviews[r].status, Said(r))
  /\ \A p \in Proc : proc[p].on = ReviewRow(r) =>
       /\ proc[p].at \in {"decide.put", "decide.fold", "decide.write"} => reviews[r].status # "merged"
       /\ proc[p].at = "decide.write" => Fits(Mem(p).status, Said(r))
       /\ proc[p].at = "merge.write" => reviews[r].status = "approved"

FoldOK == \A r \in DOMAIN reviews : ReviewRow(r) \notin tainted => ReviewStory(r)

LEMMA ReviewStoryKept ==
  ASSUME Base, NEW r, ReviewStory(r), NEW p \in Proc, Moves(p),
         proc[p].on # ReviewRow(r), proc'[p].on # ReviewRow(r),
         reviews'[r].status = reviews[r].status, Said(r)' = Said(r)
  PROVE  ReviewStory(r)'
<1>1. /\ Updating(ReviewRow(r))' <=> Updating(ReviewRow(r))
      /\ \A q \in Proc : proc'[q].on = ReviewRow(r) => proc[q].on = ReviewRow(r) /\ proc'[q] = proc[q] /\ q # p
  BY UpdatingSame
<1> QED BY <1>1 DEF ReviewStory, Mem

(* The same for all rows but the one the command has in hand.              *)
LEMMA FoldKeptBut ==
  ASSUME Base, FoldOK, NEW p \in Proc, Moves(p), NEW own,
         \A r \in DOMAIN reviews : r # own => proc[p].on # ReviewRow(r) /\ proc'[p].on # ReviewRow(r),
         DOMAIN reviews' = DOMAIN reviews,
         \A r \in DOMAIN reviews : r # own => reviews'[r].status = reviews[r].status /\ Said(r)' = Said(r),
         own \in DOMAIN reviews /\ ReviewRow(own) \notin tainted' => ReviewStory(own)'
  PROVE  FoldOK'
<1>1. ASSUME NEW r \in DOMAIN reviews, r # own, ReviewRow(r) \notin tainted' PROVE ReviewStory(r)'
  BY <1>1, ReviewStoryKept DEF FoldOK, Moves
<1> QED BY <1>1 DEF FoldOK

LEMMA ReviewRowsDiffer ==
  ASSUME NEW r, NEW s
  PROVE  (ReviewRow(r) = ReviewRow(s) <=> r = s) /\ ReviewRow(r) # NoRow BY DEF ReviewRow, NoRow

LEMMA FoldRequest ==
  ASSUME Base, ReviewTypes, FoldOK, NEW p \in Proc, RequestMove(p), MovesIn(p, RequestLabels)
  PROVE  FoldOK'
<1> DEFINE new == [cs |-> Cmd(p).cs, status |-> "pending"]
           n == Len(reviews) + 1
<1>1. ProcOK(proc[p]) /\ ProcOK(proc'[p]) /\ Moves(p) BY DEF Base, ProcsOK, MovesIn, Moves
<1>2. \A r : proc[p].on # ReviewRow(r) /\ proc'[p].on # ReviewRow(r)
  BY <1>1, ReviewRowsAt DEF MovesIn, RequestLabels
<1>3. UNCHANGED decisions /\ (UNCHANGED reviews \/ reviews' = Append(reviews, new))
  BY <1>1, RequestDoes DEF reviewVars
<1>4. \A r : Said(r)' = Said(r) BY <1>3 DEF Said
<1>5. CASE UNCHANGED reviews BY <1>1, <1>2, <1>4, <1>5, ReviewStoryKept DEF FoldOK, Moves
<1>6. CASE reviews' = Append(reviews, new)
  <2>1. /\ DOMAIN reviews' = DOMAIN reviews \cup {n} /\ n \notin DOMAIN reviews
        /\ reviews'[n] = new /\ \A r \in DOMAIN reviews : reviews'[r] = reviews[r] BY <1>6 DEF ReviewTypes
  <2>2. new.status = "pending" OBVIOUS
  <2> HIDE DEF new, n
  <2>3. ASSUME NEW r \in DOMAIN reviews, ReviewRow(r) \notin tainted' PROVE ReviewStory(r)'
    BY <1>1, <1>2, <1>4, <2>1, <2>3, ReviewStoryKept DEF FoldOK, Moves
  <2>4. ASSUME NEW r, r = n PROVE ReviewStory(r)'
    <3>1. \A q \in Proc : proc'[q].on # ReviewRow(r)
      <4>1. ASSUME NEW q \in Proc \ {p}, proc[q].on = ReviewRow(r) PROVE FALSE
        <5>1. ProcOK(proc[q]) /\ InHand(proc[q]) BY DEF Base, ProcsOK, ReviewTypes
        <5>2. r \in DOMAIN reviews BY <4>1, <5>1, ReviewRowsAt DEF InHand, MergeLabels
        <5> QED BY <2>1, <2>4, <5>2
      <4> QED BY <1>1, <1>2, <4>1 DEF Moves
    <3>2. Said(r) = {} BY <2>1, <2>4 DEF ReviewTypes, DecisionsOK, Said, Voices
    <3>3. Fits("pending", {}) BY DEF Fits
    <3>4. reviews'[r].status = "pending" /\ Said(r)' = {} BY <1>4, <2>1, <2>2, <2>4, <3>2
    <3> QED BY <3>1, <3>3, <3>4 DEF ReviewStory, Updating
  <2> QED BY <2>1, <2>3, <2>4 DEF FoldOK
<1> QED BY <1>3, <1>5, <1>6

(* The row in hand when nobody disturbs it is in one hand only.            *)
LEMMA OwnRow ==
  ASSUME Base, Base', NEW p \in Proc, Moves(p), NEW r, ReviewRow(r) \notin tainted'
  PROVE  /\ proc[p].on = ReviewRow(r) => \A q \in Proc \ {p} : proc'[q].on # ReviewRow(r)
         /\ proc'[p].on = ReviewRow(r) => \A q \in Proc \ {p} : proc'[q].on # ReviewRow(r)
<1>1. ReviewRow(r) # NoRow BY ReviewRowsDiffer
<1> QED BY <1>1 DEF Base, Excl, Moves

LEMMA FoldDecide ==
  ASSUME Base, Base', ReviewTypes, FoldOK, NEW p \in Proc, DecideMove(p), Moves(p)
  PROVE  FoldOK'
<1>1. ProcOK(proc[p]) /\ ProcOK(proc'[p]) BY DEF Base, ProcsOK, Moves
<1>2. CASE /\ UNCHANGED <<reviews, decisions>> /\ proc[p].on = NoRow /\ proc'[p].at = "decide.put"
           /\ reviews[proc'[p].mem].status # "merged"
  <2>1. proc'[p].on = ReviewRow(proc'[p].mem) BY <1>1, <1>2, ReviewRowsAt
  <2>2. ASSUME NEW r, r = proc'[p].mem, ReviewRow(r) \notin tainted' PROVE ReviewStory(r)'
    BY <1>2, <2>1, <2>2, OwnRow DEF ReviewStory, Updating
  <2>3. \A r : Said(r)' = Said(r) BY <1>2 DEF Said
  <2> QED BY <1>2, <2>1, <2>2, <2>3, FoldKeptBut, ReviewRowsDiffer
<1>3. CASE UNCHANGED <<reviews, decisions, proc, tainted>> BY <1>3 DEF FoldOK, ReviewStory, Said, Updating, Mem
<1>4. CASE /\ At(p, "decide.put") /\ proc'[p].at = "decide.fold" /\ proc'[p].mem = Mem(p) /\ UNCHANGED reviews
           /\ decisions' = Replaced(decisions, <<Mem(p), Cmd(p).by>>,
                                  [decision |-> Cmd(p).decision, human |-> Cmd(p).human])
  <2>1. proc[p].on = ReviewRow(Mem(p)) /\ proc'[p].on = ReviewRow(Mem(p)) /\ Mem(p) \in DOMAIN reviews
    BY <1>1, <1>4, ReviewRowsAt DEF At, Mem, ReviewTypes, InHand
  <2>2. ASSUME NEW r, r = Mem(p), ReviewRow(r) \notin tainted' PROVE ReviewStory(r)'
    <3>1. reviews[r].status # "merged" BY <1>4, <2>1, <2>2 DEF FoldOK, ReviewStory, Moves, At
    <3> QED BY <1>4, <2>1, <2>2, <3>1, OwnRow DEF ReviewStory, Updating
  <2>3. ASSUME NEW r, r # Mem(p) PROVE Said(r)' = Said(r)
    <3>1. {d \in DOMAIN decisions' : d[1] = r} = {d \in DOMAIN decisions : d[1] = r} BY <1>4, <2>3 DEF Replaced
    <3>2. \A d \in DOMAIN decisions : d[1] = r => decisions'[d] = decisions[d] BY <1>4, <2>3 DEF Replaced
    <3> QED BY <3>1, <3>2 DEF Said, Voices
  <2> QED BY <1>4, <2>1, <2>2, <2>3, FoldKeptBut, ReviewRowsDiffer
<1>5. CASE /\ At(p, "decide.fold") /\ proc'[p].at = "decide.write" /\ UNCHANGED <<reviews, decisions>>
           /\ proc'[p].mem = [review |-> Mem(p), status |-> Recompute(Mem(p))]
  <2>1. proc'[p].mem.review = Mem(p) /\ proc'[p].mem.status = Recompute(Mem(p)) BY <1>5
  <2>2. proc[p].on = ReviewRow(Mem(p)) /\ proc'[p].on = ReviewRow(Mem(p)) /\ Mem(p) \in DOMAIN reviews
    BY <1>1, <1>5, <2>1, ReviewRowsAt DEF At, Mem, ReviewTypes, InHand
  <2>3. \A r : Said(r)' = Said(r) BY <1>5 DEF Said
  <2>4. ASSUME NEW r, r = Mem(p), ReviewRow(r) \notin tainted' PROVE ReviewStory(r)'
    <3>1. reviews[r].status # "merged" BY <1>5, <2>2, <2>4 DEF FoldOK, ReviewStory, Moves, At
    <3>2. Fits(Recompute(r), Said(r)) BY SaidOK, RecomputeFits DEF ReviewTypes
    <3> QED BY <1>5, <2>1, <2>2, <2>3, <2>4, <3>1, <3>2, OwnRow DEF ReviewStory, Updating, Mem
  <2> QED BY <1>5, <2>2, <2>3, <2>4, FoldKeptBut, ReviewRowsDiffer
<1>6. CASE /\ At(p, "decide.write") /\ proc'[p].at = "emit" /\ proc'[p].on = NoRow /\ UNCHANGED decisions
           /\ reviews' = [reviews EXCEPT ![Mem(p).review].status = Mem(p).status]
  <2>1. /\ proc[p].on = ReviewRow(Mem(p).review) /\ Mem(p).review \in DOMAIN reviews
        /\ Mem(p).status \in Status \ {"merged"} BY <1>1, <1>6, ReviewRowsAt DEF At, Mem, ReviewTypes, InHand
  <2>2. /\ DOMAIN reviews' = DOMAIN reviews /\ reviews'[Mem(p).review].status = Mem(p).status
        /\ \A r \in DOMAIN reviews \ {Mem(p).review} : reviews'[r] = reviews[r]
    BY <1>6, <2>1, StatusSet DEF ReviewTypes
  <2>3. \A r : Said(r)' = Said(r) BY <1>6 DEF Said
  <2>4. ASSUME NEW r, r = Mem(p).review, ReviewRow(r) \notin tainted' PROVE ReviewStory(r)'
    <3>1. Fits(Mem(p).status, Said(r)) BY <1>6, <2>1, <2>4 DEF FoldOK, ReviewStory, Moves, At
    <3>2. \A q \in Proc : proc'[q].on # ReviewRow(r) BY <1>6, <2>1, <2>4, OwnRow, ReviewRowsDiffer
    <3> QED BY <2>2, <2>3, <2>4, <3>1, <3>2 DEF ReviewStory
  <2> QED BY <1>6, <2>1, <2>2, <2>3, <2>4, FoldKeptBut, ReviewRowsDiffer
<1> QED BY <1>2, <1>3, <1>4, <1>5, <1>6, DecideDoes

LEMMA FoldMerge ==
  ASSUME Base, Base', ReviewTypes, FoldOK, NEW p \in Proc, MergeMove(p), Moves(p)
  PROVE  FoldOK'
<1>1. ProcOK(proc[p]) /\ ProcOK(proc'[p]) BY DEF Base, ProcsOK, Moves
<1>2. UNCHANGED decisions /\ \A r : Said(r)' = Said(r) BY MergeDoes DEF Said
<1>3. CASE UNCHANGED reviews /\ proc[p].on = NoRow /\ proc'[p].on = NoRow
  BY <1>2, <1>3, ReviewStoryKept, ReviewRowsDiffer DEF FoldOK, Moves
<1>4. CASE UNCHANGED <<reviews, proc, tainted>> BY <1>2, <1>4 DEF FoldOK, ReviewStory, Updating, Mem
<1>5. CASE /\ At(p, "merge.recheck") /\ UNCHANGED reviews /\ proc[p].on = NoRow
           /\ proc'[p].at = "merge.write" /\ proc'[p].mem = Mem(p)
           /\ reviews[Mem(p).review].status = "approved"
  <2>1. proc'[p].on = ReviewRow(Mem(p).review) BY <1>1, <1>5, ReviewRowsAt
  <2>2. ASSUME NEW r, r = Mem(p).review, ReviewRow(r) \notin tainted' PROVE ReviewStory(r)'
    BY <1>5, <2>1, <2>2, OwnRow DEF ReviewStory, Updating
  <2> QED BY <1>2, <1>5, <2>1, <2>2, FoldKeptBut, ReviewRowsDiffer
<1>6. CASE /\ At(p, "merge.write") /\ proc'[p].at = "idle" /\ proc'[p].on = NoRow
           /\ reviews' = [reviews EXCEPT ![Mem(p).review].status = "merged"]
  <2>1. proc[p].on = ReviewRow(Mem(p).review) /\ Mem(p).review \in DOMAIN reviews
    BY <1>1, <1>6, ReviewRowsAt DEF At, Mem, ReviewTypes, InHand, MergeLabels
  <2>2. /\ DOMAIN reviews' = DOMAIN reviews /\ reviews'[Mem(p).review].status = "merged"
        /\ \A r \in DOMAIN reviews \ {Mem(p).review} : reviews'[r] = reviews[r]
    BY <1>6, <2>1, StatusSet DEF ReviewTypes, Status
  <2>3. ASSUME NEW r, r = Mem(p).review, ReviewRow(r) \notin tainted' PROVE ReviewStory(r)'
    <3>1. \A q \in Proc : proc'[q].on # ReviewRow(r) BY <1>6, <2>1, <2>3, OwnRow, ReviewRowsDiffer
    <3> QED BY <2>2, <2>3, <3>1 DEF ReviewStory
  <2> QED BY <1>2, <1>6, <2>1, <2>2, <2>3, FoldKeptBut, ReviewRowsDiffer
<1>7. CASE UNCHANGED reviews /\ proc[p].on = NoRow /\ proc'[p].at = "merge.count"
  <2>1. proc'[p].on = NoRow BY <1>1, <1>7 DEF ProcOK, RowAt
  <2> QED BY <1>3, <1>7, <2>1
<1> QED BY <1>3, <1>4, <1>5, <1>6, <1>7, MergeDoes

LEMMA FoldStep == Base /\ ReviewTypes /\ FoldOK /\ [Next]_vars => FoldOK'
<1> SUFFICES ASSUME Base, ReviewTypes, FoldOK, [Next]_vars PROVE FoldOK' OBVIOUS
<1>1. Base' BY BaseStep
<1>2. CASE Still BY <1>2 DEF Still, FoldOK, ReviewStory, Said, Updating, Mem, reviewVars
<1>3. ASSUME NEW p \in Proc, Moves(p), ReviewsElsewhere(p) PROVE FoldOK'
  <2>1. ProcOK(proc[p]) /\ ProcOK(proc'[p]) BY <1>3 DEF Base, ProcsOK, Moves
  <2>2. \A r \in DOMAIN reviews : ReviewRow(r) \notin tainted' =>
          proc[p].on # ReviewRow(r) /\ proc'[p].on # ReviewRow(r)
    BY <1>3, <2>1, ReviewRowsAt, ReviewRowsDiffer DEF ReviewsElsewhere, ReviewInner, DecideLabels, MergeLabels
  <2>3. \A r : Said(r)' = Said(r) BY <1>3 DEF ReviewsElsewhere, reviewVars, Said
  <2> QED BY <1>3, <2>2, <2>3, ReviewStoryKept DEF ReviewsElsewhere, reviewVars, FoldOK, Moves
<1> QED BY <1>1, <1>2, <1>3, ReviewCases, FoldRequest, FoldDecide, FoldMerge DEF MovesIn

LEMMA FoldInit == Init => FoldOK
<1> SUFFICES ASSUME Init PROVE FoldOK OBVIOUS
<1>1. PICK s \in Scenarios : reviews = s.reviews /\ decisions = s.decisions /\ proc = [p \in Proc |-> Idle]
  BY DEF Init
<1>2. TablesOK(s) BY ScenariosAssumption
<1>3. Idle.on = NoRow BY DEF Idle
<1> QED BY <1>1, <1>2, <1>3, ReviewRowsDiffer DEF FoldOK, ReviewStory, TablesOK, Said

LEMMA FoldTold == FoldOK => StatusIsFold BY DEF FoldOK, ReviewStory, StatusIsFold
-----------------------------------------------------------------------------
(* Protections: their rows are numbered, their roles are roles.            *)
ProtectionsOK == Numbered(protections) /\ \A k \in DOMAIN protections : protections[k].role \in Role

LEMMA NextIdIs ==
  ASSUME NEW table, Numbered(table)
  PROVE  NextId(table) \in Nat /\ \A k \in DOMAIN table : k < NextId(table)
<1>1. CASE DOMAIN table = {} BY <1>1 DEF NextId
<1>2. CASE DOMAIN table # {}
  <2>1. PICK m \in DOMAIN table : \A k \in DOMAIN table : k <= m BY <1>2 DEF Numbered
  <2>2. DOMAIN table \subseteq Nat BY DEF Numbered
  <2>3. \A k \in DOMAIN table : m >= k BY <2>1, <2>2
  <2>4. /\ Max(DOMAIN table) \in DOMAIN table
        /\ \A y \in DOMAIN table : Max(DOMAIN table) >= y BY <2>3 DEF Max
  <2>5. NextId(table) = Max(DOMAIN table) + 1 BY <1>2 DEF NextId
  <2> QED BY <2>2, <2>4, <2>5
<1> QED BY <1>1, <1>2

LEMMA NumberedMore ==
  ASSUME NEW table, Numbered(table), NEW S \in SUBSET DOMAIN table, NEW row, NEW new,
         new = Replaced([k \in S |-> table[k]], NextId(table), row)
  PROVE  /\ Numbered(new) /\ DOMAIN new = S \cup {NextId(table)}
         /\ new[NextId(table)] = row /\ \A k \in S : new[k] = table[k]
<1> DEFINE n == NextId(table)
<1>1. n \in Nat /\ \A k \in DOMAIN table : k < n BY NextIdIs
<1>2. DOMAIN table \subseteq Nat BY DEF Numbered
<1>3. DOMAIN new = S \cup {n} BY DEF Replaced
<1>4. \A k \in DOMAIN new : k <= n /\ k \in Nat BY <1>1, <1>2, <1>3
<1>5. Numbered(new) BY <1>3, <1>4 DEF Numbered
<1>6. new[n] = row BY DEF Replaced
<1>7. \A k \in S : k # n BY <1>1, <1>2
<1>8. \A k \in S : new[k] = table[k] BY <1>7 DEF Replaced
<1> QED BY <1>3, <1>5, <1>6, <1>8

LEMMA ProtectionsStep == Base /\ ProtectionsOK /\ [Next]_vars => ProtectionsOK'
<1> SUFFICES ASSUME Base, ProtectionsOK, [Next]_vars PROVE ProtectionsOK' OBVIOUS
<1>1. CASE UNCHANGED protections BY <1>1 DEF ProtectionsOK, Numbered
<1>2. ASSUME NEW p \in Proc, RbacMove(p) PROVE ProtectionsOK'
  <2>1. CASE UNCHANGED protections BY <2>1, <1>1
  <2>2. ASSUME NEW c \in todo, Protect(p, c) PROVE ProtectionsOK'
    <3> DEFINE others == {k \in DOMAIN protections : protections[k].pattern # c.rule.pattern}
    <3>1. protections' = Replaced([k \in others |-> protections[k]], NextId(protections), c.rule) /\ c.op = "protect"
      BY <2>2 DEF Protect
    <3>2. c.rule.role \in Role BY <3>1 DEF Base, TodoOK, CommandOK
    <3>3. others \in SUBSET DOMAIN protections /\ Numbered(protections) BY DEF ProtectionsOK
    <3> HIDE DEF others
    <3>4. /\ Numbered(protections') /\ DOMAIN protections' = others \cup {NextId(protections)}
          /\ protections'[NextId(protections)] = c.rule /\ \A k \in others : protections'[k] = protections[k]
      BY <3>1, <3>3, NumberedMore
    <3>5. \A k \in others : protections[k].role \in Role BY <3>3 DEF ProtectionsOK
    <3>6. \A k \in DOMAIN protections' : protections'[k].role \in Role BY <3>2, <3>4, <3>5
    <3>7. (Numbered(protections))' BY <3>4
    <3> QED BY <3>6, <3>7 DEF ProtectionsOK
  <2>3. UNCHANGED protections \/ \E c \in todo : Protect(p, c)
    BY <1>2 DEF RbacMove, RbacStep, RbacBegin, AssignRead, AssignWrite, AssignLog, RevokeRead, RevokeDelete,
                RevokeLog, rbacVars
  <2> QED BY <2>1, <2>2, <2>3
<1>3. UNCHANGED protections \/ \E p \in Proc : RbacMove(p)
  <2>1. CASE Still BY <2>1 DEF Still, rbacVars
  <2>2. CASE \E p \in Proc : Moved(p)
    BY <2>2 DEF Moved, RequestMove, DecideMove, MergeMove, EmitMove, DispatchMove, TrustMove, CostMove,
                DetectMove, SuggestMove, DieMove, rbacVars
  <2> QED BY <2>1, <2>2, StepCases
<1> QED BY <1>1, <1>2, <1>3

LEMMA ProtectionsInit == Init => ProtectionsOK
<1> SUFFICES ASSUME Init PROVE ProtectionsOK OBVIOUS
<1>1. PICK s \in Scenarios : protections = s.protections BY DEF Init
<1> QED BY <1>1, ScenariosAssumption DEF TablesOK, ProtectionsOK

(* The rule of a branch, where there is one, is a row of the table.        *)
LEMMA ProtectionIs ==
  ASSUME ProtectionsOK, NEW branch
  PROVE  /\ ProtectionFor(branch) = {} \/ \E rule : ProtectionFor(branch) = {rule}
         /\ \A rule \in ProtectionFor(branch) : rule.role \in Role
<1> DEFINE hits == {k \in DOMAIN protections : <<protections[k].pattern, branch>> \in Matches}
<1>1. ProtectionFor(branch) = IF hits = {} THEN {} ELSE {protections[Min(hits)]} BY DEF ProtectionFor
<1>2. CASE hits = {} BY <1>1, <1>2
<1>3. CASE hits # {}
  <2>1. hits \in SUBSET Nat BY DEF ProtectionsOK, Numbered
  <2>2. Min(hits) \in hits BY <2>1, <1>3, MinOf
  <2>3. protections[Min(hits)].role \in Role BY <2>2 DEF ProtectionsOK
  <2> QED BY <1>1, <1>3, <2>3
<1> QED BY <1>2, <1>3
-----------------------------------------------------------------------------
(* The gate.  What a merge nobody disturbed has read still holds: it knows *)
(* the status, the approvals, the branch and the rule there are.           *)
Gate(s) ==
  /\ s.at \in MergeLabels \ {"idle"} => reviews[s.mem.review].status = "approved"
  /\ s.at \in {"merge.human", "merge.branch", "merge.rule", "merge.role"} =>
       s.mem.approvals = Approvals(s.mem.review)
  /\ s.at \in {"merge.branch", "merge.rule", "merge.role"} => s.mem.human = HumanApproval(s.mem.review)
  /\ s.at = "merge.rule" => s.mem.branch = head
  /\ s.at = "merge.role" => ProtectionFor(head) = {s.mem.rule}
  /\ s.at \in {"merge.recheck", "merge.write"} => GateOpen(s.mem.review, s.cmd.by)

GateInv ==
  /\ DOMAIN calm = Proc
  /\ \A p \in Proc : calm[p] => Gate(proc[p])

LEMMA GateKept ==
  ASSUME UNCHANGED GateVars, NEW s, Gate(s)
  PROVE  Gate(s)' BY DEF Gate, GateVars, GateOpen, Approvals, HumanApproval, ProtectionFor

LEMMA MergeOp ==
  ASSUME NEW s, ProcOK(s)
  PROVE  s.at \in MergeLabels \ {"idle"} => s.cmd.op = "merge" BY DEF ProcOK, LabelsOf, MergeLabels

(* What a merge does that is calm after its step.                          *)
LEMMA GateCalm ==
  ASSUME Base, Base', GateInv, Watch, NEW p \in Proc, calm'[p], proc'[p].at \in MergeLabels \ {"idle"}
  PROVE  /\ Merging(p)'
         /\ Merging(p) => calm[p] /\ Gate(proc[p]) /\ UNCHANGED GateVars
<1>0. ProcOK(proc'[p]) BY DEF Base, ProcsOK
<1>1. Merging(p)' BY <1>0, MergeOp DEF Merging, Cmd
<1>2. Merging(p) => calm[p] /\ UNCHANGED GateVars BY <1>1 DEF Watch
<1> QED BY <1>1, <1>2 DEF GateInv

LEMMA GateNext ==
  ASSUME NEW p \in Proc, UNCHANGED GateVars, Gate(proc'[p])
  PROVE  Gate(proc[p])'
<1>1. PICK s : s = proc'[p] OBVIOUS
<1>2. Gate(s)' BY <1>1, GateKept
<1> QED BY <1>1, <1>2 DEF Gate, GateOpen, Approvals, HumanApproval, ProtectionFor

(* What the gate asks about a rule is what it reads.                       *)
LEMMA AllowedOpens ==
  ASSUME ProtectionsOK, NEW r, NEW by, NEW rule, ProtectionFor(head) = {rule}, reviews[r].status = "approved",
         Allowed(rule, RoleOf(by), Approvals(r), HumanApproval(r))
  PROVE  GateOpen(r, by)
<1>1. rule.role \in Role BY ProtectionIs
<1>2. rule.role # "reader" => Rank[rule.role] > 0 BY <1>1 DEF Role, Rank
<1>3. Rank["reader"] = 0 BY DEF Rank
<1>4. \A role \in Role : Rank[role] \in Nat BY DEF Role, Rank
<1>5. ASSUME rule.role # "reader"
      PROVE  by \in DOMAIN roles /\ Rank[roles[by].role] >= Rank[rule.role]
             /\ (roles[by].expires # Never => now < roles[by].expires)
  <2>1. Rank[RoleOf(by)] >= Rank[rule.role] BY DEF Allowed
  <2>2. RoleOf(by) # "reader"
    <3>1. ~(Rank["reader"] >= Rank[rule.role]) BY <1>1, <1>2, <1>3, <1>4, <1>5
    <3> QED BY <2>1, <3>1
  <2>3. by \in DOMAIN roles /\ (roles[by].expires = Never \/ roles[by].expires > now) BY <2>2 DEF RoleOf
  <2>4. RoleOf(by) = roles[by].role BY <2>3 DEF RoleOf
  <2>5. roles[by].expires # Never => now < roles[by].expires BY <2>3
  <2> QED BY <2>1, <2>3, <2>4, <2>5
<1>6. Approvals(r) >= rule.min /\ (rule.human => HumanApproval(r)) BY DEF Allowed
<1> QED BY <1>5, <1>6 DEF GateOpen

LEMMA GateMerge ==
  ASSUME Base, Base', ProtectionsOK, GateInv, Watch, NEW p \in Proc, MergeMove(p), Moves(p), calm'[p]
  PROVE  Gate(proc[p])'
<1> USE DEF At, Mem
<1>0. CASE proc'[p].at \notin MergeLabels \ {"idle"} BY <1>0 DEF Gate, MergeLabels
<1>1. CASE proc'[p].at \in MergeLabels \ {"idle"}
  <2>1. Merging(p) => calm[p] /\ Gate(proc[p]) /\ UNCHANGED GateVars BY <1>1, GateCalm
  <2>2. proc[p].at \in MergeLabels \ {"idle"} => calm[p] /\ Gate(proc[p]) /\ UNCHANGED GateVars
    <3>1. ProcOK(proc[p]) BY DEF Base, ProcsOK
    <3> QED BY <2>1, <3>1, MergeOp DEF Merging, Cmd
  <2>3. ASSUME MergeCount(p) PROVE Gate(proc[p])'
    <3>1. /\ At(p, "merge.count") /\ proc'[p].at = "merge.human" /\ proc'[p].cmd = proc[p].cmd
          /\ proc'[p].mem = [review |-> Mem(p).review, approvals |-> Approvals(Mem(p).review)]
      BY <2>3, AfterGoto DEF MergeCount
    <3>2. Gate(proc[p]) /\ UNCHANGED GateVars BY <2>2, <3>1 DEF MergeLabels
    <3>3. Gate(proc'[p]) BY <3>1, <3>2 DEF Gate, MergeLabels
    <3> QED BY <3>2, <3>3, GateNext
  <2>4. ASSUME MergeHuman(p) PROVE Gate(proc[p])'
    <3>1. /\ At(p, "merge.human") /\ proc'[p].at = "merge.branch" /\ proc'[p].cmd = proc[p].cmd
          /\ proc'[p].mem = [review |-> Mem(p).review, approvals |-> Mem(p).approvals,
                             human |-> HumanApproval(Mem(p).review)] BY <2>4, AfterGoto DEF MergeHuman
    <3>2. Gate(proc[p]) /\ UNCHANGED GateVars BY <2>2, <3>1 DEF MergeLabels
    <3>3. Gate(proc'[p]) BY <3>1, <3>2 DEF Gate, MergeLabels
    <3> QED BY <3>2, <3>3, GateNext
  <2>5. ASSUME MergeBranch(p) PROVE Gate(proc[p])'
    <3>1. /\ At(p, "merge.branch") /\ proc'[p].at = "merge.rule" /\ proc'[p].cmd = proc[p].cmd
          /\ proc'[p].mem = [review |-> Mem(p).review, approvals |-> Mem(p).approvals,
                             human |-> Mem(p).human, branch |-> head] BY <2>5, AfterGoto DEF MergeBranch
    <3>2. Gate(proc[p]) /\ UNCHANGED GateVars BY <2>2, <3>1 DEF MergeLabels
    <3>3. Gate(proc'[p]) BY <3>1, <3>2 DEF Gate, MergeLabels
    <3> QED BY <3>2, <3>3, GateNext
  <2>6. ASSUME MergeRule(p) PROVE Gate(proc[p])'
    <3>1. At(p, "merge.rule") BY <2>6 DEF MergeRule
    <3>2. Gate(proc[p]) /\ UNCHANGED GateVars BY <2>2, <3>1 DEF MergeLabels
    <3>3. /\ Mem(p).branch = head /\ reviews[Mem(p).review].status = "approved"
          /\ Mem(p).approvals = Approvals(Mem(p).review) /\ Mem(p).human = HumanApproval(Mem(p).review)
      BY <3>1, <3>2 DEF Gate, MergeLabels
    <3>4. CASE ProtectionFor(head) = {}
      <4>1. Continue(p, Goto(p, "merge.recheck", [review |-> Mem(p).review])) BY <2>6, <3>3, <3>4 DEF MergeRule
      <4>2. proc'[p].at = "merge.recheck" /\ proc'[p].mem = [review |-> Mem(p).review] BY <4>1, AfterGoto
      <4>3. GateOpen(Mem(p).review, proc'[p].cmd.by) BY <3>3, <3>4 DEF GateOpen
      <4>4. Gate(proc'[p]) BY <3>3, <4>2, <4>3 DEF Gate, MergeLabels
      <4> QED BY <3>2, <4>4, GateNext
    <3>5. CASE ProtectionFor(head) # {}
      <4>1. PICK rule : ProtectionFor(head) = {rule} BY <3>5, ProtectionIs
      <4>2. (CHOOSE r \in ProtectionFor(head) : TRUE) = rule BY <4>1
      <4>3. Continue(p, Goto(p, "merge.role", [review |-> Mem(p).review, approvals |-> Mem(p).approvals,
                                               human |-> Mem(p).human, rule |-> rule]))
        BY <2>6, <3>3, <3>5, <4>2 DEF MergeRule
      <4>4. /\ proc'[p].at = "merge.role"
            /\ proc'[p].mem = [review |-> Mem(p).review, approvals |-> Mem(p).approvals,
                               human |-> Mem(p).human, rule |-> rule] BY <4>3, AfterGoto
      <4>5. Gate(proc'[p]) BY <3>3, <4>1, <4>4 DEF Gate, MergeLabels
      <4> QED BY <3>2, <4>5, GateNext
    <3> QED BY <3>4, <3>5
  <2>7. ASSUME MergeRole(p) PROVE Gate(proc[p])'
    <3>1. At(p, "merge.role") BY <2>7 DEF MergeRole
    <3>2. Gate(proc[p]) /\ UNCHANGED GateVars BY <2>2, <3>1 DEF MergeLabels
    <3>3. /\ ProtectionFor(head) = {Mem(p).rule} /\ reviews[Mem(p).review].status = "approved"
          /\ Mem(p).approvals = Approvals(Mem(p).review) /\ Mem(p).human = HumanApproval(Mem(p).review)
      BY <3>1, <3>2 DEF Gate, MergeLabels
    <3>4. CASE Allowed(Mem(p).rule, RoleOf(Cmd(p).by), Mem(p).approvals, Mem(p).human)
      <4>1. Continue(p, Goto(p, "merge.recheck", [review |-> Mem(p).review])) BY <2>7, <3>4 DEF MergeRole
      <4>2. /\ proc'[p].at = "merge.recheck" /\ proc'[p].mem = [review |-> Mem(p).review]
            /\ proc'[p].cmd = proc[p].cmd BY <4>1, AfterGoto
      <4>3. GateOpen(Mem(p).review, Cmd(p).by) BY <3>3, <3>4, AllowedOpens
      <4>4. Gate(proc'[p]) BY <3>3, <4>2, <4>3 DEF Gate, MergeLabels, Cmd
      <4> QED BY <3>2, <4>4, GateNext
    <3>5. CASE ~Allowed(Mem(p).rule, RoleOf(Cmd(p).by), Mem(p).approvals, Mem(p).human)
      <4>1. Continue(p, Idle) BY <2>7, <3>5 DEF MergeRole
      <4>2. proc'[p] = Idle BY <4>1 DEF Continue, Step, Base, ProcsOK
      <4> QED BY <1>1, <4>2 DEF Idle
    <3> QED BY <3>4, <3>5
  <2>8. ASSUME MergeRecheck(p) PROVE Gate(proc[p])'
    <3>1. At(p, "merge.recheck") BY <2>8 DEF MergeRecheck
    <3>2. Gate(proc[p]) /\ UNCHANGED GateVars BY <2>2, <3>1 DEF MergeLabels
    <3>3. reviews[Mem(p).review].status = "approved" /\ GateOpen(Mem(p).review, Cmd(p).by)
      BY <3>1, <3>2 DEF Gate, MergeLabels, Cmd
    <3>4. Continue(p, [Goto(p, "merge.write", Mem(p)) EXCEPT !.on = ReviewRow(Mem(p).review)])
      BY <2>8, <3>3 DEF MergeRecheck
    <3>5. DOMAIN proc = Proc /\ DOMAIN proc[p] = ProcFields BY <3>1, OpOf DEF Base, ProcsOK
    <3>6. proc'[p].at = "merge.write" /\ proc'[p].mem = Mem(p) /\ proc'[p].cmd = proc[p].cmd
      BY <3>4, <3>5 DEF Continue, Step, Goto, ProcFields
    <3>7. Gate(proc'[p]) BY <3>3, <3>6 DEF Gate, MergeLabels, Cmd
    <3> QED BY <3>2, <3>7, GateNext
  <2>9. ASSUME MergeWrite(p) PROVE Gate(proc[p])'
    <3>1. At(p, "merge.write") /\ Continue(p, Return(p)) BY <2>9 DEF MergeWrite
    <3>2. proc[p].rest = <<>> /\ proc[p].to = {} BY <3>1, OpOf DEF RestOf
    <3>3. proc'[p] = Idle BY <3>1, <3>2, AfterReturn
    <3> QED BY <1>1, <3>3 DEF Idle
  <2>10. ASSUME NEW c \in todo, Merge(p, c) PROVE Gate(proc[p])'
    <3> DEFINE r == ByChangeset(c.cs)
    <3>1. CASE r = 0 \/ reviews[r].status # "approved"
      <4>1. Only(p, c) BY <2>10, <3>1 DEF Merge
      <4>2. proc[p].at = "idle" /\ proc' = proc BY <4>1 DEF Only
      <4> QED BY <1>1, <4>2
    <3>2. CASE r # 0 /\ reviews[r].status = "approved"
      <4>1. Begin(p, c, "merge.count", NoRow, [review |-> r], <<>>) /\ UNCHANGED reviews
        BY <2>10, <3>2 DEF Merge, reviewVars
      <4>2. proc'[p].at = "merge.count" /\ proc'[p].mem = [review |-> r] BY <4>1, AfterBegin
      <4>3. reviews'[r].status = "approved" BY <3>2, <4>1
      <4> QED BY <4>2, <4>3 DEF Gate, MergeLabels
    <3> QED BY <3>1, <3>2
  <2>11. ASSUME NEW c \in todo, SwitchBranch(p, c) PROVE Gate(proc[p])'
    <3>1. proc[p].at = "idle" /\ proc' = proc BY <2>11 DEF SwitchBranch, Only
    <3> QED BY <1>1, <3>1
  <2> QED BY <2>3, <2>4, <2>5, <2>6, <2>7, <2>8, <2>9, <2>10, <2>11 DEF MergeMove
<1> QED BY <1>0, <1>1

LEMMA GateStep == Base /\ ProtectionsOK /\ GateInv /\ [Next]_vars => GateInv'
<1> SUFFICES ASSUME Base, ProtectionsOK, GateInv, [Next]_vars PROVE GateInv' OBVIOUS
<1>1. CASE UNCHANGED vars
  <2>1. calm' = calm /\ proc' = proc /\ UNCHANGED GateVars
    BY <1>1 DEF vars, cmdVars, rbacVars, reviewVars, GateVars
  <2>2. \A p \in Proc : calm'[p] => Gate(proc[p])' BY <2>1, GateNext DEF GateInv
  <2> QED BY <2>1, <2>2 DEF GateInv
<1>2. CASE Next
  <2> USE <1>2
  <2>1. Watch BY DEF Next
  <2>2. DOMAIN calm' = Proc BY <2>1 DEF Watch
  <2>3. Base' BY BaseStep
  <2>4. ASSUME NEW q \in Proc, calm'[q], proc'[q] = proc[q] PROVE Gate(proc[q])'
    <3>1. CASE proc'[q].at \notin MergeLabels \ {"idle"} BY <3>1 DEF Gate, MergeLabels
    <3>2. CASE proc'[q].at \in MergeLabels \ {"idle"}
      <4>1. ProcOK(proc[q]) BY DEF Base, ProcsOK
      <4>2. Merging(q) BY <2>4, <3>2, <4>1, MergeOp DEF Merging, Cmd
      <4>3. Gate(proc[q]) /\ UNCHANGED GateVars BY <2>1, <2>3, <2>4, <3>2, <4>2, GateCalm
      <4> QED BY <2>4, <4>3, GateNext
    <3> QED BY <3>1, <3>2
  <2>5. CASE Still
    <3>1. \A q \in Proc : calm'[q] => Gate(proc[q])' BY <2>4, <2>5 DEF Still
    <3> QED BY <2>2, <3>1 DEF GateInv
  <2>6. ASSUME NEW p \in Proc, Moves(p), MergeMove(p) PROVE GateInv'
    <3>1. calm'[p] => Gate(proc[p])' BY <2>1, <2>3, <2>6, GateMerge
    <3>2. \A q \in Proc \ {p} : calm'[q] => Gate(proc[q])' BY <2>4, <2>6 DEF Moves
    <3> QED BY <2>2, <3>1, <3>2 DEF GateInv
  <2>7. ASSUME NEW p \in Proc, Moves(p), proc'[p].at \notin MergeLabels \ {"idle"} PROVE GateInv'
    <3>1. Gate(proc[p])' BY <2>7 DEF Gate, MergeLabels
    <3>2. \A q \in Proc \ {p} : calm'[q] => Gate(proc[q])' BY <2>4, <2>7 DEF Moves
    <3> QED BY <2>2, <3>1, <3>2 DEF GateInv
  <2>8. Still \/ \E p \in Proc : Moves(p) /\ (MergeMove(p) \/ proc'[p].at \notin MergeLabels \ {"idle"})
    BY ReviewCases DEF MovesIn, RequestLabels, DecideLabels, MergeLabels, ReviewsElsewhere, ReviewInner
  <2> QED BY <2>5, <2>6, <2>7, <2>8
<1> QED BY <1>1, <1>2

LEMMA GateInit == Init => GateInv
<1> SUFFICES ASSUME Init PROVE GateInv OBVIOUS
<1>1. \A p \in Proc : proc[p] = Idle BY DEF Init
<1>2. Idle.at = "idle" BY DEF Idle
<1>3. \A p \in Proc : Gate(proc[p]) BY <1>1, <1>2 DEF Gate, MergeLabels
<1> QED BY <1>3 DEF GateInv, Init

(* The step that merges a review is the one the gate was asked for.        *)
MergeStep ==
  \A r \in DOMAIN reviews :
    /\ reviews[r].status # "merged" /\ reviews'[r].status = "merged" =>
         \E p \in Proc : /\ At(p, "merge.write") /\ Mem(p).review = r
                         /\ calm[p] => GateOpen(r, Cmd(p).by)
                         /\ ReviewRow(r) \notin tainted => reviews[r].status = "approved"
    /\ reviews[r].status = "merged" /\ ReviewRow(r) \notin tainted' => reviews'[r].status = "merged"

LEMMA MergeStepKeeps ==
  ASSUME Base, ReviewTypes, FoldOK, GateInv, [Next]_vars
  PROVE  MergeStep
<1> USE DEF At, Mem
<1>1. CASE \A r \in DOMAIN reviews : reviews'[r] = reviews[r] BY <1>1 DEF MergeStep
<1>2. ASSUME NEW p \in Proc, Moves(p), RequestMove(p) PROVE MergeStep
  <2>1. CASE UNCHANGED reviews BY <2>1, <1>1
  <2>2. CASE reviews' = Append(reviews, [cs |-> Cmd(p).cs, status |-> "pending"]) BY <2>2, <1>1 DEF ReviewTypes
  <2> QED BY <1>2, <2>1, <2>2, RequestDoes DEF reviewVars
<1>3. ASSUME NEW p \in Proc, Moves(p), DecideMove(p) PROVE MergeStep
  <2>1. CASE UNCHANGED reviews BY <2>1, <1>1
  <2>2. CASE At(p, "decide.write") /\ reviews' = [reviews EXCEPT ![Mem(p).review].status = Mem(p).status]
    <3> DEFINE own == Mem(p).review
    <3>1. InHand(proc[p]) BY DEF ReviewTypes
    <3>2. own \in DOMAIN reviews /\ Mem(p).status \in Status \ {"merged"} BY <2>2, <3>1 DEF InHand
    <3>3. reviews \in Seq(Review) BY DEF ReviewTypes
    <3>4. /\ reviews'[own].status = Mem(p).status
          /\ \A q \in DOMAIN reviews \ {own} : reviews'[q] = reviews[q] BY <2>2, <3>2, <3>3, StatusSet
    <3>5. ReviewRow(own) \notin tainted => reviews[own].status # "merged"
      <4>1. ProcOK(proc[p]) BY DEF Base, ProcsOK
      <4>2. proc[p].on = ReviewRow(own) BY <2>2, <4>1, ReviewRowsAt
      <4> QED BY <2>2, <3>2, <4>2 DEF FoldOK, ReviewStory
    <3>6. tainted \subseteq tainted' BY <1>3 DEF Moves
    <3> QED BY <3>2, <3>4, <3>5, <3>6 DEF MergeStep
  <2> QED BY <1>3, <2>1, <2>2, DecideDoes
<1>4. ASSUME NEW p \in Proc, Moves(p), MergeMove(p) PROVE MergeStep
  <2>1. CASE UNCHANGED reviews BY <2>1, <1>1
  <2>2. CASE At(p, "merge.write") /\ reviews' = [reviews EXCEPT ![Mem(p).review].status = "merged"]
    <3> DEFINE own == Mem(p).review
    <3>1. InHand(proc[p]) BY DEF ReviewTypes
    <3>2. own \in DOMAIN reviews BY <2>2, <3>1 DEF InHand, MergeLabels
    <3>3. reviews \in Seq(Review) /\ "merged" \in Status BY DEF ReviewTypes, Status
    <3>4. /\ reviews'[own].status = "merged"
          /\ \A q \in DOMAIN reviews \ {own} : reviews'[q] = reviews[q] BY <2>2, <3>2, <3>3, StatusSet
    <3>5. ReviewRow(own) \notin tainted => reviews[own].status = "approved"
      <4>1. ProcOK(proc[p]) BY DEF Base, ProcsOK
      <4>2. proc[p].on = ReviewRow(own) BY <2>2, <4>1, ReviewRowsAt
      <4> QED BY <2>2, <3>2, <4>2 DEF FoldOK, ReviewStory
    <3>6. calm[p] => GateOpen(own, Cmd(p).by) BY <2>2 DEF GateInv, Gate, Cmd
    <3> QED BY <2>2, <3>2, <3>4, <3>5, <3>6 DEF MergeStep
  <2> QED BY <1>4, <2>1, <2>2, MergeDoes
<1> QED BY <1>1, <1>2, <1>3, <1>4, ReviewCases DEF Still, ReviewsElsewhere, reviewVars
-----------------------------------------------------------------------------
(* Notifications.  Steps by others leave the tables alone; recipients are  *)
(* found by the suggestion only, and a dispatch that dies taints its row.  *)
NotifyElsewhere(p) ==
  /\ UNCHANGED notifyVars
  /\ proc'[p].at \notin (EmitLabels \cup DispatchLabels) \ {"idle", "emit"}
  /\ proc'[p].to \in {{}, proc[p].to} \/ (At(p, "suggest") /\ proc'[p].to = Reviewers(Cmd(p).cs))
  /\ proc'[p].on # Outbox /\ (proc[p].on = Outbox => Outbox \in tainted')

LEMMA OutboxAt ==
  ASSUME NEW s, ProcOK(s)
  PROVE  s.on = Outbox <=> s.at \in DispatchLabels \ {"idle"}
BY DEF ProcOK, RowAt, DispatchLabels, Outbox, RoleRow, RequestRow, ReviewRow, AgentRow, CostRow, NoRow, Idle

LEMMA ToAt ==
  ASSUME NEW s, ProcOK(s)
  PROVE  s.to # {} => s.at \in {"request", "request.insert", "emit", "emit.notify"} BY DEF ProcOK

LEMMA RequestTo ==
  ASSUME Base, NEW p \in Proc, RequestMove(p), Moves(p)
  PROVE  proc'[p].to \in {{}, proc[p].to}
<1> USE DEF At
<1>1. ASSUME NEW c \in todo, Request(p, c) PROVE proc'[p].to \in {{}, proc[p].to}
  <2>1. CASE ByChangeset(c.cs) # 0 BY <1>1, <2>1 DEF Request, Only
  <2>2. CASE ByChangeset(c.cs) = 0 BY <1>1, <2>2, AfterBegin DEF Request
  <2> QED BY <2>1, <2>2
<1>2. ASSUME RequestFor(p, Cmd(p).cs) PROVE proc'[p].to \in {{}, proc[p].to}
  <2>1. At(p, "request") BY <1>2 DEF RequestFor
  <2>2. proc[p].rest = <<"emit">> /\ DOMAIN proc[p] = ProcFields BY <2>1, OpOf DEF LabelsOf, RestOf
  <2>3. CASE Continue(p, Return(p)) BY <2>1, <2>2, <2>3, AfterReturn
  <2>4. CASE Continue(p, [Goto(p, "request.insert", None) EXCEPT !.on = RequestRow(Cmd(p).cs)])
    BY <2>2, <2>4 DEF Continue, Step, Base, ProcsOK, Goto, ProcFields
  <2> QED BY <1>2, <2>3, <2>4 DEF RequestFor
<1>3. ASSUME RequestInsert(p) PROVE proc'[p].to \in {{}, proc[p].to}
  <2>1. At(p, "request.insert") /\ Continue(p, Return(p)) BY <1>3 DEF RequestInsert
  <2>2. proc[p].rest # <<>> \/ proc[p].to = {} BY <2>1, OpOf DEF LabelsOf, RestOf
  <2>3. proc'[p] = Return(p) BY <2>1, <2>2, AfterReturn
  <2>4. Idle.to = {} BY DEF Idle
  <2> QED BY <2>1, <2>2, <2>4, AfterReturn
<1> QED BY <1>1, <1>2, <1>3 DEF RequestMove

LEMMA DecideTo ==
  ASSUME Base, NEW p \in Proc, DecideMove(p), Moves(p)
  PROVE  proc'[p].to = {} \/ proc' = proc
<1> USE DEF At
<1>1. ASSUME NEW c \in todo, Decide(p, c) PROVE proc'[p].to = {} \/ proc' = proc
  <2>1. CASE Only(p, c) BY <2>1 DEF Only
  <2>2. CASE Begin(p, c, "decide.put", ReviewRow(ByChangeset(c.cs)), ByChangeset(c.cs), <<"emit">>)
    BY <2>2, AfterBegin
  <2> QED BY <1>1, <2>1, <2>2 DEF Decide
<1>2. CASE \E c \in todo : Comment(p, c) BY <1>2 DEF Comment, Only
<1>3. CASE DecidePut(p) \/ DecideFold(p) BY <1>3, OpOf, AfterGoto DEF DecidePut, DecideFold, LabelsOf
<1>4. ASSUME DecideWrite(p) PROVE proc'[p].to = {}
  <2>1. At(p, "decide.write") /\ Continue(p, Return(p)) BY <1>4 DEF DecideWrite
  <2>2. proc[p].to = {} /\ proc[p].rest = <<"emit">> BY <2>1, OpOf DEF LabelsOf, RestOf
  <2>3. proc[p].to = {} /\ proc[p].rest # <<>> /\ ~At(p, "idle") BY <2>1, <2>2
  <2> QED BY <2>1, <2>3, AfterReturn
<1> QED BY <1>1, <1>2, <1>3, <1>4 DEF DecideMove

LEMMA SuggestTo ==
  ASSUME Base, NEW p \in Proc, Suggest(p)
  PROVE  At(p, "suggest") /\ proc'[p].to = Reviewers(Cmd(p).cs) /\ proc'[p].cmd = proc[p].cmd
<1>1. At(p, "suggest") /\ Continue(p, [Return(p) EXCEPT !.to = Reviewers(Cmd(p).cs)]) BY DEF Suggest
<1>2. proc[p].rest = <<"request", "emit">> /\ DOMAIN proc[p] = ProcFields BY <1>1, OpOf DEF At, RestOf
<1>3. DOMAIN Return(p) = ProcFields /\ Return(p).cmd = proc[p].cmd BY <1>2 DEF Return, ProcFields
<1>4. proc'[p] = [Return(p) EXCEPT !.to = Reviewers(Cmd(p).cs)] BY <1>1 DEF Continue, Step, Base, ProcsOK
<1> QED BY <1>1, <1>3, <1>4 DEF ProcFields

LEMMA NotifyCases ==
  ASSUME Base, [Next]_vars
  PROVE  \/ Still
         \/ \E p \in Proc : /\ Moves(p)
                            /\ EmitMove(p) \/ DispatchMove(p) \/ NotifyElsewhere(p)
<1> SUFFICES ASSUME NEW p \in Proc, Moved(p), Moves(p)
             PROVE  EmitMove(p) \/ DispatchMove(p) \/ NotifyElsewhere(p) BY StepCases
<1> USE DEF At
<1> DEFINE busy == (EmitLabels \cup DispatchLabels) \ {"idle", "emit"}
<1>1. ProcOK(proc[p]) /\ ProcOK(proc'[p]) BY DEF Moves, Base, ProcsOK
<1>2. (proc[p].on = Outbox <=> proc[p].at \in DispatchLabels \ {"idle"})
      /\ (proc'[p].on = Outbox <=> proc'[p].at \in DispatchLabels \ {"idle"}) BY <1>1, OutboxAt
<1>3. proc'[p].to # {} => proc'[p].at \in {"request", "request.insert", "emit", "emit.notify"} BY <1>1, ToAt
<1>4. CASE DieMove(p) /\ proc'[p] = Idle /\ (proc[p].on # NoRow => proc[p].on \in tainted')
  <2>1. proc'[p].at = "idle" /\ proc'[p].to = {} /\ proc'[p].on = NoRow BY <1>4 DEF Idle
  <2>2. Outbox # NoRow BY DEF Outbox, NoRow
  <2> QED BY <1>4, <2>1, <2>2 DEF NotifyElsewhere, DieMove
<1>5. ASSUME NEW labels, labels \cap busy = {}, UNCHANGED notifyVars, proc[p].at \in labels, proc'[p].at \in labels,
             \/ labels \cap {"request", "request.insert", "emit", "emit.notify"} = {}
             \/ proc'[p].to \in {{}, proc[p].to}
             \/ At(p, "suggest") /\ proc'[p].to = Reviewers(Cmd(p).cs)
      PROVE  NotifyElsewhere(p)
  <2>1. DispatchLabels \ {"idle"} \subseteq busy BY DEF DispatchLabels
  <2>2. proc[p].on # Outbox /\ proc'[p].on # Outbox BY <1>2, <1>5, <2>1
  <2>3. proc'[p].at \notin busy BY <1>5
  <2> HIDE DEF busy
  <2>4. proc'[p].to \in {{}, proc[p].to} \/ (At(p, "suggest") /\ proc'[p].to = Reviewers(Cmd(p).cs))
    BY <1>3, <1>5
  <2> QED BY <1>5, <2>2, <2>3, <2>4 DEF NotifyElsewhere, busy
<1>6. CASE RequestMove(p) /\ MovesIn(p, RequestLabels)
  <2>1. RequestLabels \cap busy = {} BY DEF RequestLabels, EmitLabels, DispatchLabels
  <2> QED BY <1>5, <1>6, <2>1, RequestTo DEF MovesIn, RequestMove
<1>7. CASE DecideMove(p) /\ MovesIn(p, DecideLabels)
  <2>1. DecideLabels \cap busy = {} BY DEF DecideLabels, EmitLabels, DispatchLabels
  <2>2. proc'[p].to \in {{}, proc[p].to} BY <1>7, DecideTo
  <2> QED BY <1>5, <1>7, <2>1, <2>2 DEF MovesIn, DecideMove
<1>8. CASE SuggestMove(p) /\ MovesIn(p, {"suggest", "request"})
  <2>1. {"suggest", "request"} \cap busy = {} BY DEF EmitLabels, DispatchLabels
  <2> QED BY <1>5, <1>8, <2>1, SuggestTo DEF MovesIn, SuggestMove
<1>9. \A labels \in {RbacLabels, MergeLabels, TrustLabels, CostLabels, DetectLabels} :
        labels \cap busy = {} /\ labels \cap {"request", "request.insert", "emit", "emit.notify"} = {}
  BY DEF EmitLabels, DispatchLabels, RbacLabels, MergeLabels, TrustLabels, CostLabels, DetectLabels
<1> HIDE DEF busy
<1>10. CASE RbacMove(p) /\ MovesIn(p, RbacLabels) BY <1>5, <1>9, <1>10 DEF MovesIn, RbacMove
<1>11. CASE MergeMove(p) /\ MovesIn(p, MergeLabels) BY <1>5, <1>9, <1>11 DEF MovesIn, MergeMove
<1>12. CASE TrustMove(p) /\ MovesIn(p, TrustLabels) BY <1>5, <1>9, <1>12 DEF MovesIn, TrustMove
<1>13. CASE CostMove(p) /\ MovesIn(p, CostLabels) BY <1>5, <1>9, <1>13 DEF MovesIn, CostMove
<1>14. CASE DetectMove(p) /\ MovesIn(p, DetectLabels) BY <1>5, <1>9, <1>14 DEF MovesIn, DetectMove
<1> QED BY <1>4, <1>6, <1>7, <1>8, <1>10, <1>11, <1>12, <1>13, <1>14 DEF Moved
-----------------------------------------------------------------------------
(* What the two steps of emit do.                                          *)
LEMMA EmitDoes ==
  ASSUME Base, NEW p \in Proc, EmitMove(p), Moves(p)
  PROVE  \/ /\ At(p, "emit") /\ Cmd(p).op \in {"promote", "decide"} /\ UNCHANGED inbox
            /\ events' = Append(events, [type |-> EventType(Cmd(p)), target |-> Cmd(p).cs, dispatched |-> FALSE])
            /\ \/ proc[p].to = {} /\ proc'[p] = Idle
               \/ /\ proc[p].to # {} /\ proc'[p].at = "emit.notify" /\ proc'[p].mem = Len(events) + 1
                  /\ proc'[p].to = proc[p].to
         \/ /\ At(p, "emit.notify") /\ UNCHANGED events
            /\ \E to \in proc[p].to :
                 /\ inbox' = Append(inbox, [event |-> Mem(p), to |-> to[2], read |-> FALSE])
                 /\ \/ proc[p].to = {to} /\ proc'[p] = Idle
                    \/ proc'[p].at = "emit.notify" /\ proc'[p].mem = Mem(p) /\ proc'[p].to = proc[p].to \ {to}
<1> USE DEF At
<1>1. ASSUME EmitEvent(p)
      PROVE  /\ At(p, "emit") /\ Cmd(p).op \in {"promote", "decide"} /\ UNCHANGED inbox
             /\ events' = Append(events, [type |-> EventType(Cmd(p)), target |-> Cmd(p).cs, dispatched |-> FALSE])
             /\ \/ proc[p].to = {} /\ proc'[p] = Idle
                \/ /\ proc[p].to # {} /\ proc'[p].at = "emit.notify" /\ proc'[p].mem = Len(events) + 1
                   /\ proc'[p].to = proc[p].to
  <2>1. /\ At(p, "emit") /\ UNCHANGED inbox
        /\ events' = Append(events, [type |-> EventType(Cmd(p)), target |-> Cmd(p).cs, dispatched |-> FALSE])
        /\ proc[p].to = {} => Continue(p, Return(p))
        /\ proc[p].to # {} => Continue(p, Goto(p, "emit.notify", Len(events) + 1)) BY <1>1 DEF EmitEvent
  <2>2. Cmd(p).op \in {"promote", "decide"} /\ proc[p].rest = <<>> BY <2>1, OpOf DEF LabelsOf, RestOf
  <2>3. CASE proc[p].to = {} BY <2>1, <2>2, <2>3, AfterReturn
  <2>4. CASE proc[p].to # {} BY <2>1, <2>2, <2>4, AfterGoto
  <2> QED BY <2>3, <2>4
<1>2. ASSUME EmitNotify(p)
      PROVE  /\ At(p, "emit.notify") /\ UNCHANGED events
             /\ \E to \in proc[p].to :
                  /\ inbox' = Append(inbox, [event |-> Mem(p), to |-> to[2], read |-> FALSE])
                  /\ \/ proc[p].to = {to} /\ proc'[p] = Idle
                     \/ proc'[p].at = "emit.notify" /\ proc'[p].mem = Mem(p) /\ proc'[p].to = proc[p].to \ {to}
  <2>1. PICK to \in proc[p].to :
          /\ inbox' = Append(inbox, [event |-> Mem(p), to |-> to[2], read |-> FALSE])
          /\ Continue(p, [IF proc[p].to \ {to} = {} THEN Return(p) ELSE proc[p] EXCEPT !.to = proc[p].to \ {to}])
    BY <1>2 DEF EmitNotify
  <2>2. At(p, "emit.notify") /\ UNCHANGED events BY <1>2 DEF EmitNotify
  <2>3. proc[p].rest = <<>> /\ DOMAIN proc[p] = ProcFields BY <2>2, OpOf DEF LabelsOf, RestOf
  <2>4. CASE proc[p].to \ {to} = {}
    <3>1. Return(p) = Idle BY <2>3 DEF Return
    <3>2. Continue(p, [Idle EXCEPT !.to = {}]) BY <2>1, <2>4, <3>1
    <3>3. Idle = [k \in DOMAIN Idle |-> Idle[k]] /\ Idle.to = {} BY DEF Idle
    <3>4. [Idle EXCEPT !.to = {}] = Idle BY <3>3
    <3>5. proc'[p] = Idle BY <3>2, <3>4 DEF Continue, Step, Base, ProcsOK
    <3> QED BY <2>1, <2>2, <2>4, <3>5
  <2>5. CASE proc[p].to \ {to} # {}
    <3>1. proc'[p] = [proc[p] EXCEPT !.to = proc[p].to \ {to}] BY <2>1, <2>5 DEF Continue, Step, Base, ProcsOK
    <3>2. proc'[p].at = "emit.notify" /\ proc'[p].mem = Mem(p) /\ proc'[p].to = proc[p].to \ {to}
      BY <2>2, <2>3, <3>1 DEF ProcFields, Mem
    <3> QED BY <2>1, <2>2, <3>2
  <2> QED BY <2>4, <2>5
<1> QED BY <1>1, <1>2 DEF EmitMove

(* Dispatching touches no notification, and of an event only its mark;     *)
(* acknowledging only what was read.                                       *)
SameEvents ==
  /\ Len(events') = Len(events) /\ DOMAIN events' = DOMAIN events
  /\ \A e \in DOMAIN events : events'[e].type = events[e].type /\ events'[e].target = events[e].target
SameInbox ==
  /\ DOMAIN inbox' = DOMAIN inbox
  /\ \A n \in DOMAIN inbox : inbox'[n].event = inbox[n].event /\ inbox'[n].to = inbox[n].to

EventRow == [type : EventTypes, target : Changeset, dispatched : BOOLEAN]
Letter   == [event : Nat, to : Person, read : BOOLEAN]

LEMMA MarkedEvents ==
  ASSUME events \in Seq(EventRow), NEW e, events' = [events EXCEPT ![e].dispatched = TRUE]
  PROVE  /\ events' \in Seq(EventRow) /\ SameEvents
         /\ e \in DOMAIN events => events'[e].dispatched
         /\ \A x \in DOMAIN events \ {e} : events'[x] = events[x]
<1>1. DOMAIN events' = DOMAIN events /\ DOMAIN events = 1 .. Len(events) /\ Len(events) \in Nat OBVIOUS
<1>2. \A x \in DOMAIN events : events[x] \in EventRow OBVIOUS
<1>3. \A x \in DOMAIN events : events'[x] = IF x = e THEN [events[x] EXCEPT !.dispatched = TRUE] ELSE events[x]
  OBVIOUS
<1>4. \A x \in DOMAIN events : /\ events'[x] \in EventRow /\ events'[x].type = events[x].type
                               /\ events'[x].target = events[x].target BY <1>2, <1>3 DEF EventRow
<1>5. events' = [x \in 1 .. Len(events) |-> events'[x]] BY <1>1
<1> DEFINE n == Len(events)
<1>8. n \in Nat /\ events' \in [1 .. n -> EventRow] BY <1>1, <1>4, <1>5
<1> HIDE DEF n
<1>9. events' \in Seq(EventRow) BY <1>8
<1>10. Len(events') \in Nat /\ DOMAIN events' = 1 .. Len(events') BY <1>9
<1>6. events' \in Seq(EventRow) /\ Len(events') = Len(events) BY <1>1, <1>9, <1>10 DEF n
<1>7. e \in DOMAIN events => events'[e].dispatched BY <1>2, <1>3 DEF EventRow
<1> QED BY <1>1, <1>3, <1>4, <1>6, <1>7 DEF SameEvents

LEMMA ReadInbox ==
  ASSUME inbox \in Seq(Letter), NEW some,
         inbox' = [n \in DOMAIN inbox |-> IF n \in some THEN [inbox[n] EXCEPT !.read = TRUE] ELSE inbox[n]]
  PROVE  inbox' \in Seq(Letter) /\ SameInbox
<1>1. DOMAIN inbox' = DOMAIN inbox /\ DOMAIN inbox = 1 .. Len(inbox) /\ Len(inbox) \in Nat OBVIOUS
<1>2. \A n \in DOMAIN inbox : inbox[n] \in Letter OBVIOUS
<1>3. \A n \in DOMAIN inbox : /\ inbox'[n] \in Letter /\ inbox'[n].event = inbox[n].event
                              /\ inbox'[n].to = inbox[n].to BY <1>2 DEF Letter
<1>4. inbox' = [n \in 1 .. Len(inbox) |-> inbox'[n]] BY <1>1
<1>5. inbox' \in Seq(Letter) BY <1>1, <1>3, <1>4
<1> QED BY <1>1, <1>3, <1>5 DEF SameInbox
-----------------------------------------------------------------------------
(* What the steps of dispatch do.                                          *)
Sends(s, left, from) ==
  \/ left = {} /\ s = Idle
  \/ /\ left # {} /\ s.mem = [left |-> left, from |-> from, subs |-> Subscribers(from, Min(left))]
     /\ s.at = IF Subscribers(from, Min(left)) = {} THEN "dispatch.mark" ELSE "dispatch.send"

LEMMA SendingIs ==
  ASSUME Base, NEW p \in Proc, NEW at \in {"dispatch.integrations", "dispatch.mark"}, At(p, at),
         NEW left, NEW from, Continue(p, Sending(p, left, from))
  PROVE  Sends(proc'[p], left, from)
<1> USE DEF At
<1>1. proc[p].rest = <<>> /\ proc[p].to = {} BY OpOf DEF LabelsOf, RestOf
<1>2. CASE left = {}
  <2>1. Continue(p, Return(p)) BY <1>2 DEF Sending
  <2>2. proc'[p] = Idle BY <1>1, <2>1, AfterReturn
  <2> QED BY <1>2, <2>2 DEF Sends
<1>3. CASE left # {}
  <2> DEFINE subs == Subscribers(from, Min(left))
             label == IF subs = {} THEN "dispatch.mark" ELSE "dispatch.send"
  <2>1. Continue(p, Goto(p, label, [left |-> left, from |-> from, subs |-> subs])) BY <1>3 DEF Sending
  <2>2. proc'[p].at = label /\ proc'[p].mem = [left |-> left, from |-> from, subs |-> subs]
    <3> HIDE DEF label, subs
    <3> QED BY <2>1, AfterGoto
  <2> QED BY <1>3, <2>2 DEF Sends
<1> QED BY <1>2, <1>3

LEMMA DispatchDoes ==
  ASSUME Base, NEW p \in Proc, DispatchMove(p), Moves(p)
  PROVE  \/ /\ UNCHANGED <<events, inbox, deliveryLog, arrived, proc, tainted>>
            /\ \E c \in todo : AddIntegration(p, c) \/ RemoveIntegration(p, c)
         \/ /\ UNCHANGED <<events, integrations, deliveryLog, arrived, proc, tainted>>
            /\ \E some : inbox' = [n \in DOMAIN inbox |->
                                     IF n \in some THEN [inbox[n] EXCEPT !.read = TRUE] ELSE inbox[n]]
         \/ /\ UNCHANGED notifyVars /\ proc[p].on = NoRow
            /\ proc'[p].at = "dispatch.integrations" /\ proc'[p].mem = Undispatched
         \/ /\ At(p, "dispatch.integrations") /\ UNCHANGED notifyVars
            /\ Sends(proc'[p], Mem(p), integrations)
         \/ /\ At(p, "dispatch.send") /\ proc'[p].at = "dispatch.log"
            /\ UNCHANGED <<events, inbox, integrations, deliveryLog>>
            /\ \/ arrived' = arrived /\ proc'[p].mem = Replaced(Mem(p), "status", "failed")
               \/ /\ arrived' = arrived (+) SetToBag({<<Event(p), Receiver(p)>>})
                  /\ proc'[p].mem = Replaced(Mem(p), "status", "sent")
         \/ /\ At(p, "dispatch.log") /\ UNCHANGED <<events, inbox, integrations, arrived>>
            /\ deliveryLog' = deliveryLog \cup {Tried(p)}
            /\ LET subs == Mem(p).subs \ {Target(p)}
               IN  /\ proc'[p].at = IF subs = {} THEN "dispatch.mark" ELSE "dispatch.send"
                   /\ proc'[p].mem = [left |-> Mem(p).left, from |-> Mem(p).from, subs |-> subs]
         \/ /\ At(p, "dispatch.mark") /\ UNCHANGED <<inbox, integrations, deliveryLog, arrived>>
            /\ events' = [events EXCEPT ![Event(p)].dispatched = TRUE]
            /\ Continue(p, Sending(p, Mem(p).left \ {Event(p)}, Mem(p).from))
<1>1. CASE \E c \in todo : AddIntegration(p, c) \/ RemoveIntegration(p, c)
  BY <1>1 DEF AddIntegration, RemoveIntegration, Only
<1>2. ASSUME NEW c \in todo, Ack(p, c) \/ AckAll(p, c)
      PROVE  /\ UNCHANGED <<events, integrations, deliveryLog, arrived, proc, tainted>>
             /\ \E some : inbox' = [n \in DOMAIN inbox |->
                                      IF n \in some THEN [inbox[n] EXCEPT !.read = TRUE] ELSE inbox[n]]
  <2>1. CASE Ack(p, c)
    <3>1. inbox' = [n \in DOMAIN inbox |-> IF n \in {c.id} THEN [inbox[n] EXCEPT !.read = TRUE] ELSE inbox[n]]
      BY <2>1 DEF Ack
    <3> QED BY <2>1, <3>1 DEF Ack, Only
  <2>2. CASE AckAll(p, c)
    <3>1. inbox' = [n \in DOMAIN inbox |->
                      IF n \in Mailbox(c.by) THEN [inbox[n] EXCEPT !.read = TRUE] ELSE inbox[n]]
      BY <2>2 DEF AckAll
    <3> QED BY <2>2, <3>1 DEF AckAll, Only
  <2> QED BY <1>2, <2>1, <2>2
<1>3. ASSUME NEW c \in todo, Dispatch(p, c)
      PROVE  /\ UNCHANGED notifyVars /\ proc[p].on = NoRow
             /\ proc'[p].at = "dispatch.integrations" /\ proc'[p].mem = Undispatched
  <2>1. Begin(p, c, "dispatch.integrations", Outbox, Undispatched, <<>>) BY <1>3 DEF Dispatch
  <2> QED BY <1>3, <2>1, AfterBegin DEF Dispatch
<1>4. CASE DispatchIntegrations(p) BY <1>4, SendingIs DEF DispatchIntegrations
<1>5. ASSUME DispatchSend(p)
      PROVE  /\ At(p, "dispatch.send") /\ proc'[p].at = "dispatch.log"
             /\ UNCHANGED <<events, inbox, integrations, deliveryLog>>
             /\ \/ arrived' = arrived /\ proc'[p].mem = Replaced(Mem(p), "status", "failed")
                \/ /\ arrived' = arrived (+) SetToBag({<<Event(p), Receiver(p)>>})
                   /\ proc'[p].mem = Replaced(Mem(p), "status", "sent")
  <2>1. PICK outcome \in Outcome :
          /\ arrived' = IF outcome = "unreachable" THEN arrived
                        ELSE arrived (+) SetToBag({<<Event(p), Receiver(p)>>})
          /\ Continue(p, Goto(p, "dispatch.log",
                              Replaced(Mem(p), "status", IF outcome = "unreachable" THEN "failed" ELSE "sent")))
    BY <1>5 DEF DispatchSend
  <2>2. proc'[p].at = "dispatch.log"
        /\ proc'[p].mem = Replaced(Mem(p), "status", IF outcome = "unreachable" THEN "failed" ELSE "sent")
    BY <2>1, AfterGoto
  <2>3. At(p, "dispatch.send") /\ UNCHANGED <<events, inbox, integrations, deliveryLog>> BY <1>5 DEF DispatchSend
  <2>4. CASE outcome = "unreachable" BY <2>1, <2>2, <2>3, <2>4
  <2>5. CASE outcome # "unreachable" BY <2>1, <2>2, <2>3, <2>5
  <2> QED BY <2>4, <2>5
<1>6. ASSUME DispatchLog(p)
      PROVE  /\ At(p, "dispatch.log") /\ UNCHANGED <<events, inbox, integrations, arrived>>
             /\ deliveryLog' = deliveryLog \cup {Tried(p)}
             /\ LET subs == Mem(p).subs \ {Target(p)}
                IN  /\ proc'[p].at = IF subs = {} THEN "dispatch.mark" ELSE "dispatch.send"
                    /\ proc'[p].mem = [left |-> Mem(p).left, from |-> Mem(p).from, subs |-> subs]
  <2> DEFINE subs == Mem(p).subs \ {Target(p)}
             label == IF subs = {} THEN "dispatch.mark" ELSE "dispatch.send"
  <2>1. Continue(p, Goto(p, label, [left |-> Mem(p).left, from |-> Mem(p).from, subs |-> subs]))
    BY <1>6 DEF DispatchLog
  <2>2. proc'[p].at = label /\ proc'[p].mem = [left |-> Mem(p).left, from |-> Mem(p).from, subs |-> subs]
    <3> HIDE DEF label, subs
    <3> QED BY <2>1, AfterGoto
  <2> QED BY <1>6, <2>2 DEF DispatchLog
<1>7. CASE DispatchMark(p) BY <1>7 DEF DispatchMark
<1> QED BY <1>1, <1>2, <1>3, <1>4, <1>5, <1>6, <1>7 DEF DispatchMove, NotifyBegin

-----------------------------------------------------------------------------
(* The tables of notifications and what a dispatch has in hand: of the     *)
(* first event left, the subscribers without a log entry are still to come.*)
Wired(table) ==
  /\ DOMAIN table \subseteq Nat
  /\ \A i, k \in DOMAIN table : table[i].backend = table[k].backend => i = k

DispatchOK(s) ==
  /\ s.at = "dispatch.integrations" => s.mem \subseteq DOMAIN events
  /\ s.at \in {"dispatch.send", "dispatch.log", "dispatch.mark"} =>
       /\ s.mem.left # {} /\ s.mem.left \subseteq DOMAIN events /\ Wired(s.mem.from)
       /\ s.mem.subs \subseteq Subscribers(s.mem.from, Min(s.mem.left))
       /\ \A k \in Subscribers(s.mem.from, Min(s.mem.left)) \ s.mem.subs :
            \E d \in deliveryLog : d.event = Min(s.mem.left) /\ d.backend = s.mem.from[k].backend
       /\ s.mem.subs = {} <=> s.at = "dispatch.mark"
  /\ s.at = "dispatch.send" => {"left", "from", "subs"} \subseteq DOMAIN s.mem
  /\ s.at = "dispatch.log" => s.mem.status \in {"sent", "failed"}

NotifyInv ==
  /\ events \in Seq(EventRow) /\ inbox \in Seq(Letter)
  /\ \A n \in DOMAIN inbox : inbox[n].event \in DOMAIN events
  /\ Numbered(integrations) /\ Wired(integrations)
  /\ \A d \in deliveryLog : d.event \in DOMAIN events /\ d.status \in {"sent", "failed"}
  /\ \A p \in Proc : DispatchOK(proc[p])

(* Events keep their types, log entries stay.                              *)
EventsGrow ==
  /\ DOMAIN events \subseteq DOMAIN events' /\ deliveryLog \subseteq deliveryLog'
  /\ \A e \in DOMAIN events : events'[e].type = events[e].type

LEMMA DispatchKept ==
  ASSUME NEW s, DispatchOK(s), EventsGrow, events \in Seq(EventRow)
  PROVE  DispatchOK(s)'
<1>1. CASE s.at \notin {"dispatch.send", "dispatch.log", "dispatch.mark"} BY <1>1 DEF DispatchOK, EventsGrow
<1>2. CASE s.at \in {"dispatch.send", "dispatch.log", "dispatch.mark"}
  <2>1. DOMAIN events \subseteq Nat OBVIOUS
  <2>2. s.mem.left # {} /\ s.mem.left \subseteq DOMAIN events /\ s.mem.left \in SUBSET Nat
    BY <1>2, <2>1 DEF DispatchOK
  <2>3. Min(s.mem.left) \in DOMAIN events BY <2>2, MinOf
  <2>4. Subscribers(s.mem.from, Min(s.mem.left))' = Subscribers(s.mem.from, Min(s.mem.left))
    BY <2>3 DEF Subscribers, EventsGrow
  <2>5. s.mem.left \subseteq DOMAIN events' BY <2>2 DEF EventsGrow
  <2>6. ASSUME NEW k \in Subscribers(s.mem.from, Min(s.mem.left)) \ s.mem.subs
        PROVE  \E d \in deliveryLog' : d.event = Min(s.mem.left) /\ d.backend = s.mem.from[k].backend
    BY <1>2, <2>6 DEF DispatchOK, EventsGrow
  <2>7. Wired(s.mem.from)' BY <1>2 DEF DispatchOK, Wired
  <2> QED BY <1>2, <2>2, <2>4, <2>5, <2>6, <2>7 DEF DispatchOK
<1> QED BY <1>1, <1>2

LEMMA DispatchNext ==
  ASSUME NEW p \in Proc, DispatchOK(proc'[p]), EventsGrow, events \in Seq(EventRow)
  PROVE  DispatchOK(proc[p])'
<1>1. PICK s : s = proc'[p] OBVIOUS
<1>2. DispatchOK(s)' BY <1>1, DispatchKept
<1> QED BY <1>1, <1>2 DEF DispatchOK, Subscribers, Wired

LEMMA EmitFits ==
  ASSUME Base, NEW p \in Proc, At(p, "emit"), Cmd(p).op \in {"promote", "decide"}
  PROVE  [type |-> EventType(Cmd(p)), target |-> Cmd(p).cs, dispatched |-> FALSE] \in EventRow
<1>1. CommandOK(Cmd(p)) BY OpOf
<1>2. EventType(Cmd(p)) \in EventTypes BY <1>1 DEF CommandOK, EventType, EventTypes, Decision
<1> QED BY <1>1, <1>2 DEF CommandOK, EventRow

(* The process that moves, and the others.                                 *)
LEMMA DispatchAll ==
  ASSUME NotifyInv, EventsGrow, NEW p \in Proc, Moves(p), DispatchOK(proc[p])'
  PROVE  \A q \in Proc : DispatchOK(proc[q])'
<1>1. ASSUME NEW q \in Proc \ {p} PROVE DispatchOK(proc[q])'
  <2>1. proc'[q] = proc[q] BY DEF Moves
  <2> QED BY <2>1, DispatchNext DEF NotifyInv
<1> QED BY <1>1

LEMMA NotifyEmit ==
  ASSUME Base, NotifyInv, NEW p \in Proc, EmitMove(p), Moves(p),
         \A a \in proc[p].to : a[2] \in Person,
         At(p, "emit.notify") => Mem(p) \in DOMAIN events
  PROVE  NotifyInv'
<1> USE DEF At, Mem
<1>1. events \in Seq(EventRow) /\ inbox \in Seq(Letter) BY DEF NotifyInv
<1>2. UNCHANGED <<integrations, deliveryLog>> BY DEF EmitMove, EmitEvent, EmitNotify
<1>3. proc'[p].at \in {"idle", "emit.notify"}
  <2>1. Idle.at = "idle" BY DEF Idle
  <2> QED BY <2>1, EmitDoes
<1>4. DispatchOK(proc[p])' BY <1>3 DEF DispatchOK
<1>5. /\ events' \in Seq(EventRow) /\ inbox' \in Seq(Letter) /\ EventsGrow
      /\ \A n \in DOMAIN inbox' : inbox'[n].event \in DOMAIN events'
  <2>1. CASE /\ At(p, "emit") /\ Cmd(p).op \in {"promote", "decide"} /\ UNCHANGED inbox
             /\ events' = Append(events, [type |-> EventType(Cmd(p)), target |-> Cmd(p).cs, dispatched |-> FALSE])
    <3> DEFINE e == [type |-> EventType(Cmd(p)), target |-> Cmd(p).cs, dispatched |-> FALSE]
    <3>1. e \in EventRow BY <2>1, EmitFits
    <3>2. events' = Append(events, e) BY <2>1
    <3> HIDE DEF e
    <3>3. /\ events' \in Seq(EventRow) /\ DOMAIN events' = DOMAIN events \cup {Len(events) + 1}
          /\ \A x \in DOMAIN events : events'[x] = events[x] BY <1>1, <3>1, <3>2
    <3> QED BY <1>1, <1>2, <2>1, <3>3 DEF NotifyInv, EventsGrow
  <2>2. CASE At(p, "emit.notify") /\ UNCHANGED events
             /\ \E to \in proc[p].to : inbox' = Append(inbox, [event |-> Mem(p), to |-> to[2], read |-> FALSE])
    <3>1. PICK to \in proc[p].to : inbox' = Append(inbox, [event |-> Mem(p), to |-> to[2], read |-> FALSE])
      BY <2>2
    <3> DEFINE e == [event |-> Mem(p), to |-> to[2], read |-> FALSE]
    <3>2. DOMAIN events \subseteq Nat BY <1>1
    <3>3. e \in Letter /\ e.event \in DOMAIN events BY <2>2, <3>1, <3>2 DEF Letter
    <3>4. inbox' = Append(inbox, e) BY <3>1
    <3> HIDE DEF e
    <3>5. inbox' \in Seq(Letter) /\ \A n \in DOMAIN inbox' : (n \in DOMAIN inbox /\ inbox'[n] = inbox[n]) \/ inbox'[n] = e
      BY <1>1, <3>3, <3>4
    <3> QED BY <1>1, <1>2, <2>2, <3>3, <3>5 DEF NotifyInv, EventsGrow
  <2> QED BY <2>1, <2>2, EmitDoes
<1>6. \A q \in Proc : DispatchOK(proc[q])' BY <1>4, <1>5, DispatchAll
<1>7. (Numbered(integrations) /\ Wired(integrations))' BY <1>2 DEF NotifyInv, Numbered, Wired
<1>8. \A d \in deliveryLog' : d.event \in DOMAIN events' /\ d.status \in {"sent", "failed"}
  BY <1>2, <1>5 DEF NotifyInv, EventsGrow
<1> QED BY <1>5, <1>6, <1>7, <1>8 DEF NotifyInv

(* Where a dispatch goes with the events left.                             *)
LEMMA SendsOK ==
  ASSUME NEW s, NEW left, NEW from, Sends(s, left, from), left \subseteq DOMAIN events, Wired(from)
  PROVE  DispatchOK(s)
<1>1. CASE s = Idle BY <1>1 DEF DispatchOK, Idle
<1>2. CASE left # {} /\ s.mem = [left |-> left, from |-> from, subs |-> Subscribers(from, Min(left))]
           /\ s.at = IF Subscribers(from, Min(left)) = {} THEN "dispatch.mark" ELSE "dispatch.send"
  <2>1. /\ s.mem.left = left /\ s.mem.from = from /\ s.mem.subs = Subscribers(from, Min(left))
        /\ DOMAIN s.mem = {"left", "from", "subs"} BY <1>2
  <2>2. s.at \in {"dispatch.send", "dispatch.mark"} /\ (s.mem.subs = {} <=> s.at = "dispatch.mark")
    BY <1>2, <2>1
  <2> QED BY <1>2, <2>1, <2>2 DEF DispatchOK
<1> QED BY <1>1, <1>2 DEF Sends

LEMMA WithoutWired ==
  ASSUME NEW backend, NEW types, Numbered(integrations), Wired(integrations)
  PROVE  LET more == Replaced(Without(backend), NextId(integrations), [backend |-> backend, types |-> types])
         IN  Numbered(more) /\ Wired(more)
<1> DEFINE kept == {i \in DOMAIN integrations : integrations[i].backend # backend}
           row  == [backend |-> backend, types |-> types]
           more == Replaced([k \in kept |-> integrations[k]], NextId(integrations), row)
<1>1. Without(backend) = [k \in kept |-> integrations[k]] BY DEF Without
<1>2. kept \in SUBSET DOMAIN integrations OBVIOUS
<1>3. \A k \in kept : integrations[k].backend # backend OBVIOUS
<1>4. more = Replaced([k \in kept |-> integrations[k]], NextId(integrations), row) /\ row.backend = backend
  OBVIOUS
<1> HIDE DEF kept, row, more
<1>5. /\ Numbered(more) /\ DOMAIN more = kept \cup {NextId(integrations)}
      /\ more[NextId(integrations)] = row /\ \A k \in kept : more[k] = integrations[k]
  BY <1>2, <1>4, NumberedMore
<1>6. DOMAIN more \subseteq Nat BY <1>5 DEF Numbered
<1>7. \A i, k \in DOMAIN more : more[i].backend = more[k].backend => i = k BY <1>2, <1>3, <1>4, <1>5 DEF Wired
<1>8. Wired(more) BY <1>6, <1>7 DEF Wired
<1> QED BY <1>1, <1>5, <1>8 DEF more, row

(* A table that lost rows: there is a highest number among those left.     *)
LEMMA FewerNumbered ==
  ASSUME NEW backend, Numbered(integrations), Wired(integrations)
  PROVE  Numbered(Without(backend)) /\ Wired(Without(backend))
<1> DEFINE S == DOMAIN Without(backend)
<1>1. S \subseteq DOMAIN integrations /\ S \subseteq Nat BY DEF Without, Wired
<1>2. Wired(Without(backend)) BY DEF Wired, Without
<1>3. ASSUME S # {} PROVE \E m \in S : \A k \in S : k <= m
  <2>1. PICK top \in DOMAIN integrations : \A k \in DOMAIN integrations : k <= top BY <1>1, <1>3 DEF Numbered
  <2> DEFINE U == {u \in Nat : \A k \in S : k <= u}
  <2>2. top \in U BY <1>1, <2>1 DEF Wired
  <2>3. Min(U) \in U /\ \A u \in U : Min(U) <= u
    <3>1. U \in SUBSET Nat /\ U # {} BY <2>2
    <3> HIDE DEF U
    <3> QED BY <3>1, MinOf
  <2>4. PICK u \in U : \A v \in U : u <= v BY <2>3
  <2>5. ASSUME u \notin S PROVE FALSE
    <3>1. \A k \in S : k \in Nat /\ k <= u /\ k # u BY <1>1, <2>5
    <3>2. PICK k \in S : TRUE BY <1>3
    <3>3. u - 1 \in Nat BY <3>1, <3>2
    <3>4. \A i \in S : i <= u - 1 BY <3>1
    <3>5. u - 1 \in U BY <3>3, <3>4
    <3> QED BY <2>4, <3>5
  <2> QED BY <2>5
<1> QED BY <1>1, <1>2, <1>3 DEF Numbered

LEMMA EventAt ==
  ASSUME NotifyInv, NEW p \in Proc, proc[p].at \in {"dispatch.send", "dispatch.log", "dispatch.mark"}
  PROVE  /\ Event(p) \in Mem(p).left /\ Event(p) \in DOMAIN events /\ Mem(p).left \subseteq DOMAIN events
         /\ Wired(Mem(p).from) /\ Mem(p).subs \subseteq Subscribers(Mem(p).from, Event(p))
         /\ \A k \in Subscribers(Mem(p).from, Event(p)) \ Mem(p).subs :
              \E d \in deliveryLog : d.event = Event(p) /\ d.backend = Mem(p).from[k].backend
         /\ Mem(p).subs = {} <=> At(p, "dispatch.mark")
         /\ Mem(p).subs # {} => Target(p) \in Mem(p).subs
<1> USE DEF At, Mem
<1>1. DispatchOK(proc[p]) /\ events \in Seq(EventRow) BY DEF NotifyInv
<1>2. proc[p].mem.left # {} /\ proc[p].mem.left \subseteq DOMAIN events /\ proc[p].mem.left \in SUBSET Nat
  BY <1>1 DEF DispatchOK
<1>3. Event(p) \in Mem(p).left BY <1>2, MinOf DEF Event
<1>4. /\ Wired(Mem(p).from) /\ Mem(p).subs \subseteq Subscribers(Mem(p).from, Event(p))
      /\ \A k \in Subscribers(Mem(p).from, Event(p)) \ Mem(p).subs :
           \E d \in deliveryLog : d.event = Event(p) /\ d.backend = Mem(p).from[k].backend
      /\ Mem(p).subs = {} <=> At(p, "dispatch.mark") BY <1>1 DEF DispatchOK, Event
<1>5. Mem(p).subs \in SUBSET Nat BY <1>4 DEF Subscribers, Wired
<1>6. Mem(p).subs # {} => Target(p) \in Mem(p).subs BY <1>5, MinOf DEF Target
<1> QED BY <1>2, <1>3, <1>4, <1>6

(* What a dispatch has in hand after its own step, of the tables before.   *)
LEMMA DispatchHand ==
  ASSUME Base, NotifyInv, NEW p \in Proc, DispatchMove(p), Moves(p)
  PROVE  DispatchOK(proc[p])' /\ EventsGrow
<1> USE DEF At, Mem
<1>1. events \in Seq(EventRow) /\ DispatchOK(proc[p]) BY DEF NotifyInv
<1>2. ASSUME UNCHANGED <<events, deliveryLog>>, DispatchOK(proc'[p]) PROVE DispatchOK(proc[p])' /\ EventsGrow
  <2>1. EventsGrow BY <1>2 DEF EventsGrow
  <2> QED BY <1>1, <1>2, <2>1, DispatchNext
<1>3. CASE UNCHANGED <<events, deliveryLog, proc>> BY <1>1, <1>2, <1>3
<1>4. CASE UNCHANGED notifyVars /\ proc'[p].at = "dispatch.integrations" /\ proc'[p].mem = Undispatched
  <2>1. Undispatched \subseteq DOMAIN events BY DEF Undispatched
  <2>2. DispatchOK(proc'[p]) BY <1>4, <2>1 DEF DispatchOK
  <2> QED BY <1>2, <1>4, <2>2 DEF notifyVars
<1>5. CASE At(p, "dispatch.integrations") /\ UNCHANGED notifyVars /\ Sends(proc'[p], Mem(p), integrations)
  <2>1. Mem(p) \subseteq DOMAIN events BY <1>1, <1>5 DEF DispatchOK
  <2>2. Wired(integrations) BY DEF NotifyInv
  <2>3. DispatchOK(proc'[p]) BY <1>5, <2>1, <2>2, SendsOK
  <2> QED BY <1>2, <1>5, <2>3 DEF notifyVars
<1>6. CASE /\ At(p, "dispatch.send") /\ proc'[p].at = "dispatch.log"
           /\ UNCHANGED <<events, inbox, integrations, deliveryLog>>
           /\ \E st \in {"sent", "failed"} : proc'[p].mem = Replaced(Mem(p), "status", st)
  <2>1. {"left", "from", "subs"} \subseteq DOMAIN Mem(p) BY <1>1, <1>6 DEF DispatchOK
  <2>2. /\ proc'[p].mem.left = Mem(p).left /\ proc'[p].mem.from = Mem(p).from
        /\ proc'[p].mem.subs = Mem(p).subs /\ proc'[p].mem.status \in {"sent", "failed"}
    BY <1>6, <2>1 DEF Replaced
  <2>3. DispatchOK(proc'[p]) BY <1>1, <1>6, <2>2 DEF DispatchOK
  <2> QED BY <1>2, <1>6, <2>3
<1>7. CASE /\ At(p, "dispatch.log") /\ UNCHANGED <<events, inbox, integrations, arrived>>
           /\ deliveryLog' = deliveryLog \cup {Tried(p)}
           /\ LET subs == Mem(p).subs \ {Target(p)}
              IN  /\ proc'[p].at = IF subs = {} THEN "dispatch.mark" ELSE "dispatch.send"
                  /\ proc'[p].mem = [left |-> Mem(p).left, from |-> Mem(p).from, subs |-> subs]
  <2> DEFINE subs == Mem(p).subs \ {Target(p)}
  <2>1. EventsGrow BY <1>7 DEF EventsGrow
  <2>2. /\ proc'[p].mem.left = Mem(p).left /\ proc'[p].mem.from = Mem(p).from /\ proc'[p].mem.subs = subs
        /\ DOMAIN proc'[p].mem = {"left", "from", "subs"} BY <1>7
  <2>3. proc'[p].at \in {"dispatch.send", "dispatch.mark"} /\ (subs = {} <=> proc'[p].at = "dispatch.mark")
    BY <1>7
  <2>4. /\ Event(p) \in DOMAIN events /\ Mem(p).left \subseteq DOMAIN events /\ Mem(p).left # {}
        /\ Wired(Mem(p).from) /\ Mem(p).subs \subseteq Subscribers(Mem(p).from, Event(p))
        /\ \A k \in Subscribers(Mem(p).from, Event(p)) \ Mem(p).subs :
             \E d \in deliveryLog : d.event = Event(p) /\ d.backend = Mem(p).from[k].backend BY <1>7, EventAt
  <2>5. ASSUME NEW k \in Subscribers(Mem(p).from, Event(p)) \ subs
        PROVE  \E d \in deliveryLog' : d.event = Event(p) /\ d.backend = Mem(p).from[k].backend
    <3>1. CASE k = Target(p)
      <4>1. Tried(p).event = Event(p) /\ Tried(p).backend = Mem(p).from[k].backend BY <3>1 DEF Tried, Receiver
      <4> QED BY <1>7, <4>1
    <3>2. CASE k # Target(p) BY <1>7, <2>4, <2>5, <3>2
    <3> QED BY <3>1, <3>2
  <2>6. subs \subseteq Mem(p).subs OBVIOUS
  <2>7. Subscribers(Mem(p).from, Event(p))' = Subscribers(proc'[p].mem.from, Event(p))
        /\ Min(proc'[p].mem.left) = Event(p) BY <1>7, <2>2 DEF Subscribers, Event
  <2>8. Subscribers(proc[p].mem.from, Min(proc[p].mem.left))' = Subscribers(Mem(p).from, Event(p))
    BY <1>7, <2>2 DEF Subscribers, Event
  <2>9. Wired(proc[p].mem.from)' BY <2>2, <2>4 DEF Wired
  <2> HIDE DEF subs
  <2>10. DispatchOK(proc[p])' BY <1>7, <2>2, <2>3, <2>4, <2>5, <2>6, <2>7, <2>8, <2>9 DEF DispatchOK
  <2> QED BY <2>1, <2>10
<1>8. CASE /\ At(p, "dispatch.mark") /\ UNCHANGED <<inbox, integrations, deliveryLog, arrived>>
           /\ events' = [events EXCEPT ![Event(p)].dispatched = TRUE]
           /\ Continue(p, Sending(p, Mem(p).left \ {Event(p)}, Mem(p).from))
  <2>1. SameEvents BY <1>1, <1>8, MarkedEvents
  <2>2. EventsGrow BY <1>8, <2>1 DEF SameEvents, EventsGrow
  <2>3. Mem(p).left \subseteq DOMAIN events /\ Wired(Mem(p).from) BY <1>8, EventAt
  <2>4. Sends(proc'[p], Mem(p).left \ {Event(p)}, Mem(p).from) BY <1>8, SendingIs
  <2>5. DispatchOK(proc'[p]) BY <2>3, <2>4, SendsOK
  <2> QED BY <1>1, <2>2, <2>5, DispatchNext
<1> QED BY <1>3, <1>4, <1>5, <1>6, <1>7, <1>8, DispatchDoes, <1>2, <1>1

LEMMA NotifyDispatch ==
  ASSUME Base, NotifyInv, NEW p \in Proc, DispatchMove(p), Moves(p)
  PROVE  NotifyInv'
<1> USE DEF At, Mem
<1>1. events \in Seq(EventRow) /\ inbox \in Seq(Letter) BY DEF NotifyInv
<1>2. DispatchOK(proc[p])' /\ EventsGrow BY DispatchHand
<1>3. \A q \in Proc : DispatchOK(proc[q])' BY <1>2, DispatchAll
<1>4. /\ events' \in Seq(EventRow) /\ inbox' \in Seq(Letter) /\ SameInbox
  <2>1. UNCHANGED events \/ \E e : events' = [events EXCEPT ![e].dispatched = TRUE]
    BY DispatchDoes DEF notifyVars
  <2>2. \/ UNCHANGED inbox
        \/ \E some : inbox' = [n \in DOMAIN inbox |-> IF n \in some THEN [inbox[n] EXCEPT !.read = TRUE] ELSE inbox[n]]
    BY DispatchDoes DEF notifyVars
  <2>3. events' \in Seq(EventRow) BY <1>1, <2>1, MarkedEvents
  <2>4. inbox' \in Seq(Letter) /\ SameInbox
    <3>1. CASE UNCHANGED inbox BY <1>1, <3>1 DEF SameInbox
    <3> QED BY <1>1, <2>2, <3>1, ReadInbox
  <2> QED BY <2>3, <2>4
<1>5. \A n \in DOMAIN inbox' : inbox'[n].event \in DOMAIN events'
  BY <1>2, <1>4 DEF NotifyInv, SameInbox, EventsGrow
<1>6. (Numbered(integrations) /\ Wired(integrations))'
  <2>1. \/ UNCHANGED integrations
        \/ \E c : integrations' = Replaced(Without(c.backend), NextId(integrations),
                                         [backend |-> c.backend, types |-> c.types])
        \/ \E c : integrations' = Without(c.backend)
    BY DispatchDoes DEF notifyVars, AddIntegration, RemoveIntegration
  <2>2. Numbered(integrations) /\ Wired(integrations) BY DEF NotifyInv
  <2>3. Numbered(integrations') /\ Wired(integrations') BY <2>1, <2>2, WithoutWired, FewerNumbered
  <2> QED BY <2>3 DEF Numbered, Wired
<1>7. \A d \in deliveryLog' : d.event \in DOMAIN events' /\ d.status \in {"sent", "failed"}
  <2>1. UNCHANGED deliveryLog \/ (At(p, "dispatch.log") /\ deliveryLog' = deliveryLog \cup {Tried(p)})
    BY DispatchDoes DEF notifyVars
  <2>2. At(p, "dispatch.log") => Tried(p).event \in DOMAIN events /\ Tried(p).status \in {"sent", "failed"}
    BY EventAt DEF Tried, NotifyInv, DispatchOK
  <2> QED BY <1>2, <2>1, <2>2 DEF NotifyInv, EventsGrow
<1> QED BY <1>3, <1>4, <1>5, <1>6, <1>7 DEF NotifyInv

LEMMA NotifySame ==
  ASSUME NotifyInv, UNCHANGED notifyVars,
         \A q \in Proc : proc'[q] = proc[q] \/ proc'[q].at \notin DispatchLabels
                         \/ proc'[q].at = "idle"
  PROVE  NotifyInv'
<1>1. EventsGrow /\ events \in Seq(EventRow) BY DEF EventsGrow, notifyVars, NotifyInv
<1>2. ASSUME NEW q \in Proc PROVE DispatchOK(proc[q])'
  <2>1. CASE proc'[q] = proc[q] BY <1>1, <2>1, DispatchNext DEF NotifyInv
  <2>2. CASE proc'[q].at \notin DispatchLabels \/ proc'[q].at = "idle" BY <2>2 DEF DispatchOK, DispatchLabels
  <2> QED BY <2>1, <2>2
<1> QED BY <1>2 DEF NotifyInv, notifyVars, Numbered, Wired
-----------------------------------------------------------------------------
(* Recipients are people, each once, and who is still to be written to has *)
(* no notification of the event yet.                                       *)
Recipients(to) ==
  /\ \A a \in to : a[2] \in Person
  /\ \A a, b \in to : a[2] = b[2] => a = b

MailInv ==
  /\ \A m, n \in DOMAIN inbox : inbox[m].event = inbox[n].event /\ inbox[m].to = inbox[n].to => m = n
  /\ \A p \in Proc :
       /\ Recipients(proc[p].to)
       /\ At(p, "emit.notify") =>
            /\ Mem(p) \in DOMAIN events
            /\ \A q \in Proc : At(q, "emit.notify") /\ Mem(q) = Mem(p) => q = p
            /\ \A a \in proc[p].to, n \in DOMAIN inbox : inbox[n].event = Mem(p) => inbox[n].to # a[2]

LEMMA ReviewersPeople ==
  ASSUME RoleInv, NEW cs \in Changeset
  PROVE  Recipients(Reviewers(cs))
<1> DEFINE os == OwnersOf[cs]
<1>1. os \in Seq(Person) /\ \A i, k \in DOMAIN os : os[i] = os[k] => i = k BY OwnersAssumption DEF Changeset
<1>2. \A m \in Maintainers : /\ m[2] \in DOMAIN roles /\ m[2] \in Person
                             /\ m = <<Position[roles[m[2]].role], m[2]>>
  BY DEF Maintainers, List, RoleInv, RolesOK
<1>3. \A a \in Reviewers(cs) :
        \/ \E i \in DOMAIN os : a = <<i, os[i]>>
        \/ \E m \in Maintainers : m[2] \notin Owners(cs) /\ a = <<Len(os) + m[1], m[2]>> BY DEF Reviewers
<1>4. \A i \in DOMAIN os : os[i] \in Owners(cs) /\ os[i] \in Person BY <1>1 DEF Owners
<1> HIDE DEF os
<1>5. \A a \in Reviewers(cs) : a[2] \in Person BY <1>2, <1>3, <1>4
<1>6. ASSUME NEW a \in Reviewers(cs), NEW b \in Reviewers(cs), a[2] = b[2] PROVE a = b
  <2>1. CASE \E i \in DOMAIN os : a = <<i, os[i]>>
    <3>1. PICK i \in DOMAIN os : a = <<i, os[i]>> BY <2>1
    <3>2. a[2] \in Owners(cs) BY <1>4, <3>1
    <3>3. PICK k \in DOMAIN os : b = <<k, os[k]>> BY <1>3, <1>6, <3>2
    <3> QED BY <1>1, <1>6, <3>1, <3>3 DEF os
  <2>2. CASE \E m \in Maintainers : m[2] \notin Owners(cs) /\ a = <<Len(os) + m[1], m[2]>>
    <3>1. PICK m \in Maintainers : m[2] \notin Owners(cs) /\ a = <<Len(os) + m[1], m[2]>> BY <2>2
    <3>2. PICK n \in Maintainers : n[2] \notin Owners(cs) /\ b = <<Len(os) + n[1], n[2]>>
      BY <1>3, <1>4, <1>6, <3>1
    <3>3. m[2] = n[2] BY <1>6, <3>1, <3>2
    <3>4. m = n BY <1>2, <3>3
    <3> QED BY <3>1, <3>2, <3>4
  <2> QED BY <1>3, <2>1, <2>2
<1> QED BY <1>5, <1>6 DEF Recipients

(* Steps of others, and dispatches.                                        *)
LEMMA MailKept ==
  ASSUME MailInv, NEW p \in Proc, Moves(p), SameInbox, SameEvents,
         Recipients(proc'[p].to), proc'[p] = proc[p] \/ proc'[p].at # "emit.notify"
  PROVE  MailInv'
<1> USE DEF At, Mem
<1>1. \A q \in Proc : proc'[q] = proc[q] \/ proc'[q].at # "emit.notify" BY DEF Moves
<1>2. \A q \in Proc : Recipients(proc'[q].to) BY DEF Moves, MailInv
<1>3. \A m, n \in DOMAIN inbox' :
        inbox'[m].event = inbox'[n].event /\ inbox'[m].to = inbox'[n].to => m = n BY DEF MailInv, SameInbox
<1>4. ASSUME NEW q \in Proc, proc'[q].at = "emit.notify"
      PROVE  /\ proc'[q].mem \in DOMAIN events'
             /\ \A o \in Proc : proc'[o].at = "emit.notify" /\ proc'[o].mem = proc'[q].mem => o = q
             /\ \A a \in proc'[q].to, n \in DOMAIN inbox' : inbox'[n].event = proc'[q].mem => inbox'[n].to # a[2]
  BY <1>1, <1>4 DEF MailInv, SameInbox, SameEvents
<1>5. \A q \in Proc : Recipients(proc[q].to)' BY <1>2 DEF Recipients
<1> QED BY <1>3, <1>4, <1>5 DEF MailInv

LEMMA MailEmit ==
  ASSUME Base, NotifyInv, MailInv, NEW p \in Proc, EmitMove(p), Moves(p)
  PROVE  MailInv'
<1> USE DEF At, Mem
<1>1. events \in Seq(EventRow) /\ inbox \in Seq(Letter) BY DEF NotifyInv
<1>2. Idle.at = "idle" /\ Idle.to = {} BY DEF Idle
<1>3. \A q \in Proc \ {p} : proc'[q] = proc[q] BY DEF Moves
<1>4. CASE /\ At(p, "emit") /\ UNCHANGED inbox
           /\ events' = Append(events, [type |-> EventType(Cmd(p)), target |-> Cmd(p).cs, dispatched |-> FALSE])
           /\ \/ proc[p].to = {} /\ proc'[p] = Idle
              \/ /\ proc[p].to # {} /\ proc'[p].at = "emit.notify" /\ proc'[p].mem = Len(events) + 1
                 /\ proc'[p].to = proc[p].to
  <2>1. DOMAIN events' = DOMAIN events \cup {Len(events) + 1} /\ Len(events) + 1 \notin DOMAIN events
    BY <1>1, <1>4
  <2>2. \A q \in Proc : proc'[q].at = "emit.notify" =>
          \/ q # p /\ proc'[q] = proc[q] /\ proc[q].at = "emit.notify" /\ proc'[q].mem \in DOMAIN events
          \/ q = p /\ proc'[q].mem = Len(events) + 1 BY <1>2, <1>3, <1>4 DEF MailInv
  <2>3. \A q \in Proc : Recipients(proc'[q].to) BY <1>2, <1>3, <1>4 DEF MailInv, Recipients
  <2>4. \A q \in Proc : Recipients(proc[q].to)' BY <2>3 DEF Recipients
  <2>5. \A n \in DOMAIN inbox : inbox[n].event \in DOMAIN events BY DEF NotifyInv
  <2>6. ASSUME NEW q \in Proc, proc'[q].at = "emit.notify"
        PROVE  /\ proc'[q].mem \in DOMAIN events'
               /\ \A o \in Proc : proc'[o].at = "emit.notify" /\ proc'[o].mem = proc'[q].mem => o = q
               /\ \A a \in proc'[q].to, n \in DOMAIN inbox' : inbox'[n].event = proc'[q].mem => inbox'[n].to # a[2]
    <3>1. proc'[q].mem \in DOMAIN events' BY <2>1, <2>2, <2>6
    <3>2. \A o \in Proc : proc'[o].at = "emit.notify" /\ proc'[o].mem = proc'[q].mem => o = q
      BY <2>1, <2>2, <2>6 DEF MailInv
    <3>3. \A a \in proc'[q].to, n \in DOMAIN inbox' : inbox'[n].event = proc'[q].mem => inbox'[n].to # a[2]
      BY <1>4, <2>1, <2>2, <2>5, <2>6 DEF MailInv
    <3> QED BY <3>1, <3>2, <3>3
  <2> QED BY <1>4, <2>4, <2>6 DEF MailInv
<1>5. CASE /\ At(p, "emit.notify") /\ UNCHANGED events
           /\ \E to \in proc[p].to :
                /\ inbox' = Append(inbox, [event |-> Mem(p), to |-> to[2], read |-> FALSE])
                /\ \/ proc[p].to = {to} /\ proc'[p] = Idle
                   \/ proc'[p].at = "emit.notify" /\ proc'[p].mem = Mem(p) /\ proc'[p].to = proc[p].to \ {to}
  <2>1. PICK to \in proc[p].to :
          /\ inbox' = Append(inbox, [event |-> Mem(p), to |-> to[2], read |-> FALSE])
          /\ \/ proc[p].to = {to} /\ proc'[p] = Idle
             \/ proc'[p].at = "emit.notify" /\ proc'[p].mem = Mem(p) /\ proc'[p].to = proc[p].to \ {to} BY <1>5
  <2> DEFINE e == [event |-> Mem(p), to |-> to[2], read |-> FALSE]
             new == Len(inbox) + 1
  <2>2. Mem(p) \in DOMAIN events /\ to[2] \in Person BY <1>5, <2>1 DEF MailInv, Recipients
  <2>3. DOMAIN events \subseteq Nat BY <1>1
  <2>4. e \in Letter /\ e.event = Mem(p) /\ e.to = to[2] BY <2>2, <2>3 DEF Letter
  <2>5. inbox' = Append(inbox, e) BY <2>1
  <2> HIDE DEF e
  <2>6. /\ DOMAIN inbox' = DOMAIN inbox \cup {new} /\ new \notin DOMAIN inbox /\ inbox'[new] = e
        /\ \A n \in DOMAIN inbox : inbox'[n] = inbox[n] BY <1>1, <2>4, <2>5
  <2> HIDE DEF new
  <2>7. \A n \in DOMAIN inbox : inbox[n].event = Mem(p) => inbox[n].to # to[2] BY <1>5, <2>1 DEF MailInv
  <2>8. \A m, n \in DOMAIN inbox' :
          inbox'[m].event = inbox'[n].event /\ inbox'[m].to = inbox'[n].to => m = n
    BY <2>4, <2>6, <2>7 DEF MailInv
  <2>9. proc'[p].to \subseteq proc[p].to /\ to \notin proc'[p].to BY <1>2, <2>1
  <2>10. \A q \in Proc : Recipients(proc'[q].to) BY <1>3, <2>9 DEF MailInv, Recipients
  <2>11. \A q \in Proc : Recipients(proc[q].to)' BY <2>10 DEF Recipients
  <2>12. \A q \in Proc : proc'[q].at = "emit.notify" => proc[q].at = "emit.notify" /\ proc'[q].mem = proc[q].mem
    BY <1>2, <1>3, <1>5, <2>1
  <2>13. ASSUME NEW q \in Proc, proc'[q].at = "emit.notify"
         PROVE  /\ proc'[q].mem \in DOMAIN events'
                /\ \A o \in Proc : proc'[o].at = "emit.notify" /\ proc'[o].mem = proc'[q].mem => o = q
                /\ \A a \in proc'[q].to, n \in DOMAIN inbox' : inbox'[n].event = proc'[q].mem => inbox'[n].to # a[2]
    <3>1. /\ proc'[q].mem \in DOMAIN events'
          /\ \A o \in Proc : proc'[o].at = "emit.notify" /\ proc'[o].mem = proc'[q].mem => o = q
      BY <1>5, <2>12, <2>13 DEF MailInv
    <3>2. ASSUME NEW a \in proc'[q].to, NEW n \in DOMAIN inbox', inbox'[n].event = proc'[q].mem
          PROVE  inbox'[n].to # a[2]
      <4>1. a \in proc[q].to BY <1>3, <2>9, <3>2
      <4>2. CASE n # new BY <2>6, <2>12, <2>13, <3>2, <4>1, <4>2 DEF MailInv
      <4>3. CASE n = new
        <5>1. proc[q].mem = Mem(p) BY <2>4, <2>6, <2>12, <2>13, <3>2, <4>3
        <5>2. q = p BY <1>5, <2>12, <2>13, <5>1 DEF MailInv
        <5>3. a # to BY <2>9, <3>2, <5>2
        <5>4. a[2] # to[2] BY <2>1, <4>1, <5>2, <5>3 DEF MailInv, Recipients
        <5> QED BY <2>4, <2>6, <4>3, <5>4
      <4> QED BY <4>2, <4>3
    <3> QED BY <3>1, <3>2
  <2> QED BY <2>8, <2>11, <2>13 DEF MailInv
<1> QED BY <1>4, <1>5, EmitDoes

LEMMA NotifyStill ==
  ASSUME UNCHANGED notifyVars
  PROVE  SameInbox /\ SameEvents BY DEF notifyVars, SameInbox, SameEvents

LEMMA DispatchSame ==
  ASSUME Base, NotifyInv, NEW p \in Proc, DispatchMove(p), Moves(p)
  PROVE  SameInbox /\ SameEvents
<1>1. events \in Seq(EventRow) /\ inbox \in Seq(Letter) BY DEF NotifyInv
<1>2. UNCHANGED events \/ \E e : events' = [events EXCEPT ![e].dispatched = TRUE] BY DispatchDoes DEF notifyVars
<1>3. \/ UNCHANGED inbox
      \/ \E some : inbox' = [n \in DOMAIN inbox |-> IF n \in some THEN [inbox[n] EXCEPT !.read = TRUE] ELSE inbox[n]]
  BY DispatchDoes DEF notifyVars
<1>4. SameEvents
  <2>1. CASE UNCHANGED events BY <2>1 DEF SameEvents
  <2> QED BY <1>1, <1>2, <2>1, MarkedEvents
<1>5. SameInbox
  <2>1. CASE UNCHANGED inbox BY <2>1 DEF SameInbox
  <2> QED BY <1>1, <1>3, <2>1, ReadInbox
<1> QED BY <1>4, <1>5

LEMMA NotifyInvStep == Base /\ NotifyInv /\ MailInv /\ [Next]_vars => NotifyInv'
<1> SUFFICES ASSUME Base, NotifyInv, MailInv, [Next]_vars PROVE NotifyInv' OBVIOUS
<1>1. CASE Still BY <1>1, NotifySame DEF Still
<1>2. ASSUME NEW p \in Proc, Moves(p), EmitMove(p) PROVE NotifyInv'
  <2>1. \A a \in proc[p].to : a[2] \in Person BY DEF MailInv, Recipients
  <2>2. At(p, "emit.notify") => Mem(p) \in DOMAIN events BY DEF MailInv
  <2> QED BY <1>2, <2>1, <2>2, NotifyEmit
<1>3. ASSUME NEW p \in Proc, Moves(p), DispatchMove(p) PROVE NotifyInv' BY <1>3, NotifyDispatch
<1>4. ASSUME NEW p \in Proc, Moves(p), NotifyElsewhere(p) PROVE NotifyInv'
  <2>1. UNCHANGED notifyVars BY <1>4 DEF NotifyElsewhere
  <2>2. proc'[p].at \notin DispatchLabels \/ proc'[p].at = "idle" BY <1>4 DEF NotifyElsewhere, DispatchLabels
  <2>3. \A q \in Proc : proc'[q] = proc[q] \/ proc'[q].at \notin DispatchLabels \/ proc'[q].at = "idle"
    BY <1>4, <2>2 DEF Moves
  <2> QED BY <2>1, <2>3, NotifySame
<1> QED BY <1>1, <1>2, <1>3, <1>4, NotifyCases

LEMMA MailStep == Base /\ RoleInv /\ NotifyInv /\ MailInv /\ [Next]_vars => MailInv'
<1> SUFFICES ASSUME Base, RoleInv, NotifyInv, MailInv, [Next]_vars PROVE MailInv' OBVIOUS
<1> USE DEF At
<1>1. CASE Still BY <1>1 DEF Still, notifyVars, MailInv, Mem, Recipients
<1>2. ASSUME NEW p \in Proc, Moves(p), EmitMove(p) PROVE MailInv' BY <1>2, MailEmit
<1>3. ASSUME NEW p \in Proc, Moves(p), DispatchMove(p) PROVE MailInv'
  <2>1. SameInbox /\ SameEvents BY <1>3, DispatchSame
  <2>2. MovesIn(p, DispatchLabels) BY <1>3, DispatchMoves
  <2>3. proc'[p].at \in DispatchLabels /\ proc'[p].at # "emit.notify" BY <2>2 DEF MovesIn, DispatchLabels
  <2>4. ProcOK(proc'[p]) BY <1>3 DEF Moves
  <2>5. proc'[p].to = {} BY <2>3, <2>4, ToAt DEF DispatchLabels
  <2>6. Recipients(proc'[p].to) BY <2>5 DEF Recipients
  <2> QED BY <1>3, <2>1, <2>3, <2>6, MailKept
<1>4. ASSUME NEW p \in Proc, Moves(p), NotifyElsewhere(p) PROVE MailInv'
  <2>1. SameInbox /\ SameEvents BY <1>4, NotifyStill DEF NotifyElsewhere
  <2>2. proc'[p].at # "emit.notify" BY <1>4 DEF NotifyElsewhere, EmitLabels
  <2>3. Recipients(proc'[p].to)
    <3>1. CASE proc'[p].to \in {{}, proc[p].to} BY <3>1 DEF MailInv, Recipients
    <3>2. CASE At(p, "suggest") /\ proc'[p].to = Reviewers(Cmd(p).cs)
      <4>1. Cmd(p).op = "promote" /\ CommandOK(Cmd(p)) BY <3>2, OpOf DEF LabelsOf
      <4>2. Cmd(p).cs \in Changeset BY <4>1 DEF CommandOK
      <4> QED BY <3>2, <4>2, ReviewersPeople
    <3> QED BY <1>4, <3>1, <3>2 DEF NotifyElsewhere
  <2> QED BY <1>4, <2>1, <2>2, <2>3, MailKept
<1> QED BY <1>1, <1>2, <1>3, <1>4, NotifyCases

LEMMA NotifyInvInit == Init => NotifyInv /\ MailInv
<1> SUFFICES ASSUME Init PROVE NotifyInv /\ MailInv OBVIOUS
<1>1. PICK s \in Scenarios : events = s.events /\ integrations = s.integrations BY DEF Init
<1>2. /\ events \in Seq([type : EventTypes \ {"changeset.promoted"}, target : Changeset, dispatched : BOOLEAN])
      /\ Numbered(integrations)
      /\ \A i, k \in DOMAIN integrations : integrations[i].backend = integrations[k].backend => i = k
  BY <1>1, ScenariosAssumption DEF TablesOK
<1>3. events \in Seq(EventRow)
  <2>1. [type : EventTypes \ {"changeset.promoted"}, target : Changeset, dispatched : BOOLEAN] \subseteq EventRow
    BY DEF EventRow
  <2>2. PICK n \in Nat : events \in [1 .. n -> EventRow]
    <3> DEFINE few == [type : EventTypes \ {"changeset.promoted"}, target : Changeset, dispatched : BOOLEAN]
    <3>1. events \in Seq(few) /\ few \subseteq EventRow BY <1>2, <2>1
    <3> HIDE DEF few
    <3>2. Len(events) \in Nat /\ events \in [1 .. Len(events) -> few] BY <3>1
    <3> QED BY <3>1, <3>2
  <2> QED BY <2>2
<1>4. inbox = <<>> /\ deliveryLog = {} /\ \A p \in Proc : proc[p] = Idle BY DEF Init
<1>5. inbox \in Seq(Letter) /\ DOMAIN inbox = {} BY <1>4
<1>6. Idle.at = "idle" /\ Idle.to = {} BY DEF Idle
<1>7. Wired(integrations) BY <1>2 DEF Wired, Numbered
<1>8. NotifyInv BY <1>2, <1>3, <1>4, <1>5, <1>6, <1>7 DEF NotifyInv, DispatchOK
<1>9. MailInv BY <1>4, <1>5, <1>6 DEF MailInv, Recipients, At
<1> QED BY <1>8, <1>9
-----------------------------------------------------------------------------
(* Deliveries.  While nobody disturbs the outbox, what has reached a       *)
(* backend is of a marked event, or of the one the dispatch at work is at, *)
(* and that backend is behind it; and its events are not marked yet.       *)
Sent(s, k) ==
  /\ s.at \in {"dispatch.send", "dispatch.log", "dispatch.mark"} /\ k[1] = Min(s.mem.left)
  /\ s.at = "dispatch.send" => \A i \in s.mem.subs : s.mem.from[i].backend # k[2]
  /\ s.at = "dispatch.log" => \A i \in s.mem.subs \ {Min(s.mem.subs)} : s.mem.from[i].backend # k[2]

Due(s) ==
  /\ s.at = "dispatch.integrations" => \A e \in s.mem : ~events[e].dispatched
  /\ s.at \in {"dispatch.send", "dispatch.log", "dispatch.mark"} => \A e \in s.mem.left : ~events[e].dispatched

OutboxStory ==
  /\ \A k \in DOMAIN arrived : arrived[k] = 1 /\ k[1] \in DOMAIN events
  /\ \A k \in DOMAIN arrived : events[k[1]].dispatched \/ \E p \in Proc : Sent(proc[p], k)
  /\ \A p \in Proc : Due(proc[p])

OutboxOK == Outbox \notin tainted => OutboxStory

LEMMA SentAt ==
  ASSUME Base, NEW p \in Proc
  PROVE  /\ proc[p].on = Outbox <=> proc[p].at \in DispatchLabels \ {"idle"}
         /\ \A k : Sent(proc[p], k) => proc[p].on = Outbox
<1>1. proc[p].on = Outbox <=> proc[p].at \in DispatchLabels \ {"idle"} BY OutboxAt DEF Base, ProcsOK
<1> QED BY <1>1 DEF Sent, DispatchLabels

(* Steps of which the outbox is no part.                                   *)
LEMMA OutboxKept ==
  ASSUME Base, NotifyInv, OutboxOK, NEW p \in Proc, Moves(p), UNCHANGED arrived, DOMAIN events \subseteq DOMAIN events',
         \A e \in DOMAIN events : events'[e].dispatched = events[e].dispatched,
         proc'[p] = proc[p] \/ (/\ proc'[p].at \notin DispatchLabels \ {"idle"}
                                /\ proc[p].on = Outbox => Outbox \in tainted')
  PROVE  OutboxOK'
<1> SUFFICES ASSUME Outbox \notin tainted' PROVE OutboxStory' BY DEF OutboxOK
<1>1. OutboxStory BY DEF OutboxOK, Moves
<1>2. \A k \in DOMAIN arrived' : arrived'[k] = 1 /\ k[1] \in DOMAIN events' BY <1>1 DEF OutboxStory
<1>3. \A q \in Proc : proc[q].on = Outbox => proc'[q] = proc[q] BY DEF Moves
<1>4. ASSUME NEW k \in DOMAIN arrived' PROVE events'[k[1]].dispatched \/ \E q \in Proc : Sent(proc'[q], k)
  BY <1>1, <1>3, SentAt DEF OutboxStory
<1>5. ASSUME NEW q \in Proc PROVE Due(proc[q])'
  <2>1. CASE proc'[q] = proc[q]
    <3>1. Due(proc[q]) /\ DispatchOK(proc[q]) BY <1>1 DEF OutboxStory, NotifyInv
    <3> QED BY <2>1, <3>1 DEF Due, DispatchOK
  <2>2. CASE proc'[q].at \notin DispatchLabels \ {"idle"} BY <2>2 DEF Due, DispatchLabels
  <2> QED BY <2>1, <2>2 DEF Moves
<1>6. \A k \in DOMAIN arrived' : events'[k[1]].dispatched \/ \E q \in Proc : Sent(proc[q], k)' BY <1>4 DEF Sent
<1> QED BY <1>2, <1>5, <1>6 DEF OutboxStory

(* A dispatch nobody disturbs is the only one.                             *)
LEMMA OnlyDispatch ==
  ASSUME Base, NEW p \in Proc, Moves(p), Outbox \notin tainted',
         proc[p].on = Outbox \/ proc'[p].on = Outbox
  PROVE  \A q \in Proc \ {p} : proc[q].on # Outbox
<1>1. Outbox # NoRow /\ Outbox \notin tainted BY DEF Outbox, NoRow, Moves
<1> QED BY <1>1 DEF Base, Excl, Moves

(* The steps of a dispatch.                                                *)
LEMMA OutboxOwn ==
  ASSUME Base, OutboxOK, NEW p \in Proc, Moves(p), Outbox \notin tainted',
         proc[p].on = Outbox \/ proc'[p].on = Outbox,
         Due(proc[p])',
         \A k \in DOMAIN arrived' : arrived'[k] = 1 /\ k[1] \in DOMAIN events',
         \A k \in DOMAIN arrived' : events'[k[1]].dispatched \/ Sent(proc'[p], k)
  PROVE  OutboxOK'
<1>1. \A q \in Proc \ {p} : proc[q].on # Outbox /\ proc'[q] = proc[q] BY OnlyDispatch DEF Moves
<1>2. ASSUME NEW q \in Proc \ {p} PROVE Due(proc[q])'
  <2>1. proc'[q].at \notin DispatchLabels \ {"idle"} BY <1>1, SentAt
  <2> QED BY <2>1 DEF Due, DispatchLabels
<1>3. \A q \in Proc : Due(proc[q])' BY <1>2
<1>4. \A k \in DOMAIN arrived' : events'[k[1]].dispatched \/ \E q \in Proc : Sent(proc[q], k)' BY DEF Sent
<1> QED BY <1>3, <1>4 DEF OutboxOK, OutboxStory

LEMMA OutboxDispatch ==
  ASSUME Base, NotifyInv, OutboxOK, NEW p \in Proc, DispatchMove(p), Moves(p)
  PROVE  OutboxOK'
<1> USE DEF At, Mem
<1> SUFFICES ASSUME Outbox \notin tainted' PROVE OutboxOK' BY DEF OutboxOK
<1>1. Outbox \notin tainted /\ OutboxStory BY DEF OutboxOK, Moves
<1>2. proc[p].on = Outbox \/ proc'[p].on = Outbox => \A q \in Proc \ {p} : proc[q].on # Outbox BY OnlyDispatch
<1>3. \A k \in DOMAIN arrived : arrived[k] = 1 /\ k[1] \in DOMAIN events BY <1>1 DEF OutboxStory
<1>4. ASSUME proc[p].on = Outbox \/ proc'[p].on = Outbox
      PROVE  \A k \in DOMAIN arrived : events[k[1]].dispatched \/ Sent(proc[p], k)
  BY <1>1, <1>2, <1>4, SentAt DEF OutboxStory
<1>5. Due(proc[p]) /\ events \in Seq(EventRow) BY <1>1 DEF OutboxStory, NotifyInv
<1>6. proc[p].on = Outbox <=> proc[p].at \in DispatchLabels \ {"idle"} BY SentAt
<1>7. proc'[p].on = Outbox <=> proc'[p].at \in DispatchLabels \ {"idle"} BY OutboxAt DEF Moves
<1>8. CASE UNCHANGED <<events, arrived, proc, tainted>> BY <1>1, <1>8 DEF OutboxOK, OutboxStory, Due, Sent
<1>9. CASE UNCHANGED notifyVars /\ proc'[p].at = "dispatch.integrations" /\ proc'[p].mem = Undispatched
           /\ proc[p].on = NoRow
  <2>1. proc'[p].on = Outbox BY <1>7, <1>9 DEF DispatchLabels
  <2>2. \A k : ~Sent(proc[p], k) 
    <3>1. Outbox # NoRow BY DEF Outbox, NoRow
    <3> QED BY <1>9, <3>1, SentAt
  <2>3. \A k \in DOMAIN arrived' : events'[k[1]].dispatched BY <1>4, <1>9, <2>1, <2>2 DEF notifyVars
  <2>4. Due(proc[p])' BY <1>9 DEF Due, Undispatched, notifyVars
  <2>5. \A k \in DOMAIN arrived' : arrived'[k] = 1 /\ k[1] \in DOMAIN events' BY <1>3, <1>9 DEF notifyVars
  <2> QED BY <2>1, <2>3, <2>4, <2>5, OutboxOwn
<1>10. CASE At(p, "dispatch.integrations") /\ UNCHANGED notifyVars /\ Sends(proc'[p], Mem(p), integrations)
  <2>1. proc[p].on = Outbox BY <1>6, <1>10 DEF DispatchLabels
  <2>2. \A k : ~Sent(proc[p], k) BY <1>10 DEF Sent
  <2>3. \A k \in DOMAIN arrived' : events'[k[1]].dispatched BY <1>4, <1>10, <2>1, <2>2 DEF notifyVars
  <2>4. proc'[p].at = "idle" \/ (proc'[p].at \in {"dispatch.send", "dispatch.mark"} /\ proc'[p].mem.left = Mem(p))
    BY <1>10 DEF Sends, Idle
  <2>5. Due(proc[p])' BY <1>5, <1>10, <2>4 DEF Due, notifyVars
  <2>6. \A k \in DOMAIN arrived' : arrived'[k] = 1 /\ k[1] \in DOMAIN events' BY <1>3, <1>10 DEF notifyVars
  <2> QED BY <2>1, <2>3, <2>5, <2>6, OutboxOwn
<1>11. CASE /\ At(p, "dispatch.send") /\ proc'[p].at = "dispatch.log"
            /\ UNCHANGED <<events, inbox, integrations, deliveryLog>>
            /\ \/ arrived' = arrived
               \/ arrived' = arrived (+) SetToBag({<<Event(p), Receiver(p)>>})
            /\ \E st : proc'[p].mem = Replaced(Mem(p), "status", st)
  <2> DEFINE new == <<Event(p), Receiver(p)>>
  <2>1. proc[p].on = Outbox BY <1>6, <1>11 DEF DispatchLabels
  <2>2. DispatchOK(proc[p]) BY DEF NotifyInv
  <2>3. {"left", "from", "subs"} \subseteq DOMAIN Mem(p) BY <1>11, <2>2 DEF DispatchOK
  <2>4. proc'[p].mem.left = Mem(p).left /\ proc'[p].mem.from = Mem(p).from /\ proc'[p].mem.subs = Mem(p).subs
    BY <1>11, <2>3 DEF Replaced
  <2>5. /\ Event(p) \in Mem(p).left /\ Event(p) \in DOMAIN events /\ Target(p) \in Mem(p).subs
        /\ Wired(Mem(p).from) /\ Mem(p).subs \subseteq DOMAIN Mem(p).from BY <1>11, EventAt DEF Subscribers
  <2>6. ~events[Event(p)].dispatched BY <1>5, <1>11, <2>5 DEF Due
  <2>7. new \notin DOMAIN arrived
    <3>1. SUFFICES ASSUME new \in DOMAIN arrived PROVE FALSE OBVIOUS
    <3>2. new[1] = Event(p) /\ new[2] = Mem(p).from[Target(p)].backend BY DEF Receiver
    <3>3. Sent(proc[p], new) BY <1>4, <2>1, <2>6, <3>1, <3>2
    <3> QED BY <1>11, <2>5, <3>2, <3>3 DEF Sent
  <2>8. /\ DOMAIN arrived' \subseteq DOMAIN arrived \cup {new}
        /\ \A k \in DOMAIN arrived' : arrived'[k] = 1 /\ k[1] \in DOMAIN events'
    <3>1. CASE arrived' = arrived BY <1>3, <1>11, <3>1
    <3>2. CASE arrived' = arrived (+) SetToBag({new})
      <4>1. SetToBag({new}) = [e \in {new} |-> 1] BY DEF SetToBag
      <4>2. arrived' = [e \in DOMAIN arrived \cup {new} |->
                          (IF e \in DOMAIN arrived THEN arrived[e] ELSE 0)
                          + (IF e \in {new} THEN [x \in {new} |-> 1][e] ELSE 0)] BY <3>2, <4>1 DEF (+)
      <4>3. new[1] \in DOMAIN events BY <2>5
      <4> HIDE DEF new
      <4>4. arrived'[new] = 1 BY <2>7, <4>2
      <4>5. \A k \in DOMAIN arrived : arrived'[k] = arrived[k] BY <1>3, <2>7, <4>2
      <4> QED BY <1>3, <1>11, <4>2, <4>3, <4>4, <4>5
    <3> QED BY <1>11, <3>1, <3>2
  <2>9. Sent(proc'[p], new)
    <3>1. new[1] = Min(proc'[p].mem.left) /\ new[2] = Mem(p).from[Target(p)].backend BY <2>4 DEF Event, Receiver
    <3>2. ASSUME NEW i \in Mem(p).subs \ {Target(p)} PROVE Mem(p).from[i].backend # new[2]
      BY <2>5, <3>1, <3>2 DEF Wired
    <3>3. Target(p) = Min(proc'[p].mem.subs) BY <2>4 DEF Target
    <3> QED BY <1>11, <2>4, <3>1, <3>2, <3>3 DEF Sent
  <2>10. ASSUME NEW k \in DOMAIN arrived PROVE events'[k[1]].dispatched \/ Sent(proc'[p], k)
    <3>1. CASE Sent(proc[p], k) BY <1>11, <2>4, <3>1 DEF Sent
    <3> QED BY <1>4, <1>11, <2>1, <3>1
  <2>11. Due(proc[p])' BY <1>5, <1>11, <2>4 DEF Due
  <2> HIDE DEF new
  <2> QED BY <2>1, <2>8, <2>9, <2>10, <2>11, OutboxOwn
<1>12. CASE /\ At(p, "dispatch.log") /\ UNCHANGED <<events, inbox, integrations, arrived>>
            /\ LET subs == Mem(p).subs \ {Target(p)}
               IN  /\ proc'[p].at = IF subs = {} THEN "dispatch.mark" ELSE "dispatch.send"
                   /\ proc'[p].mem = [left |-> Mem(p).left, from |-> Mem(p).from, subs |-> subs]
  <2>1. proc[p].on = Outbox BY <1>6, <1>12 DEF DispatchLabels
  <2>2. /\ proc'[p].mem.left = Mem(p).left /\ proc'[p].mem.from = Mem(p).from
        /\ proc'[p].mem.subs = Mem(p).subs \ {Min(Mem(p).subs)}
        /\ proc'[p].at \in {"dispatch.send", "dispatch.mark"} BY <1>12 DEF Target
  <2>3. \A k : Sent(proc[p], k) => Sent(proc'[p], k) BY <1>12, <2>2 DEF Sent
  <2>4. Due(proc[p])' BY <1>5, <1>12, <2>2 DEF Due
  <2>5. \A k \in DOMAIN arrived' : events'[k[1]].dispatched \/ Sent(proc'[p], k) BY <1>4, <1>12, <2>1, <2>3
  <2> QED BY <1>3, <1>12, <2>1, <2>4, <2>5, OutboxOwn
<1>13. CASE /\ At(p, "dispatch.mark") /\ UNCHANGED <<inbox, integrations, deliveryLog, arrived>>
            /\ events' = [events EXCEPT ![Event(p)].dispatched = TRUE]
            /\ Continue(p, Sending(p, Mem(p).left \ {Event(p)}, Mem(p).from))
  <2>1. proc[p].on = Outbox BY <1>6, <1>13 DEF DispatchLabels
  <2>2. Event(p) \in DOMAIN events /\ Mem(p).left \subseteq DOMAIN events BY <1>13, EventAt
  <2>3. /\ DOMAIN events' = DOMAIN events /\ events'[Event(p)].dispatched
        /\ \A x \in DOMAIN events \ {Event(p)} : events'[x] = events[x]
    BY <1>5, <1>13, <2>2, MarkedEvents DEF SameEvents
  <2>4. ASSUME NEW k \in DOMAIN arrived' PROVE events'[k[1]].dispatched
    <3>1. k[1] \in DOMAIN events BY <1>3, <1>13
    <3>2. CASE k[1] = Event(p) BY <2>3, <3>2
    <3>3. CASE k[1] # Event(p)
      <4>1. ~Sent(proc[p], k) BY <3>3 DEF Sent, Event
      <4> QED BY <1>4, <1>13, <2>1, <2>3, <3>1, <3>3, <4>1
    <3> QED BY <3>2, <3>3
  <2>5. Sends(proc'[p], Mem(p).left \ {Event(p)}, Mem(p).from) BY <1>13, SendingIs
  <2>6. \/ proc'[p].at = "idle"
        \/ proc'[p].at \in {"dispatch.send", "dispatch.mark"} /\ proc'[p].mem.left = Mem(p).left \ {Event(p)}
    BY <2>5 DEF Sends, Idle
  <2>7. \A e \in Mem(p).left \ {Event(p)} : ~events'[e].dispatched BY <1>5, <1>13, <2>2, <2>3 DEF Due
  <2>8. Due(proc[p])' BY <2>6, <2>7 DEF Due
  <2>9. \A k \in DOMAIN arrived' : arrived'[k] = 1 /\ k[1] \in DOMAIN events' BY <1>3, <1>13, <2>3
  <2> QED BY <2>1, <2>4, <2>8, <2>9, OutboxOwn
<1> QED BY <1>8, <1>9, <1>10, <1>11, <1>12, <1>13, DispatchDoes, SMTT(60)

LEMMA OutboxStep == Base /\ NotifyInv /\ OutboxOK /\ [Next]_vars => OutboxOK'
<1> SUFFICES ASSUME Base, NotifyInv, OutboxOK, [Next]_vars PROVE OutboxOK' OBVIOUS
<1>1. CASE Still BY <1>1 DEF Still, notifyVars, OutboxOK, OutboxStory, Due, Sent
<1>2. ASSUME NEW p \in Proc, Moves(p), EmitMove(p) PROVE OutboxOK'
  <2>1. MovesIn(p, EmitLabels) BY <1>2, EmitMoves
  <2>2. proc[p].on # Outbox /\ proc'[p].at \notin DispatchLabels \ {"idle"}
    BY <2>1, SentAt DEF MovesIn, EmitLabels, DispatchLabels
  <2>3. UNCHANGED arrived BY <1>2 DEF EmitMove, EmitEvent, EmitNotify
  <2>4. events \in Seq(EventRow) BY DEF NotifyInv
  <2>5. DOMAIN events \subseteq DOMAIN events' /\ \A e \in DOMAIN events : events'[e] = events[e]
    <3>1. CASE UNCHANGED events BY <3>1
    <3>2. ASSUME NEW row, events' = Append(events, row)
          PROVE  DOMAIN events \subseteq DOMAIN events' /\ \A e \in DOMAIN events : events'[e] = events[e]
      BY <2>4, <3>2
    <3> QED BY <1>2, <3>1, <3>2, EmitDoes
  <2> QED BY <1>2, <2>2, <2>3, <2>5, OutboxKept
<1>3. ASSUME NEW p \in Proc, Moves(p), DispatchMove(p) PROVE OutboxOK' BY <1>3, OutboxDispatch
<1>4. ASSUME NEW p \in Proc, Moves(p), NotifyElsewhere(p) PROVE OutboxOK'
  <2>1. UNCHANGED notifyVars /\ (proc[p].on = Outbox => Outbox \in tainted') BY <1>4 DEF NotifyElsewhere
  <2>2. proc'[p].at \notin DispatchLabels \ {"idle"} BY <1>4 DEF NotifyElsewhere, DispatchLabels
  <2> QED BY <1>4, <2>1, <2>2, OutboxKept DEF notifyVars
<1> QED BY <1>1, <1>2, <1>3, <1>4, NotifyCases

LEMMA OutboxInit == Init => OutboxOK
<1> SUFFICES ASSUME Init PROVE OutboxOK OBVIOUS
<1>1. arrived = EmptyBag /\ \A p \in Proc : proc[p] = Idle BY DEF Init
<1>2. DOMAIN arrived = {} BY <1>1 DEF EmptyBag, SetToBag
<1>3. Idle.at = "idle" BY DEF Idle
<1> QED BY <1>1, <1>2, <1>3 DEF OutboxOK, OutboxStory, Due

LEMMA SentTold == MailInv /\ OutboxOK => SentOnce
<1> SUFFICES ASSUME MailInv, OutboxOK PROVE SentOnce OBVIOUS
<1>1. ASSUME NEW k \in DOMAIN arrived, arrived[k] > 1, Outbox \notin tainted PROVE FALSE
  <2>1. arrived[k] = 1 BY <1>1 DEF OutboxOK, OutboxStory
  <2> QED BY <1>1, <2>1
<1> QED BY <1>1 DEF SentOnce, MailInv

MarkStep ==
  \A e \in DOMAIN events : events'[e].dispatched /\ ~events[e].dispatched =>
    \E p \in Proc : /\ At(p, "dispatch.mark") /\ Event(p) = e
                    /\ \A k \in Subscribers(Mem(p).from, e) : \E d \in deliveryLog :
                         d.event = e /\ d.backend = Mem(p).from[k].backend

LEMMA MarkStepKeeps ==
  ASSUME Base, NotifyInv, [Next]_vars
  PROVE  MarkStep
<1>1. events \in Seq(EventRow) BY DEF NotifyInv
<1>2. CASE \A e \in DOMAIN events : events'[e] = events[e] BY <1>2 DEF MarkStep
<1>3. ASSUME NEW p \in Proc, Moves(p), EmitMove(p) PROVE MarkStep
  <2>1. CASE UNCHANGED events BY <1>2, <2>1
  <2>2. ASSUME NEW row, events' = Append(events, row) PROVE MarkStep
    <3>1. \A e \in DOMAIN events : events'[e] = events[e] BY <1>1, <2>2
    <3> QED BY <1>2, <3>1
  <2> QED BY <1>3, <2>1, <2>2, EmitDoes
<1>4. ASSUME NEW p \in Proc, Moves(p), DispatchMove(p) PROVE MarkStep
  <2>1. CASE UNCHANGED events BY <1>2, <2>1
  <2>2. CASE At(p, "dispatch.mark") /\ events' = [events EXCEPT ![Event(p)].dispatched = TRUE]
    <3>1. /\ Mem(p).subs = {}
          /\ \A k \in Subscribers(Mem(p).from, Event(p)) \ Mem(p).subs :
               \E d \in deliveryLog : d.event = Event(p) /\ d.backend = Mem(p).from[k].backend
      BY <2>2, EventAt DEF At
    <3>2. \A e \in DOMAIN events \ {Event(p)} : events'[e] = events[e] BY <1>1, <2>2, MarkedEvents
    <3> QED BY <2>2, <3>1, <3>2 DEF MarkStep
  <2> QED BY <1>4, <2>1, <2>2, DispatchDoes DEF notifyVars
<1> QED BY <1>2, <1>3, <1>4, NotifyCases DEF Still, NotifyElsewhere, notifyVars
-----------------------------------------------------------------------------
(* Trust.  Steps by others leave the tables alone, and a command on an     *)
(* agent's row that dies taints it.                                        *)
TrustElsewhere(p) ==
  /\ UNCHANGED trustVars /\ proc'[p].at \notin TrustLabels \ {"idle"}
  /\ proc[p].at \in TrustLabels \ {"idle"} /\ proc[p].on # NoRow => proc[p].on \in tainted'

LEMMA TrustCases ==
  ASSUME Base, [Next]_vars
  PROVE  Still \/ \E p \in Proc : Moves(p) /\ (TrustMove(p) \/ TrustElsewhere(p))
<1> SUFFICES ASSUME NEW p \in Proc, Moved(p), Moves(p) PROVE TrustMove(p) \/ TrustElsewhere(p) BY StepCases
<1>1. \A labels \in {RbacLabels, RequestLabels, DecideLabels, MergeLabels, EmitLabels, DispatchLabels,
                     CostLabels, DetectLabels, {"suggest", "request"}} : labels \cap (TrustLabels \ {"idle"}) = {}
  BY DEF RbacLabels, RequestLabels, DecideLabels, MergeLabels, EmitLabels, DispatchLabels, TrustLabels,
         CostLabels, DetectLabels
<1>2. \/ TrustMove(p)
      \/ DieMove(p) /\ proc'[p] = Idle /\ (proc[p].on # NoRow => proc[p].on \in tainted')
      \/ /\ UNCHANGED trustVars
         /\ \E labels \in {RbacLabels, RequestLabels, DecideLabels, MergeLabels, EmitLabels, DispatchLabels,
                           CostLabels, DetectLabels, {"suggest", "request"}} :
              proc[p].at \in labels /\ proc'[p].at \in labels
  BY DEF Moved, MovesIn, RbacMove, RequestMove, DecideMove, MergeMove, EmitMove, DispatchMove, CostMove,
         DetectMove, SuggestMove
<1>3. CASE DieMove(p) /\ proc'[p] = Idle /\ (proc[p].on # NoRow => proc[p].on \in tainted')
  <2>1. proc'[p].at = "idle" BY <1>3 DEF Idle
  <2> QED BY <1>3, <2>1 DEF DieMove, TrustElsewhere
<1>4. CASE /\ UNCHANGED trustVars
           /\ \E labels \in {RbacLabels, RequestLabels, DecideLabels, MergeLabels, EmitLabels, DispatchLabels,
                             CostLabels, DetectLabels, {"suggest", "request"}} :
                proc[p].at \in labels /\ proc'[p].at \in labels
  <2>1. proc'[p].at \notin TrustLabels \ {"idle"} /\ proc[p].at \notin TrustLabels \ {"idle"} BY <1>1, <1>4
  <2> QED BY <1>4, <2>1 DEF TrustElsewhere
<1> QED BY <1>2, <1>3, <1>4

(* What the steps on a score do.                                           *)
Unscored == UNCHANGED <<scores, agentEvents, proc, tainted>>
Opened(p) ==
  /\ At(p, "idle") /\ UNCHANGED agentEvents /\ proc'[p].at = "event.store"
  /\ scores' = IF proc'[p].cmd.agent \in DOMAIN scores THEN scores
               ELSE Replaced(scores, proc'[p].cmd.agent, NewRow)
Stored(p) ==
  /\ At(p, "event.store") /\ UNCHANGED scores /\ proc'[p].cmd = Cmd(p)
  /\ agentEvents' = Append(agentEvents, [agent |-> Cmd(p).agent, type |-> Cmd(p).type])
  /\ proc'[p].at = IF Counted(Cmd(p).type) = {} THEN "event.read" ELSE "event.bump"
Bumped(p) ==
  /\ At(p, "event.bump") /\ UNCHANGED agentEvents /\ proc'[p].at = "event.read" /\ proc'[p].cmd = Cmd(p)
  /\ \E k \in Counted(Cmd(p).type) : scores' = [scores EXCEPT ![Cmd(p).agent][k] = @ + 1]
Looked(p) ==
  /\ At(p, "event.read") /\ UNCHANGED <<scores, agentEvents>> /\ proc'[p].at = "event.write"
  /\ proc'[p].cmd = Cmd(p)
  /\ proc'[p].mem = <<scores[Cmd(p).agent].survived, scores[Cmd(p).agent].regressions>>
Rescored(p) ==
  /\ At(p, "event.write") /\ UNCHANGED agentEvents /\ proc'[p].at = "idle"
  /\ scores' = [scores EXCEPT ![Cmd(p).agent].scored = Mem(p),
                              ![Cmd(p).agent].status = StatusFor(Mem(p)[1], Mem(p)[2])]
Overridden(p) ==
  /\ At(p, "idle") /\ UNCHANGED agentEvents /\ proc'[p].at = "manual.store"
  /\ proc'[p].mem = "manual_override" /\ proc'[p].cmd.agent \in DOMAIN scores
  /\ scores' = [scores EXCEPT ![proc'[p].cmd.agent].override = proc'[p].cmd.status,
                              ![proc'[p].cmd.agent].until = proc'[p].cmd.until]
Zeroed(p) ==
  /\ At(p, "idle") /\ UNCHANGED agentEvents /\ proc'[p].at = "manual.store"
  /\ proc'[p].mem = "reset" /\ proc'[p].cmd.agent \in DOMAIN scores
  /\ scores' = [scores EXCEPT ![proc'[p].cmd.agent] = NewRow]
Noted(p) ==
  /\ At(p, "manual.store") /\ UNCHANGED scores /\ proc'[p].at = "idle"
  /\ agentEvents' = Append(agentEvents, [agent |-> Cmd(p).agent, type |-> Mem(p)])

LEMMA TrustDoes ==
  ASSUME Base, NEW p \in Proc, TrustMove(p), Moves(p)
  PROVE  \/ Unscored \/ Opened(p) \/ Stored(p) \/ Bumped(p) \/ Looked(p) \/ Rescored(p)
         \/ Overridden(p) \/ Zeroed(p) \/ Noted(p)
<1>1. ASSUME NEW c \in todo, RecordEvent(p, c) PROVE Opened(p)
  <2>1. Begin(p, c, "event.store", AgentRow(c.agent), None, <<>>) BY <1>1 DEF RecordEvent
  <2>2. proc'[p].at = "event.store" /\ proc'[p].cmd = c BY <2>1, AfterBegin
  <2>3. At(p, "idle") BY <2>1 DEF Begin
  <2> QED BY <1>1, <2>2, <2>3 DEF RecordEvent, Opened
<1>2. ASSUME EventStore(p) PROVE Stored(p)
  <2> DEFINE label == IF Counted(Cmd(p).type) = {} THEN "event.read" ELSE "event.bump"
  <2>1. Continue(p, Goto(p, label, None)) BY <1>2 DEF EventStore
  <2>2. proc'[p].at = label /\ proc'[p].cmd = proc[p].cmd
    <3> HIDE DEF label
    <3> QED BY <2>1, AfterGoto
  <2> QED BY <1>2, <2>2 DEF EventStore, Cmd, Stored
<1>3. CASE EventBump(p)
  <2>1. Continue(p, Goto(p, "event.read", None)) BY <1>3 DEF EventBump
  <2>2. proc'[p].at = "event.read" /\ proc'[p].cmd = Cmd(p) BY <2>1, AfterGoto DEF Cmd
  <2> QED BY <1>3, <2>2 DEF EventBump, Bumped
<1>4. CASE EventRead(p)
  <2> DEFINE seen == <<scores[Cmd(p).agent].survived, scores[Cmd(p).agent].regressions>>
  <2>1. Continue(p, Goto(p, "event.write", seen)) BY <1>4 DEF EventRead
  <2>2. proc'[p].at = "event.write" /\ proc'[p].cmd = Cmd(p) /\ proc'[p].mem = seen
    <3> HIDE DEF seen
    <3> QED BY <2>1, AfterGoto DEF Cmd
  <2> QED BY <1>4, <2>2 DEF EventRead, trustVars, Looked
<1>5. CASE EventWrite(p)
  <2>1. At(p, "event.write") /\ Continue(p, Return(p)) BY <1>5 DEF EventWrite
  <2>2. proc[p].rest = <<>> /\ proc[p].to = {} BY <2>1, OpOf DEF LabelsOf, RestOf
  <2>3. proc'[p].at = "idle" BY <2>1, <2>2, AfterReturn DEF At, Idle
  <2> QED BY <1>5, <2>3 DEF EventWrite, Rescored
<1>6. ASSUME NEW c \in todo, Override(p, c), c.agent \in DOMAIN scores PROVE Overridden(p)
  <2>1. Begin(p, c, "manual.store", NoRow, "manual_override", <<>>) BY <1>6 DEF Override
  <2>2. proc'[p].at = "manual.store" /\ proc'[p].cmd = c /\ proc'[p].mem = "manual_override" BY <2>1, AfterBegin
  <2>3. At(p, "idle") BY <2>1 DEF Begin
  <2> QED BY <1>6, <2>2, <2>3 DEF Override, Overridden
<1>7. ASSUME NEW c \in todo, Reset(p, c), c.agent \in DOMAIN scores PROVE Zeroed(p)
  <2>1. Begin(p, c, "manual.store", AgentRow(c.agent), "reset", <<>>) BY <1>7 DEF Reset
  <2>2. proc'[p].at = "manual.store" /\ proc'[p].cmd = c /\ proc'[p].mem = "reset" BY <2>1, AfterBegin
  <2>3. At(p, "idle") BY <2>1 DEF Begin
  <2> QED BY <1>7, <2>2, <2>3 DEF Reset, Zeroed
<1>8. CASE ManualStore(p)
  <2>1. At(p, "manual.store") /\ Continue(p, Return(p)) BY <1>8 DEF ManualStore
  <2>2. proc[p].rest = <<>> /\ proc[p].to = {} BY <2>1, OpOf DEF LabelsOf, RestOf
  <2>3. proc'[p].at = "idle" BY <2>1, <2>2, AfterReturn DEF At, Idle
  <2> QED BY <1>8, <2>3 DEF ManualStore, Noted
<1>9. ASSUME NEW c \in todo, \/ Override(p, c) /\ c.agent \notin DOMAIN scores
                             \/ Reset(p, c) /\ c.agent \notin DOMAIN scores
                             \/ SetModuleOverride(p, c)
      PROVE  Unscored BY <1>9 DEF Override, Reset, SetModuleOverride, Only, Unscored
<1> QED BY <1>1, <1>2, <1>3, <1>4, <1>5, <1>6, <1>7, <1>8, <1>9 DEF TrustMove, TrustBegin, TrustStep
-----------------------------------------------------------------------------
(* How the events of an agent are counted as one more is stored.           *)
Happening == [agent : Agent, type : STRING \cup {"reset", "manual_override"}]
Of(h, a, type) ==
  {i \in DOMAIN h : /\ h[i] = [agent |-> a, type |-> type]
                    /\ \A k \in i .. Len(h) : h[k] # [agent |-> a, type |-> "reset"]}

LEMMA OfFinite ==
  ASSUME NEW h \in Seq(Happening), NEW a, NEW type
  PROVE  IsFiniteSet(Of(h, a, type)) /\ Cardinality(Of(h, a, type)) \in Nat
<1>1. Len(h) \in Nat /\ DOMAIN h = 1 .. Len(h) OBVIOUS
<1>2. IsFiniteSet(1 .. Len(h)) BY <1>1, FS_Interval
<1>3. Of(h, a, type) \subseteq 1 .. Len(h) BY <1>1 DEF Of
<1>4. IsFiniteSet(Of(h, a, type)) BY <1>2, <1>3, FS_Subset
<1> QED BY <1>4, FS_CardinalityType

LEMMA OfAppend ==
  ASSUME NEW h \in Seq(Happening), NEW e \in Happening, NEW a, NEW type, type # "reset"
  PROVE  /\ e = [agent |-> a, type |-> "reset"] => Cardinality(Of(Append(h, e), a, type)) = 0
         /\ e = [agent |-> a, type |-> type] =>
              Cardinality(Of(Append(h, e), a, type)) = Cardinality(Of(h, a, type)) + 1
         /\ e # [agent |-> a, type |-> "reset"] /\ e # [agent |-> a, type |-> type] =>
              Cardinality(Of(Append(h, e), a, type)) = Cardinality(Of(h, a, type))
<1> DEFINE g == Append(h, e)
           n == Len(h) + 1
           reset == [agent |-> a, type |-> "reset"]
           one   == [agent |-> a, type |-> type]
<1>1. /\ n \in Nat /\ Len(g) = n /\ DOMAIN g = 1 .. n /\ DOMAIN h = 1 .. n - 1 /\ Len(h) = n - 1 /\ g[n] = e
      /\ \A i \in 1 .. n - 1 : g[i] = h[i] OBVIOUS
<1>2. reset # one OBVIOUS
<1>3. Of(g, a, type) = {i \in 1 .. n : g[i] = one /\ \A k \in i .. n : g[k] # reset} BY <1>1 DEF Of
<1>4. Of(h, a, type) = {i \in 1 .. n - 1 : h[i] = one /\ \A k \in i .. n - 1 : h[k] # reset} BY <1>1 DEF Of
<1> HIDE DEF g, n, reset, one
<1>5. ASSUME e = reset PROVE Of(g, a, type) = {} BY <1>1, <1>3, <1>5
<1>6. ASSUME e # reset, NEW i \in 1 .. n - 1 PROVE i \in Of(g, a, type) <=> i \in Of(h, a, type)
  <2>1. \A k \in i .. n : k = n \/ k \in i .. n - 1 BY <1>1
  <2>2. \A k \in i .. n - 1 : g[k] = h[k] /\ k \in i .. n BY <1>1
  <2>3. i \in 1 .. n BY <1>1
  <2> QED BY <1>1, <1>3, <1>4, <1>6, <2>1, <2>2, <2>3
<1>7. ASSUME e # reset PROVE n \in Of(g, a, type) <=> e = one
  <2>1. n \in 1 .. n /\ \A k \in n .. n : k = n BY <1>1
  <2> QED BY <1>1, <1>3, <1>7, <2>1
<1>8. Of(h, a, type) \subseteq 1 .. n - 1 /\ Of(g, a, type) \subseteq 1 .. n BY <1>3, <1>4
<1>9. \A i \in 1 .. n : i = n \/ i \in 1 .. n - 1 BY <1>1
<1>10. IsFiniteSet(Of(h, a, type)) BY OfFinite
<1>11. n \notin Of(h, a, type) BY <1>1, <1>8
<1>12. ASSUME e = one PROVE Cardinality(Of(g, a, type)) = Cardinality(Of(h, a, type)) + 1
  <2>1. Of(g, a, type) = Of(h, a, type) \cup {n} BY <1>2, <1>6, <1>7, <1>8, <1>9, <1>12
  <2> QED BY <1>10, <1>11, <2>1, FS_AddElement
<1>13. ASSUME e # one, e # reset PROVE Of(g, a, type) = Of(h, a, type) BY <1>6, <1>7, <1>8, <1>9, <1>13
<1>14. Cardinality({}) = 0 BY FS_EmptySet
<1> QED BY <1>5, <1>12, <1>13, <1>14 DEF g, reset, one

(* A counter, and the events it counts.                                    *)
TypeOf(k) ==
  CASE k = "total" -> "changeset_promoted" [] k = "survived" -> "changeset_merged" [] OTHER -> "regression"
CountIn(h, a, k) == Cardinality(Of(h, a, TypeOf(k)))

LEMMA CountIs ==
  ASSUME NEW a
  PROVE  /\ CountOf(a, "changeset_promoted") = CountIn(agentEvents, a, "total")
         /\ CountOf(a, "changeset_merged") = CountIn(agentEvents, a, "survived")
         /\ CountOf(a, "regression") = CountIn(agentEvents, a, "regressions")
<1>1. \A type : EventsOf(a, type) = Of(agentEvents, a, type) BY DEF EventsOf, Of, IsReset
<1> QED BY <1>1 DEF CountOf, CountIn, TypeOf

LEMMA CountNat ==
  ASSUME NEW h \in Seq(Happening), NEW a, NEW k
  PROVE  CountIn(h, a, k) \in Nat BY OfFinite DEF CountIn

LEMMA CountMore ==
  ASSUME NEW h \in Seq(Happening), NEW e \in Happening, NEW a, NEW k \in Counters
  PROVE  /\ e.agent # a => CountIn(Append(h, e), a, k) = CountIn(h, a, k)
         /\ e.agent = a /\ e.type = "reset" => CountIn(Append(h, e), a, k) = 0
         /\ e.agent = a /\ e.type # "reset" =>
              CountIn(Append(h, e), a, k) = CountIn(h, a, k) + (IF k \in Counted(e.type) THEN 1 ELSE 0)
<1> DEFINE type == TypeOf(k)
<1>1. type # "reset" /\ (k \in Counted(e.type) <=> e.type = type) BY DEF TypeOf, Counted, Counters
<1>2. e = [agent |-> e.agent, type |-> e.type] BY DEF Happening
<1>3. CountIn(h, a, k) \in Nat BY CountNat
<1>4. CountIn(Append(h, e), a, k) = Cardinality(Of(Append(h, e), a, type))
      /\ CountIn(h, a, k) = Cardinality(Of(h, a, type)) BY DEF CountIn
<1> HIDE DEF type
<1>5. CASE e.agent # a
  <2>1. e # [agent |-> a, type |-> "reset"] /\ e # [agent |-> a, type |-> type] BY <1>5
  <2> QED BY <1>1, <1>4, <1>5, <2>1, OfAppend
<1>6. CASE e.agent = a /\ e.type = "reset"
  <2>1. e = [agent |-> a, type |-> "reset"] BY <1>2, <1>6
  <2> QED BY <1>1, <1>4, <1>6, <2>1, OfAppend
<1>7. CASE e.agent = a /\ e.type # "reset" /\ e.type = type
  <2>1. e = [agent |-> a, type |-> type] BY <1>2, <1>7
  <2>2. CountIn(Append(h, e), a, k) = CountIn(h, a, k) + 1 BY <1>1, <1>4, <2>1, OfAppend
  <2> QED BY <1>1, <1>7, <2>2
<1>8. CASE e.agent = a /\ e.type # "reset" /\ e.type # type
  <2>1. e # [agent |-> a, type |-> type] /\ e # [agent |-> a, type |-> "reset"] BY <1>8
  <2>2. CountIn(Append(h, e), a, k) = CountIn(h, a, k) BY <1>1, <1>4, <2>1, OfAppend
  <2> QED BY <1>1, <1>3, <1>8, <2>2
<1> QED BY <1>5, <1>6, <1>7, <1>8
-----------------------------------------------------------------------------
(* The table of scores, and what a command on one has in hand.             *)
RowOK(row) ==
  /\ DOMAIN row = DOMAIN NewRow /\ row.status \in TrustStatus
  /\ \A k \in Counters : row[k] \in Nat

TrustHand(s) ==
  /\ s.at \in TrustLabels \ {"idle"} => s.cmd.agent \in DOMAIN scores
  /\ s.at = "event.bump" => Counted(s.cmd.type) # {}
  /\ s.at = "event.write" => s.mem[1] \in Nat /\ s.mem[2] \in Nat
  /\ s.at = "manual.store" => s.mem \in {"reset", "manual_override"}

TrustTypes ==
  /\ \A a \in DOMAIN scores : a \in Agent /\ RowOK(scores[a])
  /\ agentEvents \in Seq(Happening) /\ \A i \in DOMAIN agentEvents : agentEvents[i].agent \in DOMAIN scores
  /\ \A p \in Proc : TrustHand(proc[p])

LEMMA NewRowOK ==
  /\ RowOK(NewRow) /\ Counters \subseteq DOMAIN NewRow
  /\ \A k \in Counters : NewRow[k] = 0
  /\ NewRow.scored = <<0, 0>> /\ NewRow.status = StatusFor(0, 0)
<1>1. StatusFor(0, 0) = "sandboxed" BY DEF StatusFor, AtLeast, ScoreNum, ScoreDen
<1> QED BY <1>1 DEF RowOK, NewRow, Counters, TrustStatus

(* Two fields of a row written; a counter that goes up.                    *)
LEMMA RowScored ==
  ASSUME NEW a \in DOMAIN scores, NEW v, NEW w \in TrustStatus, \A b \in DOMAIN scores : RowOK(scores[b]),
         scores' = [scores EXCEPT ![a].scored = v, ![a].status = w]
  PROVE  /\ DOMAIN scores' = DOMAIN scores /\ \A b \in DOMAIN scores : RowOK(scores'[b])
         /\ \A k \in Counters : scores'[a][k] = scores[a][k]
         /\ scores'[a].scored = v /\ scores'[a].status = w
         /\ \A b \in DOMAIN scores \ {a} : scores'[b] = scores[b]
<1>1. /\ DOMAIN scores[a] = DOMAIN NewRow /\ Counters \subseteq DOMAIN NewRow
      /\ "status" \in DOMAIN NewRow \ Counters /\ "scored" \in DOMAIN NewRow \ Counters
  BY NewRowOK DEF RowOK, NewRow, Counters
<1>2. /\ DOMAIN scores' = DOMAIN scores /\ \A b \in DOMAIN scores \ {a} : scores'[b] = scores[b]
      /\ DOMAIN scores'[a] = DOMAIN NewRow /\ scores'[a].scored = v /\ scores'[a].status = w
      /\ \A h \in DOMAIN NewRow \ {"scored", "status"} : scores'[a][h] = scores[a][h] BY <1>1
<1>3. \A k \in Counters : k \in DOMAIN NewRow \ {"scored", "status"} BY <1>1
<1>4. \A k \in Counters : scores'[a][k] = scores[a][k] BY <1>2, <1>3
<1>5. RowOK(scores'[a]) BY <1>2, <1>4 DEF RowOK
<1> QED BY <1>2, <1>4, <1>5

LEMMA RowOverridden ==
  ASSUME NEW a \in DOMAIN scores, NEW v, NEW w, \A b \in DOMAIN scores : RowOK(scores[b]),
         scores' = [scores EXCEPT ![a].override = v, ![a].until = w]
  PROVE  /\ DOMAIN scores' = DOMAIN scores /\ \A b \in DOMAIN scores : RowOK(scores'[b])
         /\ \A k \in Counters : scores'[a][k] = scores[a][k]
         /\ scores'[a].scored = scores[a].scored /\ scores'[a].status = scores[a].status
         /\ \A b \in DOMAIN scores \ {a} : scores'[b] = scores[b]
<1>1. /\ DOMAIN scores[a] = DOMAIN NewRow /\ Counters \subseteq DOMAIN NewRow
      /\ "override" \in DOMAIN NewRow \ Counters /\ "until" \in DOMAIN NewRow \ Counters
      /\ "status" \in DOMAIN NewRow /\ "scored" \in DOMAIN NewRow BY NewRowOK DEF RowOK, NewRow, Counters
<1>2. /\ DOMAIN scores' = DOMAIN scores /\ \A b \in DOMAIN scores \ {a} : scores'[b] = scores[b]
      /\ DOMAIN scores'[a] = DOMAIN NewRow
      /\ \A h \in DOMAIN NewRow \ {"override", "until"} : scores'[a][h] = scores[a][h] BY <1>1
<1>3. \A k \in Counters : k \in DOMAIN NewRow \ {"override", "until"} BY <1>1
<1>4. \A k \in Counters : scores'[a][k] = scores[a][k] BY <1>2, <1>3
<1>5. scores'[a].scored = scores[a].scored /\ scores'[a].status = scores[a].status BY <1>1, <1>2
<1>6. RowOK(scores'[a]) BY <1>2, <1>4, <1>5 DEF RowOK
<1> QED BY <1>2, <1>4, <1>5, <1>6

LEMMA RowCounted ==
  ASSUME NEW a \in DOMAIN scores, NEW k \in Counters, \A b \in DOMAIN scores : RowOK(scores[b]),
         scores' = [scores EXCEPT ![a][k] = @ + 1]
  PROVE  /\ DOMAIN scores' = DOMAIN scores /\ \A b \in DOMAIN scores : RowOK(scores'[b])
         /\ scores'[a][k] = scores[a][k] + 1
         /\ \A h \in DOMAIN NewRow \ {k} : scores'[a][h] = scores[a][h]
         /\ \A b \in DOMAIN scores \ {a} : scores'[b] = scores[b]
<1>1. /\ DOMAIN scores[a] = DOMAIN NewRow /\ Counters \subseteq DOMAIN NewRow
      /\ "status" \in DOMAIN NewRow /\ "status" # k BY NewRowOK DEF RowOK, NewRow, Counters
<1>2. /\ DOMAIN scores' = DOMAIN scores /\ \A b \in DOMAIN scores \ {a} : scores'[b] = scores[b]
      /\ DOMAIN scores'[a] = DOMAIN NewRow /\ scores'[a][k] = scores[a][k] + 1
      /\ \A h \in DOMAIN NewRow \ {k} : scores'[a][h] = scores[a][h] BY <1>1
<1>3. scores[a][k] \in Nat BY DEF RowOK
<1>4. \A c \in Counters : c = k \/ c \in DOMAIN NewRow \ {k} BY <1>1
<1>5. \A c \in Counters : scores'[a][c] \in Nat BY <1>2, <1>3, <1>4 DEF RowOK
<1>6. scores'[a].status \in TrustStatus BY <1>1, <1>2 DEF RowOK
<1> QED BY <1>2, <1>5, <1>6 DEF RowOK

LEMMA RowReset ==
  ASSUME NEW a, \A b \in DOMAIN scores : RowOK(scores[b]),
         NEW new, \/ a \in DOMAIN scores /\ new = [scores EXCEPT ![a] = NewRow]
                  \/ new = Replaced(scores, a, NewRow)
  PROVE  /\ DOMAIN new = DOMAIN scores \cup {a} /\ \A b \in DOMAIN new : RowOK(new[b])
         /\ new[a] = NewRow /\ \A b \in DOMAIN scores \ {a} : new[b] = scores[b]
<1>1. /\ DOMAIN new = DOMAIN scores \cup {a} /\ new[a] = NewRow
      /\ \A b \in DOMAIN scores \ {a} : new[b] = scores[b] BY DEF Replaced
<1> QED BY <1>1, NewRowOK

LEMMA TrustTypesOwn ==
  ASSUME TrustTypes, NEW p \in Proc, Moves(p), DOMAIN scores \subseteq DOMAIN scores',
         \A a \in DOMAIN scores' : a \in Agent /\ RowOK(scores'[a]),
         agentEvents' \in Seq(Happening), \A i \in DOMAIN agentEvents' : agentEvents'[i].agent \in DOMAIN scores',
         TrustHand(proc[p])'
  PROVE  TrustTypes'
<1>1. ASSUME NEW q \in Proc \ {p} PROVE TrustHand(proc[q])'
  <2>1. proc'[q] = proc[q] /\ TrustHand(proc[q]) BY DEF Moves, TrustTypes
  <2> QED BY <2>1 DEF TrustHand
<1>2. \A q \in Proc : TrustHand(proc[q])' BY <1>1
<1>3. \A a \in DOMAIN scores' : RowOK(scores[a])' BY DEF RowOK
<1> QED BY <1>2, <1>3 DEF TrustTypes

LEMMA StoredEvent ==
  ASSUME TrustTypes, NEW e \in Happening, e.agent \in DOMAIN scores, agentEvents' = Append(agentEvents, e)
  PROVE  agentEvents' \in Seq(Happening) /\ \A i \in DOMAIN agentEvents' : agentEvents'[i].agent \in DOMAIN scores
<1>1. agentEvents \in Seq(Happening) BY DEF TrustTypes
<1>2. /\ agentEvents' \in Seq(Happening)
      /\ \A i \in DOMAIN agentEvents' : (i \in DOMAIN agentEvents /\ agentEvents'[i] = agentEvents[i]) \/ agentEvents'[i] = e
  BY <1>1
<1> QED BY <1>2 DEF TrustTypes

(* The agent of a command that scores.                                     *)
LEMMA AgentAt ==
  ASSUME NEW s, ProcOK(s)
  PROVE  /\ s.at \in TrustLabels \ {"idle"} => s.cmd.agent \in Agent
         /\ s.at \in {"event.store", "event.bump", "event.read", "event.write"} => s.cmd.type \in STRING \ {"reset"}
         /\ \A a : s.on = AgentRow(a) <=> /\ s.at \in TrustLabels \ {"idle"} /\ s.cmd.agent = a
                                          /\ s.at = "manual.store" => s.mem = "reset"
<1>1. s.at \in TrustLabels \ {"idle"} => s.cmd.op \in {"event", "override", "reset"} /\ CommandOK(s.cmd)
  BY DEF ProcOK, LabelsOf, TrustLabels
<1>2. s.at \in {"event.store", "event.bump", "event.read", "event.write"} => s.cmd.op = "event" /\ CommandOK(s.cmd)
  BY DEF ProcOK, LabelsOf
<1>3. \A a : s.on = AgentRow(a) <=> /\ s.at \in TrustLabels \ {"idle"} /\ s.cmd.agent = a
                                    /\ s.at = "manual.store" => s.mem = "reset"
  BY DEF ProcOK, RowAt, TrustLabels, Outbox, RoleRow, RequestRow, ReviewRow, AgentRow, CostRow, NoRow, Idle
<1> QED BY <1>1, <1>2, <1>3 DEF CommandOK

LEMMA TrustTypesStep == Base /\ TrustTypes /\ [Next]_vars => TrustTypes'
<1> SUFFICES ASSUME Base, TrustTypes, [Next]_vars PROVE TrustTypes' OBVIOUS
<1> USE DEF At, Cmd, Mem
<1>1. CASE Still BY <1>1 DEF Still, trustVars, TrustTypes, TrustHand
<1>2. ASSUME NEW p \in Proc, Moves(p), TrustElsewhere(p) PROVE TrustTypes'
  <2>1. TrustHand(proc[p])' BY <1>2 DEF TrustElsewhere, TrustHand, TrustLabels
  <2> QED BY <1>2, <2>1, TrustTypesOwn DEF TrustElsewhere, trustVars, TrustTypes
<1>3. ASSUME NEW p \in Proc, Moves(p), TrustMove(p) PROVE TrustTypes'
  <2> DEFINE s == proc[p]
             a == proc[p].cmd.agent
  <2>1. ProcOK(proc[p]) BY DEF Base, ProcsOK
  <2>2. PICK t : t = proc'[p] OBVIOUS
  <2>3. ProcOK(t) BY <1>3, <2>2 DEF Moves
  <2>4. TrustHand(t)' <=> TrustHand(proc[p])' BY <2>2 DEF TrustHand
  <2>5. TrustHand(proc[p]) /\ \A b \in DOMAIN scores : b \in Agent /\ RowOK(scores[b]) BY DEF TrustTypes
  <2>6. agentEvents \in Seq(Happening) /\ \A i \in DOMAIN agentEvents : agentEvents[i].agent \in DOMAIN scores
    BY DEF TrustTypes
  <2>7. {"event.store", "event.bump", "event.read", "event.write", "manual.store"} = TrustLabels \ {"idle"}
    BY DEF TrustLabels
  <2>8. \A b \in DOMAIN scores : RowOK(scores[b]) BY DEF TrustTypes
  <2> USE DEF TrustHand
  <2>10. CASE Unscored BY <2>10 DEF TrustTypes, Unscored
  <2>11. CASE Opened(p)
    <3> USE <2>11 DEF Opened
    <3>1. t.at = "event.store" /\ t.cmd.agent \in Agent BY <2>2, <2>3, <2>7, <2>11, AgentAt
    <3>2. /\ DOMAIN scores' = DOMAIN scores \cup {t.cmd.agent}
          /\ \A b \in DOMAIN scores' : b \in Agent /\ RowOK(scores'[b])
      <4>1. CASE t.cmd.agent \in DOMAIN scores BY <2>2, <2>5, <2>11, <4>1
      <4>2. CASE scores' = Replaced(scores, t.cmd.agent, NewRow)
        <5> DEFINE b == t.cmd.agent
        <5>1. DOMAIN scores' = DOMAIN scores \cup {b} /\ \A c \in DOMAIN scores' : RowOK(scores'[c])
          <6>1. scores' = Replaced(scores, b, NewRow) BY <4>2
          <6> HIDE DEF b
          <6> QED BY <2>8, <6>1, RowReset
        <5> QED BY <2>5, <3>1, <5>1
      <4> QED BY <2>2, <2>11, <4>1, <4>2
    <3>3. TrustHand(t)' BY <3>1, <3>2
    <3> QED BY <1>3, <2>4, <2>6, <2>11, <3>2, <3>3, TrustTypesOwn
  <2>12. CASE Stored(p)
    <3> USE <2>12 DEF Stored
    <3> DEFINE e == [agent |-> Cmd(p).agent, type |-> Cmd(p).type]
    <3>1. s.cmd.agent \in Agent /\ s.cmd.type \in STRING \ {"reset"} /\ s.cmd.agent \in DOMAIN scores
      BY <2>1, <2>5, <2>7, <2>12, AgentAt
    <3>2. e \in Happening /\ e.agent \in DOMAIN scores BY <3>1 DEF Happening
    <3>3. TrustHand(t)' BY <2>2, <2>12, <3>1
    <3>4. agentEvents' = Append(agentEvents, e) BY <2>12
    <3> HIDE DEF e
    <3>5. agentEvents' \in Seq(Happening) /\ \A i \in DOMAIN agentEvents' : agentEvents'[i].agent \in DOMAIN scores
      BY <3>2, <3>4, StoredEvent
    <3> QED BY <1>3, <2>4, <2>5, <2>12, <3>3, <3>5, TrustTypesOwn
  <2>13. CASE Bumped(p)
    <3> USE <2>13 DEF Bumped
    <3>1. a \in DOMAIN scores BY <2>5, <2>7, <2>13
    <3>2. PICK k \in Counted(Cmd(p).type) : scores' = [scores EXCEPT ![a][k] = @ + 1] BY <2>13
    <3>3. k \in Counters BY DEF Counted, Counters
    <3>4. DOMAIN scores' = DOMAIN scores /\ \A b \in DOMAIN scores : RowOK(scores'[b])
      <4> HIDE DEF a
      <4> QED BY <2>8, <3>1, <3>2, <3>3, RowCounted
    <3>5. TrustHand(t)' BY <2>2, <2>13, <3>1, <3>4
    <3> QED BY <1>3, <2>4, <2>5, <2>6, <2>13, <3>4, <3>5, TrustTypesOwn
  <2>14. CASE Looked(p)
    <3> USE <2>14 DEF Looked
    <3>1. a \in DOMAIN scores BY <2>5, <2>7, <2>14
    <3>2. scores[a].survived \in Nat /\ scores[a].regressions \in Nat BY <2>5, <3>1 DEF RowOK, Counters
    <3>3. TrustHand(t)' BY <2>2, <2>14, <3>1, <3>2
    <3> QED BY <1>3, <2>4, <2>5, <2>6, <2>14, <3>3, TrustTypesOwn
  <2>15. CASE Rescored(p)
    <3> DEFINE m == Mem(p)
               v == StatusFor(Mem(p)[1], Mem(p)[2])
    <3>1. a \in DOMAIN scores BY <2>5, <2>7, <2>15 DEF Rescored
    <3>2. v \in TrustStatus BY DEF StatusFor, TrustStatus
    <3>4. scores' = [scores EXCEPT ![a].scored = m, ![a].status = v] BY <2>15 DEF Rescored
    <3>5. DOMAIN scores' = DOMAIN scores /\ \A b \in DOMAIN scores : RowOK(scores'[b])
      <4> HIDE DEF a, m, v
      <4> QED BY <2>8, <3>1, <3>2, <3>4, RowScored
    <3>6. TrustHand(t)' BY <2>2, <2>15, <2>7 DEF TrustLabels, Rescored
    <3> QED BY <1>3, <2>4, <2>5, <2>6, <2>15, <3>5, <3>6, TrustTypesOwn DEF Rescored
  <2>16. CASE Overridden(p)
    <3> DEFINE b == t.cmd.agent
               v == t.cmd.status
               w == t.cmd.until
    <3>1. b \in DOMAIN scores /\ scores' = [scores EXCEPT ![b].override = v, ![b].until = w] BY <2>2, <2>16 DEF Overridden
    <3>3. DOMAIN scores' = DOMAIN scores /\ \A c \in DOMAIN scores : RowOK(scores'[c])
      <4> HIDE DEF b, v, w
      <4> QED BY <2>8, <3>1, RowOverridden
    <3>4. TrustHand(t)' BY <2>2, <2>16, <3>1, <3>3 DEF Overridden
    <3> QED BY <1>3, <2>4, <2>5, <2>6, <2>16, <3>3, <3>4, TrustTypesOwn DEF Overridden
  <2>17. CASE Zeroed(p)
    <3> USE <2>17 DEF Zeroed
    <3> DEFINE b == t.cmd.agent
    <3>1. b \in DOMAIN scores /\ scores' = [scores EXCEPT ![b] = NewRow] BY <2>2, <2>17
    <3>2. DOMAIN scores' = DOMAIN scores \cup {b} /\ \A c \in DOMAIN scores' : RowOK(scores'[c])
      <4> HIDE DEF b
      <4> QED BY <2>8, <3>1, RowReset
    <3>3. DOMAIN scores' = DOMAIN scores BY <3>1, <3>2
    <3>4. TrustHand(t)' BY <2>2, <2>17, <3>1, <3>3
    <3> QED BY <1>3, <2>4, <2>5, <2>6, <2>17, <3>2, <3>3, <3>4, TrustTypesOwn
  <2>18. CASE Noted(p)
    <3> USE <2>18 DEF Noted
    <3> DEFINE e == [agent |-> Cmd(p).agent, type |-> Mem(p)]
    <3>1. s.cmd.agent \in Agent /\ s.mem \in {"reset", "manual_override"} /\ s.cmd.agent \in DOMAIN scores
      BY <2>1, <2>5, <2>7, <2>18, AgentAt
    <3>2. e \in Happening /\ e.agent \in DOMAIN scores BY <3>1 DEF Happening
    <3>3. TrustHand(t)' BY <2>2, <2>18 DEF TrustLabels
    <3>4. agentEvents' = Append(agentEvents, e) BY <2>18
    <3> HIDE DEF e
    <3>5. agentEvents' \in Seq(Happening) /\ \A i \in DOMAIN agentEvents' : agentEvents'[i].agent \in DOMAIN scores
      BY <3>2, <3>4, StoredEvent
    <3> QED BY <1>3, <2>4, <2>5, <2>18, <3>3, <3>5, TrustTypesOwn
  <2> QED BY <1>3, <2>10, <2>11, <2>12, <2>13, <2>14, <2>15, <2>16, <2>17, <2>18, TrustDoes
<1> QED BY <1>1, <1>2, <1>3, TrustCases

LEMMA TrustTypesInit == Init => TrustTypes
<1> SUFFICES ASSUME Init PROVE TrustTypes OBVIOUS
<1>1. PICK s \in Scenarios : scores = s.scores /\ agentEvents = <<>> /\ proc = [p \in Proc |-> Idle] BY DEF Init
<1>2. TablesOK(s) BY ScenariosAssumption
<1>3. \A a \in DOMAIN scores : a \in Agent /\ RowOK(scores[a]) BY <1>1, <1>2, NewRowOK DEF TablesOK
<1>4. TrustHand(Idle) BY DEF TrustHand, Idle, TrustLabels
<1> QED BY <1>1, <1>3, <1>4 DEF TrustTypes
-----------------------------------------------------------------------------
(* An agent's row is what its events say, unless a command has it in hand; *)
(* then it lacks what that command has still to do.                        *)
Computed(row) ==
  row.scored = <<row.survived, row.regressions>> /\ row.status = StatusFor(row.survived, row.regressions)

Agrees(row, h, a) == \A k \in Counters : row[k] = CountIn(h, a, k)

Working(s, row, h, a) ==
  /\ s.at = "event.store" => Agrees(row, h, a) /\ Computed(row)
  /\ s.at = "event.bump" =>
       \A k \in Counters : CountIn(h, a, k) = row[k] + (IF k \in Counted(s.cmd.type) THEN 1 ELSE 0)
  /\ s.at \in {"event.read", "event.write"} => Agrees(row, h, a)
  /\ s.at = "event.write" => s.mem = <<row.survived, row.regressions>>
  /\ s.at = "manual.store" => Computed(row) /\ \A k \in Counters : row[k] = 0

TrustStory(a) ==
  /\ ~Updating(AgentRow(a)) => Agrees(scores[a], agentEvents, a) /\ Computed(scores[a])
  /\ \A p \in Proc : proc[p].on = AgentRow(a) => Working(proc[p], scores[a], agentEvents, a)

ScoreOK == \A a \in DOMAIN scores : AgentRow(a) \notin tainted => TrustStory(a)

LEMMA AgentRowsDiffer ==
  ASSUME NEW a, NEW b
  PROVE  (AgentRow(a) = AgentRow(b) <=> a = b) /\ AgentRow(a) # NoRow BY DEF AgentRow, NoRow

LEMMA StoryKeptFor ==
  ASSUME Base, NEW a, TrustStory(a), NEW p \in Proc, Moves(p),
         proc[p].on # AgentRow(a), proc'[p].on # AgentRow(a),
         \A k \in Counters : /\ scores'[a][k] = scores[a][k]
                             /\ CountIn(agentEvents', a, k) = CountIn(agentEvents, a, k),
         scores'[a].scored = scores[a].scored, scores'[a].status = scores[a].status
  PROVE  TrustStory(a)'
<1>1. /\ Updating(AgentRow(a))' <=> Updating(AgentRow(a))
      /\ \A q \in Proc : proc'[q].on = AgentRow(a) => proc[q].on = AgentRow(a) /\ proc'[q] = proc[q] /\ q # p
  BY UpdatingSame
<1>2. "survived" \in Counters /\ "regressions" \in Counters BY DEF Counters
<1> DEFINE row == scores[a]
           new == scores'[a]
           h == agentEvents
           g == agentEvents'
<1>3. /\ \A k \in Counters : new[k] = row[k] /\ CountIn(g, a, k) = CountIn(h, a, k)
      /\ new.scored = row.scored /\ new.status = row.status
      /\ new.survived = row.survived /\ new.regressions = row.regressions BY <1>2
<1> HIDE DEF row, new, h, g
<1>4. (Agrees(new, g, a) <=> Agrees(row, h, a)) /\ (Computed(new) <=> Computed(row))
  BY <1>3 DEF Agrees, Computed
<1>5. \A s : Working(s, row, h, a) => Working(s, new, g, a) BY <1>3, <1>4 DEF Working
<1>6. ~Updating(AgentRow(a))' => Agrees(new, g, a) /\ Computed(new) BY <1>1, <1>4 DEF TrustStory, row, h
<1>7. \A q \in Proc : proc'[q].on = AgentRow(a) => Working(proc'[q], new, g, a)
  BY <1>1, <1>5 DEF TrustStory, row, h
<1> QED BY <1>6, <1>7 DEF TrustStory, new, g, Agrees, Computed, Working, CountIn, Of

(* The same for all rows but the one the command has in hand.              *)
LEMMA ScoreKeptBut ==
  ASSUME Base, ScoreOK, NEW p \in Proc, Moves(p), NEW own,
         \A a \in DOMAIN scores : a # own => proc[p].on # AgentRow(a) /\ proc'[p].on # AgentRow(a),
         DOMAIN scores' \subseteq DOMAIN scores \cup {own},
         \A a \in DOMAIN scores : a # own => /\ scores'[a] = scores[a]
                                             /\ \A k \in Counters : CountIn(agentEvents', a, k) = CountIn(agentEvents, a, k),
         own \in DOMAIN scores' /\ AgentRow(own) \notin tainted' => TrustStory(own)'
  PROVE  ScoreOK'
<1>1. ASSUME NEW a \in DOMAIN scores, a # own, AgentRow(a) \notin tainted' PROVE TrustStory(a)'
  <2>1. TrustStory(a) BY <1>1 DEF ScoreOK, Moves
  <2> QED BY <1>1, <2>1, StoryKeptFor
<1> QED BY <1>1 DEF ScoreOK

(* The row in hand when nobody disturbs it is in one hand only.            *)
LEMMA OnlyHand ==
  ASSUME Base, Base', NEW p \in Proc, Moves(p), NEW a, AgentRow(a) \notin tainted'
  PROVE  /\ proc[p].on = AgentRow(a) => \A q \in Proc \ {p} : proc'[q].on # AgentRow(a)
         /\ proc'[p].on = AgentRow(a) => \A q \in Proc \ {p} : proc'[q].on # AgentRow(a)
<1>1. AgentRow(a) # NoRow BY AgentRowsDiffer
<1> QED BY <1>1 DEF Base, Excl, Moves

(* An agent nobody has a row for has no events.                            *)
LEMMA CountNone ==
  ASSUME NEW h \in Seq(Happening), NEW a, \A i \in DOMAIN h : h[i].agent # a, NEW k
  PROVE  CountIn(h, a, k) = 0
<1>1. Of(h, a, TypeOf(k)) = {} BY DEF Of
<1> QED BY <1>1, FS_EmptySet DEF CountIn

LEMMA StoryInHand ==
  ASSUME NEW p \in Proc, NEW a, proc'[p].on = AgentRow(a), \A q \in Proc \ {p} : proc'[q].on # AgentRow(a),
         Working(proc'[p], scores'[a], agentEvents', a)
  PROVE  TrustStory(a)'
<1>1. \A q \in Proc : proc'[q].on = AgentRow(a) => q = p OBVIOUS
<1>2. Updating(AgentRow(a))' BY DEF Updating
<1> QED BY <1>1, <1>2 DEF TrustStory, Agrees, Computed, Working, CountIn, Of

LEMMA StoryDone ==
  ASSUME NEW a, \A q \in Proc : proc'[q].on # AgentRow(a),
         Agrees(scores'[a], agentEvents', a), Computed(scores'[a])
  PROVE  TrustStory(a)' BY DEF TrustStory, Agrees, Computed, CountIn, Of

LEMMA ScoreMoves ==
  ASSUME Base, Base', TrustTypes, TrustTypes', ScoreOK, NEW p \in Proc, Moves(p), TrustMove(p)
  PROVE  ScoreOK'
<1>0. PICK s : s = proc[p] OBVIOUS
<1>1. PICK t : t = proc'[p] OBVIOUS
<1>2. ProcOK(s) /\ ProcOK(t) BY <1>0, <1>1 DEF Base, ProcsOK, Moves
<1>3. {"event.store", "event.bump", "event.read", "event.write", "manual.store"} = TrustLabels \ {"idle"}
  BY DEF TrustLabels
<1>4. /\ \A a : s.on = AgentRow(a) <=> /\ s.at \in TrustLabels \ {"idle"} /\ s.cmd.agent = a
                                       /\ s.at = "manual.store" => s.mem = "reset"
      /\ \A a : t.on = AgentRow(a) <=> /\ t.at \in TrustLabels \ {"idle"} /\ t.cmd.agent = a
                                       /\ t.at = "manual.store" => t.mem = "reset" BY <1>2, AgentAt
<1>5. agentEvents \in Seq(Happening) /\ \A i \in DOMAIN agentEvents : agentEvents[i].agent \in DOMAIN scores
  BY DEF TrustTypes
<1>6. \A b \in DOMAIN scores : RowOK(scores[b]) BY DEF TrustTypes
<1>7. s.at \in TrustLabels \ {"idle"} => s.cmd.agent \in DOMAIN scores BY <1>0 DEF TrustTypes, TrustHand
<1>8. proc[p].on = s.on /\ proc'[p].on = t.on BY <1>0, <1>1
<1>9. "survived" \in Counters /\ "regressions" \in Counters /\ "total" \in Counters BY DEF Counters
<1>10. tainted \subseteq tainted' BY DEF Moves
<1>11. s.at = "idle" => \A a : s.on # AgentRow(a) BY <1>4
<1>12. ASSUME NEW own \in DOMAIN scores, s.on = AgentRow(own), AgentRow(own) \notin tainted'
       PROVE  Working(s, scores[own], agentEvents, own) /\ \A q \in Proc \ {p} : proc'[q].on # AgentRow(own)
  BY <1>0, <1>8, <1>10, <1>12, OnlyHand DEF ScoreOK, TrustStory
<1> USE DEF At, Cmd, Mem
<1>21. CASE Unscored BY <1>21 DEF Unscored, ScoreOK, TrustStory, Updating
<1>22. CASE Opened(p)
  <2> DEFINE own == t.cmd.agent
  <2>1. t.at = "event.store" /\ s.at = "idle" /\ UNCHANGED agentEvents BY <1>0, <1>1, <1>22 DEF Opened
  <2>2. t.on = AgentRow(own) /\ \A a : s.on # AgentRow(a) BY <1>3, <1>4, <1>11, <2>1
  <2>3. scores' = IF own \in DOMAIN scores THEN scores ELSE Replaced(scores, own, NewRow)
    BY <1>0, <1>1, <1>22 DEF Opened
  <2> HIDE DEF own
  <2>4. DOMAIN scores' \subseteq DOMAIN scores \cup {own} /\ \A a \in DOMAIN scores \ {own} : scores'[a] = scores[a]
    <3>1. CASE own \in DOMAIN scores BY <2>3, <3>1
    <3>2. CASE scores' = Replaced(scores, own, NewRow) BY <3>2 DEF Replaced
    <3> QED BY <2>3, <3>1, <3>2
  <2>5. ASSUME AgentRow(own) \notin tainted', own \in DOMAIN scores' PROVE TrustStory(own)'
    <3>1. \A q \in Proc \ {p} : proc'[q].on # AgentRow(own) BY <1>8, <2>2, <2>5, OnlyHand
    <3>2. Agrees(scores'[own], agentEvents', own) /\ Computed(scores'[own])
      <4>1. CASE own \in DOMAIN scores
        <5>1. ~Updating(AgentRow(own)) BY <1>8, <2>2, <3>1 DEF Updating, Moves
        <5>2. TrustStory(own) BY <1>10, <2>5, <4>1 DEF ScoreOK
        <5> QED BY <2>1, <2>3, <4>1, <5>1, <5>2 DEF TrustStory
      <4>2. CASE own \notin DOMAIN scores
        <5>1. scores'[own] = NewRow BY <1>6, <2>3, <4>2, RowReset
        <5>2. \A k \in Counters : CountIn(agentEvents, own, k) = 0 BY <1>5, <4>2, CountNone
        <5>3. NewRow.survived = 0 /\ NewRow.regressions = 0 BY DEF NewRow
        <5> QED BY <2>1, <5>1, <5>2, <5>3, NewRowOK DEF Agrees, Computed
      <4> QED BY <4>1, <4>2
    <3>3. Working(t, scores'[own], agentEvents', own) BY <2>1, <3>2 DEF Working
    <3> QED BY <1>1, <2>2, <3>1, <3>3, StoryInHand
  <2> QED BY <1>8, <2>1, <2>2, <2>4, <2>5, AgentRowsDiffer, ScoreKeptBut
<1>23. CASE Stored(p)
  <2> DEFINE own == s.cmd.agent
             e == [agent |-> s.cmd.agent, type |-> s.cmd.type]
  <2>1. /\ s.at = "event.store" /\ UNCHANGED scores /\ t.cmd = s.cmd /\ agentEvents' = Append(agentEvents, e)
        /\ t.at = IF Counted(s.cmd.type) = {} THEN "event.read" ELSE "event.bump"
    BY <1>0, <1>1, <1>23 DEF Stored
  <2>2. s.on = AgentRow(own) /\ t.on = AgentRow(own) /\ own \in DOMAIN scores BY <1>3, <1>4, <1>7, <2>1
  <2>3. e \in Happening /\ e.agent = own /\ e.type = s.cmd.type /\ e.type # "reset"
    BY <1>2, <1>3, <2>1, AgentAt DEF Happening
  <2> HIDE DEF own, e
  <2>4. \A a, k : k \in Counters =>
          /\ a # own => CountIn(agentEvents', a, k) = CountIn(agentEvents, a, k)
          /\ CountIn(agentEvents', own, k) = CountIn(agentEvents, own, k) + (IF k \in Counted(s.cmd.type) THEN 1 ELSE 0)
    BY <1>5, <2>1, <2>3, CountMore
  <2>5. ASSUME AgentRow(own) \notin tainted' PROVE TrustStory(own)'
    <3>1. Working(s, scores[own], agentEvents, own) /\ \A q \in Proc \ {p} : proc'[q].on # AgentRow(own)
      BY <1>12, <2>2, <2>5
    <3>3. Agrees(scores[own], agentEvents, own) BY <2>1, <3>1 DEF Working
    <3>4. \A k \in Counters : CountIn(agentEvents', own, k)
                                = scores'[own][k] + (IF k \in Counted(t.cmd.type) THEN 1 ELSE 0)
      BY <2>1, <2>4, <3>3 DEF Agrees
    <3>5. Counted(t.cmd.type) = {} => Agrees(scores'[own], agentEvents', own)
      <4>1. ASSUME Counted(t.cmd.type) = {}, NEW k \in Counters PROVE scores'[own][k] = CountIn(agentEvents', own, k)
        <5>1. scores[own][k] \in Nat BY <1>6, <2>2 DEF RowOK
        <5> QED BY <2>1, <3>4, <4>1, <5>1
      <4> QED BY <4>1 DEF Agrees
    <3>6. Working(t, scores'[own], agentEvents', own) BY <2>1, <3>4, <3>5 DEF Working
    <3> QED BY <1>1, <2>2, <3>1, <3>6, StoryInHand
  <2> QED BY <1>8, <2>1, <2>2, <2>4, <2>5, AgentRowsDiffer, ScoreKeptBut
<1>24. CASE Bumped(p)
  <2> DEFINE own == s.cmd.agent
  <2>1. s.at = "event.bump" /\ UNCHANGED agentEvents /\ t.at = "event.read" /\ t.cmd = s.cmd
    BY <1>0, <1>1, <1>24 DEF Bumped
  <2>2. s.on = AgentRow(own) /\ t.on = AgentRow(own) /\ own \in DOMAIN scores BY <1>3, <1>4, <1>7, <2>1
  <2>3. PICK k \in Counted(s.cmd.type) : scores' = [scores EXCEPT ![own][k] = @ + 1] BY <1>0, <1>24 DEF Bumped
  <2>4. k \in Counters /\ Counted(s.cmd.type) = {k} BY DEF Counted, Counters
  <2> HIDE DEF own
  <2>5. /\ DOMAIN scores' = DOMAIN scores /\ \A b \in DOMAIN scores : RowOK(scores'[b])
        /\ scores'[own][k] = scores[own][k] + 1
        /\ \A h \in DOMAIN NewRow \ {k} : scores'[own][h] = scores[own][h]
        /\ \A b \in DOMAIN scores \ {own} : scores'[b] = scores[b]
    <3>1. own \in DOMAIN scores /\ k \in Counters BY <2>2, <2>4
    <3> QED BY <1>6, <2>3, <3>1, RowCounted
  <2>6. ASSUME AgentRow(own) \notin tainted' PROVE TrustStory(own)'
    <3>1. Working(s, scores[own], agentEvents, own) /\ \A q \in Proc \ {p} : proc'[q].on # AgentRow(own)
      BY <1>12, <2>2, <2>6
    <3>3. \A c \in Counters : CountIn(agentEvents, own, c) = scores[own][c] + (IF c \in Counted(s.cmd.type) THEN 1 ELSE 0)
      BY <2>1, <3>1 DEF Working
    <3>4. ASSUME NEW c \in Counters PROVE scores'[own][c] = CountIn(agentEvents', own, c)
      <4>1. scores[own][c] \in Nat /\ c \in DOMAIN NewRow BY <1>6, <2>2, NewRowOK DEF RowOK
      <4>2. CASE c = k BY <2>1, <2>4, <2>5, <3>3, <4>2
      <4>3. CASE c # k
        <5>1. scores'[own][c] = scores[own][c] BY <2>5, <4>1, <4>3
        <5>2. CountIn(agentEvents, own, c) = scores[own][c] + 0 BY <2>4, <3>3, <4>3
        <5> QED BY <2>1, <4>1, <5>1, <5>2
      <4> QED BY <4>2, <4>3
    <3>5. Working(t, scores'[own], agentEvents', own) BY <2>1, <3>4 DEF Working, Agrees
    <3> QED BY <1>1, <2>2, <3>1, <3>5, StoryInHand
  <2> QED BY <1>8, <2>1, <2>2, <2>5, <2>6, AgentRowsDiffer, ScoreKeptBut
<1>25. CASE Looked(p)
  <2> DEFINE own == s.cmd.agent
  <2>1. /\ s.at = "event.read" /\ UNCHANGED <<scores, agentEvents>> /\ t.at = "event.write" /\ t.cmd = s.cmd
        /\ t.mem = <<scores[own].survived, scores[own].regressions>> BY <1>0, <1>1, <1>25 DEF Looked
  <2>2. s.on = AgentRow(own) /\ t.on = AgentRow(own) /\ own \in DOMAIN scores BY <1>3, <1>4, <1>7, <2>1
  <2> HIDE DEF own
  <2>3. ASSUME AgentRow(own) \notin tainted' PROVE TrustStory(own)'
    <3>1. Working(s, scores[own], agentEvents, own) /\ \A q \in Proc \ {p} : proc'[q].on # AgentRow(own)
      BY <1>12, <2>2, <2>3
    <3>3. Working(t, scores'[own], agentEvents', own) BY <2>1, <3>1 DEF Working
    <3> QED BY <1>1, <2>2, <3>1, <3>3, StoryInHand
  <2> QED BY <1>8, <2>1, <2>2, <2>3, AgentRowsDiffer, ScoreKeptBut
<1>26. CASE Rescored(p)
  <2> DEFINE own == s.cmd.agent
             m == s.mem
             v == StatusFor(s.mem[1], s.mem[2])
  <2>1. /\ s.at = "event.write" /\ UNCHANGED agentEvents /\ t.at = "idle"
        /\ scores' = [scores EXCEPT ![own].scored = m, ![own].status = v] BY <1>0, <1>1, <1>26 DEF Rescored
  <2>2. s.on = AgentRow(own) /\ (\A a : t.on # AgentRow(a)) /\ own \in DOMAIN scores BY <1>3, <1>4, <1>7, <2>1
  <2>3. v \in TrustStatus BY DEF StatusFor, TrustStatus
  <2>4. v = StatusFor(m[1], m[2]) OBVIOUS
  <2>5. /\ DOMAIN scores' = DOMAIN scores /\ \A b \in DOMAIN scores : RowOK(scores'[b])
        /\ \A k \in Counters : scores'[own][k] = scores[own][k]
        /\ scores'[own].scored = m /\ scores'[own].status = v
        /\ \A b \in DOMAIN scores \ {own} : scores'[b] = scores[b]
    <3> HIDE DEF own, m, v
    <3>1. own \in DOMAIN scores BY <2>2
    <3>2. scores' = [scores EXCEPT ![own].scored = m, ![own].status = v] BY <2>1
    <3> QED BY <1>6, <2>3, <3>1, <3>2, RowScored
  <2> HIDE DEF own, v
  <2>6. ASSUME AgentRow(own) \notin tainted' PROVE TrustStory(own)'
    <3>1. Working(s, scores[own], agentEvents, own) /\ \A q \in Proc \ {p} : proc'[q].on # AgentRow(own)
      BY <1>12, <2>2, <2>6
    <3>3. Agrees(scores[own], agentEvents, own) /\ m = <<scores[own].survived, scores[own].regressions>>
      BY <2>1, <3>1 DEF Working
    <3>4. Agrees(scores'[own], agentEvents', own) BY <2>1, <2>5, <3>3 DEF Agrees
    <3>5. scores'[own].survived = scores[own].survived /\ scores'[own].regressions = scores[own].regressions
      BY <1>9, <2>5
    <3>6. Computed(scores'[own]) BY <2>4, <2>5, <3>3, <3>5 DEF Computed
    <3> QED BY <1>8, <2>2, <3>1, <3>4, <3>6, StoryDone
  <2> QED BY <1>8, <2>1, <2>2, <2>5, <2>6, AgentRowsDiffer, ScoreKeptBut
<1>27. CASE Overridden(p)
  <2> DEFINE own == t.cmd.agent
             v == t.cmd.status
             w == t.cmd.until
  <2>1. /\ s.at = "idle" /\ UNCHANGED agentEvents /\ t.at = "manual.store" /\ t.mem = "manual_override"
        /\ own \in DOMAIN scores /\ scores' = [scores EXCEPT ![own].override = v, ![own].until = w]
    BY <1>0, <1>1, <1>27 DEF Overridden
  <2>2. (\A a : s.on # AgentRow(a)) /\ (\A a : t.on # AgentRow(a)) BY <1>4, <1>11, <2>1
  <2> HIDE DEF own, v, w
  <2>3. /\ DOMAIN scores' = DOMAIN scores /\ \A b \in DOMAIN scores : RowOK(scores'[b])
        /\ \A k \in Counters : scores'[own][k] = scores[own][k]
        /\ scores'[own].scored = scores[own].scored /\ scores'[own].status = scores[own].status
        /\ \A b \in DOMAIN scores \ {own} : scores'[b] = scores[b]
    <3>1. own \in DOMAIN scores BY <2>1
    <3>2. scores' = [scores EXCEPT ![own].override = v, ![own].until = w] BY <2>1
    <3> QED BY <1>6, <3>1, <3>2, RowOverridden
  <2>4. ASSUME AgentRow(own) \notin tainted' PROVE TrustStory(own)'
    <3>1. TrustStory(own) BY <1>10, <2>1, <2>4 DEF ScoreOK
    <3> QED BY <1>8, <2>1, <2>2, <2>3, <3>1, StoryKeptFor
  <2> QED BY <1>8, <2>1, <2>2, <2>3, <2>4, ScoreKeptBut
<1>28. CASE Zeroed(p)
  <2> DEFINE own == t.cmd.agent
  <2>1. /\ s.at = "idle" /\ UNCHANGED agentEvents /\ t.at = "manual.store" /\ t.mem = "reset"
        /\ own \in DOMAIN scores /\ scores' = [scores EXCEPT ![own] = NewRow] BY <1>0, <1>1, <1>28 DEF Zeroed
  <2>2. t.on = AgentRow(own) /\ \A a : s.on # AgentRow(a) BY <1>3, <1>4, <1>11, <2>1
  <2> HIDE DEF own
  <2>3. /\ DOMAIN scores' = DOMAIN scores \cup {own} /\ scores'[own] = NewRow
        /\ \A b \in DOMAIN scores \ {own} : scores'[b] = scores[b] BY <1>6, <2>1, RowReset
  <2>4. ASSUME AgentRow(own) \notin tainted' PROVE TrustStory(own)'
    <3>1. \A q \in Proc \ {p} : proc'[q].on # AgentRow(own) BY <1>8, <2>2, <2>4, OnlyHand
    <3>2. NewRow.survived = 0 /\ NewRow.regressions = 0 BY DEF NewRow
    <3>3. Computed(scores'[own]) /\ \A k \in Counters : scores'[own][k] = 0 BY <2>3, <3>2, NewRowOK DEF Computed
    <3>4. Working(t, scores'[own], agentEvents', own) BY <2>1, <3>3 DEF Working
    <3> QED BY <1>1, <2>2, <3>1, <3>4, StoryInHand
  <2> QED BY <1>8, <2>1, <2>2, <2>3, <2>4, AgentRowsDiffer, ScoreKeptBut
<1>29. CASE Noted(p)
  <2> DEFINE own == s.cmd.agent
             e == [agent |-> s.cmd.agent, type |-> s.mem]
  <2>1. s.at = "manual.store" /\ UNCHANGED scores /\ t.at = "idle" /\ agentEvents' = Append(agentEvents, e)
    BY <1>0, <1>1, <1>29 DEF Noted
  <2>2. (\A a : t.on # AgentRow(a)) /\ own \in DOMAIN scores /\ own \in Agent BY <1>2, <1>3, <1>4, <1>7, <2>1, AgentAt
  <2>3. s.mem \in {"reset", "manual_override"} BY <1>0, <2>1 DEF TrustTypes, TrustHand
  <2>4. e \in Happening /\ e.agent = own /\ e.type = s.mem BY <2>2, <2>3 DEF Happening
  <2> HIDE DEF own, e
  <2>5. \A a, k : k \in Counters => (a # own => CountIn(agentEvents', a, k) = CountIn(agentEvents, a, k))
    BY <1>5, <2>1, <2>4, CountMore
  <2>6. \A a : a # own => s.on # AgentRow(a) BY <1>4 DEF own
  <2>7. CASE s.mem = "reset"
    <3>1. s.on = AgentRow(own) BY <1>3, <1>4, <2>1, <2>7 DEF own
    <3>2. \A k \in Counters : CountIn(agentEvents', own, k) = 0 BY <1>5, <2>1, <2>4, <2>7, CountMore
    <3>3. ASSUME AgentRow(own) \notin tainted' PROVE TrustStory(own)'
      <4>1. Working(s, scores[own], agentEvents, own) /\ \A q \in Proc \ {p} : proc'[q].on # AgentRow(own)
        BY <1>12, <2>2, <3>1, <3>3
      <4>3. Computed(scores[own]) /\ \A k \in Counters : scores[own][k] = 0 BY <2>1, <4>1 DEF Working
      <4>4. Agrees(scores'[own], agentEvents', own) /\ Computed(scores'[own]) BY <2>1, <3>2, <4>3 DEF Agrees
      <4> QED BY <1>8, <2>2, <4>1, <4>4, StoryDone
    <3> QED BY <1>8, <2>1, <2>2, <2>5, <2>6, <3>3, ScoreKeptBut
  <2>8. CASE s.mem = "manual_override"
    <3>1. \A a : s.on # AgentRow(a) BY <1>4, <2>1, <2>8
    <3>2. Counted("manual_override") = {} BY DEF Counted
    <3>3. \A k \in Counters : CountIn(agentEvents', own, k) = CountIn(agentEvents, own, k)
      <4>1. ASSUME NEW k \in Counters PROVE CountIn(agentEvents', own, k) = CountIn(agentEvents, own, k)
        <5>1. CountIn(agentEvents', own, k) = CountIn(agentEvents, own, k) + 0
          BY <1>5, <2>1, <2>4, <2>8, <3>2, CountMore
        <5>2. CountIn(agentEvents, own, k) \in Nat BY <1>5, CountNat
        <5> QED BY <5>1, <5>2
      <4> QED BY <4>1
    <3>4. ASSUME AgentRow(own) \notin tainted' PROVE TrustStory(own)'
      <4>1. TrustStory(own) BY <1>10, <2>2, <3>4 DEF ScoreOK
      <4> QED BY <1>8, <2>1, <2>2, <3>1, <3>3, <4>1, StoryKeptFor
    <3> QED BY <1>8, <2>1, <2>2, <2>5, <3>1, <3>4, ScoreKeptBut
  <2> QED BY <2>3, <2>7, <2>8
<1> QED BY <1>21, <1>22, <1>23, <1>24, <1>25, <1>26, <1>27, <1>28, <1>29, TrustDoes

LEMMA ScoreStep == Base /\ TrustTypes /\ ScoreOK /\ [Next]_vars => ScoreOK'
<1> SUFFICES ASSUME Base, TrustTypes, ScoreOK, [Next]_vars PROVE ScoreOK' OBVIOUS
<1>1. Base' /\ TrustTypes' BY BaseStep, TrustTypesStep
<1>2. CASE Still BY <1>2 DEF Still, trustVars, ScoreOK, TrustStory, Updating
<1>3. ASSUME NEW p \in Proc, Moves(p), TrustElsewhere(p) PROVE ScoreOK'
  <2>1. ProcOK(proc[p]) BY DEF Base, ProcsOK
  <2>2. PICK t : t = proc'[p] OBVIOUS
  <2>3. ProcOK(t) /\ t.at \notin TrustLabels \ {"idle"} BY <1>3, <2>2 DEF Moves, TrustElsewhere
  <2>4. \A a : t.on # AgentRow(a) BY <2>3, AgentAt
  <2>5. ASSUME NEW a \in DOMAIN scores, AgentRow(a) \notin tainted' PROVE TrustStory(a)'
    <3>1. proc[p].on # AgentRow(a) BY <1>3, <2>1, <2>5, AgentAt, AgentRowsDiffer DEF TrustElsewhere
    <3>2. TrustStory(a) BY <1>3, <2>5 DEF ScoreOK, Moves
    <3>3. scores' = scores /\ agentEvents' = agentEvents BY <1>3 DEF TrustElsewhere, trustVars
    <3> QED BY <1>3, <2>2, <2>4, <3>1, <3>2, <3>3, StoryKeptFor
  <2> QED BY <1>3, <2>5 DEF ScoreOK, TrustElsewhere, trustVars
<1> QED BY <1>1, <1>2, <1>3, TrustCases, ScoreMoves

LEMMA ScoreInit == Init => ScoreOK
<1> SUFFICES ASSUME Init PROVE ScoreOK OBVIOUS
<1>1. PICK s \in Scenarios : scores = s.scores /\ agentEvents = <<>> /\ proc = [p \in Proc |-> Idle] BY DEF Init
<1>2. TablesOK(s) BY ScenariosAssumption
<1>3. Idle.on = NoRow BY DEF Idle
<1>4. \A p \in Proc : \A a : proc[p].on # AgentRow(a) BY <1>1, <1>3, AgentRowsDiffer
<1>5. ASSUME NEW a \in DOMAIN scores PROVE Agrees(scores[a], agentEvents, a) /\ Computed(scores[a])
  <2>1. scores[a] = NewRow BY <1>1, <1>2 DEF TablesOK
  <2>2. agentEvents \in Seq(Happening) /\ \A i \in DOMAIN agentEvents : agentEvents[i].agent # a BY <1>1
  <2>3. \A k \in Counters : CountIn(agentEvents, a, k) = 0 BY <2>2, CountNone
  <2>4. NewRow.survived = 0 /\ NewRow.regressions = 0 BY DEF NewRow
  <2> QED BY <2>1, <2>3, <2>4, NewRowOK DEF Agrees, Computed
<1> QED BY <1>4, <1>5 DEF ScoreOK, TrustStory
-----------------------------------------------------------------------------
(* No counter runs ahead: what it shows, and the bumps under way, are      *)
(* events that were stored.                                                *)
Unreset(a) == \A i \in DOMAIN agentEvents : agentEvents[i] # [agent |-> a, type |-> "reset"]
Bumping(s, a, k) == s.at = "event.bump" /\ s.cmd.agent = a /\ k \in Counted(s.cmd.type)
Pending(a, k) == {p \in Proc : Bumping(proc[p], a, k)}
Covered(a, k) == scores[a][k] + Cardinality(Pending(a, k)) <= CountIn(agentEvents, a, k)
BackedOK == \A a \in DOMAIN scores : Unreset(a) => \A k \in Counters : Covered(a, k)

LEMMA PendingNat ==
  ASSUME NEW a, NEW k
  PROVE  IsFiniteSet(Pending(a, k)) /\ Cardinality(Pending(a, k)) \in Nat
<1>1. Pending(a, k) \subseteq Proc BY DEF Pending
<1> QED BY <1>1, CommandsAssumption, FS_Subset, FS_CardinalityType

LEMMA PendingMoves ==
  ASSUME Base, NEW p \in Proc, Moves(p), NEW a, NEW k
  PROVE  /\ Cardinality(Pending(a, k)') \in Nat
         /\ (Bumping(proc'[p], a, k) <=> Bumping(proc[p], a, k)) => Pending(a, k)' = Pending(a, k)
         /\ ~Bumping(proc'[p], a, k) => Cardinality(Pending(a, k)') <= Cardinality(Pending(a, k))
         /\ ~Bumping(proc'[p], a, k) /\ Bumping(proc[p], a, k) =>
              Cardinality(Pending(a, k)') + 1 = Cardinality(Pending(a, k))
         /\ ~Bumping(proc[p], a, k) => Cardinality(Pending(a, k)') <= Cardinality(Pending(a, k)) + 1
<1> DEFINE old == Pending(a, k)
           new == Pending(a, k)'
<1>1. new = {q \in Proc : Bumping(proc'[q], a, k)} /\ old = {q \in Proc : Bumping(proc[q], a, k)}
  BY DEF Pending, Bumping
<1>2. \A q \in Proc \ {p} : q \in new <=> q \in old BY <1>1 DEF Moves
<1>3. (p \in new <=> Bumping(proc'[p], a, k)) /\ (p \in old <=> Bumping(proc[p], a, k)) BY <1>1
<1>4. IsFiniteSet(old) /\ Cardinality(old) \in Nat BY PendingNat
<1>5. new \subseteq Proc /\ old \subseteq Proc BY <1>1
<1>6. IsFiniteSet(new) BY <1>5, CommandsAssumption, FS_Subset
<1> HIDE DEF old, new
<1>7. Cardinality(new) \in Nat BY <1>6, FS_CardinalityType
<1>8. (p \in new <=> p \in old) => new = old BY <1>2, <1>5
<1>9. p \notin new => Cardinality(new) <= Cardinality(old)
  <2>1. p \notin new => new \subseteq old BY <1>2, <1>5
  <2> QED BY <1>4, <2>1, FS_Subset
<1>10. p \notin new /\ p \in old => Cardinality(old) = Cardinality(new) + 1
  <2>1. p \notin new /\ p \in old => old = new \cup {p} BY <1>2, <1>5
  <2> QED BY <1>6, <2>1, FS_AddElement
<1>11. p \notin old => Cardinality(new) <= Cardinality(old) + 1
  <2>1. Cardinality(old \cup {p}) = Cardinality(old) + 1 \/ p \in old BY <1>4, FS_AddElement
  <2>2. new \subseteq old \cup {p} /\ IsFiniteSet(old \cup {p}) BY <1>2, <1>4, <1>5, FS_AddElement
  <2> QED BY <2>1, <2>2, FS_Subset
<1> QED BY <1>3, <1>4, <1>7, <1>8, <1>9, <1>10, <1>11 DEF old, new

(* A step that leaves a counter and its events alone starts no bump of it. *)
LEMMA CoveredKept ==
  ASSUME Base, TrustTypes, NEW p \in Proc, Moves(p), NEW a \in DOMAIN scores, NEW k \in Counters, Covered(a, k),
         scores'[a][k] = scores[a][k], CountIn(agentEvents', a, k) = CountIn(agentEvents, a, k),
         ~Bumping(proc'[p], a, k)
  PROVE  Covered(a, k)'
<1>1. scores[a][k] \in Nat /\ CountIn(agentEvents, a, k) \in Nat BY CountNat DEF TrustTypes, RowOK
<1>2. /\ Cardinality(Pending(a, k)') \in Nat /\ Cardinality(Pending(a, k)) \in Nat
      /\ Cardinality(Pending(a, k)') <= Cardinality(Pending(a, k)) BY PendingMoves, PendingNat
<1>3. Covered(a, k)' <=> scores'[a][k] + Cardinality(Pending(a, k)') <= CountIn(agentEvents', a, k)
  BY DEF Covered, CountIn, Of
<1> QED BY <1>1, <1>2, <1>3 DEF Covered

LEMMA UnresetSince ==
  ASSUME TrustTypes, NEW e \in Happening, agentEvents' = Append(agentEvents, e), NEW a, Unreset(a)'
  PROVE  Unreset(a) /\ e # [agent |-> a, type |-> "reset"]
<1>1. agentEvents \in Seq(Happening) BY DEF TrustTypes
<1>2. /\ \A i \in DOMAIN agentEvents : i \in DOMAIN agentEvents' /\ agentEvents'[i] = agentEvents[i]
      /\ Len(agentEvents) + 1 \in DOMAIN agentEvents' /\ agentEvents'[Len(agentEvents) + 1] = e BY <1>1
<1> QED BY <1>2 DEF Unreset

(* The rows but one, and the counters of that one.                         *)
LEMMA BackedKeptBut ==
  ASSUME Base, TrustTypes, BackedOK, NEW p \in Proc, Moves(p), NEW own,
         DOMAIN scores' \subseteq DOMAIN scores \cup {own},
         \A a \in DOMAIN scores : Unreset(a)' => Unreset(a),
         \A a \in DOMAIN scores : a # own => /\ scores'[a] = scores[a]
                                             /\ \A k \in Counters : /\ CountIn(agentEvents', a, k) = CountIn(agentEvents, a, k)
                                                                    /\ ~Bumping(proc'[p], a, k),
         own \in DOMAIN scores' /\ Unreset(own)' => \A k \in Counters : Covered(own, k)'
  PROVE  BackedOK'
<1>1. ASSUME NEW a \in DOMAIN scores, a # own, Unreset(a)', NEW k \in Counters PROVE Covered(a, k)'
  <2>1. Covered(a, k) BY <1>1 DEF BackedOK
  <2> QED BY <1>1, <2>1, CoveredKept
<1> QED BY <1>1 DEF BackedOK

LEMMA BackedMoves ==
  ASSUME Base, Base', TrustTypes, TrustTypes', BackedOK, NEW p \in Proc, Moves(p), TrustMove(p)
  PROVE  BackedOK'
<1>0. PICK s : s = proc[p] OBVIOUS
<1>1. PICK t : t = proc'[p] OBVIOUS
<1>2. ProcOK(s) /\ ProcOK(t) BY <1>0, <1>1 DEF Base, ProcsOK, Moves
<1>3. {"event.store", "event.bump", "event.read", "event.write", "manual.store"} = TrustLabels \ {"idle"}
  BY DEF TrustLabels
<1>4. agentEvents \in Seq(Happening) /\ \A i \in DOMAIN agentEvents : agentEvents[i].agent \in DOMAIN scores
  BY DEF TrustTypes
<1>5. \A b \in DOMAIN scores : RowOK(scores[b]) BY DEF TrustTypes
<1>6. s.at \in TrustLabels \ {"idle"} => s.cmd.agent \in DOMAIN scores BY <1>0 DEF TrustTypes, TrustHand
<1>7. \A a, k : (Bumping(proc[p], a, k) <=> Bumping(s, a, k)) /\ (Bumping(proc'[p], a, k) <=> Bumping(t, a, k))
  BY <1>0, <1>1
<1>8. \A a, k : a \in DOMAIN scores /\ k \in Counters =>
         /\ scores[a][k] \in Nat /\ CountIn(agentEvents, a, k) \in Nat
         /\ Cardinality(Pending(a, k)) \in Nat /\ Cardinality(Pending(a, k)') \in Nat
  BY <1>4, <1>5, CountNat, PendingNat, PendingMoves DEF RowOK
<1>9. \A a, k : Covered(a, k)' <=> scores'[a][k] + Cardinality(Pending(a, k)') <= CountIn(agentEvents', a, k)
  BY DEF Covered, CountIn, Of
<1> USE DEF At, Cmd, Mem
<1>21. CASE Unscored
  <2>1. scores' = scores /\ agentEvents' = agentEvents /\ proc' = proc BY <1>21 DEF Unscored
  <2>2. \A a, k : Pending(a, k)' = Pending(a, k) BY <2>1 DEF Pending
  <2>3. \A a, k : Covered(a, k)' <=> Covered(a, k) BY <1>9, <2>1, <2>2 DEF Covered
  <2>4. \A a : Unreset(a)' <=> Unreset(a) BY <2>1 DEF Unreset
  <2>5. ASSUME NEW a \in DOMAIN scores, Unreset(a)', NEW k \in Counters PROVE Covered(a, k)'
    <3>1. Covered(a, k) BY <2>4, <2>5 DEF BackedOK
    <3> QED BY <2>3, <3>1
  <2> QED BY <2>1, <2>5 DEF BackedOK
<1>22. ASSUME UNCHANGED agentEvents, t.at # "event.bump", DOMAIN scores' = DOMAIN scores,
              \A a \in DOMAIN scores : \A k \in Counters : scores'[a][k] = scores[a][k]
       PROVE  BackedOK'
  <2>1. \A a, k : ~Bumping(proc'[p], a, k) BY <1>7, <1>22 DEF Bumping
  <2>2. ASSUME NEW a \in DOMAIN scores, Unreset(a)', NEW k \in Counters PROVE Covered(a, k)'
    <3>1. Covered(a, k) BY <1>22, <2>2 DEF BackedOK, Unreset
    <3>2. scores'[a][k] = scores[a][k] /\ CountIn(agentEvents', a, k) = CountIn(agentEvents, a, k) BY <1>22
    <3> QED BY <2>1, <3>1, <3>2, CoveredKept
  <2> QED BY <1>22, <2>2 DEF BackedOK
<1>23. ASSUME NEW own, UNCHANGED agentEvents, t.at # "event.bump", DOMAIN scores' \subseteq DOMAIN scores \cup {own},
              \A a \in DOMAIN scores \ {own} : scores'[a] = scores[a],
              \A k \in Counters : scores'[own][k] = 0
       PROVE  BackedOK'
  <2>1. \A a, k : ~Bumping(proc'[p], a, k) BY <1>7, <1>23 DEF Bumping
  <2>2. ASSUME Unreset(own)', NEW k \in Counters PROVE Covered(own, k)'
    <3>1. Cardinality(Pending(own, k)') \in Nat /\ Cardinality(Pending(own, k)) \in Nat
          /\ Cardinality(Pending(own, k)') <= Cardinality(Pending(own, k)) BY <2>1, PendingMoves, PendingNat
    <3>2. CountIn(agentEvents, own, k) \in Nat BY <1>4, CountNat
    <3>3. CASE own \in DOMAIN scores
      <4>1. Covered(own, k) BY <1>23, <2>2, <3>3 DEF BackedOK, Unreset
      <4>2. scores[own][k] \in Nat BY <1>8, <3>3
      <4> QED BY <1>9, <1>23, <3>1, <3>2, <4>1, <4>2 DEF Covered
    <3>4. CASE own \notin DOMAIN scores
      <4>1. \A q \in Proc : ~Bumping(proc[q], own, k) BY <3>4 DEF Bumping, TrustTypes, TrustHand, TrustLabels
      <4>2. Pending(own, k) = {} BY <4>1 DEF Pending
      <4>3. Cardinality(Pending(own, k)) = 0 BY <4>2, FS_EmptySet
      <4> QED BY <1>9, <1>23, <3>1, <3>2, <4>3
    <3> QED BY <3>3, <3>4
  <2>3. \A a \in DOMAIN scores : Unreset(a)' => Unreset(a) BY <1>23 DEF Unreset
  <2> QED BY <1>23, <2>1, <2>2, <2>3, BackedKeptBut
<1>24. CASE Opened(p)
  <2> DEFINE own == t.cmd.agent
  <2>1. t.at = "event.store" /\ UNCHANGED agentEvents BY <1>1, <1>24 DEF Opened
  <2>2. scores' = IF own \in DOMAIN scores THEN scores ELSE Replaced(scores, own, NewRow)
    BY <1>1, <1>24 DEF Opened
  <2> HIDE DEF own
  <2>3. CASE own \in DOMAIN scores BY <1>22, <2>1, <2>2, <2>3
  <2>4. CASE own \notin DOMAIN scores
    <3>1. scores' = Replaced(scores, own, NewRow) BY <2>2, <2>4
    <3>2. /\ DOMAIN scores' = DOMAIN scores \cup {own} /\ scores'[own] = NewRow
          /\ \A b \in DOMAIN scores \ {own} : scores'[b] = scores[b] BY <2>4, <3>1 DEF Replaced
    <3>3. \A k \in Counters : scores'[own][k] = 0 BY <3>2, NewRowOK
    <3> QED BY <1>23, <2>1, <3>2, <3>3
  <2> QED BY <2>3, <2>4
<1>25. CASE Stored(p)
  <2> DEFINE own == s.cmd.agent
             e == [agent |-> s.cmd.agent, type |-> s.cmd.type]
  <2>1. /\ s.at = "event.store" /\ UNCHANGED scores /\ t.cmd = s.cmd /\ agentEvents' = Append(agentEvents, e)
        /\ t.at = IF Counted(s.cmd.type) = {} THEN "event.read" ELSE "event.bump"
    BY <1>0, <1>1, <1>25 DEF Stored
  <2>2. own \in DOMAIN scores BY <1>3, <1>6, <2>1
  <2>3. e \in Happening /\ e.agent = own /\ e.type = s.cmd.type /\ e.type # "reset"
    BY <1>2, <1>3, <2>1, AgentAt DEF Happening
  <2>4. \A a, k : (Bumping(s, a, k) <=> FALSE) /\ (Bumping(t, a, k) <=> a = own /\ k \in Counted(s.cmd.type))
    BY <2>1 DEF Bumping
  <2> HIDE DEF own, e
  <2>5. \A a, k : k \in Counters =>
          /\ a # own => CountIn(agentEvents', a, k) = CountIn(agentEvents, a, k)
          /\ CountIn(agentEvents', own, k) = CountIn(agentEvents, own, k) + (IF k \in Counted(s.cmd.type) THEN 1 ELSE 0)
    BY <1>4, <2>1, <2>3, CountMore
  <2>6. \A a \in DOMAIN scores : Unreset(a)' => Unreset(a) BY <2>1, <2>3, UnresetSince
  <2>7. ASSUME Unreset(own)', NEW k \in Counters PROVE Covered(own, k)'
    <3>1. Covered(own, k) BY <2>2, <2>6, <2>7 DEF BackedOK
    <3>2. CASE k \in Counted(s.cmd.type)
      <4>1. Cardinality(Pending(own, k)') <= Cardinality(Pending(own, k)) + 1 BY <1>7, <2>4, PendingMoves
      <4>2. CountIn(agentEvents', own, k) = CountIn(agentEvents, own, k) + 1 BY <2>5, <3>2
      <4> QED BY <1>8, <1>9, <2>1, <2>2, <3>1, <4>1, <4>2 DEF Covered
    <3>3. CASE k \notin Counted(s.cmd.type)
      <4>1. ~Bumping(proc'[p], own, k) BY <1>7, <2>4, <3>3
      <4>2. CountIn(agentEvents', own, k) = CountIn(agentEvents, own, k) + 0 BY <2>5, <3>3
      <4>3. CountIn(agentEvents', own, k) = CountIn(agentEvents, own, k) BY <1>8, <2>2, <4>2
      <4> QED BY <2>1, <2>2, <3>1, <4>1, <4>3, CoveredKept
    <3> QED BY <3>2, <3>3
  <2>8. \A a \in DOMAIN scores : a # own =>
           /\ scores'[a] = scores[a]
           /\ \A k \in Counters : /\ CountIn(agentEvents', a, k) = CountIn(agentEvents, a, k)
                                  /\ ~Bumping(proc'[p], a, k) BY <1>7, <2>1, <2>4, <2>5
  <2>9. DOMAIN scores' = DOMAIN scores BY <2>1
  <2> QED BY <2>6, <2>7, <2>8, <2>9, BackedKeptBut
<1>26. CASE Bumped(p)
  <2> DEFINE own == s.cmd.agent
  <2>1. s.at = "event.bump" /\ UNCHANGED agentEvents /\ t.at = "event.read" BY <1>0, <1>1, <1>26 DEF Bumped
  <2>2. own \in DOMAIN scores BY <1>3, <1>6, <2>1
  <2>3. PICK k \in Counted(s.cmd.type) : scores' = [scores EXCEPT ![own][k] = @ + 1] BY <1>0, <1>26 DEF Bumped
  <2>4. k \in Counters /\ Counted(s.cmd.type) = {k} BY DEF Counted, Counters
  <2>5. \A a, c : ~Bumping(t, a, c) BY <2>1 DEF Bumping
  <2>6. Bumping(s, own, k) BY <2>1, <2>4 DEF Bumping
  <2> HIDE DEF own
  <2>7. /\ DOMAIN scores' = DOMAIN scores /\ \A b \in DOMAIN scores : RowOK(scores'[b])
        /\ scores'[own][k] = scores[own][k] + 1
        /\ \A h \in DOMAIN NewRow \ {k} : scores'[own][h] = scores[own][h]
        /\ \A b \in DOMAIN scores \ {own} : scores'[b] = scores[b] BY <1>5, <2>2, <2>3, <2>4, RowCounted
  <2>8. ASSUME Unreset(own)', NEW c \in Counters PROVE Covered(own, c)'
    <3>1. Covered(own, c) BY <2>1, <2>2, <2>8 DEF BackedOK, Unreset
    <3>2. CASE c = k
      <4>1. Cardinality(Pending(own, k)') + 1 = Cardinality(Pending(own, k)) BY <1>7, <2>5, <2>6, PendingMoves
      <4> QED BY <1>8, <1>9, <2>1, <2>2, <2>4, <2>7, <3>1, <3>2, <4>1 DEF Covered
    <3>3. CASE c # k
      <4>1. scores'[own][c] = scores[own][c] BY <2>7, <3>3, NewRowOK
      <4>2. CountIn(agentEvents', own, c) = CountIn(agentEvents, own, c) BY <2>1
      <4> QED BY <1>7, <2>2, <2>5, <3>1, <4>1, <4>2, CoveredKept
    <3> QED BY <3>2, <3>3
  <2>9. \A a \in DOMAIN scores : Unreset(a)' => Unreset(a) BY <2>1 DEF Unreset
  <2> QED BY <1>7, <2>1, <2>5, <2>7, <2>8, <2>9, BackedKeptBut
<1>27. CASE Looked(p)
  <2>1. UNCHANGED <<scores, agentEvents>> /\ t.at = "event.write" BY <1>1, <1>27 DEF Looked
  <2> QED BY <1>22, <2>1
<1>28. CASE Rescored(p)
  <2> DEFINE own == s.cmd.agent
             m == s.mem
             v == StatusFor(s.mem[1], s.mem[2])
  <2>1. /\ s.at = "event.write" /\ UNCHANGED agentEvents /\ t.at = "idle"
        /\ scores' = [scores EXCEPT ![own].scored = m, ![own].status = v] BY <1>0, <1>1, <1>28 DEF Rescored
  <2>2. own \in DOMAIN scores BY <1>3, <1>6, <2>1
  <2>3. v \in TrustStatus BY DEF StatusFor, TrustStatus
  <2> HIDE DEF own, m, v
  <2>4. /\ DOMAIN scores' = DOMAIN scores /\ \A k \in Counters : scores'[own][k] = scores[own][k]
        /\ \A b \in DOMAIN scores \ {own} : scores'[b] = scores[b]
    <3>1. scores' = [scores EXCEPT ![own].scored = m, ![own].status = v] BY <2>1
    <3> QED BY <1>5, <2>2, <2>3, <3>1, RowScored
  <2>5. \A a \in DOMAIN scores : \A k \in Counters : scores'[a][k] = scores[a][k] BY <2>4
  <2> QED BY <1>22, <2>1, <2>4, <2>5
<1>29. CASE Overridden(p)
  <2> DEFINE own == t.cmd.agent
             v == t.cmd.status
             w == t.cmd.until
  <2>1. /\ UNCHANGED agentEvents /\ t.at = "manual.store" /\ own \in DOMAIN scores
        /\ scores' = [scores EXCEPT ![own].override = v, ![own].until = w] BY <1>1, <1>29 DEF Overridden
  <2> HIDE DEF own, v, w
  <2>2. /\ DOMAIN scores' = DOMAIN scores /\ \A k \in Counters : scores'[own][k] = scores[own][k]
        /\ \A b \in DOMAIN scores \ {own} : scores'[b] = scores[b]
    <3>1. own \in DOMAIN scores BY <2>1
    <3>2. scores' = [scores EXCEPT ![own].override = v, ![own].until = w] BY <2>1
    <3> QED BY <1>5, <3>1, <3>2, RowOverridden
  <2>3. \A a \in DOMAIN scores : \A k \in Counters : scores'[a][k] = scores[a][k] BY <2>2
  <2> QED BY <1>22, <2>1, <2>2, <2>3
<1>30. CASE Zeroed(p)
  <2> DEFINE own == t.cmd.agent
  <2>1. /\ UNCHANGED agentEvents /\ t.at = "manual.store" /\ own \in DOMAIN scores
        /\ scores' = [scores EXCEPT ![own] = NewRow] BY <1>1, <1>30 DEF Zeroed
  <2> HIDE DEF own
  <2>2. /\ DOMAIN scores' = DOMAIN scores \cup {own} /\ scores'[own] = NewRow
        /\ \A b \in DOMAIN scores \ {own} : scores'[b] = scores[b] BY <1>5, <2>1, RowReset
  <2>3. \A k \in Counters : scores'[own][k] = 0 BY <2>2, NewRowOK
  <2> QED BY <1>23, <2>1, <2>2, <2>3
<1>31. CASE Noted(p)
  <2> DEFINE own == s.cmd.agent
             e == [agent |-> s.cmd.agent, type |-> s.mem]
  <2>1. s.at = "manual.store" /\ UNCHANGED scores /\ t.at = "idle" /\ agentEvents' = Append(agentEvents, e)
    BY <1>0, <1>1, <1>31 DEF Noted
  <2>2. own \in DOMAIN scores /\ own \in Agent BY <1>2, <1>3, <1>6, <2>1, AgentAt
  <2>3. s.mem \in {"reset", "manual_override"} BY <1>0, <2>1 DEF TrustTypes, TrustHand
  <2>4. e \in Happening /\ e.agent = own /\ e.type = s.mem /\ e = [agent |-> own, type |-> s.mem]
    BY <2>2, <2>3 DEF Happening
  <2>5. \A a, k : ~Bumping(t, a, k) BY <2>1 DEF Bumping
  <2> HIDE DEF own, e
  <2>6. \A a, k : k \in Counters => (a # own => CountIn(agentEvents', a, k) = CountIn(agentEvents, a, k))
    BY <1>4, <2>1, <2>4, CountMore
  <2>7. \A a \in DOMAIN scores : Unreset(a)' => Unreset(a) BY <2>1, <2>4, UnresetSince
  <2>8. ASSUME Unreset(own)', NEW k \in Counters PROVE Covered(own, k)'
    <3>1. e # [agent |-> own, type |-> "reset"] BY <2>1, <2>4, <2>8, UnresetSince
    <3>2. s.mem = "manual_override" BY <2>3, <2>4, <3>1
    <3>3. Counted("manual_override") = {} BY DEF Counted
    <3>4. CountIn(agentEvents', own, k) = CountIn(agentEvents, own, k) + 0
      BY <1>4, <2>1, <2>4, <3>2, <3>3, CountMore
    <3>5. CountIn(agentEvents', own, k) = CountIn(agentEvents, own, k) BY <1>8, <2>2, <3>4
    <3>6. Covered(own, k) BY <2>2, <2>7, <2>8 DEF BackedOK
    <3> QED BY <1>7, <2>1, <2>2, <2>5, <3>5, <3>6, CoveredKept
  <2> QED BY <1>7, <2>1, <2>5, <2>6, <2>7, <2>8, BackedKeptBut
<1> QED BY <1>21, <1>24, <1>25, <1>26, <1>27, <1>28, <1>29, <1>30, <1>31, TrustDoes

LEMMA BackedStep == Base /\ TrustTypes /\ BackedOK /\ [Next]_vars => BackedOK'
<1> SUFFICES ASSUME Base, TrustTypes, BackedOK, [Next]_vars PROVE BackedOK' OBVIOUS
<1>1. Base' /\ TrustTypes' BY BaseStep, TrustTypesStep
<1>2. CASE Still BY <1>2 DEF Still, trustVars, BackedOK, Unreset, Covered, Pending
<1>3. ASSUME NEW p \in Proc, Moves(p), TrustElsewhere(p) PROVE BackedOK'
  <2>1. scores' = scores /\ agentEvents' = agentEvents BY <1>3 DEF TrustElsewhere, trustVars
  <2>2. \A a, k : ~Bumping(proc'[p], a, k) BY <1>3 DEF TrustElsewhere, Bumping, TrustLabels
  <2>3. ASSUME NEW a \in DOMAIN scores, Unreset(a)', NEW k \in Counters PROVE Covered(a, k)'
    <3>1. Covered(a, k) BY <2>1, <2>3 DEF BackedOK, Unreset
    <3> QED BY <1>3, <2>1, <2>2, <3>1, CoveredKept
  <2> QED BY <2>1, <2>3 DEF BackedOK
<1> QED BY <1>1, <1>2, <1>3, TrustCases, BackedMoves

LEMMA BackedInit == Init => BackedOK
<1> SUFFICES ASSUME Init PROVE BackedOK OBVIOUS
<1>1. PICK s \in Scenarios : scores = s.scores /\ agentEvents = <<>> /\ proc = [p \in Proc |-> Idle] BY DEF Init
<1>2. TablesOK(s) BY ScenariosAssumption
<1>3. ASSUME NEW a \in DOMAIN scores, NEW k \in Counters PROVE Covered(a, k)
  <2>1. scores[a][k] = 0 BY <1>1, <1>2, NewRowOK DEF TablesOK
  <2>2. agentEvents \in Seq(Happening) BY <1>1
  <2>3. CountIn(agentEvents, a, k) \in Nat BY <2>2, CountNat
  <2>4. \A q \in Proc : ~Bumping(proc[q], a, k) BY <1>1 DEF Idle, Bumping
  <2>5. Pending(a, k) = {} BY <2>4 DEF Pending
  <2>6. Cardinality(Pending(a, k)) = 0 BY <2>5, FS_EmptySet
  <2> QED BY <2>1, <2>3, <2>6 DEF Covered
<1> QED BY <1>3 DEF BackedOK

LEMMA ScoresTold == TrustTypes /\ ScoreOK /\ BackedOK => ScoreIsFold
<1> SUFFICES ASSUME TrustTypes, ScoreOK, BackedOK PROVE ScoreIsFold OBVIOUS
<1>1. \A a : /\ CountOf(a, "changeset_promoted") = CountIn(agentEvents, a, "total")
             /\ CountOf(a, "changeset_merged") = CountIn(agentEvents, a, "survived")
             /\ CountOf(a, "regression") = CountIn(agentEvents, a, "regressions") BY CountIs
<1>2. "survived" \in Counters /\ "regressions" \in Counters /\ "total" \in Counters BY DEF Counters
<1>3. ASSUME NEW a \in DOMAIN scores, \A i \in DOMAIN agentEvents : ~IsReset(i, a), NEW k \in Counters
      PROVE  scores[a][k] <= CountIn(agentEvents, a, k)
  <2>1. Covered(a, k) BY <1>3 DEF BackedOK, Unreset, IsReset
  <2>2. scores[a][k] \in Nat /\ CountIn(agentEvents, a, k) \in Nat /\ Cardinality(Pending(a, k)) \in Nat
    BY CountNat, PendingNat DEF TrustTypes, RowOK
  <2> QED BY <2>1, <2>2 DEF Covered
<1>4. CountersBacked BY <1>1, <1>2, <1>3 DEF CountersBacked
<1>5. ASSUME NEW a \in DOMAIN scores, AgentRow(a) \notin tainted, ~Updating(AgentRow(a))
      PROVE  /\ \A k \in Counters : scores[a][k] = CountIn(agentEvents, a, k)
             /\ scores[a].scored = <<scores[a].survived, scores[a].regressions>>
             /\ scores[a].status = StatusFor(scores[a].survived, scores[a].regressions)
  BY <1>5 DEF ScoreOK, TrustStory, Agrees, Computed
<1>6. ASSUME NEW a \in DOMAIN scores, AgentRow(a) \notin tainted, ~Updating(AgentRow(a))
      PROVE  /\ scores[a].total = CountIn(agentEvents, a, "total")
             /\ scores[a].survived = CountIn(agentEvents, a, "survived")
             /\ scores[a].regressions = CountIn(agentEvents, a, "regressions")
             /\ scores[a].scored = <<CountIn(agentEvents, a, "survived"), CountIn(agentEvents, a, "regressions")>>
             /\ scores[a].status = StatusFor(CountIn(agentEvents, a, "survived"), CountIn(agentEvents, a, "regressions"))
  <2>1. /\ scores[a].total = CountIn(agentEvents, a, "total")
        /\ scores[a].survived = CountIn(agentEvents, a, "survived")
        /\ scores[a].regressions = CountIn(agentEvents, a, "regressions") BY <1>2, <1>5, <1>6
  <2> QED BY <1>5, <1>6, <2>1
<1> QED BY <1>1, <1>4, <1>6 DEF ScoreIsFold
-----------------------------------------------------------------------------
(* What is recorded of a changeset.  First what the steps do, one name for *)
(* each outcome.                                                           *)
Costed(p) ==
  /\ At(p, "cost") /\ UNCHANGED <<log, rules, anomalies, tuned, budgets, reports>>
  /\ \E agent, at : costs' = Replaced(costs, Cmd(p).cs, [agent |-> agent, model |-> "human", used |-> 0,
                                                         lines |-> ChangesetDelta(Cmd(p).cs).lines, at |-> at])
  /\ proc'[p].at = "detect" /\ proc'[p].cmd = Cmd(p)
Reported(p) ==
  /\ UNCHANGED <<log, rules, anomalies, tuned, budgets, proc>>
  /\ \E c \in todo : /\ c.op = "report" /\ InLog(c.cs) /\ costs' = AddUsage(c)
                     /\ reports' = Append(reports, [cs |-> c.cs, cost |-> c.cost])
                     /\ Updating(CostRow(c.cs)) => CostRow(c.cs) \in tainted'
Logged(p) ==
  /\ At(p, "idle") /\ UNCHANGED <<costs, rules, anomalies, tuned, budgets, reports>>
  /\ \E c \in todo : /\ Promotes(c) /\ todo' = todo \ {c}
                     /\ \E row : /\ row.cs = c.cs /\ row.by = c.by /\ row.at = now /\ log' = Append(log, row)
                                 /\ \/ ~row.promoted /\ proc' = proc
                                    \/ row.promoted /\ proc'[p].at = "cost" /\ proc'[p].cmd = c
Switched(p) ==
  /\ At(p, "configure.switch") /\ UNCHANGED <<log, costs, anomalies, tuned, budgets, reports>>
  /\ rules' = [rules EXCEPT ![Cmd(p).rule].enabled = Cmd(p).enabled]
  /\ proc'[p] = Idle
Tuned(p) ==
  /\ At(p, "idle") /\ UNCHANGED <<log, costs, anomalies, budgets, reports>>
  /\ \E c \in todo : /\ tuned' = tuned \cup {c.rule}
                     /\ \/ proc' = proc /\ rules' = rules
                        \/ /\ rules' = [rules EXCEPT ![c.rule].threshold = c.threshold]
                           /\ proc'[p].at = "configure.switch" /\ proc'[p].cmd = c
Settled(p) ==
  /\ UNCHANGED <<log, costs, rules, tuned, budgets, reports, proc>>
  /\ \E id : anomalies' = [n \in DOMAIN anomalies |->
                             IF n = id THEN [anomalies[n] EXCEPT !.resolved = TRUE] ELSE anomalies[n]]
Budgeted(p) ==
  /\ UNCHANGED <<log, costs, rules, anomalies, tuned, reports, proc>>
  /\ \E c \in todo : /\ c.op = "budget"
                     /\ budgets' = Replaced(budgets, c.pattern, [limit |-> c.limit, percent |-> c.percent])

LEMMA CostDoes ==
  ASSUME Base, NEW p \in Proc, CostMove(p), Moves(p)
  PROVE  Costed(p) \/ Reported(p) \/ Logged(p) \/ Switched(p) \/ Tuned(p) \/ Settled(p) \/ Budgeted(p)
<1> USE DEF At
<1>1. ASSUME CostRecord(p) PROVE Costed(p)
  <2>1. At(p, "cost") /\ Continue(p, Return(p)) BY <1>1 DEF CostRecord
  <2>2. proc[p].rest = <<"detect", "suggest", "request", "emit">> /\ proc[p].to = {}
    BY <2>1, OpOf DEF LabelsOf, RestOf
  <2>3. proc'[p].at = "detect" /\ proc'[p].cmd = Cmd(p) BY <2>1, <2>2, AfterReturn DEF Cmd
  <2> QED BY <1>1, <2>1, <2>3 DEF CostRecord, Costed
<1>2. ASSUME NEW c \in todo, Report(p, c) PROVE Reported(p) BY <1>2 DEF Report, Reported
<1>3. ASSUME NEW c \in todo, SetBudget(p, c) PROVE Budgeted(p) BY <1>3 DEF SetBudget, Budgeted, Only
<1>4. ASSUME NEW c \in todo, Resolve(p, c) PROVE Settled(p) BY <1>4 DEF Resolve, Settled, Only
<1>5. ASSUME NEW c \in todo, Propose(p, c) PROVE Logged(p)
  <2> DEFINE row == [cs |-> c.cs, by |-> c.by, at |-> now, promoted |-> FALSE, tree |-> c.tree]
  <2>1. row.cs = c.cs /\ row.by = c.by /\ row.at = now /\ ~row.promoted /\ log' = Append(log, row)
    BY <1>5 DEF Propose
  <2>2. c.op = "propose" /\ Only(p, c) /\ UNCHANGED <<costs, budgets, rules, anomalies, reports, tuned>>
    BY <1>5 DEF Propose
  <2>3. At(p, "idle") /\ Promotes(c) /\ todo' = todo \ {c} /\ proc' = proc BY <2>2 DEF Only, Promotes
  <2> HIDE DEF row
  <2> QED BY <2>1, <2>2, <2>3 DEF Logged
<1>6. ASSUME NEW c \in todo, Promote(p, c) PROVE Logged(p)
  <2> DEFINE row == [cs |-> c.cs, by |-> c.by, at |-> now, promoted |-> TRUE, tree |-> c.tree]
  <2>1. row.cs = c.cs /\ row.by = c.by /\ row.at = now /\ row.promoted /\ log' = Append(log, row)
    BY <1>6 DEF Promote
  <2>2. Begin(p, c, "cost", CostRow(c.cs), None, <<"detect", "suggest", "request", "emit">>) BY <1>6 DEF Promote
  <2>3. proc'[p].at = "cost" /\ proc'[p].cmd = c BY <2>2, AfterBegin
  <2>4. At(p, "idle") /\ todo' = todo \ {c} BY <2>2 DEF Begin
  <2>5. Promotes(c) /\ UNCHANGED <<costs, budgets, rules, anomalies, reports, tuned>>
    BY <1>6 DEF Promote, Promotes
  <2> HIDE DEF row
  <2> QED BY <2>1, <2>3, <2>4, <2>5 DEF Logged
<1>7. ASSUME NEW c \in todo, Configure(p, c) PROVE Tuned(p)
  <2>1. CASE c.rule \in DOMAIN rules
    <3>1. Begin(p, c, "configure.switch", NoRow, None, <<>>)
          /\ rules' = [rules EXCEPT ![c.rule].threshold = c.threshold] BY <1>7, <2>1 DEF Configure
    <3>2. proc'[p].at = "configure.switch" /\ proc'[p].cmd = c BY <3>1, AfterBegin
    <3>3. At(p, "idle") BY <3>1 DEF Begin
    <3> QED BY <1>7, <3>1, <3>2, <3>3 DEF Configure, Tuned
  <2>2. CASE c.rule \notin DOMAIN rules BY <1>7, <2>2 DEF Configure, Tuned, Only
  <2> QED BY <2>1, <2>2
<1>8. ASSUME ConfigureSwitch(p) PROVE Switched(p)
  <2>1. At(p, "configure.switch") /\ Continue(p, Return(p)) BY <1>8 DEF ConfigureSwitch
  <2>2. proc[p].rest = <<>> /\ proc[p].to = {} BY <2>1, OpOf DEF LabelsOf, RestOf
  <2>3. proc'[p] = Idle BY <2>1, <2>2, AfterReturn
  <2> QED BY <1>8, <2>1, <2>3 DEF ConfigureSwitch, Switched
<1> QED BY <1>1, <1>2, <1>3, <1>4, <1>5, <1>6, <1>7, <1>8 DEF CostMove, LedgerBegin

(* The rules are tried one after the other.                                *)
Onward(p) ==
  /\ proc'[p].cmd = Cmd(p)
  /\ \/ Len(Mem(p).left) = 1 /\ proc'[p].at = "suggest"
     \/ Len(Mem(p).left) # 1 /\ proc'[p].at = "detect.rule" /\ proc'[p].mem = [Mem(p) EXCEPT !.left = Tail(@)]
Sized(p) ==
  /\ At(p, "detect") /\ UNCHANGED ledgerVars /\ proc'[p].at = "detect.rule" /\ proc'[p].cmd = Cmd(p)
  /\ \E f : /\ proc'[p].mem = [left |-> Checks, value |-> f]
            /\ "large-changeset" \in DOMAIN rules => f["large-changeset"] = ChangesetDelta(Cmd(p).cs).lines
            /\ "burst-activity" \in DOMAIN rules => f["burst-activity"] = RecentCount(Cmd(p).by)
Tested(p) ==
  /\ At(p, "detect.rule") /\ UNCHANGED ledgerVars
  /\ \/ proc'[p].cmd = Cmd(p) /\ proc'[p].at = "detect.raise" /\ proc'[p].mem = Mem(p)
     \/ ~Exceeds(Head(Mem(p).left), Mem(p).value[Head(Mem(p).left)]) /\ Onward(p)
Alarmed(p) ==
  /\ At(p, "detect.raise") /\ UNCHANGED <<log, costs, rules, tuned, budgets, reports>>
  /\ \E value : anomalies' = Append(anomalies, [rule |-> Head(Mem(p).left), cs |-> Cmd(p).cs,
                                                value |-> value, resolved |-> FALSE])
  /\ Onward(p)

LEMMA DetectDoes ==
  ASSUME Base, NEW p \in Proc, DetectMove(p), Moves(p)
  PROVE  Sized(p) \/ Tested(p) \/ Alarmed(p)
<1> USE DEF At
<1>1. ASSUME NEW at \in {"detect.rule", "detect.raise"}, At(p, at), Continue(p, Checked(p)) PROVE Onward(p)
  <2>1. proc[p].rest = <<"suggest", "request", "emit">> /\ proc[p].to = {} BY <1>1, OpOf DEF LabelsOf, RestOf
  <2>2. CASE Len(Mem(p).left) = 1
    <3>1. Continue(p, Return(p)) BY <1>1, <2>2 DEF Checked
    <3> QED BY <1>1, <2>1, <2>2, <3>1, AfterReturn DEF Onward, Cmd
  <2>3. CASE Len(Mem(p).left) # 1
    <3>1. Continue(p, Goto(p, "detect.rule", [Mem(p) EXCEPT !.left = Tail(@)])) BY <1>1, <2>3 DEF Checked
    <3> QED BY <2>3, <3>1, AfterGoto DEF Onward, Cmd
  <2> QED BY <2>2, <2>3
<1>2. ASSUME DetectCount(p) PROVE Sized(p)
  <2> DEFINE f == [rule \in DOMAIN rules |->
                     CASE rule = "large-changeset" -> ChangesetDelta(Cmd(p).cs).lines
                       [] rule = "unusual-scope"   -> ChangesetDelta(Cmd(p).cs).files
                       [] rule = "burst-activity"  -> RecentCount(Cmd(p).by)]
  <2>1. /\ At(p, "detect") /\ UNCHANGED ledgerVars
        /\ Continue(p, Goto(p, "detect.rule", [left |-> Checks, value |-> f])) BY <1>2 DEF DetectCount
  <2>2. /\ "large-changeset" \in DOMAIN rules => f["large-changeset"] = ChangesetDelta(Cmd(p).cs).lines
        /\ "burst-activity" \in DOMAIN rules => f["burst-activity"] = RecentCount(Cmd(p).by) OBVIOUS
  <2> HIDE DEF f
  <2>3. proc'[p].at = "detect.rule" /\ proc'[p].mem = [left |-> Checks, value |-> f] /\ proc'[p].cmd = Cmd(p)
    BY <2>1, AfterGoto DEF Cmd
  <2> QED BY <2>1, <2>2, <2>3 DEF Sized
<1>3. ASSUME DetectRule(p) PROVE Tested(p)
  <2> DEFINE hit == Exceeds(Head(Mem(p).left), Mem(p).value[Head(Mem(p).left)])
  <2>1. /\ At(p, "detect.rule") /\ UNCHANGED ledgerVars
        /\ Continue(p, IF hit THEN Goto(p, "detect.raise", Mem(p)) ELSE Checked(p)) BY <1>3 DEF DetectRule
  <2> HIDE DEF hit
  <2>2. CASE hit BY <2>1, <2>2, AfterGoto DEF Tested, Cmd
  <2>3. CASE ~hit BY <1>1, <2>1, <2>3 DEF Tested, hit
  <2> QED BY <2>2, <2>3
<1>4. ASSUME DetectRaise(p) PROVE Alarmed(p)
  <2>1. Onward(p) BY <1>1, <1>4 DEF DetectRaise
  <2> QED BY <1>4, <2>1 DEF DetectRaise, Alarmed
<1> QED BY <1>2, <1>3, <1>4 DEF DetectMove

(* Steps of the other components: a promotion goes on with its command.    *)
Recordings == {"cost", "detect", "detect.rule", "detect.raise", "configure.switch"}
LedgerElsewhere(p) ==
  /\ UNCHANGED ledgerVars /\ proc'[p].at \notin Recordings
  /\ proc[p].at \in Recordings => Die(p)
  /\ proc'[p].cmd.op = "promote" =>
       proc[p].cmd = proc'[p].cmd /\ proc[p].at \notin Recordings \cup {"idle"}

LEMMA RequestCmd ==
  ASSUME Base, NEW p \in Proc, RequestMove(p), Moves(p)
  PROVE  proc'[p].cmd.op = "promote" => proc[p].cmd = proc'[p].cmd /\ proc[p].at \in {"request", "request.insert"}
<1> USE DEF At
<1>1. Idle.cmd.op # "promote" BY DEF Idle, NoCmd, None
<1>2. ASSUME NEW c \in todo, Request(p, c) PROVE proc'[p].cmd.op # "promote"
  <2>1. CASE ByChangeset(c.cs) # 0
    <3>1. Only(p, c) BY <1>2, <2>1 DEF Request
    <3>2. proc'[p] = Idle BY <3>1 DEF Only, Base, ProcsOK, ProcOK
    <3> QED BY <1>1, <3>2
  <2>2. CASE ByChangeset(c.cs) = 0
    <3>1. c.op = "request" /\ Begin(p, c, "request.insert", RequestRow(c.cs), None, <<>>)
      BY <1>2, <2>2 DEF Request
    <3> QED BY <3>1, AfterBegin
  <2> QED BY <2>1, <2>2
<1>3. ASSUME RequestFor(p, Cmd(p).cs) PROVE proc[p].cmd = proc'[p].cmd /\ proc[p].at = "request"
  <2>1. At(p, "request") BY <1>3 DEF RequestFor
  <2>2. proc[p].rest = <<"emit">> /\ DOMAIN proc[p] = ProcFields BY <2>1, OpOf DEF LabelsOf, RestOf
  <2>3. CASE Continue(p, Return(p))
    <3>1. proc[p].rest # <<>> /\ ~At(p, "idle") BY <2>1, <2>2
    <3> QED BY <2>1, <2>3, <3>1, AfterReturn
  <2>4. CASE Continue(p, [Goto(p, "request.insert", None) EXCEPT !.on = RequestRow(Cmd(p).cs)])
    BY <2>1, <2>2, <2>4 DEF Continue, Step, Base, ProcsOK, Goto, ProcFields
  <2> QED BY <1>3, <2>1, <2>3, <2>4 DEF RequestFor
<1>4. ASSUME RequestInsert(p)
      PROVE  proc[p].at = "request.insert" /\ (proc[p].cmd = proc'[p].cmd \/ proc'[p].cmd.op # "promote")
  <2>1. At(p, "request.insert") /\ Continue(p, Return(p)) BY <1>4 DEF RequestInsert
  <2>2. proc[p].rest # <<>> \/ proc[p].to = {} BY <2>1, OpOf DEF LabelsOf, RestOf
  <2> QED BY <1>1, <2>1, <2>2, AfterReturn
<1> QED BY <1>2, <1>3, <1>4 DEF RequestMove

LEMMA DecideCmd ==
  ASSUME Base, NEW p \in Proc, DecideMove(p), Moves(p)
  PROVE  proc'[p].cmd.op # "promote" \/ (proc' = proc /\ At(p, "idle"))
<1> USE DEF At
<1>1. ASSUME NEW c \in todo, Decide(p, c) PROVE proc'[p].cmd.op # "promote" \/ (proc' = proc /\ At(p, "idle"))
  <2>1. CASE Only(p, c) BY <2>1 DEF Only
  <2>2. CASE Begin(p, c, "decide.put", ReviewRow(ByChangeset(c.cs)), ByChangeset(c.cs), <<"emit">>)
    BY <1>1, <2>2, AfterBegin DEF Decide
  <2> QED BY <1>1, <2>1, <2>2 DEF Decide
<1>2. CASE \E c \in todo : Comment(p, c) BY <1>2 DEF Comment, Only
<1>3. CASE DecidePut(p) \/ DecideFold(p)
  <2>1. proc[p].at \in {"decide.put", "decide.fold"} BY <1>3 DEF DecidePut, DecideFold
  <2>2. proc[p].cmd.op # "promote" BY <2>1, OpOf DEF LabelsOf, Cmd
  <2>3. proc'[p].cmd = proc[p].cmd BY <1>3, AfterGoto DEF DecidePut, DecideFold
  <2> QED BY <2>2, <2>3
<1>4. CASE DecideWrite(p)
  <2>1. At(p, "decide.write") /\ Continue(p, Return(p)) BY <1>4 DEF DecideWrite
  <2>2. proc[p].to = {} /\ proc[p].rest = <<"emit">> /\ proc[p].cmd.op # "promote"
    BY <2>1, OpOf DEF LabelsOf, RestOf, Cmd
  <2> QED BY <2>1, <2>2, AfterReturn
<1> QED BY <1>1, <1>2, <1>3, <1>4 DEF DecideMove

LEMMA EmitCmd ==
  ASSUME Base, NEW p \in Proc, EmitMove(p), Moves(p)
  PROVE  proc'[p] = Idle \/ (proc[p].at \in {"emit", "emit.notify"} /\ proc'[p].cmd = proc[p].cmd)
<1> USE DEF At
<1>1. CASE EmitEvent(p)
  <2>1. /\ At(p, "emit")
        /\ proc[p].to = {} => Continue(p, Return(p))
        /\ proc[p].to # {} => Continue(p, Goto(p, "emit.notify", Len(events) + 1)) BY <1>1 DEF EmitEvent
  <2>2. proc[p].rest = <<>> BY <2>1, OpOf DEF LabelsOf, RestOf
  <2>3. CASE proc[p].to = {} BY <2>1, <2>2, <2>3, AfterReturn
  <2>4. CASE proc[p].to # {} BY <2>1, <2>4, AfterGoto
  <2> QED BY <2>3, <2>4
<1>2. CASE EmitNotify(p)
  <2>1. PICK to \in proc[p].to :
          Continue(p, [IF proc[p].to \ {to} = {} THEN Return(p) ELSE proc[p] EXCEPT !.to = proc[p].to \ {to}])
    BY <1>2 DEF EmitNotify
  <2>2. At(p, "emit.notify") BY <1>2 DEF EmitNotify
  <2>3. CASE proc[p].to \ {to} # {}
    <3>1. DOMAIN proc[p] = ProcFields BY <2>2, OpOf
    <3>2. proc'[p] = [proc[p] EXCEPT !.to = proc[p].to \ {to}] BY <2>1, <2>3 DEF Continue, Step, Base, ProcsOK
    <3> QED BY <2>2, <3>1, <3>2 DEF ProcFields
  <2>4. CASE proc[p].to \ {to} = {}
    <3>1. proc[p].rest = <<>> BY <2>2, OpOf DEF LabelsOf, RestOf
    <3>2. Return(p) = Idle BY <3>1 DEF Return
    <3>3. proc'[p] = [Idle EXCEPT !.to = {}] BY <2>1, <2>4, <3>2 DEF Continue, Step, Base, ProcsOK
    <3>4. Idle = [k \in DOMAIN Idle |-> Idle[k]] /\ Idle.to = {} BY DEF Idle
    <3> QED BY <3>3, <3>4
  <2> QED BY <2>3, <2>4
<1> QED BY <1>1, <1>2 DEF EmitMove

LEMMA LedgerCases ==
  ASSUME Base, [Next]_vars
  PROVE  \/ Still
         \/ \E p \in Proc : Moves(p) /\ (CostMove(p) \/ DetectMove(p) \/ LedgerElsewhere(p))
<1> SUFFICES ASSUME NEW p \in Proc, Moved(p), Moves(p)
             PROVE  CostMove(p) \/ DetectMove(p) \/ LedgerElsewhere(p) BY StepCases
<1> USE DEF At
<1>1. ProcOK(proc[p]) /\ ProcOK(proc'[p]) BY DEF Moves, Base, ProcsOK
<1>2. Idle.at = "idle" /\ Idle.cmd.op # "promote" BY DEF Idle, NoCmd, None
<1>3. ASSUME NEW labels, labels \cap (LabelsOf("promote") \cup Recordings) = {}, UNCHANGED ledgerVars,
             proc[p].at \in labels, proc'[p].at \in labels
      PROVE  LedgerElsewhere(p)
  <2>1. proc'[p].cmd.op # "promote"
    <3>1. CASE proc'[p].at = "idle" BY <1>1, <1>2, <3>1 DEF ProcOK
    <3>2. CASE proc'[p].at # "idle"
      <4>1. proc'[p].at \in LabelsOf(proc'[p].cmd.op) BY <1>1, <3>2 DEF ProcOK
      <4> QED BY <1>3, <4>1
    <3> QED BY <3>1, <3>2
  <2> QED BY <1>3, <2>1 DEF LedgerElsewhere
<1>4. \A labels \in {RbacLabels, MergeLabels, DispatchLabels, TrustLabels} :
        labels \cap (LabelsOf("promote") \cup Recordings) = {}
  BY DEF RbacLabels, MergeLabels, DispatchLabels, TrustLabels, LabelsOf, Recordings
<1>5. CASE RbacMove(p) /\ MovesIn(p, RbacLabels) BY <1>3, <1>4, <1>5 DEF MovesIn, RbacMove
<1>6. CASE MergeMove(p) /\ MovesIn(p, MergeLabels) BY <1>3, <1>4, <1>6 DEF MovesIn, MergeMove
<1>7. CASE DispatchMove(p) /\ MovesIn(p, DispatchLabels) BY <1>3, <1>4, <1>7 DEF MovesIn, DispatchMove
<1>8. CASE TrustMove(p) /\ MovesIn(p, TrustLabels) BY <1>3, <1>4, <1>8 DEF MovesIn, TrustMove
<1>9. CASE RequestMove(p) /\ MovesIn(p, RequestLabels)
  <2>1. proc[p].at \notin Recordings /\ proc'[p].at \notin Recordings
    BY <1>9 DEF MovesIn, RequestLabels, Recordings
  <2>2. "request" \notin Recordings \cup {"idle"} /\ "request.insert" \notin Recordings \cup {"idle"}
    BY DEF Recordings
  <2> QED BY <1>9, <2>1, <2>2, RequestCmd DEF LedgerElsewhere, RequestMove
<1>10. CASE DecideMove(p) /\ MovesIn(p, DecideLabels)
  <2>1. proc[p].at \notin Recordings /\ proc'[p].at \notin Recordings
    BY <1>10 DEF MovesIn, DecideLabels, Recordings
  <2>2. proc'[p].cmd.op # "promote" BY <1>1, <1>2, <1>10, DecideCmd DEF ProcOK
  <2> QED BY <1>10, <2>1, <2>2 DEF LedgerElsewhere, DecideMove
<1>11. CASE EmitMove(p) /\ MovesIn(p, EmitLabels)
  <2>1. proc[p].at \notin Recordings /\ proc'[p].at \notin Recordings
    BY <1>11 DEF MovesIn, EmitLabels, Recordings
  <2>2. "emit" \notin Recordings \cup {"idle"} /\ "emit.notify" \notin Recordings \cup {"idle"}
    BY DEF Recordings
  <2> QED BY <1>2, <1>11, <2>1, <2>2, EmitCmd DEF LedgerElsewhere, EmitMove
<1>12. CASE SuggestMove(p) /\ MovesIn(p, {"suggest", "request"})
  <2>1. proc[p].at \notin Recordings /\ proc'[p].at \notin Recordings BY <1>12 DEF MovesIn, Recordings
  <2>2. "suggest" \notin Recordings \cup {"idle"} BY DEF Recordings
  <2>3. At(p, "suggest") /\ proc'[p].cmd = proc[p].cmd BY <1>12, SuggestTo DEF SuggestMove
  <2> QED BY <1>12, <2>1, <2>2, <2>3 DEF LedgerElsewhere, SuggestMove
<1>13. CASE DieMove(p) /\ proc'[p] = Idle
  <2>1. proc'[p].at \notin Recordings BY <1>2, <1>13 DEF Recordings
  <2> QED BY <1>2, <1>13, <2>1 DEF LedgerElsewhere, DieMove
<1> QED BY <1>5, <1>6, <1>7, <1>8, <1>9, <1>10, <1>11, <1>12, <1>13 DEF Moved
-----------------------------------------------------------------------------
(* The tables of the ledger, and what a promotion has recorded where it    *)
(* stands.                                                                 *)
LogOK ==
  /\ \E S : log \in Seq(S)
  /\ \A i, k \in DOMAIN log : log[i].cs = log[k].cs => i = k
TodoFresh ==
  \A c \in todo : Promotes(c) => ~InLog(c.cs) /\ \A d \in todo : Promotes(d) /\ d.cs = c.cs => d = c
RulesOK == DOMAIN rules = DOMAIN DefaultRules /\ \A r \in DOMAIN rules \ tuned : rules[r].enabled
CostFields == {"agent", "model", "used", "lines", "at"}
CostsOK ==
  \A cs \in DOMAIN costs : InLog(cs) /\ DOMAIN costs[cs] = CostFields /\ costs[cs].used \in Nat
AnomaliesOK ==
  /\ \E S : anomalies \in Seq(S)
  /\ \A n \in DOMAIN anomalies : anomalies[n].rule \in DOMAIN rules

Recorded(cs) == InLog(cs) /\ cs \in DOMAIN costs /\ costs[cs].lines = ChangesetDelta(cs).lines
Caught(cs) ==
  costs[cs].lines > rules["large-changeset"].threshold /\ "large-changeset" \notin tuned =>
    \E n \in DOMAIN anomalies : anomalies[n].rule = "large-changeset" /\ anomalies[n].cs = cs

Detecting == {"detect.rule", "detect.raise"}
Lefts == {Checks, <<"unusual-scope", "burst-activity">>, <<"burst-activity">>}

LedgerHand(s) ==
  /\ s.at = "configure.switch" => s.cmd.rule \in tuned
  /\ s.at \in Detecting =>
       /\ DOMAIN s.mem = {"left", "value"} /\ s.mem.left \in Lefts
       /\ s.mem.value["large-changeset"] = ChangesetDelta(s.cmd.cs).lines
  /\ s.cmd.op = "promote" =>
       /\ InLog(s.cmd.cs)
       /\ s.at # "cost" => Recorded(s.cmd.cs)
       /\ s.at \notin {"cost", "detect"} /\ (s.at \in Detecting => s.mem.left # Checks) => Caught(s.cmd.cs)

LedgerInv ==
  /\ LogOK /\ TodoFresh /\ RulesOK /\ CostsOK /\ AnomaliesOK
  /\ \A p \in Proc : LedgerHand(proc[p])

(* What steps do to the tables.                                            *)
LogGrows ==
  \/ log' = log /\ todo' \subseteq todo
  \/ \E c \in todo : /\ Promotes(c) /\ todo' = todo \ {c}
                     /\ \E row : row.cs = c.cs /\ log' = Append(log, row)
CostsGrow ==
  /\ DOMAIN costs \subseteq DOMAIN costs'
  /\ \A cs \in DOMAIN costs : costs'[cs].lines \in {costs[cs].lines, ChangesetDelta(cs).lines}
RulesChange ==
  /\ DOMAIN rules' = DOMAIN rules /\ tuned \subseteq tuned'
  /\ \A r \in DOMAIN rules : rules'[r] = rules[r] \/ r \in tuned'
AnomaliesGrow ==
  /\ DOMAIN anomalies \subseteq DOMAIN anomalies'
  /\ \A n \in DOMAIN anomalies : anomalies'[n].rule = anomalies[n].rule /\ anomalies'[n].cs = anomalies[n].cs

LEMMA PlaceIs ==
  ASSUME LogOK, NEW i \in DOMAIN log
  PROVE  Place(log[i].cs) = i BY DEF LogOK, Place

LEMMA LogKept ==
  ASSUME LogOK, TodoFresh, LogGrows
  PROVE  /\ LogOK' /\ TodoFresh'
         /\ \A cs : InLog(cs) => InLog(cs)' /\ ChangesetDelta(cs)' = ChangesetDelta(cs)
<1>1. CASE log' = log /\ todo' \subseteq todo
  <2>1. LogOK' BY <1>1 DEF LogOK
  <2>2. \A cs : InLog(cs)' = InLog(cs) BY <1>1 DEF InLog
  <2>3. TodoFresh' BY <1>1, <2>2 DEF TodoFresh
  <2>4. \A cs : ChangesetDelta(cs)' = ChangesetDelta(cs) BY <1>1 DEF ChangesetDelta, Place
  <2> QED BY <2>1, <2>2, <2>3, <2>4
<1>2. ASSUME NEW c \in todo, Promotes(c), todo' = todo \ {c}, NEW row, row.cs = c.cs, log' = Append(log, row)
      PROVE  /\ LogOK' /\ TodoFresh'
             /\ \A cs : InLog(cs) => InLog(cs)' /\ ChangesetDelta(cs)' = ChangesetDelta(cs)
  <2>1. PICK S : log \in Seq(S) BY DEF LogOK
  <2>2. /\ Len(log) \in Nat /\ DOMAIN log = 1 .. Len(log) /\ DOMAIN log' = 1 .. Len(log) + 1
        /\ log'[Len(log) + 1] = row /\ \A i \in DOMAIN log : log'[i] = log[i] BY <1>2, <2>1
  <2>3. log' \in Seq(S \cup {row})
    <3>1. log \in Seq(S \cup {row}) BY <2>1
    <3> QED BY <1>2, <3>1
  <2>4. ~InLog(c.cs) BY <1>2 DEF TodoFresh
  <2>5. \A i, k \in DOMAIN log' : log'[i].cs = log'[k].cs => i = k
    <3>1. \A i \in DOMAIN log : log[i].cs # row.cs BY <1>2, <2>4 DEF InLog
    <3>2. \A i \in DOMAIN log' : i \in DOMAIN log \/ i = Len(log) + 1 BY <2>2
    <3>3. \A i, k \in DOMAIN log : log[i].cs = log[k].cs => i = k BY DEF LogOK
    <3> HIDE <1>2
    <3> QED BY <2>2, <3>1, <3>2, <3>3
  <2>6. LogOK' BY <2>3, <2>5 DEF LogOK
  <2>7. \A cs : InLog(cs)' <=> InLog(cs) \/ cs = c.cs
    <3>1. \A i \in DOMAIN log' : i \in DOMAIN log \/ i = Len(log) + 1 BY <2>2
    <3>2. Len(log) + 1 \in DOMAIN log' /\ DOMAIN log \subseteq DOMAIN log' BY <2>2
    <3> QED BY <1>2, <2>2, <3>1, <3>2 DEF InLog
  <2>8. TodoFresh' BY <1>2, <2>7 DEF TodoFresh
  <2>9. ASSUME NEW cs, InLog(cs) PROVE ChangesetDelta(cs)' = ChangesetDelta(cs)
    <3>1. PICK i \in DOMAIN log : log[i].cs = cs BY <2>9 DEF InLog
    <3>2. Place(cs) = i BY <3>1, PlaceIs
    <3>3. i \in DOMAIN log' /\ log'[i] = log[i] BY <2>2
    <3>4. Place(cs)' = i BY <2>6, <3>1, <3>3 DEF LogOK, Place
    <3>5. i # 1 => i - 1 \in DOMAIN log BY <2>2
    <3>6. i # 1 => log'[i - 1] = log[i - 1] BY <2>2, <3>5
    <3> QED BY <3>2, <3>3, <3>4, <3>6 DEF ChangesetDelta
  <2> QED BY <2>6, <2>7, <2>8, <2>9
<1> QED BY <1>1, <1>2 DEF LogGrows

(* Nothing recorded of a changeset is lost, and no alarm for it.           *)
LEMMA RecordedKept ==
  ASSUME LogOK, TodoFresh, RulesOK, LogGrows, CostsGrow, RulesChange, AnomaliesGrow, NEW cs, Recorded(cs)
  PROVE  Recorded(cs)' /\ (Caught(cs) => Caught(cs)')
<1>1. InLog(cs)' /\ ChangesetDelta(cs)' = ChangesetDelta(cs) BY LogKept DEF Recorded
<1>2. cs \in DOMAIN costs' /\ costs'[cs].lines = costs[cs].lines BY DEF Recorded, CostsGrow
<1>3. Recorded(cs)' BY <1>1, <1>2 DEF Recorded
<1>4. ASSUME Caught(cs), costs'[cs].lines > rules'["large-changeset"].threshold, "large-changeset" \notin tuned'
      PROVE  \E n \in DOMAIN anomalies' : anomalies'[n].rule = "large-changeset" /\ anomalies'[n].cs = cs
  <2>1. "large-changeset" \in DOMAIN rules BY LedgerAssumption DEF RulesOK
  <2>2. rules'["large-changeset"] = rules["large-changeset"] /\ "large-changeset" \notin tuned
    BY <1>4, <2>1 DEF RulesChange
  <2>3. PICK n \in DOMAIN anomalies : anomalies[n].rule = "large-changeset" /\ anomalies[n].cs = cs
    BY <1>2, <1>4, <2>2 DEF Caught
  <2> QED BY <2>3 DEF AnomaliesGrow
<1> QED BY <1>3, <1>4 DEF Caught

LEMMA HandKept ==
  ASSUME LogOK, TodoFresh, RulesOK, LogGrows, CostsGrow, RulesChange, AnomaliesGrow, NEW s, LedgerHand(s),
         s.at \in Detecting => s.cmd.op = "promote"
  PROVE  LedgerHand(s)'
<1>1. s.at = "configure.switch" => s.cmd.rule \in tuned' BY DEF LedgerHand, RulesChange
<1>2. ASSUME s.cmd.op = "promote"
      PROVE  InLog(s.cmd.cs)' /\ ChangesetDelta(s.cmd.cs)' = ChangesetDelta(s.cmd.cs)
  BY <1>2, LogKept DEF LedgerHand
<1>3. ASSUME s.at \in Detecting
      PROVE  /\ DOMAIN s.mem = {"left", "value"} /\ s.mem.left \in Lefts
             /\ s.mem.value["large-changeset"] = ChangesetDelta(s.cmd.cs)'.lines BY <1>2, <1>3 DEF LedgerHand
<1>4. ASSUME s.cmd.op = "promote", s.at # "cost" PROVE Recorded(s.cmd.cs)' /\ (Caught(s.cmd.cs) => Caught(s.cmd.cs)')
  <2>1. Recorded(s.cmd.cs) BY <1>4 DEF LedgerHand
  <2> QED BY <2>1, RecordedKept
<1>5. ASSUME s.cmd.op = "promote", s.at \notin {"cost", "detect"}, s.at \in Detecting => s.mem.left # Checks
      PROVE  Caught(s.cmd.cs)' BY <1>4, <1>5 DEF LedgerHand
<1> QED BY <1>1, <1>2, <1>3, <1>4, <1>5 DEF LedgerHand

TablesMove ==
  /\ LogGrows /\ CostsGrow /\ RulesChange /\ AnomaliesGrow
  /\ RulesOK' /\ CostsOK' /\ AnomaliesOK'

LEMMA TablesStay ==
  ASSUME LedgerInv, UNCHANGED <<log, costs, rules, anomalies, tuned>>, todo' \subseteq todo
  PROVE  TablesMove
<1>1. LogGrows /\ CostsGrow /\ RulesChange /\ AnomaliesGrow
  BY DEF LogGrows, CostsGrow, RulesChange, AnomaliesGrow
<1>2. RulesOK' /\ CostsOK' /\ AnomaliesOK' BY DEF LedgerInv, RulesOK, CostsOK, AnomaliesOK, InLog
<1> QED BY <1>1, <1>2 DEF TablesMove

LEMMA UsageRow ==
  ASSUME CostsOK, NEW c, c.cost \in Nat, costs' = AddUsage(c)
  PROVE  /\ DOMAIN costs' = DOMAIN costs \cup {c.cs}
         /\ \A cs \in DOMAIN costs \ {c.cs} : costs'[cs] = costs[cs]
         /\ DOMAIN costs'[c.cs] = CostFields
         /\ costs'[c.cs].used = (IF c.cs \in DOMAIN costs THEN costs[c.cs].used ELSE 0) + c.cost
         /\ c.cs \in DOMAIN costs => costs'[c.cs].lines = costs[c.cs].lines
<1>1. CASE c.cs \in DOMAIN costs
  <2>1. costs' = [costs EXCEPT ![c.cs].used = @ + c.cost,
                               ![c.cs].agent = IF c.agent = "" THEN @ ELSE c.agent,
                               ![c.cs].model = IF c.model = "" THEN @ ELSE c.model] BY <1>1 DEF AddUsage
  <2>2. DOMAIN costs' = DOMAIN costs /\ \A cs \in DOMAIN costs \ {c.cs} : costs'[cs] = costs[cs] BY <2>1
  <2>3. DOMAIN costs[c.cs] = CostFields BY <1>1 DEF CostsOK
  <2>4. costs'[c.cs] = [costs[c.cs] EXCEPT !.used = @ + c.cost,
                                           !.agent = IF c.agent = "" THEN @ ELSE c.agent,
                                           !.model = IF c.model = "" THEN @ ELSE c.model] BY <1>1, <2>1
  <2>5. /\ DOMAIN costs'[c.cs] = CostFields /\ costs'[c.cs].used = costs[c.cs].used + c.cost
        /\ costs'[c.cs].lines = costs[c.cs].lines BY <2>3, <2>4 DEF CostFields
  <2> QED BY <1>1, <2>2, <2>5
<1>2. CASE c.cs \notin DOMAIN costs
  <2> DEFINE row == [agent |-> c.agent, model |-> c.model, used |-> c.cost, lines |-> 0, at |-> now]
  <2>1. costs' = Replaced(costs, c.cs, row) BY <1>2 DEF AddUsage
  <2>2. DOMAIN row = CostFields /\ row.used = 0 + c.cost BY DEF CostFields
  <2> HIDE DEF row
  <2>3. /\ DOMAIN costs' = DOMAIN costs \cup {c.cs} /\ costs'[c.cs] = row
        /\ \A cs \in DOMAIN costs : costs'[cs] = costs[cs] BY <1>2, <2>1 DEF Replaced
  <2> QED BY <1>2, <2>2, <2>3
<1> QED BY <1>1, <1>2

LEMMA UsageAdded ==
  ASSUME CostsOK, NEW c, c.cost \in Nat, InLog(c.cs), costs' = AddUsage(c), UNCHANGED log
  PROVE  CostsGrow /\ CostsOK'
<1>1. \A cs : InLog(cs)' = InLog(cs) BY DEF InLog
<1>2. c.cs \in DOMAIN costs => costs[c.cs].used \in Nat BY DEF CostsOK
<1>3. PICK by, to : by = costs /\ to = costs' OBVIOUS
<1>4. /\ DOMAIN to = DOMAIN by \cup {c.cs} /\ \A cs \in DOMAIN by \ {c.cs} : to[cs] = by[cs]
      /\ DOMAIN to[c.cs] = CostFields
      /\ c.cs \in DOMAIN by => to[c.cs].lines = by[c.cs].lines
      /\ to[c.cs].used = (IF c.cs \in DOMAIN by THEN by[c.cs].used ELSE 0) + c.cost
  BY <1>3, UsageRow
<1> QED BY <1>1, <1>2, <1>3, <1>4 DEF CostsGrow, CostsOK

LEMMA CostWritten ==
  ASSUME Base, LedgerInv, NEW p \in Proc, Costed(p)
  PROVE  CostsGrow /\ CostsOK' /\ \A cs : cs = Cmd(p).cs => Recorded(cs)'
<1>0. PICK own : own = Cmd(p).cs OBVIOUS
<1>1. InLog(own)
  <2>1. Cmd(p).op = "promote" BY OpOf DEF Costed, LabelsOf
  <2> QED BY <1>0, <2>1 DEF LedgerInv, LedgerHand, Cmd
<1>2. PICK agent, at : costs' = Replaced(costs, own, [agent |-> agent, model |-> "human", used |-> 0,
                                                      lines |-> ChangesetDelta(own).lines, at |-> at])
  BY <1>0 DEF Costed
<1> DEFINE row == [agent |-> agent, model |-> "human", used |-> 0, lines |-> ChangesetDelta(own).lines, at |-> at]
<1>3. DOMAIN row = CostFields /\ row.used = 0 /\ row.lines = ChangesetDelta(own).lines BY DEF CostFields
<1>4. costs' = Replaced(costs, own, row) BY <1>2
<1> HIDE DEF row
<1>5. /\ DOMAIN costs' = DOMAIN costs \cup {own} /\ costs'[own] = row
      /\ \A cs \in DOMAIN costs \ {own} : costs'[cs] = costs[cs] BY <1>4 DEF Replaced
<1>6. \A cs : InLog(cs)' = InLog(cs) /\ ChangesetDelta(cs)' = ChangesetDelta(cs)
  BY DEF InLog, Costed, ChangesetDelta, Place
<1>7. CostsGrow BY <1>3, <1>5 DEF CostsGrow
<1>8. CostsOK' BY <1>1, <1>3, <1>5, <1>6 DEF CostsOK, LedgerInv
<1>9. InLog(own)' /\ own \in DOMAIN costs' /\ costs'[own].lines = ChangesetDelta(own)'.lines
  BY <1>1, <1>3, <1>5, <1>6
<1>10. Recorded(own)' BY <1>9 DEF Recorded
<1> QED BY <1>0, <1>7, <1>8, <1>10

LEMMA RuleSet ==
  ASSUME RulesOK, NEW r, NEW f \in {"threshold", "enabled"}, NEW v, r \in tuned',
         tuned \subseteq tuned', \/ f = "threshold" /\ rules' = [rules EXCEPT ![r].threshold = v]
                                 \/ f = "enabled" /\ rules' = [rules EXCEPT ![r].enabled = v]
  PROVE  RulesChange /\ RulesOK'
<1>1. DOMAIN rules' = DOMAIN rules /\ \A q \in DOMAIN rules : rules'[q] = rules[q] \/ q = r OBVIOUS
<1>2. RulesChange BY <1>1 DEF RulesChange
<1>3. RulesOK' BY <1>1 DEF RulesOK
<1> QED BY <1>2, <1>3

LEMMA AlarmAdded ==
  ASSUME AnomaliesOK, RulesOK, NEW row, row.rule \in DOMAIN rules, anomalies' = Append(anomalies, row), UNCHANGED rules
  PROVE  /\ AnomaliesGrow /\ AnomaliesOK'
         /\ \E n \in DOMAIN anomalies' : anomalies'[n] = row
<1>1. PICK S : anomalies \in Seq(S) BY DEF AnomaliesOK
<1>2. anomalies' \in Seq(S \cup {row})
  <2>1. anomalies \in Seq(S \cup {row}) BY <1>1
  <2> QED BY <2>1
<1>3. /\ Len(anomalies) \in Nat /\ DOMAIN anomalies = 1 .. Len(anomalies)
      /\ DOMAIN anomalies' = 1 .. Len(anomalies) + 1
      /\ anomalies'[Len(anomalies) + 1] = row /\ \A n \in DOMAIN anomalies : anomalies'[n] = anomalies[n]
  BY <1>1
<1>4. DOMAIN anomalies \subseteq DOMAIN anomalies' /\ Len(anomalies) + 1 \in DOMAIN anomalies'
      /\ \A n \in DOMAIN anomalies' : n \in DOMAIN anomalies \/ n = Len(anomalies) + 1 BY <1>3
<1>5. AnomaliesGrow BY <1>3, <1>4 DEF AnomaliesGrow
<1>6. \A n \in DOMAIN anomalies' : anomalies'[n].rule \in DOMAIN rules' BY <1>3, <1>4 DEF AnomaliesOK
<1> QED BY <1>2, <1>3, <1>4, <1>5, <1>6 DEF AnomaliesOK

LEMMA SeqOf ==
  ASSUME NEW T, NEW m \in Nat, NEW f \in [1 .. m -> T]
  PROVE  f \in Seq(T) OBVIOUS

LEMMA AlarmSettled ==
  ASSUME AnomaliesOK, NEW id, UNCHANGED rules,
         anomalies' = [n \in DOMAIN anomalies |->
                         IF n = id THEN [anomalies[n] EXCEPT !.resolved = TRUE] ELSE anomalies[n]]
  PROVE  AnomaliesGrow /\ AnomaliesOK'
<1>1. PICK S : anomalies \in Seq(S) BY DEF AnomaliesOK
<1>2. Len(anomalies) \in Nat /\ DOMAIN anomalies = 1 .. Len(anomalies) /\ DOMAIN anomalies' = DOMAIN anomalies
  BY <1>1
<1>3. \A n \in DOMAIN anomalies : /\ anomalies'[n].rule = anomalies[n].rule /\ anomalies'[n].cs = anomalies[n].cs
  OBVIOUS
<1>4. PICK T, m : m = Len(anomalies) /\ T = {anomalies'[n] : n \in DOMAIN anomalies} OBVIOUS
<1>5. anomalies' \in Seq(T)
  <2>1. m \in Nat /\ \A n \in 1 .. m : anomalies'[n] \in T BY <1>2, <1>4
  <2>2. anomalies' \in [1 .. m -> T] BY <1>2, <1>4, <2>1
  <2> QED BY <2>1, <2>2, SeqOf
<1>6. AnomaliesGrow BY <1>2, <1>3 DEF AnomaliesGrow
<1>7. AnomaliesOK' BY <1>2, <1>3, <1>5 DEF AnomaliesOK
<1> QED BY <1>6, <1>7

LEMMA TablesCost ==
  ASSUME Base, LedgerInv, NEW p \in Proc, CostMove(p), Moves(p)
  PROVE  TablesMove
<1> USE DEF At, Cmd
<1>1. LogOK /\ TodoFresh /\ RulesOK /\ CostsOK /\ AnomaliesOK /\ todo' \subseteq todo BY DEF LedgerInv, Moves
<1>2. CASE Costed(p)
  <2>1. CostsGrow /\ CostsOK' BY <1>2, CostWritten
  <2>2. LogGrows /\ RulesChange /\ AnomaliesGrow BY <1>1, <1>2 DEF Costed, LogGrows, RulesChange, AnomaliesGrow
  <2>3. RulesOK' /\ AnomaliesOK' BY <1>1, <1>2 DEF Costed, RulesOK, AnomaliesOK
  <2> QED BY <2>1, <2>2, <2>3 DEF TablesMove
<1>3. CASE Reported(p)
  <2>1. PICK c \in todo : c.op = "report" /\ InLog(c.cs) /\ costs' = AddUsage(c) BY <1>3 DEF Reported
  <2>2. c.cost \in Nat BY <2>1 DEF Base, TodoOK, CommandOK
  <2>3. CostsGrow /\ CostsOK' BY <1>1, <1>3, <2>1, <2>2, UsageAdded DEF Reported
  <2>4. LogGrows /\ RulesChange /\ AnomaliesGrow BY <1>1, <1>3 DEF Reported, LogGrows, RulesChange, AnomaliesGrow
  <2>5. RulesOK' /\ AnomaliesOK' BY <1>1, <1>3 DEF Reported, RulesOK, AnomaliesOK
  <2> QED BY <2>3, <2>4, <2>5 DEF TablesMove
<1>4. CASE Logged(p)
  <2>1. LogGrows BY <1>4 DEF Logged, LogGrows
  <2>2. CostsGrow /\ RulesChange /\ AnomaliesGrow BY <1>4 DEF Logged, CostsGrow, RulesChange, AnomaliesGrow
  <2>3. RulesOK' /\ AnomaliesOK' BY <1>1, <1>4 DEF Logged, RulesOK, AnomaliesOK
  <2>4. \A cs : InLog(cs) => InLog(cs)' BY <1>1, <2>1, LogKept
  <2>5. CostsOK' BY <1>1, <1>4, <2>4 DEF Logged, CostsOK
  <2> QED BY <2>1, <2>2, <2>3, <2>5 DEF TablesMove
<1>5. CASE Switched(p)
  <2>1. proc[p].cmd.rule \in tuned BY <1>5 DEF Switched, LedgerInv, LedgerHand
  <2>2. RulesChange /\ RulesOK' BY <1>1, <1>5, <2>1, RuleSet DEF Switched
  <2>3. LogGrows /\ CostsGrow /\ AnomaliesGrow BY <1>1, <1>5 DEF Switched, LogGrows, CostsGrow, AnomaliesGrow
  <2>4. CostsOK' BY <1>1, <1>5 DEF Switched, CostsOK, InLog
  <2>5. AnomaliesOK' BY <1>1, <1>5, <2>2 DEF Switched, AnomaliesOK, RulesChange
  <2> QED BY <2>2, <2>3, <2>4, <2>5 DEF TablesMove
<1>6. CASE Tuned(p)
  <2>1. PICK c \in todo : /\ tuned' = tuned \cup {c.rule}
                          /\ \/ rules' = rules \/ rules' = [rules EXCEPT ![c.rule].threshold = c.threshold]
    BY <1>6 DEF Tuned
  <2>2. RulesChange /\ RulesOK'
    <3>1. CASE rules' = rules BY <1>1, <2>1, <3>1 DEF RulesChange, RulesOK
    <3>2. CASE rules' = [rules EXCEPT ![c.rule].threshold = c.threshold] BY <1>1, <2>1, <3>2, RuleSet
    <3> QED BY <2>1, <3>1, <3>2
  <2>3. LogGrows /\ CostsGrow /\ AnomaliesGrow BY <1>1, <1>6 DEF Tuned, LogGrows, CostsGrow, AnomaliesGrow
  <2>4. CostsOK' BY <1>1, <1>6 DEF Tuned, CostsOK, InLog
  <2>5. AnomaliesOK' BY <1>1, <1>6, <2>2 DEF Tuned, AnomaliesOK, RulesChange
  <2> QED BY <2>2, <2>3, <2>4, <2>5 DEF TablesMove
<1>7. CASE Settled(p)
  <2>1. AnomaliesGrow /\ AnomaliesOK' BY <1>1, <1>7, AlarmSettled DEF Settled
  <2>2. LogGrows /\ CostsGrow /\ RulesChange BY <1>1, <1>7 DEF Settled, LogGrows, CostsGrow, RulesChange
  <2>3. RulesOK' /\ CostsOK' BY <1>1, <1>7 DEF Settled, RulesOK, CostsOK, InLog
  <2> QED BY <2>1, <2>2, <2>3 DEF TablesMove
<1>8. CASE Budgeted(p) BY <1>1, <1>8, TablesStay DEF Budgeted
<1> QED BY <1>2, <1>3, <1>4, <1>5, <1>6, <1>7, <1>8, CostDoes

LEMMA LeftsAre ==
  ASSUME NEW left \in Lefts
  PROVE  /\ Head(left) \in {"large-changeset", "unusual-scope", "burst-activity"}
         /\ left = Checks <=> Head(left) = "large-changeset"
         /\ Len(left) # 1 => Tail(left) \in Lefts \ {Checks}
         /\ Len(left) = 1 => left # Checks
<1>1. CASE left = Checks
  <2>1. left = <<"large-changeset", "unusual-scope", "burst-activity">> BY <1>1 DEF Checks
  <2>2. Tail(left) = <<"unusual-scope", "burst-activity">> /\ Head(left) = "large-changeset" /\ Len(left) = 3 BY <2>1
  <2>3. <<"unusual-scope", "burst-activity">> # Checks
    <3>1. Head(<<"unusual-scope", "burst-activity">>) # Head(Checks) BY DEF Checks
    <3> QED BY <3>1
  <2> QED BY <1>1, <2>2, <2>3 DEF Lefts
<1>2. CASE left = <<"unusual-scope", "burst-activity">>
  <2>1. Tail(left) = <<"burst-activity">> /\ Head(left) = "unusual-scope" /\ Len(left) = 2 BY <1>2
  <2>2. Head(Checks) = "large-changeset" BY DEF Checks
  <2>3. Head(<<"burst-activity">>) = "burst-activity" OBVIOUS
  <2>4. left # Checks /\ <<"burst-activity">> # Checks BY <2>1, <2>2, <2>3
  <2> QED BY <2>1, <2>4 DEF Lefts
<1>3. CASE left = <<"burst-activity">>
  <2>1. Head(left) = "burst-activity" /\ Len(left) = 1 BY <1>3
  <2>2. Head(Checks) = "large-changeset" BY DEF Checks
  <2> QED BY <2>1, <2>2
<1> QED BY <1>1, <1>2, <1>3 DEF Lefts

LEMMA TablesDetect ==
  ASSUME Base, LedgerInv, NEW p \in Proc, DetectMove(p), Moves(p)
  PROVE  TablesMove /\ (Alarmed(p) => \E n \in DOMAIN anomalies' : /\ anomalies'[n].rule = Head(Mem(p).left)
                                                                  /\ anomalies'[n].cs = Cmd(p).cs)
<1> USE DEF At, Cmd, Mem
<1>1. LogOK /\ TodoFresh /\ RulesOK /\ CostsOK /\ AnomaliesOK /\ todo' \subseteq todo BY DEF LedgerInv, Moves
<1>2. CASE UNCHANGED ledgerVars
  <2>1. TablesMove BY <1>1, <1>2, TablesStay DEF ledgerVars
  <2>2. Alarmed(p) => FALSE
    <3>1. ASSUME Alarmed(p) PROVE FALSE
      <4>1. PICK S : anomalies \in Seq(S) BY <1>1 DEF AnomaliesOK
      <4>2. PICK row : anomalies' = Append(anomalies, row) BY <3>1 DEF Alarmed
      <4>3. Len(anomalies') = Len(anomalies) + 1 /\ Len(anomalies) \in Nat BY <4>1, <4>2
      <4> QED BY <1>2, <4>3 DEF ledgerVars
    <3> QED BY <3>1
  <2> QED BY <2>1, <2>2
<1>3. CASE Alarmed(p)
  <2>1. PICK value : anomalies' = Append(anomalies, [rule |-> Head(Mem(p).left), cs |-> Cmd(p).cs,
                                                     value |-> value, resolved |-> FALSE]) BY <1>3 DEF Alarmed
  <2> DEFINE row == [rule |-> Head(Mem(p).left), cs |-> Cmd(p).cs, value |-> value, resolved |-> FALSE]
  <2>2. Mem(p).left \in Lefts BY <1>3 DEF Alarmed, LedgerInv, LedgerHand, Detecting
  <2>3. Head(Mem(p).left) \in DOMAIN rules
    <3>1. DOMAIN rules = {"large-changeset", "unusual-scope", "burst-activity"}
      BY <1>1, LedgerAssumption DEF RulesOK
    <3>2. Head(Mem(p).left) \in {"large-changeset", "unusual-scope", "burst-activity"} BY <2>2, LeftsAre
    <3> QED BY <3>1, <3>2
  <2>4. row.rule \in DOMAIN rules /\ row.rule = Head(Mem(p).left) /\ row.cs = Cmd(p).cs BY <2>3
  <2>5. anomalies' = Append(anomalies, row) BY <2>1
  <2> HIDE DEF row
  <2>6. /\ AnomaliesGrow /\ AnomaliesOK'
        /\ \E n \in DOMAIN anomalies' : anomalies'[n] = row BY <1>1, <1>3, <2>4, <2>5, AlarmAdded DEF Alarmed
  <2>7. LogGrows /\ CostsGrow /\ RulesChange BY <1>1, <1>3 DEF Alarmed, LogGrows, CostsGrow, RulesChange
  <2>8. RulesOK' /\ CostsOK' BY <1>1, <1>3 DEF Alarmed, RulesOK, CostsOK, InLog
  <2> QED BY <2>4, <2>6, <2>7, <2>8 DEF TablesMove
<1> QED BY <1>2, <1>3, DetectDoes DEF Sized, Tested

LEMMA PromoteAt ==
  ASSUME NEW s, ProcOK(s)
  PROVE  /\ s.at \in Detecting \cup {"cost", "detect"} => s.cmd.op = "promote"
         /\ s.at = "configure.switch" => s.cmd.op = "configure"
         /\ s.at = "idle" => s.cmd.op # "promote"
<1>1. s.at \in Detecting \cup {"cost", "detect"} => s.at # "idle" BY DEF Detecting
<1>2. s.at # "idle" => s.at \in LabelsOf(s.cmd.op) BY DEF ProcOK
<1>3. s.at = "idle" => s.cmd.op # "promote" BY DEF ProcOK, Idle, NoCmd, None
<1> QED BY <1>1, <1>2, <1>3 DEF LabelsOf, Detecting

LEMMA HandNext ==
  ASSUME NEW p \in Proc, NEW s, s = proc'[p], LedgerHand(s)'
  PROVE  LedgerHand(proc[p])' BY DEF LedgerHand, Recorded, Caught, InLog, ChangesetDelta, Place

LEMMA HandMoves ==
  ASSUME Base, LedgerInv, TablesMove, NEW p \in Proc, NEW s, s = proc'[p], ProcOK(s),
         proc[p].at \notin Detecting, s.at \notin Recordings \/ s.at = "detect",
         s.cmd.op = "promote" => s.cmd = proc[p].cmd /\ proc[p].at \notin {"cost", "detect"}
  PROVE  LedgerHand(s)'
<1>1. s.at \notin Detecting /\ s.at # "configure.switch" BY DEF Recordings, Detecting
<1>2. ASSUME s.cmd.op = "promote"
      PROVE  InLog(s.cmd.cs)' /\ Recorded(s.cmd.cs)' /\ Caught(s.cmd.cs)'
  <2>1. LedgerHand(proc[p]) /\ proc[p].cmd = s.cmd BY <1>2 DEF LedgerInv
  <2>2. proc[p].at \notin {"cost", "detect"} BY <1>2
  <2>3. Recorded(s.cmd.cs) /\ Caught(s.cmd.cs) BY <1>2, <2>1, <2>2 DEF LedgerHand
  <2>4. Recorded(s.cmd.cs)' /\ Caught(s.cmd.cs)' BY <2>3, RecordedKept DEF TablesMove, LedgerInv
  <2> QED BY <2>4 DEF Recorded
<1> QED BY <1>1, <1>2 DEF LedgerHand

LEMMA HandElsewhere ==
  ASSUME Base, LedgerInv, TablesMove, NEW p \in Proc, Moves(p), LedgerElsewhere(p)
  PROVE  LedgerHand(proc[p])'
<1>1. PICK s : s = proc'[p] OBVIOUS
<1>2. ProcOK(s) /\ ProcOK(proc[p]) BY <1>1 DEF Moves, Base, ProcsOK
<1>3. CASE s.cmd.op = "promote"
  <2>1. s.cmd = proc[p].cmd /\ proc[p].at \notin Recordings BY <1>1, <1>3 DEF LedgerElsewhere
  <2>2. proc[p].at \notin Detecting /\ proc[p].at \notin {"cost", "detect"} /\ s.at \notin Recordings
    BY <1>1, <2>1 DEF Recordings, Detecting, LedgerElsewhere
  <2> QED BY <1>1, <1>2, <2>1, <2>2, HandMoves, HandNext
<1>4. CASE s.cmd.op # "promote"
  <2>1. s.at # "configure.switch" /\ s.at \notin Detecting BY <1>1 DEF LedgerElsewhere, Recordings, Detecting
  <2>2. LedgerHand(s)' BY <1>4, <2>1 DEF LedgerHand
  <2> QED BY <1>1, <2>2, HandNext
<1> QED BY <1>3, <1>4

LEMMA HandStays ==
  ASSUME Base, LedgerInv, TablesMove, NEW p \in Proc, proc'[p] = proc[p]
  PROVE  LedgerHand(proc[p])'
<1>1. PICK s : s = proc[p] OBVIOUS
<1>2. ProcOK(s) /\ LedgerHand(s) BY <1>1 DEF Base, ProcsOK, LedgerInv
<1>3. LedgerHand(s)' BY <1>2, PromoteAt, HandKept DEF LedgerInv, TablesMove
<1> QED BY <1>1, <1>3, HandNext

LEMMA HandCost ==
  ASSUME Base, LedgerInv, TablesMove, NEW p \in Proc, Moves(p), CostMove(p)
  PROVE  LedgerHand(proc[p])'
<1> USE DEF At, Cmd
<1>1. PICK s : s = proc'[p] OBVIOUS
<1>2. ProcOK(s) /\ ProcOK(proc[p]) BY <1>1 DEF Moves, Base, ProcsOK
<1>3. CASE proc' = proc BY <1>3, HandStays
<1>4. CASE Costed(p)
  <2>1. s.at = "detect" /\ s.cmd = proc[p].cmd BY <1>1, <1>4 DEF Costed
  <2>2. Recorded(s.cmd.cs)' BY <1>4, <2>1, CostWritten
  <2>3. s.at \notin Detecting BY <2>1 DEF Detecting
  <2>4. LedgerHand(s)' BY <2>1, <2>2, <2>3 DEF LedgerHand, Recorded
  <2> QED BY <1>1, <2>4, HandNext
<1>5. CASE Switched(p)
  <2>1. s = Idle BY <1>1, <1>5 DEF Switched
  <2>2. LedgerHand(s)' BY <2>1 DEF LedgerHand, Idle, NoCmd, None, Detecting
  <2> QED BY <1>1, <2>2, HandNext
<1>6. ASSUME NEW c \in todo, NEW row, row.cs = c.cs, log' = Append(log, row), s.at = "cost", s.cmd = c
      PROVE  LedgerHand(proc[p])'
  <2>1. PICK S : log \in Seq(S) BY DEF LedgerInv, LogOK
  <2>2. Len(log) + 1 \in DOMAIN log' /\ log'[Len(log) + 1] = row BY <1>6, <2>1
  <2>3. InLog(c.cs)' BY <1>6, <2>2 DEF InLog
  <2>4. LedgerHand(s)' BY <1>6, <2>3 DEF LedgerHand, Detecting
  <2> QED BY <1>1, <2>4, HandNext
<1>7. ASSUME NEW c \in todo, tuned' = tuned \cup {c.rule}, s.at = "configure.switch", s.cmd = c
      PROVE  LedgerHand(proc[p])'
  <2>1. s.cmd.op = "configure" BY <1>2, <1>7, PromoteAt
  <2>2. LedgerHand(s)' BY <1>7, <2>1 DEF LedgerHand, Detecting
  <2> QED BY <1>1, <2>2, HandNext
<1>8. CASE Logged(p) BY <1>1, <1>3, <1>6, <1>8 DEF Logged
<1>9. CASE Tuned(p) BY <1>1, <1>3, <1>7, <1>9 DEF Tuned
<1>10. CASE Reported(p) \/ Settled(p) \/ Budgeted(p) BY <1>3, <1>10 DEF Reported, Settled, Budgeted
<1> QED BY <1>4, <1>5, <1>8, <1>9, <1>10, CostDoes

LEMMA HandDetect ==
  ASSUME Base, LedgerInv, NEW p \in Proc, Moves(p), DetectMove(p)
  PROVE  LedgerHand(proc[p])'
<1> USE DEF At, Cmd, Mem
<1>1. PICK s : s = proc'[p] OBVIOUS
<1>2. PICK o : o = proc[p] OBVIOUS
<1>3. LedgerHand(o) /\ ProcOK(o) BY <1>2 DEF Base, ProcsOK, LedgerInv
<1>4. TablesMove BY TablesDetect
<1>5. o.at \in Detecting \cup {"detect"} BY <1>2, DetectDoes DEF Sized, Tested, Alarmed, Detecting
<1>6. o.cmd.op = "promote" BY <1>3, <1>5, PromoteAt
<1>7. Recorded(o.cmd.cs) /\ InLog(o.cmd.cs) BY <1>3, <1>5, <1>6 DEF LedgerHand, Detecting
<1>8. Recorded(o.cmd.cs)' /\ (Caught(o.cmd.cs) => Caught(o.cmd.cs)') /\ InLog(o.cmd.cs)'
  BY <1>4, <1>7, RecordedKept DEF TablesMove, LedgerInv, Recorded
<1>9. ChangesetDelta(o.cmd.cs)' = ChangesetDelta(o.cmd.cs) BY <1>4, <1>7, LogKept DEF TablesMove, LedgerInv
<1>10. CASE Sized(p)
  <2>1. "large-changeset" \in DOMAIN rules BY LedgerAssumption DEF LedgerInv, RulesOK
  <2>2. PICK f : s.mem = [left |-> Checks, value |-> f] /\ f["large-changeset"] = ChangesetDelta(o.cmd.cs).lines
    BY <1>1, <1>2, <1>10, <2>1 DEF Sized
  <2>3. s.at = "detect.rule" /\ s.cmd = o.cmd BY <1>1, <1>2, <1>10 DEF Sized
  <2>4. DOMAIN s.mem = {"left", "value"} /\ s.mem.left = Checks /\ s.mem.value["large-changeset"] = ChangesetDelta(s.cmd.cs)'.lines
    BY <1>9, <2>2, <2>3
  <2>5. s.at \in Detecting /\ Checks \in Lefts BY <2>3 DEF Detecting, Lefts
  <2>6. LedgerHand(s)' BY <1>8, <2>3, <2>4, <2>5 DEF LedgerHand
  <2> QED BY <1>1, <2>6, HandNext
<1>11. ASSUME Onward(p), o.at \in Detecting, Caught(o.cmd.cs)' PROVE LedgerHand(proc[p])'
  <2>1. DOMAIN o.mem = {"left", "value"} /\ o.mem.left \in Lefts /\ o.mem.value["large-changeset"] = ChangesetDelta(o.cmd.cs).lines
    BY <1>3, <1>11 DEF LedgerHand
  <2>2. s.cmd = o.cmd BY <1>1, <1>2, <1>11 DEF Onward
  <2>3. CASE s.at = "suggest"
    <3>1. s.at \notin Detecting /\ s.at # "configure.switch" BY <2>3 DEF Detecting
    <3> QED BY <1>1, <1>8, <1>11, <2>2, <3>1, HandNext DEF LedgerHand
  <2>4. CASE Len(o.mem.left) # 1 /\ s.at = "detect.rule" /\ s.mem = [o.mem EXCEPT !.left = Tail(@)]
    <3>1. DOMAIN s.mem = {"left", "value"} /\ s.mem.left = Tail(o.mem.left) /\ s.mem.value = o.mem.value
      BY <2>1, <2>4
    <3>2. s.mem.left \in Lefts BY <2>1, <2>4, <3>1, LeftsAre
    <3>3. s.mem.value["large-changeset"] = ChangesetDelta(s.cmd.cs)'.lines BY <1>9, <2>1, <2>2, <3>1
    <3>4. LedgerHand(s)' BY <1>8, <1>11, <2>2, <2>4, <3>1, <3>2, <3>3 DEF LedgerHand
    <3> QED BY <1>1, <3>4, HandNext
  <2> QED BY <1>1, <1>2, <1>11, <2>3, <2>4 DEF Onward
<1>12. CASE Tested(p)
  <2>1. o.at = "detect.rule" /\ o.at \in Detecting /\ UNCHANGED ledgerVars BY <1>2, <1>12 DEF Tested, Detecting
  <2>2. o.mem.left \in Lefts /\ o.mem.value["large-changeset"] = ChangesetDelta(o.cmd.cs).lines
    BY <1>3, <2>1 DEF LedgerHand
  <2>3. CASE s.cmd = o.cmd /\ s.at = "detect.raise" /\ s.mem = o.mem
    <3>1. DOMAIN o.mem = {"left", "value"} BY <1>3, <2>1 DEF LedgerHand
    <3>2. o.mem.left # Checks => Caught(o.cmd.cs) BY <1>3, <1>6, <2>1 DEF LedgerHand
    <3>3. s.at \in Detecting /\ s.at # "configure.switch" BY <2>3 DEF Detecting
    <3>4. LedgerHand(s)' BY <1>8, <1>9, <2>2, <2>3, <3>1, <3>2, <3>3 DEF LedgerHand
    <3> QED BY <1>1, <3>4, HandNext
  <2>4. CASE ~Exceeds(Head(o.mem.left), o.mem.value[Head(o.mem.left)]) /\ Onward(p)
    <3>1. Caught(o.cmd.cs)
      <4>1. CASE o.mem.left # Checks BY <1>3, <1>6, <2>1, <4>1 DEF LedgerHand
      <4>2. CASE o.mem.left = Checks
        <5>1. Head(o.mem.left) = "large-changeset" BY <2>2, <4>2, LeftsAre
        <5>2. ~Exceeds("large-changeset", costs[o.cmd.cs].lines) BY <1>7, <2>2, <2>4, <5>1 DEF Recorded
        <5>3. "large-changeset" \in DOMAIN rules BY LedgerAssumption DEF LedgerInv, RulesOK
        <5>4. "large-changeset" \notin tuned => rules["large-changeset"].enabled BY <5>3 DEF LedgerInv, RulesOK
        <5> QED BY <5>2, <5>4 DEF Exceeds, Caught
      <4> QED BY <4>1, <4>2
    <3>2. Caught(o.cmd.cs)' BY <1>8, <3>1
    <3> QED BY <1>11, <2>1, <2>4, <3>2
  <2> QED BY <1>1, <1>2, <1>12, <2>3, <2>4 DEF Tested
<1>13. CASE Alarmed(p)
  <2>1. o.at = "detect.raise" /\ o.at \in Detecting /\ Onward(p) BY <1>2, <1>13 DEF Alarmed, Detecting
  <2>2. o.mem.left \in Lefts BY <1>3, <2>1 DEF LedgerHand
  <2>3. Caught(o.cmd.cs)'
    <3>1. CASE o.mem.left # Checks
      <4>1. Caught(o.cmd.cs) BY <1>3, <1>6, <2>1, <3>1 DEF LedgerHand
      <4> QED BY <1>8, <4>1
    <3>2. CASE o.mem.left = Checks
      <4>1. Head(o.mem.left) = "large-changeset" BY <2>2, <3>2, LeftsAre
      <4>2. PICK n \in DOMAIN anomalies' : anomalies'[n].rule = "large-changeset" /\ anomalies'[n].cs = o.cmd.cs
        BY <1>2, <1>13, <4>1, TablesDetect
      <4> QED BY <4>2 DEF Caught
    <3> QED BY <3>1, <3>2
  <2> QED BY <1>11, <2>1, <2>3
<1> QED BY <1>10, <1>12, <1>13, DetectDoes

LEMMA TablesAlways == Base /\ LedgerInv /\ [Next]_vars => TablesMove
<1> SUFFICES ASSUME Base, LedgerInv, [Next]_vars PROVE TablesMove OBVIOUS
<1>1. CASE Still
  <2>1. UNCHANGED <<log, costs, rules, anomalies, tuned, todo>> BY <1>1 DEF Still, ledgerVars
  <2> QED BY <2>1, TablesStay
<1>2. ASSUME NEW p \in Proc, Moves(p), LedgerElsewhere(p) PROVE TablesMove
  <2>1. UNCHANGED <<log, costs, rules, anomalies, tuned>> /\ todo' \subseteq todo
    BY <1>2 DEF LedgerElsewhere, ledgerVars, Moves
  <2> QED BY <2>1, TablesStay
<1> QED BY <1>1, <1>2, LedgerCases, TablesCost, TablesDetect

LEMMA LedgerStepKeeps == Base /\ LedgerInv /\ [Next]_vars => LedgerInv'
<1> SUFFICES ASSUME Base, LedgerInv, [Next]_vars PROVE LedgerInv' OBVIOUS
<1>1. TablesMove BY TablesAlways
<1>2. LogOK' /\ TodoFresh' /\ RulesOK' /\ CostsOK' /\ AnomaliesOK' BY <1>1, LogKept DEF LedgerInv, TablesMove
<1>3. CASE Still
  <2>1. proc' = proc BY <1>3 DEF Still
  <2>2. \A p \in Proc : LedgerHand(proc[p])' BY <1>1, <2>1, HandStays
  <2> QED BY <1>2, <2>2 DEF LedgerInv
<1>4. ASSUME NEW p \in Proc, Moves(p), CostMove(p) \/ DetectMove(p) \/ LedgerElsewhere(p)
      PROVE  LedgerInv'
  <2>1. LedgerHand(proc[p])' BY <1>1, <1>4, HandCost, HandDetect, HandElsewhere
  <2>2. ASSUME NEW q \in Proc, q # p PROVE LedgerHand(proc[q])'
    <3>1. proc'[q] = proc[q] BY <1>4, <2>2 DEF Moves
    <3> QED BY <1>1, <3>1, HandStays
  <2> QED BY <1>2, <2>1, <2>2 DEF LedgerInv
<1> QED BY <1>3, <1>4, LedgerCases

LEMMA LedgerInit == Init => LedgerInv
<1> SUFFICES ASSUME Init PROVE LedgerInv OBVIOUS
<1>1. PICK s \in Scenarios : todo = s.todo /\ rules = s.rules /\ log = s.log BY DEF Init
<1>2. TablesOK(s) /\ OwnIds(s) BY <1>1, ScenariosAssumption
<1>3. proc = [p \in Proc |-> Idle] /\ costs = <<>> /\ anomalies = <<>> /\ tuned = {} BY DEF Init
<1>4. LogOK BY <1>1, <1>2 DEF TablesOK, LogOK
<1>5. TodoFresh BY <1>1, <1>2 DEF OwnIds, TodoFresh, InLog
<1>6. RulesOK BY <1>1, <1>2, <1>3, LedgerAssumption DEF TablesOK, RulesOK
<1>7. DOMAIN costs = {} /\ DOMAIN anomalies = {} /\ anomalies \in Seq({}) BY <1>3
<1>8. CostsOK BY <1>7 DEF CostsOK
<1>9. AnomaliesOK BY <1>7 DEF AnomaliesOK
<1>10. LedgerHand(Idle) BY DEF LedgerHand, Idle, NoCmd, None, Detecting
<1>11. \A p \in Proc : LedgerHand(proc[p]) BY <1>3, <1>10
<1> QED BY <1>4, <1>5, <1>6, <1>8, <1>9, <1>11 DEF LedgerInv
-----------------------------------------------------------------------------
(* The clock and the deaths, and who is undisturbed.                       *)
Times == now \in 1 .. MaxNow /\ deaths \in 0 .. MaxDeaths /\ calm \in [Proc -> BOOLEAN]

Steady == now' = now /\ deaths' = deaths

LEMMA ClockMoves ==
  ASSUME [Next]_vars
  PROVE  \/ Steady
         \/ now < MaxNow /\ now' = now + 1 /\ deaths' = deaths
         \/ deaths < MaxDeaths /\ deaths' = deaths + 1 /\ now' = now
<1>1. \A p, s : Step(p, s) => Steady BY DEF Step, Steady
<1>2. \A p, s : Continue(p, s) => Steady BY <1>1 DEF Continue
<1>3. \A p, c, label, on, mem, rest : Begin(p, c, label, on, mem, rest) => Steady BY <1>1 DEF Begin
<1>4. \A p, c : Only(p, c) => Steady BY DEF Only, Steady
<1>5. CASE Rbac
  BY <1>2, <1>3, <1>4, <1>5 DEF Rbac, RbacStep, AssignWrite, AssignLog, RevokeDelete, RevokeLog, RbacBegin,
     AssignRead, RevokeRead, Protect
<1>6. CASE Reviewing
  <2>1. ASSUME NEW p \in Proc, ReviewStep(p) PROVE Steady
    BY <1>2, <2>1 DEF ReviewStep, RequestInsert, DecidePut, DecideFold, DecideWrite, MergeCount, MergeHuman,
       MergeBranch, MergeRule, MergeRole, MergeRecheck, MergeWrite
  <2>2. ASSUME NEW p \in Proc, RequestFor(p, Cmd(p).cs) PROVE Steady BY <1>2, <2>2 DEF RequestFor
  <2>3. ASSUME NEW p \in Proc, NEW c \in todo, ReviewBegin(p, c) PROVE Steady
    BY <1>3, <1>4, <2>3 DEF ReviewBegin, Request, Decide, Comment, Merge, SwitchBranch
  <2> QED BY <1>6, <2>1, <2>2, <2>3 DEF Reviewing
<1>7. CASE Notifying
  BY <1>2, <1>3, <1>4, <1>7 DEF Notifying, NotifyStep, EmitEvent, EmitNotify, DispatchIntegrations, DispatchSend,
     DispatchLog, DispatchMark, NotifyBegin, Dispatch, AddIntegration, RemoveIntegration, Ack, AckAll
<1>8. CASE Scoring
  BY <1>2, <1>3, <1>4, <1>8 DEF Scoring, TrustStep, EventStore, EventBump, EventRead, EventWrite, ManualStore,
     TrustBegin, RecordEvent, Override, Reset, SetModuleOverride
<1>9. CASE Recording
  <2>1. ASSUME NEW p \in Proc, LedgerStep(p) PROVE Steady
    BY <1>2, <2>1 DEF LedgerStep, CostRecord, DetectCount, DetectRule, DetectRaise, ConfigureSwitch
  <2>2. ASSUME NEW p \in Proc, NEW c \in todo, LedgerBegin(p, c) \/ Promote(p, c) \/ Propose(p, c) PROVE Steady
    BY <1>3, <1>4, <2>2 DEF LedgerBegin, Report, SetBudget, Resolve, Configure, Promote, Propose, Steady
  <2> QED BY <1>9, <2>1, <2>2 DEF Recording
<1>10. CASE Between BY <1>2, <1>10 DEF Between, Suggest, Die, Tick
<1>11. CASE UNCHANGED vars BY <1>11 DEF vars, cmdVars, Steady
<1> QED BY <1>5, <1>6, <1>7, <1>8, <1>9, <1>10, <1>11 DEF Next

LEMMA TimesStep == Times /\ [Next]_vars => Times'
<1> SUFFICES ASSUME Times, [Next]_vars PROVE Times' OBVIOUS
<1>1. now' \in 1 .. MaxNow /\ deaths' \in 0 .. MaxDeaths BY ClockMoves, CommandsAssumption DEF Times, Steady
<1>2. calm' \in [Proc -> BOOLEAN]
  <2>1. CASE Watch BY <2>1 DEF Watch
  <2>2. CASE UNCHANGED vars BY <2>2 DEF vars, Times
  <2> QED BY <2>1, <2>2 DEF Next
<1> QED BY <1>1, <1>2 DEF Times

LEMMA TimesInit == Init => Times BY CommandsAssumption DEF Init, Times

(* What the tables say of each other.                                      *)
LEMMA TablesTold ==
  Times /\ RoleInv /\ ReviewTypes /\ RequestsOK /\ NotifyInv /\ TrustTypes /\ LedgerInv => TablesAgree
<1> SUFFICES ASSUME Times, RoleInv, ReviewTypes, RequestsOK, NotifyInv, TrustTypes, LedgerInv PROVE TablesAgree
  OBVIOUS
<1>1. \A w \in DOMAIN roles : w \in Person /\ roles[w].role \in Role BY DEF RoleInv, RolesOK
<1>2. \A r \in DOMAIN reviews : reviews[r].status \in Status
  <2>1. \A r \in DOMAIN reviews : reviews[r] \in Review BY DEF ReviewTypes
  <2> QED BY <2>1 DEF Review
<1>3. \A k \in DOMAIN decisions : k[1] \in DOMAIN reviews /\ k[2] \in Person BY DEF ReviewTypes, DecisionsOK
<1>4. \A n \in DOMAIN inbox : inbox[n].event \in DOMAIN events /\ inbox[n].to \in Person
  <2>1. \A n \in DOMAIN inbox : inbox[n] \in Letter BY DEF NotifyInv
  <2> QED BY <2>1 DEF NotifyInv, Letter
<1>5. \A d \in deliveryLog : d.event \in DOMAIN events /\ d.status \in {"sent", "failed"} BY DEF NotifyInv
<1>6. \A a \in DOMAIN scores : a \in Agent /\ scores[a].status \in TrustStatus BY DEF TrustTypes, RowOK
<1>7. \A cs \in DOMAIN costs : InLog(cs) /\ costs[cs].used \in Nat BY DEF LedgerInv, CostsOK
<1>8. \A n \in DOMAIN anomalies : anomalies[n].rule \in DOMAIN rules BY DEF LedgerInv, AnomaliesOK
<1>9. TypeOK BY <1>1, <1>2, <1>3, <1>4, <1>5, <1>6, <1>7, <1>8 DEF TypeOK, Times
<1> QED BY <1>9, RolesTold DEF RequestsOK, TablesAgree
-----------------------------------------------------------------------------
(* What an event says a promotion did is done.  Reviews are never deleted. *)
HasReview(cs) == \E r \in DOMAIN reviews : reviews[r].cs = cs

ReviewsGrow ==
  DOMAIN reviews \subseteq DOMAIN reviews' /\ \A r \in DOMAIN reviews : reviews'[r].cs = reviews[r].cs

LEMMA ReviewsKept == Base /\ ReviewTypes /\ [Next]_vars => ReviewsGrow
<1> SUFFICES ASSUME Base, ReviewTypes, [Next]_vars PROVE ReviewsGrow OBVIOUS
<1>1. CASE UNCHANGED reviews BY <1>1 DEF ReviewsGrow
<1>2. ASSUME NEW row, reviews' = Append(reviews, row) PROVE ReviewsGrow
  <2>1. reviews \in Seq(Review) BY DEF ReviewTypes
  <2>2. DOMAIN reviews \subseteq DOMAIN reviews' /\ \A r \in DOMAIN reviews : reviews'[r] = reviews[r]
    BY <1>2, <2>1
  <2> QED BY <2>2 DEF ReviewsGrow
<1>3. ASSUME NEW r, NEW st, reviews' = [reviews EXCEPT ![r].status = st] PROVE ReviewsGrow
  <2>1. reviews \in Seq(Review) BY DEF ReviewTypes
  <2>2. \A q \in DOMAIN reviews : reviews[q] \in Review BY <2>1
  <2>3. DOMAIN reviews' = DOMAIN reviews BY <1>3
  <2>4. \A q \in DOMAIN reviews : reviews'[q] = IF q = r THEN [reviews[q] EXCEPT !.status = st] ELSE reviews[q]
    BY <1>3
  <2>5. \A q \in DOMAIN reviews : reviews'[q].cs = reviews[q].cs BY <2>2, <2>4 DEF Review
  <2> QED BY <2>3, <2>5 DEF ReviewsGrow
<1>4. CASE Still BY <1>1, <1>4 DEF Still, reviewVars
<1>5. ASSUME NEW p \in Proc, Moves(p), RequestMove(p) PROVE ReviewsGrow
  <2>1. UNCHANGED reviews \/ \E row : reviews' = Append(reviews, row) BY <1>5, RequestDoes DEF reviewVars
  <2> QED BY <1>1, <1>2, <2>1
<1>6. ASSUME NEW p \in Proc, Moves(p), DecideMove(p) PROVE ReviewsGrow
  <2>1. UNCHANGED reviews \/ \E r, st : reviews' = [reviews EXCEPT ![r].status = st] BY <1>6, DecideDoes
  <2> QED BY <1>1, <1>3, <2>1
<1>7. ASSUME NEW p \in Proc, Moves(p), MergeMove(p) PROVE ReviewsGrow
  <2>1. UNCHANGED reviews \/ \E r, st : reviews' = [reviews EXCEPT ![r].status = st] BY <1>7, MergeDoes
  <2> QED BY <1>1, <1>3, <2>1
<1>8. ASSUME NEW p \in Proc, ReviewsElsewhere(p) PROVE ReviewsGrow
  BY <1>1, <1>8 DEF ReviewsElsewhere, reviewVars
<1> QED BY <1>4, <1>5, <1>6, <1>7, <1>8, ReviewCases DEF MovesIn

(* A promotion leaves its request with its recipients and a review.        *)
LEMMA RequestKeeps ==
  ASSUME Base, ReviewTypes, NEW p \in Proc, RequestMove(p), Moves(p), proc'[p].cmd.op = "promote"
  PROVE  /\ proc'[p].to = proc[p].to /\ proc'[p].cmd = proc[p].cmd
         /\ proc[p].at \in {"request", "request.insert"} /\ proc'[p].at \in {"request.insert", "emit"}
         /\ proc'[p].at = "emit" => \E r \in DOMAIN reviews' : reviews'[r].cs = proc[p].cmd.cs
<1> USE DEF At, Cmd
<1>1. proc'[p].cmd = proc[p].cmd /\ proc[p].at \in {"request", "request.insert"} BY RequestCmd
<1>2. reviews \in Seq(Review) BY DEF ReviewTypes
<1>3. DOMAIN proc[p] = ProcFields /\ proc[p].rest = <<"emit">> BY <1>1, OpOf DEF RestOf
<1>4. proc[p].rest # <<>> /\ Head(proc[p].rest) = "emit" BY <1>3
<1>5. ASSUME NEW c \in todo, Request(p, c) PROVE FALSE
  <2>1. At(p, "idle") BY <1>5 DEF Request, Only, Begin
  <2> QED BY <1>1, <2>1
<1>6. CASE RequestFor(p, Cmd(p).cs)
  <2>1. CASE ByChangeset(Cmd(p).cs) # 0
    <3>1. Continue(p, Return(p)) /\ UNCHANGED reviews BY <1>6, <2>1 DEF RequestFor, reviewVars
    <3>2. proc'[p].at = "emit" /\ proc'[p].to = proc[p].to BY <1>1, <1>4, <3>1, AfterReturn
    <3>3. ByChangeset(Cmd(p).cs) \in {r \in DOMAIN reviews : reviews[r].cs = Cmd(p).cs}
      <4> DEFINE rs == {r \in DOMAIN reviews : reviews[r].cs = Cmd(p).cs}
      <4>1. rs \in SUBSET Nat BY <1>2
      <4>2. rs # {} => Min(rs) \in rs BY <4>1, MinOf
      <4> QED BY <2>1, <4>2 DEF ByChangeset
    <3> QED BY <1>1, <3>1, <3>2, <3>3
  <2>2. CASE ByChangeset(Cmd(p).cs) = 0
    <3>1. proc'[p] = [Goto(p, "request.insert", None) EXCEPT !.on = RequestRow(Cmd(p).cs)]
      BY <1>6, <2>2 DEF RequestFor, Continue, Step, Base, ProcsOK
    <3>2. proc'[p].at = "request.insert" /\ proc'[p].to = proc[p].to BY <1>3, <3>1 DEF Goto, ProcFields
    <3> QED BY <1>1, <3>2
  <2> QED BY <2>1, <2>2
<1>7. CASE RequestInsert(p)
  <2>1. /\ Continue(p, Return(p)) /\ reviews' = Append(reviews, [cs |-> Cmd(p).cs, status |-> "pending"])
    BY <1>7 DEF RequestInsert
  <2>2. proc'[p].at = "emit" /\ proc'[p].to = proc[p].to BY <1>1, <1>4, <2>1, AfterReturn
  <2> DEFINE row == [cs |-> Cmd(p).cs, status |-> "pending"]
  <2>3. row.cs = Cmd(p).cs /\ reviews' = Append(reviews, row) BY <2>1
  <2> HIDE DEF row
  <2>4. Len(reviews) + 1 \in DOMAIN reviews' /\ reviews'[Len(reviews) + 1] = row BY <1>2, <2>3
  <2> QED BY <1>1, <2>2, <2>3, <2>4
<1> QED BY <1>5, <1>6, <1>7 DEF RequestMove

(* What a promotion on its way holds: the owners of its changeset among    *)
(* the recipients, and a review once it emits.                             *)
Holds(to, cs) == \A i \in DOMAIN OwnersOf[cs] : <<i, OwnersOf[cs][i]>> \in to

PromiseHand(s) ==
  s.cmd.op = "promote" =>
    /\ s.at \in {"request", "request.insert", "emit"} => Holds(s.to, s.cmd.cs)
    /\ s.at \in {"emit", "emit.notify"} => HasReview(s.cmd.cs)

(* Who is to be told of an event has it in the inbox or is still a         *)
(* recipient.                                                              *)
Told(e, who) == \E n \in DOMAIN inbox : inbox[n].event = e /\ inbox[n].to = who
Telling(p, e, a) == At(p, "emit.notify") /\ Mem(p) = e /\ a \in proc[p].to

Promised(e) ==
  LET cs == events[e].target
  IN  /\ Recorded(cs) /\ Caught(cs) /\ HasReview(cs)
      /\ deaths = 0 => \A i \in DOMAIN OwnersOf[cs] :
                         Told(e, OwnersOf[cs][i]) \/ \E p \in Proc : Telling(p, e, <<i, OwnersOf[cs][i]>>)

PromiseInv ==
  /\ \A p \in Proc : PromiseHand(proc[p])
  /\ \A e \in DOMAIN events : events[e].type = "changeset.promoted" => Promised(e)

LEMMA ReviewStays ==
  ASSUME ReviewsGrow, NEW cs, HasReview(cs)
  PROVE  HasReview(cs)' BY DEF ReviewsGrow, HasReview

LEMMA PromiseHandNext ==
  ASSUME NEW p \in Proc, NEW s, s = proc'[p], PromiseHand(s)'
  PROVE  PromiseHand(proc[p])' BY DEF PromiseHand, HasReview

LEMMA PromiseHandStays ==
  ASSUME ReviewsGrow, NEW p \in Proc, PromiseHand(proc[p]), proc'[p] = proc[p]
  PROVE  PromiseHand(proc[p])'
<1>1. PICK s : s = proc[p] OBVIOUS
<1>2. PromiseHand(s) BY <1>1
<1>3. PromiseHand(s)' BY <1>2, ReviewStays DEF PromiseHand
<1> QED BY <1>1, <1>3, PromiseHandNext

LEMMA OwnersAmong ==
  ASSUME NEW cs
  PROVE  Holds(Reviewers(cs), cs) BY DEF Holds, Reviewers

(* The hand of the command that moved.                                     *)
LEMMA PromiseHandMoves ==
  ASSUME Base, ReviewTypes, PromiseInv, ReviewsGrow, NEW p \in Proc, Moved(p), Moves(p)
  PROVE  PromiseHand(proc[p])'
<1> USE DEF At, Cmd
<1>1. PICK s : s = proc'[p] OBVIOUS
<1>2. PICK o : o = proc[p] OBVIOUS
<1>3. ProcOK(s) /\ PromiseHand(o) /\ ProcOK(o) BY <1>1, <1>2 DEF Moves, PromiseInv, Base, ProcsOK
<1> DEFINE Late == {"request", "request.insert", "emit", "emit.notify"}
<1>4. ASSUME s.at \notin Late PROVE PromiseHand(proc[p])'
  <2>1. PromiseHand(s)' BY <1>4 DEF PromiseHand
  <2> QED BY <1>1, <2>1, PromiseHandNext
<1>5. ASSUME s.cmd.op # "promote" PROVE PromiseHand(proc[p])'
  <2>1. PromiseHand(s)' BY <1>5 DEF PromiseHand
  <2> QED BY <1>1, <2>1, PromiseHandNext
<1>6. ASSUME NEW labels \in {RbacLabels, MergeLabels, DispatchLabels, TrustLabels, CostLabels, DetectLabels},
             MovesIn(p, labels)
      PROVE  PromiseHand(proc[p])'
  <2>1. labels \cap Late = {}
    BY DEF RbacLabels, MergeLabels, DispatchLabels, TrustLabels, CostLabels, DetectLabels
  <2>2. s.at \in labels BY <1>1, <1>6 DEF MovesIn
  <2> HIDE DEF Late
  <2> QED BY <1>4, <2>1, <2>2
<1>7. CASE RequestMove(p)
  <2>1. CASE s.cmd.op = "promote"
    <3>1. /\ s.to = o.to /\ s.cmd = o.cmd /\ o.at \in {"request", "request.insert"}
          /\ s.at \in {"request.insert", "emit"}
          /\ s.at = "emit" => \E r \in DOMAIN reviews' : reviews'[r].cs = o.cmd.cs
      BY <1>1, <1>2, <1>7, <2>1, RequestKeeps
    <3>2. Holds(s.to, s.cmd.cs) BY <1>3, <2>1, <3>1 DEF PromiseHand
    <3>3. s.at = "emit" => HasReview(s.cmd.cs)' BY <3>1 DEF HasReview
    <3>4. PromiseHand(s)' BY <3>1, <3>2, <3>3 DEF PromiseHand
    <3> QED BY <1>1, <3>4, PromiseHandNext
  <2> QED BY <1>5, <2>1
<1>8. CASE DecideMove(p)
  <2>1. s.cmd.op # "promote" \/ (proc' = proc /\ At(p, "idle")) BY <1>1, <1>8, DecideCmd
  <2>2. CASE proc' = proc BY <2>2, PromiseHandStays DEF PromiseInv
  <2> QED BY <1>5, <2>1, <2>2
<1>9. CASE EmitMove(p)
  <2>1. s = Idle \/ (o.at \in {"emit", "emit.notify"} /\ s.cmd = o.cmd) BY <1>1, <1>2, <1>9, EmitCmd
  <2>2. CASE s = Idle
    <3>1. s.cmd.op # "promote" BY <2>2 DEF Idle, NoCmd, None
    <3> QED BY <1>5, <3>1
  <2>3. CASE s # Idle /\ s.cmd.op = "promote"
    <3>1. s.at = "emit.notify" BY <1>1, <1>9, <2>3, EmitDoes
    <3>2. HasReview(o.cmd.cs) BY <1>3, <2>1, <2>3 DEF PromiseHand
    <3>3. HasReview(s.cmd.cs)' BY <2>1, <2>3, <3>2, ReviewStays
    <3>4. PromiseHand(s)' BY <3>1, <3>3 DEF PromiseHand
    <3> QED BY <1>1, <3>4, PromiseHandNext
  <2> QED BY <1>5, <2>2, <2>3
<1>10. CASE SuggestMove(p) /\ MovesIn(p, {"suggest", "request"})
  <2>1. s.at \in {"suggest", "request"} BY <1>1, <1>10 DEF MovesIn
  <2>2. s.to = Reviewers(o.cmd.cs) /\ s.cmd = o.cmd BY <1>1, <1>2, <1>10, SuggestTo DEF SuggestMove
  <2>3. Holds(s.to, s.cmd.cs) BY <2>2, OwnersAmong
  <2>4. PromiseHand(s)' BY <2>1, <2>3 DEF PromiseHand
  <2> QED BY <1>1, <2>4, PromiseHandNext
<1>11. CASE proc'[p] = Idle
  <2>1. s.cmd.op # "promote" BY <1>1, <1>11 DEF Idle, NoCmd, None
  <2> QED BY <1>5, <2>1
<1> HIDE DEF Late
<1> QED BY <1>6, <1>7, <1>8, <1>9, <1>10, <1>11 DEF Moved

(* The inbox and the events only grow.                                     *)
InboxGrows ==
  /\ DOMAIN inbox \subseteq DOMAIN inbox'
  /\ \A n \in DOMAIN inbox : inbox'[n].event = inbox[n].event /\ inbox'[n].to = inbox[n].to
EventsStay ==
  /\ DOMAIN events \subseteq DOMAIN events'
  /\ \A e \in DOMAIN events : events'[e].type = events[e].type /\ events'[e].target = events[e].target

LEMMA MailGrows ==
  ASSUME Base, NotifyInv, NEW p \in Proc, Moved(p), Moves(p)
  PROVE  InboxGrows /\ EventsStay
<1>1. events \in Seq(EventRow) /\ inbox \in Seq(Letter) BY DEF NotifyInv
<1>2. CASE UNCHANGED notifyVars BY <1>2 DEF notifyVars, InboxGrows, EventsStay
<1>3. CASE DispatchMove(p)
  <2>1. SameInbox /\ SameEvents BY <1>3, DispatchSame
  <2> QED BY <2>1 DEF SameInbox, SameEvents, InboxGrows, EventsStay
<1>4. CASE EmitMove(p)
  <2>1. \/ UNCHANGED inbox /\ \E row : events' = Append(events, row)
        \/ UNCHANGED events /\ \E row : inbox' = Append(inbox, row) BY <1>4, EmitDoes
  <2>2. ASSUME UNCHANGED inbox, NEW row, events' = Append(events, row) PROVE InboxGrows /\ EventsStay
    <3>1. DOMAIN events \subseteq DOMAIN events' /\ \A e \in DOMAIN events : events'[e] = events[e]
      BY <1>1, <2>2
    <3> QED BY <2>2, <3>1 DEF InboxGrows, EventsStay
  <2>3. ASSUME UNCHANGED events, NEW row, inbox' = Append(inbox, row) PROVE InboxGrows /\ EventsStay
    <3>1. DOMAIN inbox \subseteq DOMAIN inbox' /\ \A n \in DOMAIN inbox : inbox'[n] = inbox[n] BY <1>1, <2>3
    <3> QED BY <2>3, <3>1 DEF InboxGrows, EventsStay
  <2> QED BY <2>1, <2>2, <2>3
<1> QED BY <1>2, <1>3, <1>4
    DEF Moved, RbacMove, RequestMove, DecideMove, MergeMove, TrustMove, CostMove, DetectMove, SuggestMove, DieMove

(* A recipient is written to, or stays one, unless the command dies.       *)
LEMMA Delivered ==
  ASSUME Base, NotifyInv, Times, NEW p \in Proc, Moved(p), Moves(p), deaths' = deaths,
         NEW q \in Proc, NEW e, NEW a, Telling(q, e, a)
  PROVE  Told(e, a[2])' \/ Telling(q, e, a)'
<1> USE DEF At, Mem
<1>1. CASE q # p
  <2>1. proc'[q] = proc[q] BY <1>1 DEF Moves
  <2> QED BY <2>1 DEF Telling
<1>2. CASE q = p
  <2>1. proc[p].at = "emit.notify" /\ proc[p].mem = e /\ a \in proc[p].to BY <1>2 DEF Telling
  <2>2. ~DieMove(p) BY DEF DieMove, Die, Times
  <2>3. EmitMove(p)
    BY <2>1, <2>2 DEF Moved, MovesIn, RbacLabels, RequestLabels, DecideLabels, MergeLabels, DispatchLabels,
       TrustLabels, CostLabels, DetectLabels
  <2>4. PICK to \in proc[p].to :
          /\ inbox' = Append(inbox, [event |-> Mem(p), to |-> to[2], read |-> FALSE])
          /\ \/ proc[p].to = {to} /\ proc'[p] = Idle
             \/ proc'[p].at = "emit.notify" /\ proc'[p].mem = Mem(p) /\ proc'[p].to = proc[p].to \ {to}
    BY <2>1, <2>3, EmitDoes
  <2>5. CASE a = to
    <3> DEFINE letter == [event |-> Mem(p), to |-> to[2], read |-> FALSE]
    <3>1. letter.event = e /\ letter.to = a[2] BY <2>1, <2>5
    <3>2. inbox' = Append(inbox, letter) BY <2>4
    <3> HIDE DEF letter
    <3>3. Len(inbox) + 1 \in DOMAIN inbox' /\ inbox'[Len(inbox) + 1] = letter BY <3>2 DEF NotifyInv
    <3>4. Told(e, a[2])' BY <3>1, <3>3 DEF Told
    <3> QED BY <3>4
  <2>6. CASE a # to
    <3>1. proc'[p].at = "emit.notify" /\ proc'[p].mem = e /\ a \in proc'[p].to BY <2>1, <2>4, <2>6
    <3> QED BY <1>2, <3>1 DEF Telling
  <2> QED BY <2>5, <2>6
<1> QED BY <1>1, <1>2

LEMMA PromisedNext ==
  ASSUME NEW e, NEW cs, cs = events'[e].target, Recorded(cs)', Caught(cs)', HasReview(cs)',
         deaths' = 0 => \A i \in DOMAIN OwnersOf[cs] :
                          Told(e, OwnersOf[cs][i])' \/ \E q \in Proc : Telling(q, e, <<i, OwnersOf[cs][i]>>)'
  PROVE  Promised(e)'
BY DEF Promised, Recorded, Caught, HasReview, InLog, ChangesetDelta, Place, Told, Telling, At, Mem

LEMMA PromisedKept ==
  ASSUME Base, NotifyInv, LedgerInv, Times, TablesMove, ReviewsGrow, NEW p \in Proc, Moved(p), Moves(p), [Next]_vars,
         NEW e \in DOMAIN events, Promised(e)
  PROVE  Promised(e)'
<1>1. PICK cs : cs = events[e].target OBVIOUS
<1>2. cs = events'[e].target BY <1>1, MailGrows DEF EventsStay
<1>3. /\ Recorded(cs) /\ Caught(cs) /\ HasReview(cs)
      /\ deaths = 0 => \A i \in DOMAIN OwnersOf[cs] :
                         Told(e, OwnersOf[cs][i]) \/ \E q \in Proc : Telling(q, e, <<i, OwnersOf[cs][i]>>)
  BY <1>1 DEF Promised
<1>4. Recorded(cs)' /\ Caught(cs)' BY <1>3, RecordedKept DEF TablesMove, LedgerInv
<1>5. HasReview(cs)' BY <1>3, ReviewStays
<1>6. ASSUME deaths' = 0, NEW i \in DOMAIN OwnersOf[cs]
      PROVE  Told(e, OwnersOf[cs][i])' \/ \E q \in Proc : Telling(q, e, <<i, OwnersOf[cs][i]>>)'
  <2>1. deaths = 0 /\ deaths' = deaths BY <1>6, ClockMoves DEF Times, Steady
  <2>2. PICK who : who = OwnersOf[cs][i] OBVIOUS
  <2>3. CASE Told(e, who)
    <3>1. Told(e, who)' BY <2>3, MailGrows DEF Told, InboxGrows
    <3> QED BY <2>2, <3>1 DEF Told
  <2>4. ASSUME NEW q \in Proc, Telling(q, e, <<i, who>>)
        PROVE  Told(e, who)' \/ Telling(q, e, <<i, who>>)'
    <3>1. PICK a : a = <<i, who>> OBVIOUS
    <3>2. Told(e, a[2])' \/ Telling(q, e, a)' BY <2>1, <2>4, <3>1, Delivered
    <3>3. a[2] = who BY <3>1
    <3> QED BY <3>1, <3>2, <3>3
  <2>5. Told(e, who)' \/ \E q \in Proc : Telling(q, e, <<i, who>>)'
    <3>1. Told(e, who) \/ \E q \in Proc : Telling(q, e, <<i, who>>) BY <1>3, <2>1, <2>2
    <3>2. CASE Told(e, who)
      <4>1. Told(e, who)' BY <3>2, MailGrows DEF Told, InboxGrows
      <4> QED BY <4>1
    <3> QED BY <2>4, <3>1, <3>2
  <2> QED BY <2>2, <2>5
<1> QED BY <1>2, <1>4, <1>5, <1>6, PromisedNext

LEMMA PromotedType ==
  ASSUME NEW c, CommandOK(c), c.op \in {"promote", "decide"}, EventType(c) = "changeset.promoted"
  PROVE  c.op = "promote"
<1>1. SUFFICES ASSUME c.op = "decide" PROVE FALSE OBVIOUS
<1>2. c.decision \in {"approve", "request_changes", "reject"} BY <1>1 DEF CommandOK, Decision
<1> QED BY <1>1, <1>2 DEF EventType

LEMMA PromisedNew ==
  ASSUME Base, ReviewTypes, NotifyInv, LedgerInv, PromiseInv, TablesMove, ReviewsGrow, NEW p \in Proc, Moved(p), Moves(p),
         NEW e \in DOMAIN events' \ DOMAIN events, events'[e].type = "changeset.promoted"
  PROVE  Promised(e)'
<1> USE DEF At, Cmd
<1>1. events \in Seq(EventRow) BY DEF NotifyInv
<1>2. EmitMove(p)
  <2>1. ~UNCHANGED events OBVIOUS
  <2>2. ~DispatchMove(p) BY DispatchSame DEF SameEvents
  <2> QED BY <2>1, <2>2
      DEF Moved, RbacMove, RequestMove, DecideMove, MergeMove, TrustMove, CostMove, DetectMove, SuggestMove, DieMove,
          notifyVars
<1>3. /\ At(p, "emit") /\ Cmd(p).op \in {"promote", "decide"}
      /\ events' = Append(events, [type |-> EventType(Cmd(p)), target |-> Cmd(p).cs, dispatched |-> FALSE])
      /\ \/ proc[p].to = {} /\ proc'[p] = Idle
         \/ /\ proc[p].to # {} /\ proc'[p].at = "emit.notify" /\ proc'[p].mem = Len(events) + 1
            /\ proc'[p].to = proc[p].to BY <1>2, EmitDoes
<1>4. PICK cs : cs = Cmd(p).cs OBVIOUS
<1>5. e = Len(events) + 1 /\ events'[e] = [type |-> EventType(Cmd(p)), target |-> Cmd(p).cs, dispatched |-> FALSE]
  <2> DEFINE row == [type |-> EventType(Cmd(p)), target |-> Cmd(p).cs, dispatched |-> FALSE]
  <2>1. events' = Append(events, row) BY <1>3
  <2> HIDE DEF row
  <2>2. e = Len(events) + 1 /\ events'[e] = row BY <1>1, <2>1
  <2> QED BY <2>2 DEF row
<1>6. events'[e].target = cs /\ EventType(Cmd(p)) = "changeset.promoted" BY <1>4, <1>5
<1>7. CommandOK(Cmd(p)) BY <1>3 DEF Base, ProcsOK, ProcOK
<1>8. Cmd(p).op = "promote" BY <1>3, <1>6, <1>7, PromotedType
<1>9. proc[p].at \notin Detecting /\ proc[p].at \notin {"cost", "detect"} BY <1>3 DEF Detecting
<1>10. Recorded(cs) /\ Caught(cs) BY <1>4, <1>8, <1>9 DEF LedgerInv, LedgerHand
<1>11. Recorded(cs)' /\ Caught(cs)' BY <1>10, RecordedKept DEF TablesMove, LedgerInv
<1>12. HasReview(cs) /\ Holds(proc[p].to, cs) BY <1>3, <1>4, <1>8 DEF PromiseInv, PromiseHand
<1>13. HasReview(cs)' BY <1>12, ReviewStays
<1>14. ASSUME NEW i \in DOMAIN OwnersOf[cs]
       PROVE  \E q \in Proc : Telling(q, e, <<i, OwnersOf[cs][i]>>)'
  <2>1. <<i, OwnersOf[cs][i]>> \in proc[p].to BY <1>12 DEF Holds
  <2>2. Telling(p, e, <<i, OwnersOf[cs][i]>>)' BY <1>3, <1>5, <2>1 DEF Telling, Mem
  <2> QED BY <2>2
<1> QED BY <1>6, <1>11, <1>13, <1>14, PromisedNext

LEMMA PromiseStep ==
  Base /\ ReviewTypes /\ NotifyInv /\ LedgerInv /\ Times /\ PromiseInv /\ [Next]_vars => PromiseInv'
<1> SUFFICES ASSUME Base, ReviewTypes, NotifyInv, LedgerInv, Times, PromiseInv, [Next]_vars PROVE PromiseInv'
  OBVIOUS
<1>1. TablesMove /\ ReviewsGrow BY TablesAlways, ReviewsKept
<1>2. ASSUME NEW p \in Proc, Moved(p), Moves(p) PROVE PromiseInv'
  <2>1. ASSUME NEW q \in Proc PROVE PromiseHand(proc[q])'
    <3>1. CASE q = p BY <1>1, <1>2, <3>1, PromiseHandMoves
    <3>2. CASE q # p
      <4>1. proc'[q] = proc[q] BY <1>2, <3>2 DEF Moves
      <4> QED BY <1>1, <4>1, PromiseHandStays DEF PromiseInv
    <3> QED BY <3>1, <3>2
  <2>2. ASSUME NEW e \in DOMAIN events', events'[e].type = "changeset.promoted" PROVE Promised(e)'
    <3>1. CASE e \in DOMAIN events
      <4>1. events[e].type = "changeset.promoted" BY <1>2, <2>2, <3>1, MailGrows DEF EventsStay
      <4>2. Promised(e) BY <3>1, <4>1 DEF PromiseInv
      <4> QED BY <1>1, <1>2, <3>1, <4>2, PromisedKept
    <3>2. CASE e \notin DOMAIN events BY <1>1, <1>2, <2>2, <3>2, PromisedNew
    <3> QED BY <3>1, <3>2
  <2> QED BY <2>1, <2>2 DEF PromiseInv
<1>3. CASE Still
  <2>1. \A q \in Proc : PromiseHand(proc[q])'
    <3>1. proc' = proc BY <1>3 DEF Still
    <3> QED BY <1>1, <3>1, PromiseHandStays DEF PromiseInv
  <2>2. ASSUME NEW e \in DOMAIN events', events'[e].type = "changeset.promoted" PROVE Promised(e)'
    <3>1. UNCHANGED <<events, inbox, proc>> BY <1>3 DEF Still, notifyVars
    <3>2. PICK cs : cs = events'[e].target OBVIOUS
    <3>3. /\ Recorded(cs) /\ Caught(cs) /\ HasReview(cs)
          /\ deaths = 0 => \A i \in DOMAIN OwnersOf[cs] :
                             Told(e, OwnersOf[cs][i]) \/ \E q \in Proc : Telling(q, e, <<i, OwnersOf[cs][i]>>)
      BY <2>2, <3>1, <3>2 DEF PromiseInv, Promised
    <3>4. Recorded(cs)' /\ Caught(cs)' BY <1>1, <3>3, RecordedKept DEF TablesMove, LedgerInv
    <3>5. HasReview(cs)' BY <1>1, <3>3, ReviewStays
    <3>6. deaths' = 0 => deaths = 0 BY ClockMoves DEF Times, Steady
    <3>7. /\ \A who : Told(e, who) => Told(e, who)'
          /\ \A q, a : Telling(q, e, a) => Telling(q, e, a)' BY <3>1 DEF Told, Telling, At, Mem
    <3>8. ASSUME deaths' = 0, NEW i \in DOMAIN OwnersOf[cs]
          PROVE  Told(e, OwnersOf[cs][i])' \/ \E q \in Proc : Telling(q, e, <<i, OwnersOf[cs][i]>>)'
      BY <3>3, <3>6, <3>7, <3>8
    <3> QED BY <3>2, <3>4, <3>5, <3>8, PromisedNext
  <2> QED BY <2>1, <2>2 DEF PromiseInv
<1> QED BY <1>2, <1>3, StepCases

LEMMA PromiseInit == Init => PromiseInv
<1> SUFFICES ASSUME Init PROVE PromiseInv OBVIOUS
<1>1. PICK s \in Scenarios : events = s.events BY DEF Init
<1> DEFINE T == [type : EventTypes \ {"changeset.promoted"}, target : Changeset, dispatched : BOOLEAN]
<1>2. events \in Seq(T) BY <1>1, ScenariosAssumption DEF TablesOK
<1> HIDE DEF T
<1>3. \A e \in DOMAIN events : events[e] \in T BY <1>2
<1>6. \A e \in DOMAIN events : events[e].type # "changeset.promoted" BY <1>3 DEF T
<1>4. PromiseHand(Idle) BY DEF PromiseHand, Idle, NoCmd, None
<1>5. \A p \in Proc : PromiseHand(proc[p]) BY <1>4 DEF Init
<1> QED BY <1>5, <1>6 DEF PromiseInv

LEMMA PromiseTold == ReviewTypes /\ PromiseInv => PromotionRecorded
<1> SUFFICES ASSUME ReviewTypes, PromiseInv, NEW e \in DOMAIN events, events[e].type = "changeset.promoted",
                    NEW cs, cs = events[e].target
             PROVE  /\ InLog(cs) /\ cs \in DOMAIN costs /\ ByChangeset(cs) # 0
                    /\ costs[cs].lines > rules["large-changeset"].threshold /\ "large-changeset" \notin tuned
                       => \E n \in DOMAIN anomalies : anomalies[n].rule = "large-changeset" /\ anomalies[n].cs = cs
                    /\ (deaths = 0 /\ \A p \in Proc : ~(At(p, "emit.notify") /\ Mem(p) = e)) =>
                         \A i \in DOMAIN OwnersOf[cs] :
                           \E n \in DOMAIN inbox : inbox[n].event = e /\ inbox[n].to = OwnersOf[cs][i]
  BY DEF PromotionRecorded
<1>1. Promised(e) BY DEF PromiseInv
<1>2. Recorded(cs) /\ Caught(cs) /\ HasReview(cs) BY <1>1 DEF Promised
<1>3. ByChangeset(cs) # 0 BY <1>2, ByChangesetIs DEF HasReview, ReviewTypes
<1>4. ASSUME deaths = 0, \A p \in Proc : ~(At(p, "emit.notify") /\ Mem(p) = e), NEW i \in DOMAIN OwnersOf[cs]
      PROVE  Told(e, OwnersOf[cs][i]) BY <1>1, <1>4 DEF Promised, Telling
<1> QED BY <1>2, <1>3, <1>4 DEF Recorded, Caught, Told
-----------------------------------------------------------------------------
(* What was spent.  First sums: the order in which numbers are added does  *)
(* not matter, and two sums over parts are the sum over both.              *)
(* A set of numbers that holds each number all smaller ones of which it    *)
(* holds is all of them.                                                   *)
LEMMA LeastFails ==
  ASSUME NEW T, \A n \in Nat : (\A k \in 0 .. n - 1 : k \in T) => n \in T
  PROVE  \A n \in Nat : n \in T
<1> SUFFICES ASSUME Nat \ T # {} PROVE FALSE OBVIOUS
<1> DEFINE R == OpToRel(<, Nat)
<1>1. PICK m \in Nat \ T : \A k \in Nat \ T : <<k, m>> \notin R
  <2>1. IsWellFoundedOn(R, Nat) BY NatLessThanWellFounded
  <2>2. Nat \ T \in SUBSET Nat OBVIOUS
  <2> HIDE DEF R
  <2> QED BY <2>1, <2>2, WFMin
<1>2. ASSUME NEW k \in 0 .. m - 1 PROVE k \in T
  <2>1. k \in Nat /\ <<k, m>> \in R BY DEF OpToRel
  <2> QED BY <1>1, <2>1
<1> QED BY <1>1, <1>2

(* Sums.  g adds up w over every set of at most k elements of A, taking    *)
(* them in the order the fold does.                                        *)
Small(A, k) == {S \in SUBSET A : Cardinality(S) <= k}
First(S)    == CHOOSE x \in S : TRUE
Sums(g, w, A, k) ==
  g = [S \in Small(A, k) |-> IF S = {} THEN 0 ELSE w[First(S)] + g[S \ {First(S)}]]

LEMMA SmallRest ==
  ASSUME NEW A, IsFiniteSet(A), NEW k \in Nat, NEW S \in Small(A, k), NEW x \in S
  PROVE  /\ IsFiniteSet(S) /\ k # 0 /\ S \ {x} \in Small(A, k - 1) /\ S \ {x} \in Small(A, k)
         /\ Cardinality(S \ {x}) = Cardinality(S) - 1 /\ Cardinality(S) \in Nat \ {0}
<1>1. S \in SUBSET A /\ Cardinality(S) <= k BY DEF Small
<1>2. IsFiniteSet(S) BY <1>1, FS_Subset
<1>3. Cardinality(S \ {x}) = Cardinality(S) - 1 /\ Cardinality(S) \in Nat /\ Cardinality(S \ {x}) \in Nat
  BY <1>2, FS_RemoveElement, FS_CardinalityType
<1>4. S \ {x} \in SUBSET A BY <1>1
<1> QED BY <1>1, <1>2, <1>3, <1>4 DEF Small

LEMMA SumGrows ==
  ASSUME NEW A, IsFiniteSet(A), NEW w, NEW k \in Nat, NEW f, Sums(f, w, A, k)
  PROVE  \E g : Sums(g, w, A, k + 1)
<1> DEFINE g == [S \in Small(A, k + 1) |-> IF S = {} THEN 0 ELSE w[First(S)] + f[S \ {First(S)}]]
<1>1. ASSUME NEW S \in Small(A, k + 1), S # {} PROVE S \ {First(S)} \in Small(A, k)
  <2>1. First(S) \in S BY <1>1 DEF First
  <2>2. k + 1 \in Nat /\ (k + 1) - 1 = k OBVIOUS
  <2> QED BY <2>1, <2>2, SmallRest
<1>2. Small(A, k) \subseteq Small(A, k + 1)
  <2> SUFFICES ASSUME NEW S \in SUBSET A, Cardinality(S) <= k PROVE Cardinality(S) <= k + 1 BY DEF Small
  <2>1. Cardinality(S) \in Nat BY FS_Subset, FS_CardinalityType
  <2> QED BY <2>1
<1>3. ASSUME NEW S \in Small(A, k) PROVE g[S] = f[S]
  <2>1. f[S] = IF S = {} THEN 0 ELSE w[First(S)] + f[S \ {First(S)}] BY DEF Sums
  <2> QED BY <1>2, <2>1
<1>4. ASSUME NEW S \in Small(A, k + 1)
      PROVE  g[S] = IF S = {} THEN 0 ELSE w[First(S)] + g[S \ {First(S)}]
  <2>1. g[S] = IF S = {} THEN 0 ELSE w[First(S)] + f[S \ {First(S)}] OBVIOUS
  <2> HIDE DEF g
  <2> QED BY <1>1, <1>3, <2>1
<1>5. g = [S \in Small(A, k + 1) |-> g[S]] OBVIOUS
<1> HIDE DEF g
<1>6. Sums(g, w, A, k + 1) BY <1>4, <1>5 DEF Sums
<1> QED BY <1>6

(* The fold adds the elements one by one.                                  *)
IsSum(g, w) ==
  g = [S \in SUBSET DOMAIN w |-> IF S = {} THEN 0 ELSE w[First(S)] + g[S \ {First(S)}]]

LEMMA SumFolds ==
  ASSUME NEW w, IsFiniteSet(DOMAIN w)
  PROVE  \E g : IsSum(g, w) /\ SumFunction(w) = g[DOMAIN w]
<1> DEFINE A == DOMAIN w
           n == Cardinality(A)
           T == {k \in Nat : \E f : Sums(f, w, A, k)}
           h == CHOOSE f : IsSum(f, w)
<1>1. 0 \in T
  <2> DEFINE f == [S \in Small(A, 0) |-> 0]
  <2>1. ASSUME NEW S \in Small(A, 0) PROVE S = {}
    <3>1. IsFiniteSet(S) /\ Cardinality(S) \in Nat /\ Cardinality(S) <= 0
      BY FS_Subset, FS_CardinalityType DEF Small
    <3> QED BY <3>1, FS_EmptySet
  <2>2. Sums(f, w, A, 0) BY <2>1 DEF Sums
  <2> QED BY <2>2
<1>2. ASSUME NEW k \in Nat, \A j \in 0 .. k - 1 : j \in T PROVE k \in T
  <2> SUFFICES ASSUME k # 0 PROVE k \in T BY <1>1
  <2>1. k - 1 \in T /\ k - 1 \in Nat /\ (k - 1) + 1 = k BY <1>2
  <2>2. PICK f : Sums(f, w, A, k - 1) BY <2>1
  <2>3. \E g : Sums(g, w, A, (k - 1) + 1) BY <2>1, <2>2, SumGrows
  <2> QED BY <2>1, <2>3
<1>3. n \in Nat BY FS_CardinalityType
<1>4. n \in T
  <2> HIDE DEF T, n
  <2> QED BY <1>2, <1>3, LeastFails
<1>5. PICK f : Sums(f, w, A, n) BY <1>4
<1>6. Small(A, n) = SUBSET A
  <2>1. \A S \in SUBSET A : Cardinality(S) <= n BY FS_Subset
  <2> QED BY <2>1 DEF Small
<1>7. IsSum(f, w) BY <1>5, <1>6 DEF Sums, IsSum
<1>8. IsSum(h, w) BY <1>7
<1>9. SumFunction(w) = h[A]
  <2>1. SumFunction(w) = FoldFunctionOnSet(+, 0, w, A) BY DEF SumFunction, SumFunctionOnSet
  <2>2. FoldFunctionOnSet(+, 0, w, A) = h[A] BY DEF FoldFunctionOnSet, MapThenFoldSet, IsSum, First
  <2> QED BY <2>1, <2>2
<1> QED BY <1>8, <1>9

(* ... and in whatever order.                                              *)
AnyOrder(g, w, A) ==
  /\ g[{}] = 0
  /\ \A S \in SUBSET A : g[S] \in Nat /\ \A x \in S : g[S] = w[x] + g[S \ {x}]

LEMMA SumAnyOrder ==
  ASSUME NEW A, IsFiniteSet(A), NEW w \in [A -> Nat], NEW g, IsSum(g, w)
  PROVE  AnyOrder(g, w, A)
<1> DEFINE n == Cardinality(A)
           Good(S) == g[S] \in Nat /\ \A x \in S : g[S] = w[x] + g[S \ {x}]
           T == {k \in Nat : \A S \in SUBSET A : Cardinality(S) = k => Good(S)}
<1>1. \A S \in SUBSET A : g[S] = IF S = {} THEN 0 ELSE w[First(S)] + g[S \ {First(S)}] BY DEF IsSum
<1>2. \A S \in SUBSET A : IsFiniteSet(S) /\ Cardinality(S) \in Nat BY FS_Subset, FS_CardinalityType
<1>3. \A S \in SUBSET A : \A x \in S : Cardinality(S \ {x}) = Cardinality(S) - 1 BY <1>2, FS_RemoveElement
<1>4. ASSUME NEW k \in Nat, \A j \in 0 .. k - 1 : j \in T, NEW S \in SUBSET A, Cardinality(S) = k
      PROVE  Good(S)
  <2>1. CASE S = {} BY <1>1, <2>1
  <2>2. CASE S # {}
    <3>1. PICK y \in S : y = First(S) BY <2>2 DEF First
    <3>2. ASSUME NEW x \in S
          PROVE  Good(S \ {x}) /\ \A z \in S \ {x} : Good((S \ {x}) \ {z})
      <4>1. S \ {x} \in SUBSET A /\ Cardinality(S \ {x}) = k - 1 /\ k - 1 \in Nat BY <1>2, <1>3, <1>4
      <4>2. k - 1 \in T BY <1>4, <4>1
      <4>3. Good(S \ {x}) BY <4>1, <4>2
      <4>4. ASSUME NEW z \in S \ {x} PROVE Good((S \ {x}) \ {z})
        <5>1. (S \ {x}) \ {z} \in SUBSET A /\ Cardinality((S \ {x}) \ {z}) = k - 2 /\ k - 2 \in Nat
          <6>1. (S \ {x}) \ {z} \in SUBSET A OBVIOUS
          <6>2. Cardinality((S \ {x}) \ {z}) = Cardinality(S \ {x}) - 1 BY <1>3, <4>1
          <6> QED BY <1>2, <4>1, <6>1, <6>2
        <5>2. k - 2 \in T BY <1>4, <5>1
        <5> QED BY <5>1, <5>2
      <4> HIDE DEF Good
      <4> QED BY <4>3, <4>4
    <3>3. g[S] = w[y] + g[S \ {y}] BY <1>1, <2>2, <3>1
    <3>4. g[S] \in Nat BY <3>2, <3>3
    <3>5. ASSUME NEW x \in S, x # y PROVE g[S] = w[x] + g[S \ {x}]
      <4>1. g[S \ {y}] = w[x] + g[(S \ {y}) \ {x}] BY <3>2, <3>5
      <4>2. g[S \ {x}] = w[y] + g[(S \ {x}) \ {y}] BY <3>2, <3>5
      <4>3. (S \ {x}) \ {y} = (S \ {y}) \ {x} OBVIOUS
      <4>4. g[(S \ {y}) \ {x}] \in Nat BY <3>2, <3>5
      <4>5. w[x] \in Nat /\ w[y] \in Nat BY <1>4
      <4> QED BY <3>3, <4>1, <4>2, <4>3, <4>4, <4>5
    <3> QED BY <3>3, <3>4, <3>5
  <2> QED BY <2>1, <2>2
<1>5. \A k \in Nat : k \in T
  <2>1. ASSUME NEW k \in Nat, \A j \in 0 .. k - 1 : j \in T PROVE k \in T
    <3>1. \A S \in SUBSET A : Cardinality(S) = k => Good(S) BY <1>4, <2>1
    <3> HIDE DEF Good
    <3> QED BY <3>1
  <2> HIDE DEF T
  <2> QED BY <2>1, LeastFails
<1>6. \A S \in SUBSET A : Good(S)
  <2> HIDE DEF Good
  <2> QED BY <1>2, <1>5
<1> QED BY <1>1, <1>6 DEF AnyOrder

(* A sum over a part is the same, whatever the function is elsewhere.      *)
LEMMA SumOfPart ==
  ASSUME NEW A, IsFiniteSet(A), NEW w, NEW g, IsSum(g, w), DOMAIN w = A,
         NEW B \in SUBSET A, NEW v, NEW h, IsSum(h, v), DOMAIN v = B, \A x \in B : v[x] = w[x]
  PROVE  h[B] = g[B]
<1> DEFINE T == {k \in Nat : \A S \in SUBSET B : Cardinality(S) = k => h[S] = g[S]}
<1>1. \A S \in SUBSET A : g[S] = IF S = {} THEN 0 ELSE w[First(S)] + g[S \ {First(S)}] BY DEF IsSum
<1>2. \A S \in SUBSET B : h[S] = IF S = {} THEN 0 ELSE v[First(S)] + h[S \ {First(S)}] BY DEF IsSum
<1>3. \A S \in SUBSET A : IsFiniteSet(S) /\ Cardinality(S) \in Nat BY FS_Subset, FS_CardinalityType
<1>4. ASSUME NEW k \in Nat, \A j \in 0 .. k - 1 : j \in T PROVE k \in T
  <2> SUFFICES ASSUME NEW S \in SUBSET B, Cardinality(S) = k, S # {} PROVE h[S] = g[S] BY <1>1, <1>2
  <2>1. PICK x \in S : x = First(S) BY DEF First
  <2>2. h[S] = v[x] + h[S \ {x}] /\ g[S] = w[x] + g[S \ {x}] BY <1>1, <1>2, <2>1
  <2>3. Cardinality(S \ {x}) = k - 1 /\ k - 1 \in Nat
    <3>1. S \ {x} \in SUBSET A /\ S \in SUBSET A OBVIOUS
    <3>2. Cardinality(S \ {x}) = Cardinality(S) - 1 BY <1>3, <3>1, FS_RemoveElement
    <3> QED BY <1>3, <3>1, <3>2
  <2>4. k - 1 \in T BY <1>4, <2>3
  <2>5. h[S \ {x}] = g[S \ {x}] BY <2>3, <2>4
  <2>6. v[x] = w[x] OBVIOUS
  <2> QED BY <2>2, <2>5, <2>6
<1>5. \A k \in Nat : k \in T
  <2> HIDE DEF T
  <2> QED BY <1>4, LeastFails
<1> QED BY <1>3, <1>5

Sum(w, S) == SumFunction([x \in S |-> w[x]])

LEMMA SumIsFold ==
  ASSUME NEW A, IsFiniteSet(A), NEW w \in [A -> Nat]
  PROVE  \E g : IsSum(g, w) /\ \A S \in SUBSET A : Sum(w, S) = g[S]
<1>1. PICK g : IsSum(g, w)
  <2>1. DOMAIN w = A OBVIOUS
  <2> QED BY <2>1, SumFolds
<1>2. ASSUME NEW S \in SUBSET A PROVE Sum(w, S) = g[S]
  <2> DEFINE v == [x \in S |-> w[x]]
  <2>1. DOMAIN v = S /\ \A x \in S : v[x] = w[x] OBVIOUS
  <2>2. Sum(w, S) = SumFunction(v) BY DEF Sum
  <2>3. IsFiniteSet(S) BY FS_Subset
  <2> HIDE DEF v
  <2>4. PICK h : IsSum(h, v) /\ SumFunction(v) = h[S] BY <2>1, <2>3, SumFolds
  <2>5. h[S] = g[S]
    <3>1. DOMAIN w = A OBVIOUS
    <3> QED BY <1>1, <2>1, <2>4, <3>1, SumOfPart
  <2> QED BY <2>2, <2>4, <2>5
<1> QED BY <1>1, <1>2

LEMMA SumEmpty ==
  ASSUME NEW A, IsFiniteSet(A), NEW w \in [A -> Nat]
  PROVE  Sum(w, {}) = 0 BY SumIsFold, SumAnyOrder DEF AnyOrder

LEMMA SumSplit ==
  ASSUME NEW A, IsFiniteSet(A), NEW w \in [A -> Nat], NEW S \in SUBSET A
  PROVE  Sum(w, S) \in Nat /\ \A x \in S : Sum(w, S) = w[x] + Sum(w, S \ {x})
<1>1. PICK g : IsSum(g, w) /\ \A R \in SUBSET A : Sum(w, R) = g[R] BY SumIsFold
<1>2. g[S] \in Nat /\ \A x \in S : g[S] = w[x] + g[S \ {x}]
  <2>1. \A R \in SUBSET A : g[R] \in Nat /\ \A x \in R : g[R] = w[x] + g[R \ {x}]
    <3>1. AnyOrder(g, w, A) BY <1>1, SumAnyOrder
    <3> QED BY <3>1 DEF AnyOrder
  <2> QED BY <2>1
<1>3. \A x \in S : S \ {x} \in SUBSET A OBVIOUS
<1> QED BY <1>1, <1>2, <1>3

LEMMA SumSame ==
  ASSUME NEW w, NEW v, NEW S, \A x \in S : w[x] = v[x]
  PROVE  Sum(w, S) = Sum(v, S)
<1>1. [x \in S |-> w[x]] = [x \in S |-> v[x]] OBVIOUS
<1> QED BY <1>1 DEF Sum

LEMMA SumUnion ==
  ASSUME NEW A, IsFiniteSet(A), NEW w \in [A -> Nat], NEW S \in SUBSET A, NEW R \in SUBSET A, S \cap R = {}
  PROVE  Sum(w, S \cup R) = Sum(w, S) + Sum(w, R)
<1> DEFINE T == {k \in Nat : \A Q \in SUBSET S : Cardinality(Q) = k => Sum(w, Q \cup R) = Sum(w, Q) + Sum(w, R)}
<1>1. \A Q \in SUBSET A : Sum(w, Q) \in Nat /\ \A x \in Q : Sum(w, Q) = w[x] + Sum(w, Q \ {x}) BY SumSplit
<1>2. \A Q \in SUBSET A : IsFiniteSet(Q) /\ Cardinality(Q) \in Nat BY FS_Subset, FS_CardinalityType
<1>3. Sum(w, {}) = 0 BY SumEmpty
<1>4. ASSUME NEW k \in Nat, \A j \in 0 .. k - 1 : j \in T PROVE k \in T
  <2> SUFFICES ASSUME NEW Q \in SUBSET S, Cardinality(Q) = k PROVE Sum(w, Q \cup R) = Sum(w, Q) + Sum(w, R)
    OBVIOUS
  <2>1. CASE Q = {}
    <3>1. Q \cup R = R BY <2>1
    <3>2. Sum(w, R) \in Nat BY <1>1
    <3> QED BY <1>3, <2>1, <3>1, <3>2
  <2>2. ASSUME NEW x \in Q PROVE Sum(w, Q \cup R) = Sum(w, Q) + Sum(w, R)
    <3>1. Cardinality(Q \ {x}) = k - 1 /\ k - 1 \in Nat
      <4>1. Q \in SUBSET A /\ Q \ {x} \in SUBSET A OBVIOUS
      <4>2. Cardinality(Q \ {x}) = Cardinality(Q) - 1 BY <1>2, <4>1, FS_RemoveElement
      <4> QED BY <1>2, <4>1, <4>2
    <3>2. k - 1 \in T BY <1>4, <3>1
    <3>3. Sum(w, (Q \ {x}) \cup R) = Sum(w, Q \ {x}) + Sum(w, R) BY <3>1, <3>2
    <3>4. (Q \cup R) \ {x} = (Q \ {x}) \cup R OBVIOUS
    <3>5. Q \cup R \in SUBSET A /\ Q \in SUBSET A /\ Q \ {x} \in SUBSET A /\ R \in SUBSET A OBVIOUS
    <3>6. Sum(w, Q \cup R) = w[x] + Sum(w, (Q \cup R) \ {x}) /\ Sum(w, Q) = w[x] + Sum(w, Q \ {x}) BY <1>1, <3>5
    <3>7. w[x] \in Nat OBVIOUS
    <3>8. Sum(w, Q \ {x}) \in Nat /\ Sum(w, R) \in Nat BY <1>1, <3>5
    <3>9. PICK a, b, c : a = w[x] /\ b = Sum(w, Q \ {x}) /\ c = Sum(w, R) OBVIOUS
    <3>10. Sum(w, Q \cup R) = a + (b + c) /\ Sum(w, Q) = a + b BY <3>3, <3>4, <3>6, <3>9
    <3>11. a \in Nat /\ b \in Nat /\ c \in Nat BY <3>7, <3>8, <3>9
    <3>12. a + (b + c) = (a + b) + c BY <3>11
    <3> QED BY <3>9, <3>10, <3>12
  <2> QED BY <2>1, <2>2
<1>5. \A k \in Nat : k \in T
  <2> HIDE DEF T
  <2> QED BY <1>4, LeastFails
<1> QED BY <1>2, <1>5

(* A function that differs in one place.                                   *)
SameBut(v, w, A, x) == \A y \in A \ {x} : v[y] = w[y]
SumsBut(v, w, A, B, x) ==
  /\ Sum(v, B) = v[x] + Sum(w, A \ {x}) /\ Sum(w, A \ {x}) \in Nat
  /\ Sum(w, A) = (IF x \in A THEN w[x] ELSE 0) + Sum(w, A \ {x})
LEMMA SumPut ==
  ASSUME NEW A, IsFiniteSet(A), NEW w \in [A -> Nat], NEW x, NEW B, B = A \cup {x}, NEW v \in [B -> Nat],
         SameBut(v, w, A, x)
  PROVE  SumsBut(v, w, A, B, x)
<1>1. IsFiniteSet(B) BY FS_AddElement
<1>2. B \in SUBSET B /\ A \in SUBSET A /\ A \ {x} \in SUBSET A /\ x \in B /\ B \ {x} = A \ {x} OBVIOUS
<1>3. Sum(v, B) = v[x] + Sum(v, B \ {x}) BY <1>1, <1>2, SumSplit
<1>4. Sum(v, A \ {x}) = Sum(w, A \ {x}) BY SumSame DEF SameBut
<1>5. Sum(w, A \ {x}) \in Nat BY <1>2, SumSplit
<1>6. CASE x \in A
  <2>1. Sum(w, A) = w[x] + Sum(w, A \ {x}) BY <1>2, <1>6, SumSplit
  <2> QED BY <1>2, <1>3, <1>4, <1>5, <1>6, <2>1 DEF SumsBut
<1>7. CASE x \notin A
  <2>1. A \ {x} = A BY <1>7
  <2>2. \A n \in Nat : n = 0 + n OBVIOUS
  <2>3. Sum(w, A) = 0 + Sum(w, A \ {x})
    <3>1. Sum(w, A \ {x}) = 0 + Sum(w, A \ {x}) BY <1>5, <2>2
    <3> QED BY <2>1, <3>1
  <2> QED BY <1>2, <1>3, <1>4, <1>5, <1>7, <2>3 DEF SumsBut
<1> QED BY <1>6, <1>7 DEF SumsBut

LEMMA SumLess ==
  ASSUME NEW A, IsFiniteSet(A), NEW w \in [A -> Nat], NEW S \in SUBSET A
  PROVE  Sum(w, S) <= Sum(w, A)
<1>1. A \ S \in SUBSET A /\ S \cap (A \ S) = {} /\ S \cup (A \ S) = A /\ A \in SUBSET A OBVIOUS
<1>2. Sum(w, S \cup (A \ S)) = Sum(w, S) + Sum(w, A \ S) BY <1>1, SumUnion
<1>3. Sum(w, S) \in Nat /\ Sum(w, A \ S) \in Nat BY <1>1, SumSplit
<1>4. Sum(w, A) = Sum(w, S) + Sum(w, A \ S) BY <1>1, <1>2
<1> QED BY <1>3, <1>4

-----------------------------------------------------------------------------
(* What was reported, and what the rows say was used.                      *)
Used   == [cs \in DOMAIN costs |-> costs[cs].used]
Paid   == [i \in DOMAIN reports |-> reports[i].cost]
Billed == {reports[i].cs : i \in DOMAIN reports}
Clean  == \A cs \in Billed : CostRow(cs) \notin tainted

LEMMA SpentIs ==
  ASSUME NEW rows \in SUBSET DOMAIN costs
  PROVE  Spent(rows) = Sum(Used, rows)
<1>1. [cs \in rows |-> costs[cs].used] = [cs \in rows |-> Used[cs]] BY DEF Used
<1> QED BY <1>1 DEF Spent, Sum

(* The rows of an agent and a model, and what a breakdown says of them.    *)
KeyOf(cs) == <<costs[cs].agent, costs[cs].model>>
OfKey(rows, k) == {cs \in rows : KeyOf(cs) = k}
Line(rows, k) == [agent |-> k[1], model |-> k[2], cost |-> Spent(OfKey(rows, k))]
Costs(lines) == [g \in lines |-> g.cost]

LEMMA BreakdownIs ==
  ASSUME NEW rows
  PROVE  Breakdown(rows) = {Line(rows, KeyOf(cs)) : cs \in rows} BY DEF Breakdown, Line, KeyOf, OfKey

LEMMA BreakdownSplit ==
  ASSUME NEW rows, NEW x \in rows, NEW k, k = KeyOf(x), NEW rest, rest = rows \ OfKey(rows, k)
  PROVE  /\ Breakdown(rows) = Breakdown(rest) \cup {Line(rows, k)}
         /\ Line(rows, k) \notin Breakdown(rest)
<1>1. \A cs \in rest : KeyOf(cs) # k /\ OfKey(rest, KeyOf(cs)) = OfKey(rows, KeyOf(cs)) BY DEF OfKey
<1>2. \A cs \in rest : Line(rest, KeyOf(cs)) = Line(rows, KeyOf(cs)) BY <1>1 DEF Line
<1>3. \A cs \in rows : cs \in rest \/ KeyOf(cs) = k BY DEF OfKey
<1>4. rest \subseteq rows OBVIOUS
<1>5. Breakdown(rows) = Breakdown(rest) \cup {Line(rows, k)}
  <2>1. {Line(rows, KeyOf(cs)) : cs \in rows} = {Line(rest, KeyOf(cs)) : cs \in rest} \cup {Line(rows, k)}
    BY <1>2, <1>3, <1>4
  <2> QED BY <2>1, BreakdownIs
<1>6. ASSUME NEW cs \in rest, Line(rest, KeyOf(cs)) = Line(rows, k) PROVE FALSE
  <2>1. KeyOf(cs)[1] = k[1] /\ KeyOf(cs)[2] = k[2] BY <1>6 DEF Line
  <2>2. KeyOf(cs) = k BY <2>1 DEF KeyOf
  <2> QED BY <1>1, <2>2
<1>7. Line(rows, k) \notin {Line(rest, KeyOf(cs)) : cs \in rest} BY <1>6
<1> QED BY <1>5, <1>7, BreakdownIs

LEMMA BreakdownAddsUp ==
  ASSUME IsFiniteSet(DOMAIN costs), \A cs \in DOMAIN costs : costs[cs].used \in Nat, NEW all \in SUBSET DOMAIN costs
  PROVE  SumFunction(Costs(Breakdown(all))) = Spent(all)
<1> DEFINE A == DOMAIN costs
           Adds(rows) == Sum(Costs(Breakdown(rows)), Breakdown(rows)) = Sum(Used, rows)
           T == {n \in Nat : \A rows \in SUBSET A : Cardinality(rows) = n => Adds(rows)}
<1>1. Used \in [A -> Nat] BY DEF Used
<1>2. \A rows \in SUBSET A : IsFiniteSet(rows) /\ Cardinality(rows) \in Nat BY FS_Subset, FS_CardinalityType
<1>3. \A rows \in SUBSET A : Sum(Used, rows) \in Nat BY <1>1, SumSplit
<1>4. ASSUME NEW rows \in SUBSET A PROVE IsFiniteSet(Breakdown(rows)) /\ Costs(Breakdown(rows)) \in [Breakdown(rows) -> Nat]
  <2>1. IsFiniteSet({Line(rows, KeyOf(cs)) : cs \in rows})
    <3> DEFINE f == [cs \in rows |-> Line(rows, KeyOf(cs))]
               R == {Line(rows, KeyOf(cs)) : cs \in rows}
    <3>1. IsFiniteSet(rows) BY <1>2
    <3>2. f \in Surjection(rows, R)
      <4>1. f \in [rows -> R] /\ \A l \in R : \E cs \in rows : f[cs] = l OBVIOUS
      <4> HIDE DEF f, R
      <4> QED BY <4>1 DEF Surjection
    <3> HIDE DEF f
    <3> QED BY <3>1, <3>2, FS_Surjection
  <2>2. \A cs \in rows : Line(rows, KeyOf(cs)).cost \in Nat
    <3>1. \A k : OfKey(rows, k) \in SUBSET A BY DEF OfKey
    <3> QED BY <1>3, <3>1, SpentIs DEF Line
  <2>3. \A g \in Breakdown(rows) : g.cost \in Nat BY <2>2, BreakdownIs
  <2> QED BY <2>1, <2>3, BreakdownIs DEF Costs
<1>5. ASSUME NEW n \in Nat, \A j \in 0 .. n - 1 : j \in T, NEW rows \in SUBSET A, Cardinality(rows) = n
      PROVE  Adds(rows)
  <2>1. CASE rows = {}
    <3>1. Breakdown(rows) = {} BY <2>1, BreakdownIs
    <3>2. Costs({}) \in [{} -> Nat] BY DEF Costs
    <3>3. Sum(Costs(Breakdown(rows)), Breakdown(rows)) = 0
      <4>1. IsFiniteSet({}) BY FS_EmptySet
      <4> QED BY <3>1, <3>2, <4>1, SumEmpty
    <3>4. Sum(Used, rows) = 0 BY <1>1, <2>1, SumEmpty
    <3> QED BY <3>3, <3>4
  <2>2. ASSUME NEW x \in rows PROVE Adds(rows)
    <3>1. PICK k, rest, B, l : k = KeyOf(x) /\ rest = rows \ OfKey(rows, k) /\ B = Breakdown(rows) /\ l = Line(rows, k)
      OBVIOUS
    <3>2. B = Breakdown(rest) \cup {l} /\ l \notin Breakdown(rest) BY <3>1, BreakdownSplit
    <3>3. rest \in SUBSET A /\ OfKey(rows, k) \in SUBSET A /\ x \notin rest /\ rest \subseteq rows
      BY <3>1 DEF OfKey
    <3>4. Cardinality(rest) < n
      <4>1. rest \subseteq rows \ {x} /\ IsFiniteSet(rows) /\ IsFiniteSet(rows \ {x}) BY <1>2, <3>3
      <4>2. Cardinality(rest) <= Cardinality(rows \ {x}) BY <4>1, FS_Subset
      <4>3. Cardinality(rows \ {x}) = Cardinality(rows) - 1 BY <4>1, FS_RemoveElement
      <4>4. Cardinality(rest) \in Nat BY <1>2, <3>3
      <4> QED BY <1>5, <4>2, <4>3, <4>4
    <3>5. Adds(rest)
      <4>1. Cardinality(rest) \in 0 .. n - 1 BY <1>2, <3>3, <3>4
      <4>2. Cardinality(rest) \in T BY <1>5, <4>1
      <4> HIDE DEF Adds
      <4> QED BY <3>3, <4>2
    <3>6. Sum(Costs(B), B) = l.cost + Sum(Costs(B), Breakdown(rest))
      <4>1. IsFiniteSet(B) /\ Costs(B) \in [B -> Nat] /\ B \in SUBSET B /\ l \in B BY <1>4, <3>1, <3>2
      <4>2. Sum(Costs(B), B) = Costs(B)[l] + Sum(Costs(B), B \ {l}) BY <4>1, SumSplit
      <4>3. B \ {l} = Breakdown(rest) BY <3>2
      <4> QED BY <4>1, <4>2, <4>3 DEF Costs
    <3>7. Sum(Costs(B), Breakdown(rest)) = Sum(Costs(Breakdown(rest)), Breakdown(rest))
      <4>1. \A g \in Breakdown(rest) : Costs(B)[g] = Costs(Breakdown(rest))[g] BY <3>2 DEF Costs
      <4> QED BY <4>1, SumSame
    <3>8. l.cost = Sum(Used, OfKey(rows, k)) BY <3>1, <3>3, SpentIs DEF Line
    <3>9. Sum(Used, OfKey(rows, k) \cup rest) = Sum(Used, OfKey(rows, k)) + Sum(Used, rest)
      <4>1. OfKey(rows, k) \cap rest = {} BY <3>1
      <4> QED BY <1>1, <3>3, <4>1, SumUnion
    <3>10. OfKey(rows, k) \cup rest = rows BY <3>1 DEF OfKey
    <3> QED BY <3>1, <3>5, <3>6, <3>7, <3>8, <3>9, <3>10
  <2> QED BY <2>1, <2>2
<1>6. \A n \in Nat : n \in T
  <2>1. ASSUME NEW n \in Nat, \A j \in 0 .. n - 1 : j \in T PROVE n \in T
    <3>1. \A rows \in SUBSET A : Cardinality(rows) = n => Adds(rows) BY <1>5, <2>1
    <3> HIDE DEF Adds
    <3> QED BY <3>1
  <2> HIDE DEF T
  <2> QED BY <2>1, LeastFails
<1>7. Adds(all)
  <2> HIDE DEF Adds
  <2> QED BY <1>2, <1>6
<1>8. [g \in Breakdown(all) |-> Costs(Breakdown(all))[g]] = Costs(Breakdown(all)) BY DEF Costs
<1> QED BY <1>7, <1>8, SpentIs DEF Sum

(* A promotion that is about to write its cost row may find one there, but *)
(* then nothing was reported for it, or the row is tainted.                *)
Unspent(s) ==
  s.at = "cost" /\ s.cmd.cs \in DOMAIN costs =>
    costs[s.cmd.cs].used = 0 \/ (s.cmd.cs \in Billed /\ CostRow(s.cmd.cs) \in tainted)
ReportsOK ==
  /\ \E S : reports \in Seq(S)
  /\ \A i \in DOMAIN reports : reports[i].cost \in Nat
BudgetsOK == \A b \in DOMAIN budgets : budgets[b].limit \in Nat /\ budgets[b].percent \in Nat

UsageInv ==
  /\ ReportsOK /\ BudgetsOK /\ IsFiniteSet(DOMAIN costs)
  /\ \A p \in Proc : Unspent(proc[p])
  /\ Clean => Sum(Used, DOMAIN costs) = Sum(Paid, DOMAIN reports)

LEMMA UsedOK ==
  ASSUME CostsOK, ReportsOK
  PROVE  /\ Used \in [DOMAIN costs -> Nat] /\ Paid \in [DOMAIN reports -> Nat]
         /\ IsFiniteSet(DOMAIN reports)
<1>1. Used \in [DOMAIN costs -> Nat] BY DEF Used, CostsOK
<1>2. Paid \in [DOMAIN reports -> Nat] BY DEF Paid, ReportsOK
<1>3. IsFiniteSet(DOMAIN reports)
  <2>1. PICK S : reports \in Seq(S) BY DEF ReportsOK
  <2>2. DOMAIN reports = 1 .. Len(reports) /\ Len(reports) \in Nat BY <2>1
  <2> QED BY <2>2, FS_Interval
<1> QED BY <1>1, <1>2, <1>3

(* A step that writes no cost row.                                         *)
LEMMA UsageStays ==
  ASSUME UsageInv, NEW p \in Proc, \A q \in Proc \ {p} : proc'[q] = proc[q], Unspent(proc[p])',
         UNCHANGED <<costs, reports>>, tainted \subseteq tainted', BudgetsOK'
  PROVE  UsageInv'
<1>1. ReportsOK' /\ IsFiniteSet(DOMAIN costs') BY DEF UsageInv, ReportsOK
<1>2. Billed' = Billed /\ Used' = Used /\ Paid' = Paid BY DEF Billed, Used, Paid
<1>3. Clean' => Clean BY <1>2 DEF Clean
<1>4. \A q \in Proc \ {p} : Unspent(proc[q])' BY <1>2 DEF UsageInv, Unspent
<1>5. Clean' => Sum(Used', DOMAIN costs') = Sum(Paid', DOMAIN reports') BY <1>2, <1>3 DEF UsageInv
<1>6. \A q \in Proc : Unspent(proc[q])' BY <1>4
<1> QED BY <1>1, <1>5, <1>6 DEF UsageInv

LEMMA UsageCosted ==
  ASSUME Base, LedgerInv, UsageInv, NEW p \in Proc, Moves(p), Costed(p)
  PROVE  UsageInv'
<1> USE DEF Cmd, At
<1>1. PICK own : own = Cmd(p).cs OBVIOUS
<1>2. PICK agent, at : costs' = Replaced(costs, own, [agent |-> agent, model |-> "human", used |-> 0,
                                                      lines |-> ChangesetDelta(own).lines, at |-> at])
  BY <1>1 DEF Costed
<1> DEFINE row == [agent |-> agent, model |-> "human", used |-> 0, lines |-> ChangesetDelta(own).lines, at |-> at]
<1>3. row.used = 0 /\ costs' = Replaced(costs, own, row) BY <1>2
<1> HIDE DEF row
<1>4. /\ DOMAIN costs' = DOMAIN costs \cup {own} /\ costs'[own].used = 0
      /\ \A cs \in DOMAIN costs \ {own} : costs'[cs] = costs[cs] BY <1>3 DEF Replaced
<1>5. UNCHANGED <<budgets, reports>> /\ tainted \subseteq tainted' /\ proc'[p].at = "detect"
      /\ \A q \in Proc \ {p} : proc'[q] = proc[q] BY DEF Costed, Moves
<1>6. ReportsOK' /\ BudgetsOK' BY <1>5 DEF UsageInv, ReportsOK, BudgetsOK
<1>7. IsFiniteSet(DOMAIN costs') BY <1>4, FS_AddElement DEF UsageInv
<1>8. Billed' = Billed /\ Paid' = Paid BY <1>5 DEF Billed, Paid
<1>9. ASSUME NEW q \in Proc PROVE Unspent(proc[q])'
  <2>1. CASE q = p BY <1>5, <2>1 DEF Unspent
  <2>2. CASE q # p
    <3>1. proc'[q] = proc[q] /\ Unspent(proc[q]) BY <1>5, <2>2 DEF UsageInv
    <3>2. CASE proc[q].cmd.cs = own BY <1>4, <3>1, <3>2 DEF Unspent
    <3>3. CASE proc[q].cmd.cs # own BY <1>4, <1>5, <1>8, <3>1, <3>3 DEF Unspent
    <3> QED BY <3>2, <3>3
  <2> QED BY <2>1, <2>2
<1>10. ASSUME Clean' PROVE Sum(Used', DOMAIN costs') = Sum(Paid', DOMAIN reports')
  <2>1. Clean BY <1>5, <1>8, <1>10 DEF Clean
  <2>2. own \in DOMAIN costs => costs[own].used = 0
    <3>1. Unspent(proc[p]) /\ proc[p].at = "cost" BY DEF UsageInv, Costed
    <3> QED BY <1>1, <2>1, <3>1 DEF Unspent, Clean
  <2>3. CostsOK /\ ReportsOK /\ CostsOK' BY CostWritten DEF LedgerInv, UsageInv
  <2>4. Used \in [DOMAIN costs -> Nat] BY <2>3, UsedOK
  <2>5. PICK A, B, w, v : A = DOMAIN costs /\ B = DOMAIN costs' /\ w = Used /\ v = Used' OBVIOUS
  <2>6. IsFiniteSet(A) /\ w \in [A -> Nat] /\ B = A \cup {own} BY <1>4, <2>4, <2>5 DEF UsageInv
  <2>7. v \in [B -> Nat] BY <2>3, <2>5 DEF Used, CostsOK
  <2>8. v[own] = 0 /\ SameBut(v, w, A, own) BY <1>4, <2>5 DEF Used, SameBut
  <2>9. /\ Sum(v, B) = v[own] + Sum(w, A \ {own}) /\ Sum(w, A \ {own}) \in Nat
        /\ Sum(w, A) = (IF own \in A THEN w[own] ELSE 0) + Sum(w, A \ {own})
    <3>1. SumsBut(v, w, A, B, own) BY <2>6, <2>7, <2>8, SumPut
    <3> QED BY <3>1 DEF SumsBut
  <2>10. own \in A => w[own] = 0 BY <2>2, <2>5 DEF Used
  <2>11. Sum(v, B) = Sum(w, A) BY <2>8, <2>9, <2>10
  <2> QED BY <1>5, <1>8, <2>1, <2>5, <2>11 DEF UsageInv
<1>11. \A q \in Proc : Unspent(proc[q])' BY <1>9
<1> QED BY <1>6, <1>7, <1>10, <1>11 DEF UsageInv

LEMMA UsageReported ==
  ASSUME Base, LedgerInv, UsageInv, NEW p \in Proc, Moves(p), Reported(p)
  PROVE  UsageInv'
<1> USE DEF Cmd, At
<1>1. PICK c \in todo : /\ c.op = "report" /\ InLog(c.cs) /\ costs' = AddUsage(c)
                        /\ reports' = Append(reports, [cs |-> c.cs, cost |-> c.cost])
                        /\ Updating(CostRow(c.cs)) => CostRow(c.cs) \in tainted' BY DEF Reported
<1>2. c.cost \in Nat BY <1>1 DEF Base, TodoOK, CommandOK
<1>3. CostsOK /\ ReportsOK BY DEF LedgerInv, UsageInv
<1>4. /\ DOMAIN costs' = DOMAIN costs \cup {c.cs}
      /\ \A cs \in DOMAIN costs \ {c.cs} : costs'[cs] = costs[cs]
      /\ costs'[c.cs].used = (IF c.cs \in DOMAIN costs THEN costs[c.cs].used ELSE 0) + c.cost
  BY <1>1, <1>2, <1>3, UsageRow
<1>5. UNCHANGED <<budgets, proc>> /\ tainted \subseteq tainted' BY DEF Reported, Moves
<1>6. PICK S : reports \in Seq(S) BY <1>3 DEF ReportsOK
<1>7. PICK row, n : row = [cs |-> c.cs, cost |-> c.cost] /\ n = Len(reports) + 1 OBVIOUS
<1>8. row.cs = c.cs /\ row.cost = c.cost BY <1>7
<1>9. /\ DOMAIN reports = 1 .. n - 1 /\ n \in Nat \ {0} /\ DOMAIN reports' = DOMAIN reports \cup {n} /\ n \notin DOMAIN reports
      /\ reports'[n] = row /\ \A i \in DOMAIN reports : reports'[i] = reports[i] BY <1>1, <1>6, <1>7
<1>10. ReportsOK'
  <2>1. reports \in Seq(S \cup {row}) BY <1>6
  <2>2. reports' \in Seq(S \cup {row}) BY <1>1, <1>7, <2>1
  <2>3. \A i \in DOMAIN reports' : reports'[i].cost \in Nat BY <1>2, <1>3, <1>8, <1>9 DEF ReportsOK
  <2> QED BY <2>2, <2>3 DEF ReportsOK
<1>11. Billed \cup {c.cs} \subseteq Billed' BY <1>8, <1>9 DEF Billed
<1>12. BudgetsOK' /\ IsFiniteSet(DOMAIN costs') BY <1>4, <1>5, FS_AddElement DEF UsageInv, BudgetsOK
<1>13. ASSUME NEW q \in Proc, proc[q].at = "cost", proc[q].cmd.cs \in DOMAIN costs'
       PROVE  costs'[proc[q].cmd.cs].used = 0 \/ (proc[q].cmd.cs \in Billed' /\ CostRow(proc[q].cmd.cs) \in tainted')
  <2>1. CASE proc[q].cmd.cs = c.cs
    <3>1. proc[q].on = CostRow(c.cs) BY <1>13, <2>1, OpOf DEF RowAt
    <3>2. CostRow(c.cs) \in tainted' BY <1>1, <3>1 DEF Updating
    <3> QED BY <1>11, <2>1, <3>2
  <2>2. CASE proc[q].cmd.cs # c.cs
    <3>1. proc[q].cmd.cs \in DOMAIN costs /\ costs'[proc[q].cmd.cs] = costs[proc[q].cmd.cs] BY <1>4, <1>13, <2>2
    <3>2. Unspent(proc[q]) BY DEF UsageInv
    <3> QED BY <1>5, <1>11, <1>13, <3>1, <3>2 DEF Unspent
  <2> QED BY <2>1, <2>2
<1>14. \A q \in Proc : Unspent(proc[q])' BY <1>5, <1>13 DEF Unspent
<1>15. ASSUME Clean' PROVE Sum(Used', DOMAIN costs') = Sum(Paid', DOMAIN reports')
  <2>1. Clean BY <1>5, <1>11, <1>15 DEF Clean
  <2>2. Used \in [DOMAIN costs -> Nat] /\ Paid \in [DOMAIN reports -> Nat] /\ IsFiniteSet(DOMAIN reports) BY <1>3, UsedOK
  <2>3. PICK A, B, w, v, x : A = DOMAIN costs /\ B = DOMAIN costs' /\ w = Used /\ v = Used' /\ x = c.cs OBVIOUS
  <2>4. PICK D, E, r, u : D = DOMAIN reports /\ E = DOMAIN reports' /\ r = Paid /\ u = Paid' OBVIOUS
  <2>5. IsFiniteSet(A) /\ w \in [A -> Nat] /\ B = A \cup {x} BY <1>4, <2>2, <2>3 DEF UsageInv
  <2>6. v[x] = (IF x \in A THEN w[x] ELSE 0) + c.cost BY <1>4, <2>3 DEF Used
  <2>7. SameBut(v, w, A, x) BY <1>4, <2>3 DEF Used, SameBut
  <2>8. /\ Sum(v, B) = v[x] + Sum(w, A \ {x}) /\ Sum(w, A \ {x}) \in Nat
        /\ Sum(w, A) = (IF x \in A THEN w[x] ELSE 0) + Sum(w, A \ {x})
    <3>1. v[x] \in Nat BY <1>2, <2>5, <2>6
    <3>2. \A cs \in B : v[cs] \in Nat BY <2>5, <2>7, <3>1 DEF SameBut
    <3>3. v = [cs \in B |-> v[cs]] BY <2>3 DEF Used
    <3>4. v \in [B -> Nat] BY <3>2, <3>3
    <3>5. SumsBut(v, w, A, B, x) BY <2>5, <2>7, <3>4, SumPut
    <3> QED BY <3>5 DEF SumsBut
  <2>9. Sum(v, B) = c.cost + Sum(w, A) /\ Sum(w, A) \in Nat
    <3>1. PICK a, b : a = (IF x \in A THEN w[x] ELSE 0) /\ b = Sum(w, A \ {x}) OBVIOUS
    <3>2. a \in Nat /\ b \in Nat BY <2>5, <2>8, <3>1
    <3>3. Sum(v, B) = (a + c.cost) + b /\ Sum(w, A) = a + b BY <2>6, <2>8, <3>1
    <3> QED BY <1>2, <3>2, <3>3
  <2>10. IsFiniteSet(D) /\ r \in [D -> Nat] /\ E = D \cup {n} /\ D \ {n} = D BY <1>9, <2>2, <2>4
  <2>11. u[n] = c.cost /\ SameBut(u, r, D, n) BY <1>8, <1>9, <2>4 DEF Paid, SameBut
  <2>12. u \in [E -> Nat] BY <1>10, <2>4 DEF Paid, ReportsOK
  <2>13. Sum(u, E) = u[n] + Sum(r, D \ {n})
    <3>1. SumsBut(u, r, D, E, n) BY <2>10, <2>11, <2>12, SumPut
    <3> QED BY <3>1 DEF SumsBut
  <2>14. Sum(u, E) = c.cost + Sum(r, D) BY <2>10, <2>11, <2>13
  <2>15. Sum(w, A) = Sum(r, D) BY <2>1, <2>3, <2>4 DEF UsageInv
  <2> QED BY <2>3, <2>4, <2>9, <2>14, <2>15
<1> QED BY <1>10, <1>12, <1>14, <1>15 DEF UsageInv

LEMMA UsageStep == Base /\ LedgerInv /\ UsageInv /\ [Next]_vars => UsageInv'
<1> SUFFICES ASSUME Base, LedgerInv, UsageInv, [Next]_vars PROVE UsageInv' OBVIOUS
<1> USE DEF At
<1>1. CASE Still
  <2>1. UNCHANGED <<costs, reports, budgets, proc, tainted>> BY <1>1 DEF Still, ledgerVars
  <2>2. ReportsOK' /\ BudgetsOK' /\ IsFiniteSet(DOMAIN costs') BY <2>1 DEF UsageInv, ReportsOK, BudgetsOK
  <2>3. Billed' = Billed /\ Used' = Used /\ Paid' = Paid BY <2>1 DEF Billed, Used, Paid
  <2>4. \A q \in Proc : Unspent(proc[q])' BY <2>1, <2>3 DEF UsageInv, Unspent
  <2>5. Clean' => Clean BY <2>1, <2>3 DEF Clean
  <2>6. Clean' => Sum(Used', DOMAIN costs') = Sum(Paid', DOMAIN reports') BY <2>1, <2>3, <2>5 DEF UsageInv
  <2> QED BY <2>2, <2>4, <2>6 DEF UsageInv
<1>2. ASSUME NEW p \in Proc, Moves(p), UNCHANGED <<costs, reports, budgets>>, proc'[p].at # "cost" PROVE UsageInv'
  <2>1. BudgetsOK' BY <1>2 DEF UsageInv, BudgetsOK
  <2>2. Unspent(proc[p])' BY <1>2 DEF Unspent
  <2>3. (\A q \in Proc \ {p} : proc'[q] = proc[q]) /\ tainted \subseteq tainted' BY <1>2 DEF Moves
  <2> QED BY <1>2, <2>1, <2>2, <2>3, UsageStays
<1>3. ASSUME NEW p \in Proc, Moves(p), LedgerElsewhere(p) PROVE UsageInv'
  <2>1. proc'[p].at # "cost" BY <1>3 DEF LedgerElsewhere, Recordings
  <2> QED BY <1>2, <1>3, <2>1 DEF LedgerElsewhere, ledgerVars
<1>4. ASSUME NEW p \in Proc, Moves(p), DetectMove(p) PROVE UsageInv'
  <2>1. UNCHANGED <<costs, reports, budgets>> BY <1>4, DetectDoes DEF Sized, Tested, Alarmed, ledgerVars
  <2>2. proc'[p].at # "cost" BY <1>4, DetectDoes DEF Sized, Tested, Alarmed, Onward
  <2> QED BY <1>2, <1>4, <2>1, <2>2
<1>5. ASSUME NEW p \in Proc, Moves(p), CostMove(p) PROVE UsageInv'
  <2>1. CASE Costed(p) BY <1>5, <2>1, UsageCosted
  <2>2. CASE Reported(p) BY <1>5, <2>2, UsageReported
  <2>3. ASSUME UNCHANGED <<costs, reports, proc>>, BudgetsOK' PROVE UsageInv'
    <3>1. Billed' = Billed BY <2>3 DEF Billed
    <3>2. tainted \subseteq tainted' BY <1>5 DEF Moves
    <3>3. Unspent(proc[p])' BY <2>3, <3>1, <3>2 DEF UsageInv, Unspent
    <3> QED BY <2>3, <3>2, <3>3, UsageStays
  <2>4. CASE Logged(p)
    <3>1. PICK c \in todo : /\ Promotes(c)
                            /\ \E row : row.cs = c.cs /\ (proc' = proc \/ (proc'[p].at = "cost" /\ proc'[p].cmd = c))
      BY <2>4 DEF Logged
    <3>2. UNCHANGED <<costs, reports, budgets>> BY <2>4 DEF Logged
    <3>3. BudgetsOK' BY <3>2 DEF UsageInv, BudgetsOK
    <3>4. CASE proc' = proc BY <2>3, <3>2, <3>3, <3>4
    <3>5. CASE proc'[p].at = "cost" /\ proc'[p].cmd = c
      <4>1. ~InLog(c.cs) BY <3>1 DEF LedgerInv, TodoFresh
      <4>2. c.cs \notin DOMAIN costs BY <4>1 DEF LedgerInv, CostsOK
      <4>3. Unspent(proc[p])' BY <3>2, <3>5, <4>2 DEF Unspent
      <4>4. (\A q \in Proc \ {p} : proc'[q] = proc[q]) /\ tainted \subseteq tainted' BY <1>5 DEF Moves
      <4> QED BY <3>2, <3>3, <4>3, <4>4, UsageStays
    <3> QED BY <3>1, <3>4, <3>5
  <2>5. CASE Switched(p)
    <3>1. proc'[p].at # "cost" BY <2>5 DEF Switched, Idle
    <3> QED BY <1>2, <1>5, <2>5, <3>1 DEF Switched
  <2>6. CASE Tuned(p)
    <3>1. UNCHANGED <<costs, reports, budgets>> /\ (proc' = proc \/ proc'[p].at # "cost") BY <2>6 DEF Tuned
    <3>2. BudgetsOK' BY <3>1 DEF UsageInv, BudgetsOK
    <3> QED BY <1>2, <1>5, <2>3, <3>1, <3>2
  <2>7. CASE Settled(p)
    <3>1. BudgetsOK' BY <2>7 DEF Settled, UsageInv, BudgetsOK
    <3> QED BY <2>3, <2>7, <3>1 DEF Settled
  <2>8. CASE Budgeted(p)
    <3>1. PICK c \in todo : c.op = "budget" /\ budgets' = Replaced(budgets, c.pattern, [limit |-> c.limit, percent |-> c.percent])
      BY <2>8 DEF Budgeted
    <3>2. c.limit \in Nat /\ c.percent \in Nat BY <3>1 DEF Base, TodoOK, CommandOK
    <3>3. BudgetsOK' BY <3>1, <3>2 DEF UsageInv, BudgetsOK, Replaced
    <3> QED BY <2>3, <2>8, <3>3 DEF Budgeted
  <2> QED BY <1>5, <2>1, <2>2, <2>4, <2>5, <2>6, <2>7, <2>8, CostDoes
<1> QED BY <1>1, <1>3, <1>4, <1>5, LedgerCases

LEMMA UsageInit == Init => UsageInv
<1> SUFFICES ASSUME Init PROVE UsageInv OBVIOUS
<1>1. PICK s \in Scenarios : budgets = s.budgets BY DEF Init
<1>2. TablesOK(s) BY ScenariosAssumption
<1>3. proc = [p \in Proc |-> Idle] /\ costs = <<>> /\ reports = <<>> BY DEF Init
<1>4. BudgetsOK BY <1>1, <1>2 DEF TablesOK, BudgetsOK
<1>5. DOMAIN costs = {} /\ DOMAIN reports = {} /\ reports \in Seq({}) BY <1>3
<1>6. ReportsOK BY <1>5 DEF ReportsOK
<1>7. IsFiniteSet({}) BY FS_EmptySet
<1>8. \A p \in Proc : Unspent(proc[p]) BY <1>3 DEF Unspent, Idle
<1>9. Used \in [{} -> Nat] /\ Paid \in [{} -> Nat] BY <1>5 DEF Used, Paid
<1>10. Sum(Used, {}) = 0 /\ Sum(Paid, {}) = 0 BY <1>7, <1>9, SumEmpty
<1> QED BY <1>4, <1>5, <1>6, <1>7, <1>8, <1>10 DEF UsageInv

LEMMA UsageTold == Times /\ LedgerInv /\ UsageInv => UsageKept
<1> SUFFICES ASSUME LedgerInv, UsageInv, Clean
             PROVE  LET total == SumFunction([i \in DOMAIN reports |-> reports[i].cost])
                    IN  /\ Spent(DOMAIN costs) = total
                        /\ SumFunction([g \in Breakdown(DOMAIN costs) |-> g.cost]) = total
                        /\ \A b \in Alerting : 100 * total >= budgets[b].limit * budgets[b].percent
  BY DEF UsageKept, Clean, Billed
<1> DEFINE total == SumFunction([i \in DOMAIN reports |-> reports[i].cost])
<1>1. CostsOK /\ ReportsOK /\ BudgetsOK /\ IsFiniteSet(DOMAIN costs) BY DEF LedgerInv, UsageInv
<1>2. Used \in [DOMAIN costs -> Nat] BY <1>1, UsedOK
<1>3. total = Sum(Paid, DOMAIN reports)
  <2>1. [i \in DOMAIN reports |-> reports[i].cost] = [i \in DOMAIN reports |-> Paid[i]] BY DEF Paid
  <2> QED BY <2>1 DEF Sum
<1>4. Spent(DOMAIN costs) = total BY <1>3, SpentIs DEF UsageInv
<1>5. SumFunction([g \in Breakdown(DOMAIN costs) |-> g.cost]) = total
  <2>1. \A cs \in DOMAIN costs : costs[cs].used \in Nat BY <1>1 DEF CostsOK
  <2>2. SumFunction(Costs(Breakdown(DOMAIN costs))) = Spent(DOMAIN costs) BY <1>1, <2>1, BreakdownAddsUp
  <2> QED BY <1>4, <2>2 DEF Costs
<1>6. ASSUME NEW b \in Alerting PROVE 100 * total >= budgets[b].limit * budgets[b].percent
  <2>1. PICK rows \in SUBSET DOMAIN costs : 100 * Spent(rows) >= budgets[b].limit * budgets[b].percent
    BY DEF Alerting
  <2>2. b \in DOMAIN budgets BY DEF Alerting
  <2>3. PICK x \in Nat : x = budgets[b].limit * budgets[b].percent
    <3>1. budgets[b].limit \in Nat /\ budgets[b].percent \in Nat BY <1>1, <2>2 DEF BudgetsOK
    <3>2. \A m, n \in Nat : m * n \in Nat OBVIOUS
    <3> QED BY <3>1, <3>2
  <2>4. Spent(rows) \in Nat /\ Spent(rows) <= Sum(Used, DOMAIN costs) /\ Sum(Used, DOMAIN costs) \in Nat
    BY <1>1, <1>2, SpentIs, SumSplit, SumLess
  <2>5. Sum(Used, DOMAIN costs) = total BY <1>4, SpentIs
  <2>6. PICK y, z \in Nat : y = Spent(rows) /\ z = total BY <2>4, <2>5
  <2>7. 100 * y >= x /\ y <= z BY <2>1, <2>3, <2>4, <2>5, <2>6
  <2>8. 100 * z >= x BY <2>7
  <2> QED BY <2>3, <2>6, <2>8
<1> QED BY <1>4, <1>5, <1>6
-----------------------------------------------------------------------------
(* An author's pace.  While nobody died, left the rule alone or promoted   *)
(* otherwise, an author over the threshold has raised it, or a promotion   *)
(* of the author has yet to count, or has counted all there is.            *)
Undisturbed ==
  /\ deaths = 0 /\ "burst-activity" \notin tuned
  /\ \A k \in DOMAIN log : log[k].promoted /\ log[k].at >= now - Day
Mine(by)     == {k \in DOMAIN log : log[k].by = by}
Bursting(by) == Cardinality(Mine(by)) > rules["burst-activity"].threshold
Alarm(by) ==
  \E n \in DOMAIN anomalies : anomalies[n].rule = "burst-activity"
                              /\ \E k \in DOMAIN log : log[k].cs = anomalies[n].cs /\ log[k].by = by
Counting(s, by) ==
  /\ s.cmd.op = "promote" /\ s.cmd.by = by
  /\ \/ s.at \in {"cost", "detect"}
     \/ s.at \in Detecting /\ s.mem.value["burst-activity"] = Cardinality(Mine(by))
Authored(s) == s.cmd.op = "promote" => \E k \in DOMAIN log : log[k].cs = s.cmd.cs /\ log[k].by = s.cmd.by
Stamped     == \A i \in DOMAIN log : log[i].at \in Nat
Watched(by) == Bursting(by) => Alarm(by) \/ \E p \in Proc : Counting(proc[p], by)

BurstInv ==
  /\ Stamped /\ \A p \in Proc : Authored(proc[p])
  /\ Undisturbed => \A i \in DOMAIN log : Watched(log[i].by)

Longer == DOMAIN log \subseteq DOMAIN log' /\ \A i \in DOMAIN log : log'[i] = log[i]

LEMMA Appended ==
  ASSUME LogOK, NEW row, log' = Append(log, row)
  PROVE  /\ Longer /\ DOMAIN log' = DOMAIN log \cup {Len(log) + 1} /\ Len(log) + 1 \notin DOMAIN log
         /\ log'[Len(log) + 1] = row
<1>1. PICK S : log \in Seq(S) BY DEF LogOK
<1>2. Len(log) \in Nat /\ DOMAIN log = 1 .. Len(log) BY <1>1
<1> QED BY <1>1, <1>2 DEF Longer


LEMMA UndisturbedBefore ==
  ASSUME Times, Stamped, Longer, RulesChange, [Next]_vars, Undisturbed'
  PROVE  Undisturbed /\ deaths' = deaths
<1>1. now \in Nat /\ deaths \in Nat /\ Day \in Nat BY CommandsAssumption, LedgerAssumption DEF Times
<1>2. deaths' = deaths /\ deaths = 0 BY <1>1, ClockMoves DEF Undisturbed, Steady
<1>3. "burst-activity" \notin tuned BY DEF Undisturbed, RulesChange
<1>4. ASSUME NEW k \in DOMAIN log PROVE log[k].promoted /\ log[k].at >= now - Day
  <2>1. log'[k] = log[k] /\ log'[k].promoted /\ log'[k].at >= now' - Day BY <1>4 DEF Longer, Undisturbed
  <2>2. PICK at \in Nat : at = log[k].at BY <1>4 DEF Stamped
  <2>3. now' = now \/ now' = now + 1 BY ClockMoves DEF Steady
  <2> QED BY <1>1, <2>1, <2>2, <2>3
<1> QED BY <1>2, <1>3, <1>4 DEF Undisturbed

LEMMA AlarmKept ==
  ASSUME Longer, AnomaliesGrow, NEW by, Alarm(by)
  PROVE  Alarm(by)'
<1>1. PICK n \in DOMAIN anomalies, k \in DOMAIN log :
        anomalies[n].rule = "burst-activity" /\ log[k].cs = anomalies[n].cs /\ log[k].by = by BY DEF Alarm
<1>2. /\ n \in DOMAIN anomalies' /\ anomalies'[n].rule = "burst-activity" /\ anomalies'[n].cs = anomalies[n].cs
      /\ k \in DOMAIN log' /\ log'[k] = log[k] BY <1>1 DEF Longer, AnomaliesGrow
<1> QED BY <1>1, <1>2 DEF Alarm

LEMMA AuthoredKept ==
  ASSUME Longer, NEW s, Authored(s)
  PROVE  Authored(s)' BY DEF Longer, Authored


(* Nothing is older than a day: the count is of all the author's.          *)
LEMMA RecentIsMine ==
  ASSUME Times, LogOK, Stamped, Undisturbed, NEW by
  PROVE  RecentCount(by) = Cardinality(Mine(by))
<1>1. now \in Nat /\ Day \in Nat BY CommandsAssumption, LedgerAssumption DEF Times
<1>2. {i \in DOMAIN log : log[i].at < now - Day} = {}
  <2> SUFFICES ASSUME NEW i \in DOMAIN log, log[i].at < now - Day PROVE FALSE OBVIOUS
  <2>1. PICK at \in Nat : at = log[i].at BY DEF Stamped
  <2> QED BY <1>1, <2>1 DEF Undisturbed
<1>3. 1 .. Len(log) = DOMAIN log BY DEF LogOK
<1>4. {i \in 1 .. Len(log) : log[i].by = by} = Mine(by) BY <1>3 DEF Mine
<1> QED BY <1>2, <1>4 DEF RecentCount

LEMMA RuleStays ==
  ASSUME RulesOK, RulesChange, Undisturbed'
  PROVE  rules'["burst-activity"] = rules["burst-activity"]
BY LedgerAssumption DEF RulesOK, RulesChange, Undisturbed

(* A step that leaves the history alone: only who moved may have counted.  *)
LEMMA WatchedKept ==
  ASSUME RulesOK, RulesChange, AnomaliesGrow, Undisturbed', log' = log, NEW by, Watched(by), NEW p \in Proc,
         \A q \in Proc \ {p} : proc'[q] = proc[q],
         Bursting(by) /\ Counting(proc[p], by) => Counting(proc[p], by)' \/ Alarm(by)'
  PROVE  Watched(by)'
<1>1. Mine(by)' = Mine(by) /\ Longer BY DEF Mine, Longer
<1>2. Bursting(by)' => Bursting(by) BY <1>1, RuleStays DEF Bursting
<1>3. Alarm(by) => Alarm(by)' BY <1>1, AlarmKept
<1>4. ASSUME NEW q \in Proc \ {p}, Counting(proc[q], by) PROVE Counting(proc[q], by)'
  <2>1. proc'[q] = proc[q] BY <1>4
  <2> QED BY <1>1, <1>4, <2>1 DEF Counting
<1> QED BY <1>2, <1>3, <1>4 DEF Watched

LEMMA BurstLogged ==
  ASSUME Base, Times, LedgerInv, TablesMove, BurstInv, [Next]_vars, NEW p \in Proc, Moves(p), Logged(p)
  PROVE  BurstInv'
<1> USE DEF At
<1>1. PICK c, row : /\ row.cs = c.cs /\ row.by = c.by /\ row.at = now /\ log' = Append(log, row)
                    /\ \/ ~row.promoted /\ proc' = proc
                       \/ row.promoted /\ proc'[p].at = "cost" /\ proc'[p].cmd = c BY DEF Logged
<1>2. PICK n : n = Len(log) + 1 OBVIOUS
<1>3. LogOK BY DEF LedgerInv
<1>4. Longer /\ DOMAIN log' = DOMAIN log \cup {n} /\ n \notin DOMAIN log /\ log'[n] = row
  BY <1>1, <1>2, <1>3, Appended
<1>5. now \in Nat BY CommandsAssumption DEF Times
<1>6. Stamped' BY <1>1, <1>4, <1>5 DEF BurstInv, Stamped, Longer
<1>7. ASSUME NEW q \in Proc PROVE Authored(proc[q])'
  <2>1. CASE proc'[q] = proc[q]
    <3>1. Authored(proc[q]) BY DEF BurstInv
    <3> QED BY <1>4, <2>1, <3>1, AuthoredKept DEF Authored
  <2>2. CASE proc'[q] # proc[q]
    <3>1. q = p BY <2>2 DEF Moves
    <3>2. proc'[p].cmd = c BY <1>1, <2>2, <3>1
    <3>3. n \in DOMAIN log' /\ log'[n].cs = c.cs /\ log'[n].by = c.by BY <1>1, <1>4
    <3> QED BY <3>1, <3>2, <3>3 DEF Authored
  <2> QED BY <2>1, <2>2
<1>8. ASSUME Undisturbed', NEW i \in DOMAIN log', NEW by, by = log'[i].by PROVE Watched(by)'
  <2>1. Undisturbed BY <1>4, <1>8, UndisturbedBefore DEF BurstInv, TablesMove
  <2>2. row.promoted BY <1>4, <1>8 DEF Undisturbed
  <2>3. proc'[p].at = "cost" /\ proc'[p].cmd = c BY <1>1, <2>2
  <2>5. CASE by = c.by
    <3>1. ProcOK(proc'[p]) BY DEF Moves
    <3>2. proc'[p].cmd.op = "promote" BY <2>3, <3>1, PromoteAt
    <3>3. Counting(proc[p], by)' BY <2>3, <2>5, <3>2 DEF Counting
    <3> QED BY <3>3 DEF Watched
  <2>6. CASE by # c.by
    <3>1. i # n BY <1>1, <1>4, <1>8, <2>6
    <3>2. i \in DOMAIN log /\ log[i].by = by BY <1>4, <1>8, <3>1 DEF Longer
    <3>3. Watched(by) BY <2>1, <3>2 DEF BurstInv
    <3>4. Mine(by)' = Mine(by) BY <1>1, <1>4, <2>6 DEF Mine, Longer
    <3>5. Bursting(by)' => Bursting(by) BY <1>8, <3>4, RuleStays DEF Bursting, LedgerInv, TablesMove
    <3>6. Alarm(by) => Alarm(by)' BY <1>4, AlarmKept DEF TablesMove
    <3>7. ASSUME NEW q \in Proc, Counting(proc[q], by) PROVE Counting(proc[q], by)'
      <4>1. proc[p].at \notin {"cost", "detect"} \cup Detecting BY DEF Logged, Detecting
      <4>2. q # p BY <3>7, <4>1 DEF Counting
      <4>3. proc'[q] = proc[q] BY <4>2 DEF Moves
      <4> QED BY <3>4, <3>7, <4>3 DEF Counting
    <3> QED BY <3>3, <3>5, <3>6, <3>7 DEF Watched
  <2> QED BY <2>5, <2>6
<1> QED BY <1>6, <1>7, <1>8 DEF BurstInv

(* The other steps: the history stays, and who moved goes on counting or   *)
(* has raised the alarm.                                                   *)
Goes(p) ==
  /\ proc'[p].cmd.op = "promote" => proc'[p].cmd = proc[p].cmd
  /\ Undisturbed /\ Undisturbed' =>
       \A by : Bursting(by) /\ Counting(proc[p], by) => Counting(proc[p], by)' \/ Alarm(by)'

LEMMA BurstGoes ==
  ASSUME Times, LedgerInv, TablesMove, BurstInv, [Next]_vars, NEW p \in Proc,
         \A q \in Proc \ {p} : proc'[q] = proc[q], log' = log, Goes(p)
  PROVE  BurstInv'
<1>1. Longer /\ RulesOK /\ RulesChange /\ AnomaliesGrow BY DEF Longer, LedgerInv, TablesMove
<1>2. Stamped' BY DEF BurstInv, Stamped
<1>3. ASSUME NEW q \in Proc PROVE Authored(proc[q])'
  <2>1. Authored(proc[q]) BY DEF BurstInv
  <2>2. CASE q # p
    <3>1. proc'[q] = proc[q] BY <2>2
    <3> QED BY <2>1, <3>1 DEF Authored
  <2>3. CASE q = p BY <2>1, <2>3 DEF Authored, Goes
  <2> QED BY <2>2, <2>3
<1>4. ASSUME Undisturbed', NEW i \in DOMAIN log', NEW by, by = log'[i].by PROVE Watched(by)'
  <2>1. Undisturbed BY <1>1, <1>4, UndisturbedBefore DEF BurstInv
  <2>3. Watched(by) BY <1>4, <2>1 DEF BurstInv
  <2>4. Bursting(by) /\ Counting(proc[p], by) => Counting(proc[p], by)' \/ Alarm(by)' BY <1>4, <2>1 DEF Goes
  <2>5. Watched(by)' BY <1>1, <1>4, <2>3, <2>4, WatchedKept
  <2> QED BY <2>5
<1> QED BY <1>2, <1>3, <1>4 DEF BurstInv

LEMMA BurstElsewhere ==
  ASSUME Base, Times, LedgerInv, TablesMove, BurstInv, [Next]_vars, NEW p \in Proc, Moves(p), LedgerElsewhere(p)
  PROVE  BurstInv'
<1>1. log' = log BY DEF LedgerElsewhere, ledgerVars
<1>2. ASSUME Undisturbed, Undisturbed', NEW by, Counting(proc[p], by) PROVE FALSE
  <2>1. proc[p].at \in Recordings BY <1>2 DEF Counting, Detecting, Recordings
  <2>2. deaths' = deaths + 1 BY <2>1 DEF LedgerElsewhere, Die
  <2> QED BY <1>2, <2>2 DEF Undisturbed
<1>3. Goes(p) BY <1>2 DEF Goes, LedgerElsewhere
<1>4. \A q \in Proc \ {p} : proc'[q] = proc[q] BY DEF Moves
<1> QED BY <1>1, <1>3, <1>4, BurstGoes

LEMMA BurstStays ==
  ASSUME Times, LedgerInv, TablesMove, BurstInv, [Next]_vars, NEW p \in Proc, UNCHANGED <<log, proc>>
  PROVE  BurstInv'
<1>1. \A by : Counting(proc[p], by) => Counting(proc[p], by)' BY DEF Counting, Mine
<1>2. Goes(p) BY <1>1 DEF Goes
<1> QED BY <1>2, BurstGoes

LEMMA BurstCost ==
  ASSUME Base, Times, LedgerInv, TablesMove, BurstInv, [Next]_vars, NEW p \in Proc, Moves(p), CostMove(p)
  PROVE  BurstInv'
<1> USE DEF At, Cmd
<1>1. ProcOK(proc[p]) /\ ProcOK(proc'[p]) /\ \A q \in Proc \ {p} : proc'[q] = proc[q] BY DEF Moves, Base, ProcsOK
<1>2. ASSUME log' = log, proc[p].cmd.op # "promote", proc'[p].cmd.op # "promote" PROVE BurstInv'
  <2>1. Goes(p) BY <1>2 DEF Goes, Counting
  <2> QED BY <1>1, <1>2, <2>1, BurstGoes
<1>3. CASE Costed(p)
  <2>1. \A by : Counting(proc[p], by) => Counting(proc[p], by)' BY <1>3 DEF Costed, Counting
  <2>2. Goes(p) BY <1>3, <2>1 DEF Goes, Costed
  <2> QED BY <1>1, <1>3, <2>2, BurstGoes DEF Costed
<1>4. CASE Reported(p) BY <1>4, BurstStays DEF Reported
<1>5. CASE Logged(p) BY <1>5, BurstLogged
<1>6. CASE Switched(p)
  <2>1. proc[p].cmd.op # "promote" BY <1>1, <1>6, PromoteAt DEF Switched
  <2>2. proc'[p].cmd.op # "promote" BY <1>6 DEF Switched, Idle, NoCmd, None
  <2> QED BY <1>2, <1>6, <2>1, <2>2 DEF Switched
<1>7. CASE Tuned(p)
  <2>1. CASE proc' = proc BY <1>7, <2>1, BurstStays DEF Tuned
  <2>2. CASE proc' # proc
    <3>1. proc[p].at = "idle" /\ proc'[p].at = "configure.switch" BY <1>7, <2>2 DEF Tuned
    <3>2. proc[p].cmd.op # "promote" /\ proc'[p].cmd.op # "promote" BY <1>1, <3>1, PromoteAt
    <3> QED BY <1>2, <1>7, <3>2 DEF Tuned
  <2> QED BY <2>1, <2>2
<1>8. CASE Settled(p) BY <1>8, BurstStays DEF Settled
<1>9. CASE Budgeted(p) BY <1>9, BurstStays DEF Budgeted
<1> QED BY <1>3, <1>4, <1>5, <1>6, <1>7, <1>8, <1>9, CostDoes

LEMMA BurstDetect ==
  ASSUME Base, Times, LedgerInv, TablesMove, BurstInv, [Next]_vars, NEW p \in Proc, Moves(p), DetectMove(p)
  PROVE  BurstInv'
<1> USE DEF At, Cmd, Mem
<1>1. \A q \in Proc \ {p} : proc'[q] = proc[q] BY DEF Moves
<1>2. LedgerHand(proc[p]) /\ LogOK /\ RulesOK /\ Stamped /\ Authored(proc[p]) BY DEF LedgerInv, BurstInv
<1>3. "burst-activity" \in DOMAIN rules BY <1>2, LedgerAssumption DEF RulesOK
<1>4. log' = log /\ proc'[p].cmd = proc[p].cmd BY DetectDoes DEF Sized, Tested, Alarmed, Onward, ledgerVars
<1>5. \A by : Mine(by)' = Mine(by) BY <1>4 DEF Mine
(* Who goes on to another rule keeps what was counted; who is through has  *)
(* tried the pace last.                                                    *)
<1>6. ASSUME NEW by, proc[p].at \in Detecting, Counting(proc[p], by), Onward(p)
      PROVE  Counting(proc[p], by)' \/ Head(proc[p].mem.left) = "burst-activity"
  <2>1. DOMAIN proc[p].mem = {"left", "value"} /\ proc[p].mem.left \in Lefts BY <1>2, <1>6 DEF LedgerHand
  <2>2. proc[p].mem.value["burst-activity"] = Cardinality(Mine(by)) BY <1>6 DEF Counting, Detecting
  <2>3. CASE Len(proc[p].mem.left) = 1
    <3>1. proc[p].mem.left = <<"burst-activity">> BY <2>1, <2>3 DEF Lefts, Checks
    <3> QED BY <3>1
  <2>4. CASE Len(proc[p].mem.left) # 1
    <3>1. proc'[p].at = "detect.rule" /\ proc'[p].mem = [proc[p].mem EXCEPT !.left = Tail(@)]
      BY <1>6, <2>4 DEF Onward
    <3>2. proc'[p].mem.value = proc[p].mem.value BY <2>1, <3>1
    <3> QED BY <1>4, <1>5, <1>6, <2>2, <3>1, <3>2 DEF Counting, Detecting
  <2> QED BY <2>3, <2>4
<1>7. ASSUME Undisturbed, NEW by, Bursting(by), Counting(proc[p], by) PROVE Counting(proc[p], by)' \/ Alarm(by)'
  <2>1. CASE Sized(p)
    <3>1. proc'[p].at = "detect.rule" /\ proc'[p].mem.value["burst-activity"] = RecentCount(proc[p].cmd.by)
      BY <1>3, <2>1 DEF Sized
    <3>2. RecentCount(by) = Cardinality(Mine(by)) BY <1>2, <1>7, RecentIsMine
    <3> QED BY <1>4, <1>5, <1>7, <3>1, <3>2 DEF Counting, Detecting
  <2>2. CASE Tested(p)
    <3>1. proc[p].at \in Detecting BY <2>2 DEF Tested, Detecting
    <3>2. CASE proc'[p].at = "detect.raise" /\ proc'[p].mem = proc[p].mem
      BY <1>4, <1>5, <1>7, <3>1, <3>2 DEF Counting, Detecting
    <3>3. CASE ~Exceeds(Head(proc[p].mem.left), proc[p].mem.value[Head(proc[p].mem.left)]) /\ Onward(p)
      <4>1. CASE Head(proc[p].mem.left) = "burst-activity"
        <5>1. proc[p].mem.value["burst-activity"] = Cardinality(Mine(by)) BY <1>7, <3>1 DEF Counting, Detecting
        <5>2. rules["burst-activity"].enabled BY <1>2, <1>3, <1>7 DEF RulesOK, Undisturbed
        <5> QED BY <1>7, <3>3, <4>1, <5>1, <5>2 DEF Exceeds, Bursting
      <4>2. CASE Head(proc[p].mem.left) # "burst-activity" BY <1>6, <1>7, <3>1, <3>3, <4>2
      <4> QED BY <4>1, <4>2
    <3> QED BY <2>2, <3>2, <3>3 DEF Tested
  <2>3. CASE Alarmed(p)
    <3>1. proc[p].at \in Detecting /\ Onward(p) BY <2>3 DEF Alarmed, Detecting
    <3>2. CASE Head(proc[p].mem.left) = "burst-activity"
      <4>1. PICK value : anomalies' = Append(anomalies, [rule |-> Head(proc[p].mem.left), cs |-> proc[p].cmd.cs,
                                                         value |-> value, resolved |-> FALSE])
        BY <2>3 DEF Alarmed
      <4>2. PICK a : a = [rule |-> "burst-activity", cs |-> proc[p].cmd.cs, value |-> value, resolved |-> FALSE]
        OBVIOUS
      <4>3. a.rule = "burst-activity" /\ a.cs = proc[p].cmd.cs /\ anomalies' = Append(anomalies, a)
        BY <3>2, <4>1, <4>2
      <4>4. PICK n \in DOMAIN anomalies' : anomalies'[n] = a
        <5>1. PICK S : anomalies \in Seq(S) BY DEF LedgerInv, AnomaliesOK
        <5>2. Len(anomalies) + 1 \in DOMAIN anomalies' /\ anomalies'[Len(anomalies) + 1] = a BY <4>3, <5>1
        <5> QED BY <5>2
      <4>5. PICK k \in DOMAIN log : log[k].cs = proc[p].cmd.cs /\ log[k].by = by
        BY <1>2, <1>7 DEF Authored, Counting
      <4> QED BY <1>4, <4>3, <4>4, <4>5 DEF Alarm
    <3>3. CASE Head(proc[p].mem.left) # "burst-activity" BY <1>6, <1>7, <3>1, <3>3
    <3> QED BY <3>2, <3>3
  <2> QED BY <2>1, <2>2, <2>3, DetectDoes
<1>8. Goes(p) BY <1>4, <1>7 DEF Goes
<1> QED BY <1>1, <1>4, <1>8, BurstGoes

LEMMA BurstStep == Base /\ Times /\ LedgerInv /\ BurstInv /\ [Next]_vars => BurstInv'
<1> SUFFICES ASSUME Base, Times, LedgerInv, BurstInv, [Next]_vars PROVE BurstInv' OBVIOUS
<1>1. TablesMove BY TablesAlways
<1>2. CASE Still
  <2>1. UNCHANGED <<log, proc>> BY <1>2 DEF Still, ledgerVars
  <2>2. CASE \E p \in Proc : TRUE BY <1>1, <2>1, <2>2, BurstStays
  <2>3. CASE ~\E p \in Proc : TRUE
    <3>1. Longer BY <2>1 DEF Longer
    <3>2. Undisturbed' => Undisturbed BY <1>1, <3>1, UndisturbedBefore DEF BurstInv, TablesMove
    <3>3. \A by : Watched(by) => Watched(by)'
      <4> SUFFICES ASSUME NEW by PROVE Watched(by) => Watched(by)' OBVIOUS
      <4>1. UNCHANGED <<anomalies, rules>> BY <1>2 DEF Still, ledgerVars
      <4>2. Alarm(by)' = Alarm(by) /\ Bursting(by)' = Bursting(by) BY <2>1, <4>1 DEF Alarm, Bursting, Mine
      <4> QED BY <2>3, <4>2 DEF Watched
    <3> QED BY <2>1, <2>3, <3>2, <3>3 DEF BurstInv, Stamped
  <2> QED BY <2>2, <2>3
<1> QED BY <1>1, <1>2, LedgerCases, BurstCost, BurstDetect, BurstElsewhere

LEMMA BurstInit == Init => BurstInv
<1> SUFFICES ASSUME Init PROVE BurstInv OBVIOUS
<1>1. PICK s \in Scenarios : log = s.log BY DEF Init
<1>2. TablesOK(s) BY ScenariosAssumption
<1>3. \A i \in DOMAIN log : log[i].at \in Nat /\ ~log[i].promoted BY <1>1, <1>2 DEF TablesOK
<1>4. \A p \in Proc : Authored(proc[p]) BY DEF Init, Authored, Idle, NoCmd, None
<1>5. Undisturbed => DOMAIN log = {} BY <1>3 DEF Undisturbed
<1> QED BY <1>3, <1>4, <1>5 DEF BurstInv, Stamped

LEMMA BurstTold == Times /\ BurstInv => BurstCaught
<1> SUFFICES ASSUME BurstInv, NEW i \in DOMAIN log, NEW by, by = log[i].by,
                    Undisturbed, \A p \in Proc : At(p, "idle"), Bursting(by), ~Alarm(by)
             PROVE  FALSE BY DEF BurstCaught, Undisturbed, Bursting, Mine, Alarm
<1>1. PICK p \in Proc : Counting(proc[p], by) BY DEF BurstInv, Watched
<1>2. proc[p].at = "idle" BY DEF At
<1> QED BY <1>1, <1>2 DEF Counting, Detecting
-----------------------------------------------------------------------------
(* The inductive invariant: who may stand where, then one part or more for *)
(* each of the databases.                                                  *)
GovernanceInv ==
  /\ Base /\ RoleInv /\ ReviewTypes /\ RequestsOK /\ FoldOK /\ ProtectionsOK /\ GateInv
  /\ NotifyInv /\ MailInv /\ OutboxOK /\ TrustTypes /\ ScoreOK /\ BackedOK
  /\ LedgerInv /\ Times /\ PromiseInv /\ UsageInv /\ BurstInv

(* What every state of the governance satisfies.                           *)
THEOREM GovernanceInvariant == Spec => []GovernanceInv
<1>1. Init => GovernanceInv
  BY BaseInit, RoleInit, ReviewTypesInit, RequestsInit, FoldInit, ProtectionsInit, GateInit,
     NotifyInvInit, OutboxInit, TrustTypesInit, ScoreInit, BackedInit, LedgerInit, TimesInit, PromiseInit,
     UsageInit, BurstInit
     DEF GovernanceInv
<1>2. GovernanceInv /\ [Next]_vars => GovernanceInv'
  <2> SUFFICES ASSUME GovernanceInv, [Next]_vars PROVE GovernanceInv' OBVIOUS
  <2>1. Base' /\ RoleInv' BY BaseStep, RoleStep DEF GovernanceInv
  <2>2. ReviewTypes' /\ RequestsOK' /\ FoldOK' /\ ProtectionsOK' /\ GateInv'
    BY ReviewTypesStep, RequestsStep, FoldStep, ProtectionsStep, GateStep DEF GovernanceInv
  <2>3. NotifyInv' /\ MailInv' /\ OutboxOK' BY NotifyInvStep, MailStep, OutboxStep DEF GovernanceInv
  <2>4. TrustTypes' /\ ScoreOK' /\ BackedOK' BY TrustTypesStep, ScoreStep, BackedStep DEF GovernanceInv
  <2>5. LedgerInv' /\ Times' /\ PromiseInv' BY LedgerStepKeeps, TimesStep, PromiseStep DEF GovernanceInv
  <2>6. UsageInv' /\ BurstInv' BY UsageStep, BurstStep DEF GovernanceInv
  <2> QED BY <2>1, <2>2, <2>3, <2>4, <2>5, <2>6 DEF GovernanceInv
<1> QED BY <1>1, <1>2, PTL DEF Spec

(* A review nobody is deciding has the status its decisions fold to, as    *)
(* recompute_status computes it, unless two commands worked on it at once  *)
(* or one died between its decision and its status.                        *)
THEOREM StatusFollowsDecisions == Spec => []StatusIsFold
<1>1. GovernanceInv => StatusIsFold BY FoldTold DEF GovernanceInv
<1> QED BY <1>1, GovernanceInvariant, PTL

(* A review is merged only by a command whose checks of approval,          *)
(* protections and role all held of one state, unless what they read was   *)
(* changed while it ran; and merged is the last status of a review.        *)
THEOREM MergesJustified == Spec => MergeJustified
<1>1. GovernanceInv /\ [Next]_vars => [MergeStep]_vars BY MergeStepKeeps DEF GovernanceInv
<1>2. Spec => [][MergeStep]_vars BY <1>1, GovernanceInvariant, PTL DEF Spec
<1> QED BY <1>2 DEF MergeJustified, MergeStep

(* No one has an event twice in the inbox, and no integration is sent an   *)
(* event twice, unless two dispatches ran at once or one died on the way.  *)
THEOREM EventsSentOnce == Spec => []SentOnce
<1>1. GovernanceInv => SentOnce BY SentTold DEF GovernanceInv
<1> QED BY <1>1, GovernanceInvariant, PTL

(* An event is marked dispatched only after every integration subscribed   *)
(* to it when the dispatch began was tried and the attempt logged.         *)
THEOREM EventsMarkedAfterTried == Spec => MarkedAfterTried
<1>1. GovernanceInv /\ [Next]_vars => [MarkStep]_<<cmdVars, notifyVars>> BY MarkStepKeeps DEF GovernanceInv
<1>2. Spec => [][MarkStep]_<<cmdVars, notifyVars>> BY <1>1, GovernanceInvariant, PTL DEF Spec
<1> QED BY <1>2 DEF MarkedAfterTried, MarkStep

(* The counters of an agent are never ahead of its history, and its score  *)
(* and status are those of its history once no command is writing its row, *)
(* unless two wrote it at once or one died with it.                        *)
THEOREM ScoresFollowEvents == Spec => []ScoreIsFold
<1>1. GovernanceInv => ScoreIsFold BY ScoresTold DEF GovernanceInv
<1> QED BY <1>1, GovernanceInvariant, PTL

(* The tables agree with each other: the rows have their types and name    *)
(* rows that exist, a changeset has one review unless two requests raced,  *)
(* and the history of roles explains the roles.                            *)
THEOREM GovernanceTablesAgree == Spec => []TablesAgree
<1>1. GovernanceInv => TablesAgree BY TablesTold DEF GovernanceInv
<1> QED BY <1>1, GovernanceInvariant, PTL

(* An event says that a changeset was promoted only when its cost row, its *)
(* review and the alarm for its size are there; and unless a command died, *)
(* its owners have the event in their inboxes once the promotion is over.  *)
THEOREM PromotionsRecorded == Spec => []PromotionRecorded
<1>1. GovernanceInv => PromotionRecorded BY PromiseTold DEF GovernanceInv
<1> QED BY <1>1, GovernanceInvariant, PTL

(* The usage reported is the usage that summaries, breakdowns by agent and *)
(* model and budgets add up, unless a report came before the row of its    *)
(* own promotion; and an author who promotes more within a day than the    *)
(* rule allows has raised it once no promotion is on its way, unless one   *)
(* died or the rule was configured.                                        *)
THEOREM LedgerIsTrue == Spec => []LedgerTrue
<1>1. GovernanceInv => LedgerTrue BY UsageTold, BurstTold DEF GovernanceInv, LedgerTrue
<1> QED BY <1>1, GovernanceInvariant, PTL
=============================================================================
