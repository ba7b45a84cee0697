------------------------------- MODULE Ledger -------------------------------
(***************************************************************************)
(* What is recorded of a promoted changeset (gpp-cost, gpp-anomaly and     *)
(* record_promotion): its cost row, the usage reported for it, and the     *)
(* anomalies its size and its author's pace raise.                         *)
(***************************************************************************)
EXTENDS Commands

CONSTANTS
  Day,           \* ticks of the clock in 24 hours
  DefaultRules   \* the rules the store starts with: [threshold, enabled] of each

ASSUME LedgerAssumption ==
  /\ Day \in Nat \ {0} /\ DOMAIN DefaultRules = {"large-changeset", "unusual-scope", "burst-activity"}
  /\ \A rule \in DOMAIN DefaultRules : DefaultRules[rule].enabled

VARIABLES
  log,        \* the history of the branch: [cs, by, at, promoted, tree], the tip last; promoted: by `gpp promote`
  costs,      \* the table cost_records: a function from changesets to rows
  budgets,    \* the table cost_budgets: a function from patterns to [limit, percent]
  rules,      \* the table anomaly_rules: a function from rules to [threshold, enabled]
  anomalies,  \* the table anomaly_events in order: [rule, cs, value, resolved]
  reports,    \* history: the usage reported, [cs, cost]
  tuned       \* history: the rules that were configured

ledgerVars == <<log, costs, budgets, rules, anomalies, reports, tuned>>

Week == 7 * Day
CostRow(cs) == <<"cost", cs>>
InLog(cs) == \E i \in DOMAIN log : log[i].cs = cs

Checks == <<"large-changeset", "unusual-scope", "burst-activity">>
-----------------------------------------------------------------------------
(* changeset_delta: the files that are not as the first parent has them,   *)
(* and the lines added to them and removed; a file is the set of its lines.*)
Delta(new, old) ==
  LET in(t, f) == IF f \in DOMAIN t THEN {t[f]} ELSE {}
      changed  == {f \in DOMAIN old \cup DOMAIN new : in(old, f) # in(new, f)}
      stat(f)  == Cardinality(UNION in(old, f) \ UNION in(new, f)) + Cardinality(UNION in(new, f) \ UNION in(old, f))
  IN  [files |-> Cardinality(changed), lines |-> MapThenSumSet(stat, changed)]

Place(cs) == CHOOSE i \in DOMAIN log : log[i].cs = cs
ChangesetDelta(cs) ==
  Delta(log[Place(cs)].tree, IF Place(cs) = 1 THEN <<>> ELSE log[Place(cs) - 1].tree)

(* CostStore::record: INSERT OR REPLACE, whatever the row held before.     *)
CostRecord(p) ==
  /\ At(p, "cost")
  /\ costs' = Replaced(costs, Cmd(p).cs, [agent |-> Cmd(p).by, model |-> "human", used |-> 0,
                                        lines |-> ChangesetDelta(Cmd(p).cs).lines, at |-> now])
  /\ Continue(p, Return(p))
  /\ UNCHANGED <<log, budgets, rules, anomalies, reports, tuned>>

(* Mutant of AddUsage: a report replaces the one before.                    *)
AddUsage_Replaced(c) ==
  IF c.cs \in DOMAIN costs
  THEN [costs EXCEPT ![c.cs].used = c.cost,
                     ![c.cs].agent = IF c.agent = "" THEN @ ELSE c.agent,
                     ![c.cs].model = IF c.model = "" THEN @ ELSE c.model]
  ELSE Replaced(costs, c.cs, [agent |-> c.agent, model |-> c.model, used |-> c.cost, lines |-> 0, at |-> now])

(* add_usage: added to the row of the changeset, or a row of its own.      *)
AddUsage(c) ==
  IF c.cs \in DOMAIN costs
  THEN [costs EXCEPT ![c.cs].used = @ + c.cost,
                     ![c.cs].agent = IF c.agent = "" THEN @ ELSE c.agent,
                     ![c.cs].model = IF c.model = "" THEN @ ELSE c.model]
  ELSE Replaced(costs, c.cs, [agent |-> c.agent, model |-> c.model, used |-> c.cost, lines |-> 0, at |-> now])

(* gpp cost report and report_cost look the changeset up in the history,   *)
(* the SDK has what it promoted.  The report taints a row its promotion    *)
(* has yet to write.                                                       *)
Report(p, c) ==
  /\ c.op = "report"
  /\ At(p, "idle")
  /\ InLog(c.cs)
  /\ todo' = todo \ {c}
  /\ costs' = AddUsage(c)
  /\ reports' = Append(reports, [cs |-> c.cs, cost |-> c.cost])
  /\ tainted' = tainted \cup (IF Updating(CostRow(c.cs)) THEN {CostRow(c.cs)} ELSE {})
  /\ UNCHANGED <<now, proc, deaths, log, budgets, rules, anomalies, tuned>>

SetBudget(p, c) ==
  /\ c.op = "budget"
  /\ Only(p, c)
  /\ budgets' = Replaced(budgets, c.pattern, [limit |-> c.limit, percent |-> c.percent])
  /\ UNCHANGED <<log, costs, rules, anomalies, reports, tuned>>
-----------------------------------------------------------------------------
(* summarize, breakdown and budget_status.                                 *)
Spent(rows) == SumFunction([cs \in rows |-> costs[cs].used])

Filtered(since, agents) == {cs \in DOMAIN costs : costs[cs].at >= since /\ costs[cs].agent \in agents}

Breakdown(rows) ==
  {[agent |-> g[1], model |-> g[2],
    cost |-> Spent({cs \in rows : <<costs[cs].agent, costs[cs].model>> = g})] :
     g \in {<<costs[cs].agent, costs[cs].model>> : cs \in rows}}

(* All spending of the week counts toward every budget.                    *)
Alerting ==
  {b \in DOMAIN budgets :
     /\ budgets[b].limit > 0
     /\ 100 * Spent({cs \in DOMAIN costs : costs[cs].at >= now - Week}) >= budgets[b].limit * budgets[b].percent}
-----------------------------------------------------------------------------
(* recent_changeset_count: back from the tip to the first older than a day.*)
RecentCount(by) ==
  LET old == {i \in DOMAIN log : log[i].at < now - Day}
      from == IF old = {} THEN 1 ELSE Max(old) + 1
  IN  Cardinality({i \in from .. Len(log) : log[i].by = by})

DetectCount(p) ==
  /\ At(p, "detect")
  /\ Continue(p, Goto(p, "detect.rule",
       [left |-> Checks,
        value |-> [rule \in DOMAIN rules |->
                     CASE rule = "large-changeset" -> ChangesetDelta(Cmd(p).cs).lines
                       [] rule = "unusual-scope"   -> ChangesetDelta(Cmd(p).cs).files
                       [] rule = "burst-activity"  -> RecentCount(Cmd(p).by)]]))
  /\ UNCHANGED ledgerVars

Checked(p) ==
  IF Len(Mem(p).left) = 1 THEN Return(p)
  ELSE Goto(p, "detect.rule", [Mem(p) EXCEPT !.left = Tail(@)])

Exceeds(rule, value) == rules[rule].enabled /\ value > rules[rule].threshold

(* detect: each rule is read, and a hit inserted.                          *)
DetectRule(p) ==
  /\ At(p, "detect.rule")
  /\ Continue(p, IF Exceeds(Head(Mem(p).left), Mem(p).value[Head(Mem(p).left)])
                 THEN Goto(p, "detect.raise", Mem(p)) ELSE Checked(p))
  /\ UNCHANGED ledgerVars

DetectRaise(p) ==
  LET rule == Head(Mem(p).left)
  IN  /\ At(p, "detect.raise")
      /\ anomalies' = Append(anomalies, [rule |-> rule, cs |-> Cmd(p).cs,
                                         value |-> Mem(p).value[rule], resolved |-> FALSE])
      /\ Continue(p, Checked(p))
      /\ UNCHANGED <<log, costs, budgets, rules, reports, tuned>>

Resolve(p, c) ==
  /\ c.op = "resolve"
  /\ Only(p, c)
  /\ anomalies' = [n \in DOMAIN anomalies |->
                     IF n = c.id THEN [anomalies[n] EXCEPT !.resolved = TRUE] ELSE anomalies[n]]
  /\ UNCHANGED <<log, costs, budgets, rules, reports, tuned>>

(* configure: the threshold and the switch are written one after the other.*)
Configure(p, c) ==
  /\ c.op = "configure"
  /\ IF c.rule \in DOMAIN rules
     THEN /\ rules' = [rules EXCEPT ![c.rule].threshold = c.threshold]
          /\ Begin(p, c, "configure.switch", NoRow, None, <<>>)
     ELSE rules' = rules /\ Only(p, c)
  /\ tuned' = tuned \cup {c.rule}
  /\ UNCHANGED <<log, costs, budgets, anomalies, reports>>

ConfigureSwitch(p) ==
  /\ At(p, "configure.switch")
  /\ rules' = [rules EXCEPT ![Cmd(p).rule].enabled = Cmd(p).enabled]
  /\ Continue(p, Return(p))
  /\ UNCHANGED <<log, costs, budgets, anomalies, reports, tuned>>
-----------------------------------------------------------------------------
LedgerBegin(p, c) == Report(p, c) \/ SetBudget(p, c) \/ Resolve(p, c) \/ Configure(p, c)
LedgerStep(p) ==
  CostRecord(p) \/ DetectCount(p) \/ DetectRule(p) \/ DetectRaise(p) \/ ConfigureSwitch(p)
-----------------------------------------------------------------------------
(* Usage is never lost or counted twice: what summaries, breakdowns by     *)
(* agent and model, and budgets add up is what was reported, in whatever   *)
(* order reports and promotions' own rows were written, unless a report    *)
(* came before the row of its promotion, which then replaced it.           *)
UsageKept ==
  (\A cs \in {reports[i].cs : i \in DOMAIN reports} : CostRow(cs) \notin tainted) =>
    LET total == SumFunction([i \in DOMAIN reports |-> reports[i].cost])
    IN  /\ Spent(DOMAIN costs) = total
        /\ SumFunction([g \in Breakdown(DOMAIN costs) |-> g.cost]) = total
        /\ \A b \in Alerting : 100 * total >= budgets[b].limit * budgets[b].percent

(* No burst slips through: an author with more promotions within a day     *)
(* than the rule allows has raised it, however the promotions interleaved, *)
(* once none of them is on its way and unless one died or the rule was     *)
(* configured: each counts after its own changeset is in the history.      *)
BurstCaught ==
  \A i \in DOMAIN log :
    LET by == log[i].by
    IN  (/\ log[i].promoted /\ deaths = 0 /\ "burst-activity" \notin tuned
         /\ \A p \in Proc : At(p, "idle")
         /\ \A k \in DOMAIN log : log[k].promoted /\ log[k].at >= now - Day
         /\ rules["burst-activity"].enabled
         /\ Cardinality({k \in DOMAIN log : log[k].by = by}) > rules["burst-activity"].threshold)
        => \E n \in DOMAIN anomalies : anomalies[n].rule = "burst-activity"
                                       /\ \E k \in DOMAIN log : log[k].cs = anomalies[n].cs /\ log[k].by = by

(* No usage that was reported is lost, and no burst goes unnoticed.        *)
LedgerTrue == UsageKept /\ BurstCaught
=============================================================================
