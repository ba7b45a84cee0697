-------------------------------- MODULE Trust --------------------------------
(***************************************************************************)
(* The reputation of agents (gpp-trust): record_event, override_status and *)
(* reset one SQL statement at a time, and the status in force.             *)
(***************************************************************************)
EXTENDS Commands, TrustLadder

CONSTANT Agent

VARIABLES
  scores,       \* the table agent_scores: a function from agents to rows
  agentEvents,  \* the table agent_events, in order: [agent, type]
  moduleOverrides  \* the table module_overrides: a function from <<agent, pattern>>

trustVars == <<scores, agentEvents, moduleOverrides>>

AgentRow(a) == <<"agent", a>>

(* scored: the counters the score in the row was computed from.            *)
Counters == {"total", "survived", "regressions"}
NewRow == [total |-> 0, survived |-> 0, regressions |-> 0, scored |-> <<0, 0>>,
           status |-> "sandboxed", override |-> None, until |-> 0]

Counted(type) ==
  CASE type = "changeset_promoted" -> {"total"}
    [] type = "changeset_merged"   -> {"survived"}
    [] type = "regression"         -> {"regressions"}
    [] OTHER                       -> {}
-----------------------------------------------------------------------------
(* record_event: the row is made sure of, the event is stored, a counter   *)
(* goes up, the counters are read, and score and status are written.       *)
RecordEvent(p, c) ==
  /\ c.op = "event"
  /\ scores' = IF c.agent \in DOMAIN scores THEN scores ELSE Replaced(scores, c.agent, NewRow)
  /\ Begin(p, c, "event.store", AgentRow(c.agent), None, <<>>)
  /\ UNCHANGED <<agentEvents, moduleOverrides>>

EventStore(p) ==
  /\ At(p, "event.store")
  /\ agentEvents' = Append(agentEvents, [agent |-> Cmd(p).agent, type |-> Cmd(p).type])
  /\ Continue(p, Goto(p, IF Counted(Cmd(p).type) = {} THEN "event.read" ELSE "event.bump", None))
  /\ UNCHANGED <<scores, moduleOverrides>>

EventBump(p) ==
  /\ At(p, "event.bump")
  /\ \E k \in Counted(Cmd(p).type) : scores' = [scores EXCEPT ![Cmd(p).agent][k] = @ + 1]
  /\ Continue(p, Goto(p, "event.read", None))
  /\ UNCHANGED <<agentEvents, moduleOverrides>>

EventRead(p) ==
  LET row == scores[Cmd(p).agent]
  IN  /\ At(p, "event.read")
      /\ Continue(p, Goto(p, "event.write", <<row.survived, row.regressions>>))
      /\ UNCHANGED trustVars

(* Mutant of EventWrite: an overridden status is not computed anew.        *)
EventWrite_Overridden(p) ==
  /\ At(p, "event.write")
  /\ scores' = [scores EXCEPT ![Cmd(p).agent].scored = Mem(p),
                  ![Cmd(p).agent].status = IF scores[Cmd(p).agent].override # None THEN @
                                           ELSE StatusFor(Mem(p)[1], Mem(p)[2])]
  /\ Continue(p, Return(p))
  /\ UNCHANGED <<agentEvents, moduleOverrides>>

EventWrite(p) ==
  /\ At(p, "event.write")
  /\ scores' = [scores EXCEPT ![Cmd(p).agent].scored = Mem(p),
                              ![Cmd(p).agent].status = StatusFor(Mem(p)[1], Mem(p)[2])]
  /\ Continue(p, Return(p))
  /\ UNCHANGED <<agentEvents, moduleOverrides>>
-----------------------------------------------------------------------------
(* override_status and reset: the row is updated, then the event stored;   *)
(* an agent without a row is an error.                                     *)
Override(p, c) ==
  /\ c.op = "override"
  /\ IF c.agent \in DOMAIN scores
     THEN /\ scores' = [scores EXCEPT ![c.agent].override = c.status, ![c.agent].until = c.until]
          /\ Begin(p, c, "manual.store", NoRow, "manual_override", <<>>)
     ELSE scores' = scores /\ Only(p, c)
  /\ UNCHANGED <<agentEvents, moduleOverrides>>

Reset(p, c) ==
  /\ c.op = "reset"
  /\ IF c.agent \in DOMAIN scores
     THEN /\ scores' = [scores EXCEPT ![c.agent] = NewRow]
          /\ Begin(p, c, "manual.store", AgentRow(c.agent), "reset", <<>>)
     ELSE scores' = scores /\ Only(p, c)
  /\ UNCHANGED <<agentEvents, moduleOverrides>>

ManualStore(p) ==
  /\ At(p, "manual.store")
  /\ agentEvents' = Append(agentEvents, [agent |-> Cmd(p).agent, type |-> Mem(p)])
  /\ Continue(p, Return(p))
  /\ UNCHANGED <<scores, moduleOverrides>>

SetModuleOverride(p, c) ==
  /\ c.op = "module"
  /\ Only(p, c)
  /\ moduleOverrides' = Replaced(moduleOverrides, <<c.agent, c.pattern>>, c.status)
  /\ UNCHANGED <<scores, agentEvents>>

(* effective_status: a live override, or what the score says.              *)
Permanent == 0
EffectiveStatus(a) ==
  IF scores[a].override # None /\ (scores[a].until = Permanent \/ scores[a].until > now)
  THEN scores[a].override ELSE scores[a].status
-----------------------------------------------------------------------------
TrustBegin(p, c) == RecordEvent(p, c) \/ Override(p, c) \/ Reset(p, c) \/ SetModuleOverride(p, c)
TrustStep(p) ==
  EventStore(p) \/ EventBump(p) \/ EventRead(p) \/ EventWrite(p) \/ ManualStore(p)
-----------------------------------------------------------------------------
(* How many events of a type an agent has since its last reset.            *)
IsReset(i, a) == agentEvents[i] = [agent |-> a, type |-> "reset"]
EventsOf(a, type) ==
  {i \in DOMAIN agentEvents : /\ agentEvents[i] = [agent |-> a, type |-> type]
                              /\ \A k \in i .. Len(agentEvents) : ~IsReset(k, a)}
CountOf(a, type) == Cardinality(EventsOf(a, type))

(* However recordings of one agent race and die, an event is counted at    *)
(* most once and a counter never runs ahead of the stored events (a reset  *)
(* apart).                                                                 *)
CountersBacked ==
  \A a \in DOMAIN scores : (\A i \in DOMAIN agentEvents : ~IsReset(i, a)) =>
    /\ scores[a].survived <= CountOf(a, "changeset_merged")
    /\ scores[a].regressions <= CountOf(a, "regression")
    /\ scores[a].total <= CountOf(a, "changeset_promoted")

(* An agent's row is the fold of its events: each outcome counts once, and *)
(* score and status are those of the counters, whatever overrides and      *)
(* expiries were set, unless two commands worked on the row at once or one *)
(* died in the middle; and then still no counter runs ahead of the events. *)
ScoreIsFold ==
  /\ CountersBacked
  /\ \A a \in DOMAIN scores : AgentRow(a) \notin tainted /\ ~Updating(AgentRow(a)) =>
      LET s == CountOf(a, "changeset_merged")
          r == CountOf(a, "regression")
      IN  /\ scores[a].total = CountOf(a, "changeset_promoted")
          /\ scores[a].survived = s /\ scores[a].regressions = r
          /\ scores[a].scored = <<s, r>>
          /\ scores[a].status = StatusFor(s, r)
=============================================================================
