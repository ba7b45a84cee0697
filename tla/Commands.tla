------------------------------ MODULE Commands ------------------------------
(***************************************************************************)
(* Commands that work on the SQLite tables of a repository.  Each runs in  *)
(* a process of its own, its SQL statements are the steps others may run   *)
(* between, and it can die between any two.  The stores open their own     *)
(* connection and use no transaction that spans two statements.            *)
(***************************************************************************)
EXTENDS Integers, Sequences, FiniteSets, FiniteSetsExt

CONSTANTS
  Proc,       \* the processes; each runs one command after another
  MaxNow,     \* bound: the clock
  MaxDeaths   \* bound: commands that die

ASSUME CommandsAssumption == IsFiniteSet(Proc) /\ MaxNow \in Nat \ {0} /\ MaxDeaths \in Nat

VARIABLES
  now,      \* the clock
  todo,     \* the commands users and programs have still to give
  proc,     \* proc[p]: where p's command stands
  deaths,   \* how many commands have died
  tainted   \* history: rows two commands were updating at once, or one died updating

cmdVars == <<now, todo, proc, deaths, tainted>>

None  == "none"
NoCmd == [op |-> None]
NoRow == <<>>

(* at: the next statement; rest: the parts of the command that follow; on: *)
(* the row the command has read and will write; mem: what it has read; to: *)
(* the recipients of the event it will emit, each with its place.          *)
Idle == [at |-> "idle", cmd |-> NoCmd, rest |-> <<>>, on |-> NoRow, mem |-> None, to |-> {}]

(* INSERT OR REPLACE, and the id a row without one gets.                   *)
Replaced(table, key, row) == [k \in DOMAIN table \cup {key} |-> IF k = key THEN row ELSE table[k]]
NextId(table) == IF DOMAIN table = {} THEN 1 ELSE Max(DOMAIN table) + 1

(* The ids of a table: numbers, one of them the highest.                   *)
Numbered(table) ==
  /\ DOMAIN table \subseteq Nat
  /\ DOMAIN table # {} => \E m \in DOMAIN table : \A k \in DOMAIN table : k <= m

At(p, label) == proc[p].at = label
Cmd(p)       == proc[p].cmd
Mem(p)       == proc[p].mem

Goto(p, label, mem) == [proc[p] EXCEPT !.at = label, !.mem = mem]

(* A part of a command is over: the next part, or the end.                 *)
Return(p) ==
  IF proc[p].rest = <<>> THEN Idle
  ELSE [proc[p] EXCEPT !.at = Head(proc[p].rest), !.rest = Tail(@), !.on = NoRow, !.mem = None]

Step(p, s) ==
  /\ proc' = [proc EXCEPT ![p] = s]
  /\ tainted' = tainted \cup {proc[q].on : q \in {o \in Proc \ {p} : s.on # NoRow /\ proc[o].on = s.on}}
  /\ UNCHANGED <<now, deaths>>

Continue(p, s) == Step(p, s) /\ UNCHANGED todo

(* The first statement of a command.                                       *)
Begin(p, c, label, on, mem, rest) ==
  /\ At(p, "idle")
  /\ todo' = todo \ {c}
  /\ Step(p, [Idle EXCEPT !.at = label, !.cmd = c, !.on = on, !.mem = mem, !.rest = rest])

(* A command of one statement, or one that ends at once with an error.     *)
Only(p, c) == At(p, "idle") /\ todo' = todo \ {c} /\ UNCHANGED <<now, proc, deaths, tainted>>

Updating(row) == \E p \in Proc : proc[p].on = row

Die(p) ==
  /\ ~At(p, "idle")
  /\ deaths < MaxDeaths
  /\ deaths' = deaths + 1
  /\ proc' = [proc EXCEPT ![p] = Idle]
  /\ tainted' = tainted \cup ({proc[p].on} \ {NoRow})
  /\ UNCHANGED <<now, todo>>

Tick ==
  /\ now < MaxNow
  /\ now' = now + 1
  /\ UNCHANGED <<todo, proc, deaths, tainted>>
=============================================================================
