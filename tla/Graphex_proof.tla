---------------------------- MODULE Graphex_proof ----------------------------
(***************************************************************************)
(* For any number of replicas, nodes, processes and commands:              *)
(*                                                                         *)
(* - A node is active only where people decided so, as long as no rotation *)
(*   of keys meets another writer.  What a command or an exchange is about *)
(*   to write is decided or not active; and a rotation writes back the     *)
(*   states that the rows still have, since nobody else writes in its      *)
(*   replica.                                                              *)
(* - The tables keep their types, and what the commands of a replica       *)
(*   stored there it can open: while a rotation has changed the keys, every*)
(*   row that they no longer open waits in its queue.                      *)
(* - Replicas that have exchanged their indexes agree: copies of a node    *)
(*   with one timestamp are of one write, and the replica that is pulled   *)
(*   from still has what was pushed, or something newer.                   *)
(***************************************************************************)
EXTENDS Graphex, TLAPS, SequenceTheorems, FiniteSetTheorems

RowFields  == {"state", "tier", "blob", "created", "updated", "local", "decided"}
PutFields  == {"n", "node", "state", "decided"}
ProcFields == {"at", "cmd", "rest", "on", "mem", "to"}
Parts      == {"pending", "log", "clear"}

(* A table, or an index that is sent, in which people decided what is      *)
(* active.                                                                 *)
Decided(x) == x.state = "active" => x.decided = "active"
TableOK(t) ==
  /\ IsFiniteSet(DOMAIN t)
  /\ \A n \in DOMAIN t : DOMAIN t[n] = RowFields /\ Decided(t[n])

(* What a rotation writes leaves the state of the row as it is.            *)
Keeps(put, table) ==
  put.n \in DOMAIN table /\ put.state = table[put.n].state /\ put.decided = None

(* Nodes about to be put, all of them with the property P.                 *)
Queue(s) == \E S : s \in Seq(S)
PutsOK(s, rotating, table) ==
  /\ Queue(s)
  /\ \A i \in 1 .. Len(s) :
       /\ DOMAIN s[i] = PutFields
       /\ IF rotating THEN Keeps(s[i], table) ELSE Decided(s[i])

ListsStates(l, table) ==
  /\ IsFiniteSet(DOMAIN l)
  /\ \A n \in DOMAIN l : n \in DOMAIN table /\ l[n] = table[n].state

(* What the command s holds between two of its steps, when the tables of   *)
(* the replicas are as in t.                                               *)
Holds(s, t) ==
  LET rotating == s.cmd.op = "rotate"
      mine     == t[s.cmd.r]
  IN  /\ s.at \in {"put", "put.row"} => s.mem # <<>> /\ PutsOK(s.mem, rotating, mine)
      /\ s.at = "state" => ~rotating
      /\ s.at = "rotate.read" => rotating /\ ListsStates(s.mem, mine)
      /\ s.at = "rotate.keys" =>
           rotating /\ DOMAIN s.mem = {"left", "puts"} /\ PutsOK(s.mem.puts, rotating, mine)
      /\ s.at = "sync.edges" => TableOK(s.mem)
      /\ s.at \in {"sync.push", "sync.answer", "sync.answer.edges"} => TableOK(s.mem.rows)
      /\ s.at = "sync.pull" => TableOK(s.mem.got.rows)
      /\ s.at \in {"sync.edges", "sync.push", "sync.answer", "sync.answer.edges", "sync.pull"} =>
           s.cmd.op = "sync"

CommandOK(s, t) ==
  /\ DOMAIN s = ProcFields
  /\ s.rest \in Seq(Parts)
  /\ s.at = "idle" => s.cmd = NoCmd
  /\ s.at # "idle" => Named(s.cmd) /\ Holds(s, t)

Undisturbed ==
  /\ \A c \in todo : Named(c)
  /\ DOMAIN proc = Proc /\ DOMAIN rows = Replica
  /\ \A r \in Replica : TableOK(rows[r])
  /\ \A p \in Proc : CommandOK(proc[p], rows)

Inv == shaken = {} => Undisturbed
-----------------------------------------------------------------------------
(* Tables and queues.                                                      *)

LEMMA UpsertTable ==
  ASSUME NEW new, NEW table, TableOK(new), TableOK(table)
  PROVE  TableOK(Upsert(new, table))
  <1>1. DOMAIN Upsert(new, table) = DOMAIN new \cup DOMAIN table
    BY DEF Upsert
  <1>2. IsFiniteSet(DOMAIN new \cup DOMAIN table)
    BY FS_Union DEF TableOK
  <1>3. \A n \in DOMAIN new \cup DOMAIN table :
          Upsert(new, table)[n] = IF n \in DOMAIN new THEN new[n] ELSE table[n]
    BY DEF Upsert
  <1>4. QED
    BY <1>1, <1>2, <1>3 DEF TableOK

LEMMA OneRow ==
  ASSUME NEW n, NEW t, DOMAIN t = {n}, DOMAIN t[n] = RowFields, Decided(t[n])
  PROVE  TableOK(t)
  <1>1. IsFiniteSet({n})
    BY FS_Singleton
  <1>2. QED
    BY <1>1 DEF TableOK

LEMMA OnePut ==
  ASSUME NEW x, DOMAIN x = PutFields, Decided(x), NEW table
  PROVE  <<x>> # <<>> /\ PutsOK(<<x>>, FALSE, table)
  <1>1. <<x>> \in Seq({x}) /\ Len(<<x>>) = 1 /\ <<x>>[1] = x
    OBVIOUS
  <1>2. Queue(<<x>>)
    BY <1>1 DEF Queue
  <1>3. QED
    BY <1>1, <1>2 DEF PutsOK

LEMMA FirstPut ==
  ASSUME NEW s, NEW rotating, NEW table, PutsOK(s, rotating, table), s # <<>>
  PROVE  /\ Head(s) = s[1]
         /\ DOMAIN Head(s) = PutFields
         /\ IF rotating THEN Keeps(Head(s), table) ELSE Decided(Head(s))
  <1>1. PICK S : s \in Seq(S)
    BY DEF PutsOK, Queue
  <1>2. Len(s) \in Nat \ {0}
    BY <1>1, EmptySeq
  <1>3. Head(s) = s[1]
    BY <1>1, <1>2
  <1>4. 1 \in 1 .. Len(s)
    BY <1>2
  <1>5. QED
    BY <1>3, <1>4 DEF PutsOK

LEMMA OtherPuts ==
  ASSUME NEW s, NEW rotating, NEW table, PutsOK(s, rotating, table), s # <<>>
  PROVE  /\ PutsOK(Tail(s), rotating, table)
         /\ Len(s) # 1 => Tail(s) # <<>>
  <1>1. PICK S : s \in Seq(S)
    BY DEF PutsOK, Queue
  <1>2. /\ Tail(s) \in Seq(S) /\ Len(Tail(s)) = Len(s) - 1 /\ Len(s) \in Nat \ {0}
        /\ \A i \in 1 .. Len(Tail(s)) : Tail(s)[i] = s[i + 1]
    BY <1>1, HeadTailProperties, EmptySeq
  <1>3. \A i \in 1 .. Len(Tail(s)) : i + 1 \in 1 .. Len(s)
    BY <1>2
  <1>4. Queue(Tail(s))
    BY <1>2 DEF Queue
  <1>5. PutsOK(Tail(s), rotating, table)
    BY <1>2, <1>3, <1>4 DEF PutsOK
  <1>6. ASSUME Tail(s) = <<>>
        PROVE  Len(s) = 1
    <2>1. Len(<<>>) = 0
      OBVIOUS
    <2>2. Len(Tail(s)) = 0
      BY <1>6, <2>1
    <2>3. ASSUME NEW k \in Nat, k - 1 = 0
          PROVE  k = 1
      BY <2>3
    <2>4. Len(s) \in Nat /\ Len(s) - 1 = 0
      BY <1>2, <2>2
    <2>5. QED
      BY <2>3, <2>4
  <1>7. QED
    BY <1>5, <1>6

LEMMA ReplacedPut ==
  ASSUME NEW s, NEW rotating, NEW table, PutsOK(s, rotating, table), s # <<>>, NEW node
  PROVE  LET q == <<[Head(s) EXCEPT !.node = node]>> \o Tail(s)
         IN  q # <<>> /\ PutsOK(q, rotating, table)
  <1> DEFINE new == [Head(s) EXCEPT !.node = node]
             q == <<new>> \o Tail(s)
  <1>1. PICK S : s \in Seq(S)
    BY DEF PutsOK, Queue
  <1>2. Tail(s) \in Seq(S \cup {new})
    BY <1>1, HeadTailProperties
  <1>3. <<new>> \in Seq(S \cup {new}) /\ Len(<<new>>) = 1 /\ <<new>>[1] = new
    OBVIOUS
  <1>4. PutsOK(Tail(s), rotating, table) /\ Len(Tail(s)) \in Nat
    BY <1>2, OtherPuts
  <1>5. /\ new.n = Head(s).n /\ new.state = Head(s).state /\ new.decided = Head(s).decided
        /\ DOMAIN new = PutFields
    BY FirstPut
  <1>6. IF rotating THEN Keeps(new, table) ELSE Decided(new)
    BY <1>5, FirstPut DEF Keeps, Decided
  <1> HIDE DEF new
  <1>7. /\ q \in Seq(S \cup {new}) /\ Len(q) = 1 + Len(Tail(s))
        /\ \A i \in 1 .. Len(q) : q[i] = IF i <= 1 THEN new ELSE Tail(s)[i - 1]
    BY <1>2, <1>3, <1>4, ConcatProperties
  <1>8. ASSUME NEW i \in 1 .. Len(q)
        PROVE  /\ DOMAIN q[i] = PutFields
               /\ IF rotating THEN Keeps(q[i], table) ELSE Decided(q[i])
    <2>1. CASE i = 1
      BY <1>5, <1>6, <1>7, <2>1
    <2>2. CASE i # 1
      <3>1. i - 1 \in 1 .. Len(Tail(s)) /\ q[i] = Tail(s)[i - 1]
        BY <1>4, <1>7, <2>2
      <3>2. QED
        BY <1>4, <3>1 DEF PutsOK
    <2>3. QED
      BY <2>1, <2>2
  <1>9. q # <<>>
    BY <1>4, <1>7, EmptySeq
  <1>10. Queue(q)
    BY <1>7 DEF Queue
  <1>11. QED
    BY <1>8, <1>9, <1>10 DEF PutsOK, new

(* The order in which a set is put does not matter.                        *)
LEMMA PutsOfSet ==
  ASSUME NEW puts, IsFiniteSet(puts), NEW table,
         \A x \in puts : DOMAIN x = PutFields /\ Keeps(x, table)
  PROVE  PutsOK(SetToSeq(puts), TRUE, table)
  <1>1. PICK f \in Bijection(1 .. Cardinality(puts), puts) : TRUE
    BY FS_CardinalityType DEF ExistsBijection
  <1>2. f \in [1 .. Cardinality(puts) -> puts] /\ IsInjective(f)
    BY <1>1 DEF Bijection, Injection, IsInjective
  <1>3. SetToSeq(puts) \in [1 .. Cardinality(puts) -> puts]
    BY <1>2 DEF SetToSeq
  <1>4. SetToSeq(puts) \in Seq(puts)
    BY <1>3, FS_CardinalityType
  <1>5. \A i \in 1 .. Len(SetToSeq(puts)) : SetToSeq(puts)[i] \in puts
    BY <1>4, ElementOfSeq
  <1>6. QED
    BY <1>4, <1>5 DEF PutsOK, Queue
-----------------------------------------------------------------------------
(* Commands.                                                               *)

LEMMA IdleOK == \A t : CommandOK(Idle, t)
  <1>1. DOMAIN Idle = ProcFields /\ Idle.at = "idle" /\ Idle.cmd = NoCmd /\ Idle.rest = <<>>
    BY DEF Idle, ProcFields
  <1>2. <<>> \in Seq(Parts)
    BY EmptySeq
  <1>3. QED
    BY <1>1, <1>2 DEF CommandOK

LEMMA BeginFields ==
  ASSUME NEW label, NEW c, NEW on, NEW mem, NEW rest
  PROVE  LET s == [Idle EXCEPT !.at = label, !.cmd = c, !.on = on, !.mem = mem, !.rest = rest]
         IN  /\ DOMAIN s = ProcFields
             /\ s.at = label /\ s.cmd = c /\ s.mem = mem /\ s.rest = rest
  BY DEF Idle, ProcFields

LEMMA GotoFields ==
  ASSUME NEW p, DOMAIN proc[p] = ProcFields, NEW label, NEW mem
  PROVE  LET s == Goto(p, label, mem)
         IN  /\ DOMAIN s = ProcFields
             /\ s.at = label /\ s.cmd = proc[p].cmd /\ s.mem = mem /\ s.rest = proc[p].rest
  BY DEF Goto, ProcFields

LEMMA ReturnOK ==
  ASSUME NEW p, NEW t, CommandOK(proc[p], t), ~At(p, "idle"), NEW u
  PROVE  CommandOK(Return(p), u)
  <1>1. CASE proc[p].rest = <<>>
    BY <1>1, IdleOK DEF Return
  <1>2. CASE proc[p].rest # <<>>
    <2> DEFINE s == [proc[p] EXCEPT !.at = Head(proc[p].rest), !.rest = Tail(@), !.on = NoRow, !.mem = None]
    <2>1. Return(p) = s
      BY <1>2 DEF Return
    <2>2. Head(proc[p].rest) \in Parts /\ Tail(proc[p].rest) \in Seq(Parts)
      BY <1>2, HeadTailProperties DEF CommandOK
    <2>3. /\ DOMAIN s = ProcFields /\ s.at \in Parts /\ s.rest \in Seq(Parts)
          /\ s.cmd = proc[p].cmd
      BY <2>2 DEF CommandOK, ProcFields
    <2> HIDE DEF s
    <2>4. Named(s.cmd)
      BY <2>3 DEF CommandOK, At
    <2>5. Holds(s, u)
      BY <2>3 DEF Holds, Parts
    <2>6. QED
      BY <2>1, <2>3, <2>4, <2>5 DEF CommandOK, Parts
  <1>3. QED
    BY <1>1, <1>2

(* The nodes of a table are there with the states they had.                *)
SameStates(t, u) == \A n \in DOMAIN t : n \in DOMAIN u /\ u[n].state = t[n].state

LEMMA SameStatesOK ==
  ASSUME NEW s, NEW t, NEW u, CommandOK(s, t),
         s.at # "idle" /\ s.cmd.op = "rotate" => SameStates(t[s.cmd.r], u[s.cmd.r])
  PROVE  CommandOK(s, u)
  <1>1. CASE s.at = "idle"
    BY <1>1 DEF CommandOK
  <1>2. CASE s.at # "idle"
    <2>1. ASSUME NEW q, NEW rotating \in BOOLEAN, PutsOK(q, rotating, t[s.cmd.r]),
                 rotating => SameStates(t[s.cmd.r], u[s.cmd.r])
          PROVE  PutsOK(q, rotating, u[s.cmd.r])
      BY <2>1 DEF PutsOK, Keeps, SameStates
    <2>2. ASSUME NEW l, ListsStates(l, t[s.cmd.r]), SameStates(t[s.cmd.r], u[s.cmd.r])
          PROVE  ListsStates(l, u[s.cmd.r])
      BY <2>2 DEF ListsStates, SameStates
    <2>3. Holds(s, t)
      BY <1>2 DEF CommandOK
    <2>4. Holds(s, u)
      BY <1>2, <2>1, <2>2, <2>3 DEF Holds
    <2>5. QED
      BY <1>2, <2>4 DEF CommandOK
  <1>3. QED
    BY <1>1, <1>2

(* A step of p leaves the other commands what they hold: it disturbs no    *)
(* rotation, so it writes in no replica where one runs.                    *)
LEMMA StepOK ==
  ASSUME Undisturbed, Watch, shaken' = {}, NEW p \in Proc, NEW s,
         proc' = [proc EXCEPT ![p] = s], CommandOK(s, rows'),
         todo' \subseteq todo, DOMAIN rows' = Replica,
         \A r \in Replica : TableOK(rows'[r]),
         \A r \in Replica : rows'[r] = rows[r] \/ Writing(p, r)
  PROVE  Undisturbed'
  <1>1. DOMAIN proc' = Proc /\ proc'[p] = s /\ \A q \in Proc \ {p} : proc'[q] = proc[q]
    BY DEF Undisturbed
  <1>2. ASSUME NEW q \in Proc \ {p}
        PROVE  CommandOK(proc[q], rows')
    <2>1. CommandOK(proc[q], rows)
      BY DEF Undisturbed
    <2>2. ASSUME proc[q].at # "idle", proc[q].cmd.op = "rotate"
          PROVE  rows'[proc[q].cmd.r] = rows[proc[q].cmd.r]
      <3>1. proc[q].cmd.r \in Replica
        BY <2>1, <2>2 DEF CommandOK, Named
      <3>2. ~Writing(p, proc[q].cmd.r)
        BY <2>2, <3>1 DEF Watch, Cmd
      <3>3. QED
        BY <3>1, <3>2
    <2>3. QED
      BY <2>1, <2>2, SameStatesOK DEF SameStates
  <1>3. \A q \in Proc : CommandOK(proc'[q], rows')
    BY <1>1, <1>2
  <1>4. QED
    BY <1>1, <1>3 DEF Undisturbed
-----------------------------------------------------------------------------
(* The first statements of the commands.                                   *)

LEMMA OnlyOK ==
  ASSUME Undisturbed, UNCHANGED <<rows, proc>>, todo' \subseteq todo
  PROVE  Undisturbed'
  BY DEF Undisturbed

LEMMA BeginOK ==
  ASSUME Undisturbed, Watch, shaken' = {}, UNCHANGED rows, NEW p \in Proc, NEW c \in todo,
         NEW label, label # "idle", NEW on, NEW mem, NEW rest \in Seq(Parts),
         Begin(p, c, label, on, mem, rest),
         \A s : s.at = label /\ s.cmd = c /\ s.mem = mem => Holds(s, rows)
  PROVE  Undisturbed'
  <1> DEFINE s == [Idle EXCEPT !.at = label, !.cmd = c, !.on = on, !.mem = mem, !.rest = rest]
  <1>1. proc' = [proc EXCEPT ![p] = s] /\ todo' \subseteq todo
    BY DEF Begin, Step
  <1>2. DOMAIN s = ProcFields /\ s.at = label /\ s.cmd = c /\ s.mem = mem /\ s.rest = rest
    BY BeginFields
  <1> HIDE DEF s
  <1>3. CommandOK(s, rows')
    BY <1>2 DEF CommandOK, Undisturbed
  <1>4. QED
    BY <1>1, <1>3, StepOK DEF Undisturbed

(* A command that begins with one node to put.                             *)
LEMMA BeginPut ==
  ASSUME Undisturbed, Watch, shaken' = {}, UNCHANGED rows, NEW p \in Proc, NEW c \in todo,
         c.op # "rotate", NEW on, NEW n, NEW node, NEW state, NEW decided,
         state = "active" => decided = "active", NEW rest \in Seq(Parts),
         Begin(p, c, "put", on, <<Put(n, node, state, decided)>>, rest)
  PROVE  Undisturbed'
  <1> DEFINE x == Put(n, node, state, decided)
  <1>1. DOMAIN x = PutFields /\ Decided(x)
    BY DEF Put, PutFields, Decided
  <1> HIDE DEF x
  <1>2. <<x>> # <<>> /\ \A table : PutsOK(<<x>>, FALSE, table)
    BY <1>1, OnePut
  <1>3. \A s : s.at = "put" /\ s.cmd = c /\ s.mem = <<x>> => Holds(s, rows)
    BY <1>2 DEF Holds
  <1>4. Begin(p, c, "put", on, <<x>>, rest)
    BY DEF x
  <1>5. QED
    BY <1>3, <1>4, BeginOK

LEMMA CommandedOK ==
  ASSUME Undisturbed, Watch, shaken' = {}, Commanded
  PROVE  Undisturbed'
  <1>1. PICK p \in Proc, c \in todo :
          /\ \/ Add(p, c) \/ Propose(p, c) \/ Infer(p, c) \/ Accept(p, c) \/ Reject(p, c)
             \/ Rotate(p, c) \/ Sync(p, c)
          /\ UNCHANGED <<graphVars, history>>
    BY DEF Commanded
  <1>2. UNCHANGED rows
    BY <1>1 DEF graphVars
  <1>3. ASSUME Only(p, c)
        PROVE  Undisturbed'
    BY <1>2, <1>3, OnlyOK DEF Only
  <1>4. /\ <<>> \in Seq(Parts) /\ <<"pending">> \in Seq(Parts) /\ <<"clear">> \in Seq(Parts)
        /\ <<"pending", "log">> \in Seq(Parts)
    BY DEF Parts
  <1>5. CASE Add(p, c)
    BY <1>2, <1>4, <1>5, BeginPut DEF Add
  <1>6. CASE Propose(p, c)
    BY <1>2, <1>4, <1>6, BeginPut DEF Propose
  <1>7. CASE Infer(p, c)
    BY <1>2, <1>3, <1>4, <1>7, BeginPut DEF Infer
  <1>8. ASSUME c.op # "rotate", NEW mem, Begin(p, c, "state", NodeRow(c), mem, <<"clear">>)
        PROVE  Undisturbed'
    <2>1. \A s : s.at = "state" /\ s.cmd = c /\ s.mem = mem => Holds(s, rows)
      BY <1>8 DEF Holds
    <2>2. QED
      BY <1>2, <1>4, <1>8, <2>1, BeginOK
  <1>9. CASE Accept(p, c)
    BY <1>2, <1>3, <1>4, <1>8, <1>9, BeginPut DEF Accept
  <1>10. CASE Reject(p, c)
    BY <1>3, <1>8, <1>10 DEF Reject
  <1>11. CASE Rotate(p, c)
    <2>1. c.r \in Replica
      BY DEF Undisturbed, Named
    <2>2. ListsStates(Listed(c.r), rows[c.r])
      BY <2>1 DEF Undisturbed, TableOK, Listed, ListsStates
    <2>3. \A s : s.at = "rotate.read" /\ s.cmd = c /\ s.mem = Listed(c.r) => Holds(s, rows)
      BY <1>11, <2>2 DEF Rotate, Holds
    <2>4. QED
      BY <1>2, <1>4, <1>11, <2>3, BeginOK DEF Rotate
  <1>12. CASE Sync(p, c)
    <2>1. TableOK(rows[c.r])
      BY DEF Undisturbed, Named
    <2>2. \A s : s.at = "sync.edges" /\ s.cmd = c /\ s.mem = rows[c.r] => Holds(s, rows)
      BY <1>12, <2>1 DEF Sync, Holds
    <2>3. QED
      BY <1>2, <1>4, <1>12, <2>2, BeginOK DEF Sync
  <1>13. QED
    BY <1>1, <1>5, <1>6, <1>7, <1>9, <1>10, <1>11, <1>12
-----------------------------------------------------------------------------
(* The statements that follow.                                             *)

(* A step that leaves the tables alone and returns or ends.                *)
LEMMA ReturnStep ==
  ASSUME Undisturbed, Watch, shaken' = {}, UNCHANGED rows, NEW p \in Proc,
         ~At(p, "idle"), Continue(p, Return(p))
  PROVE  Undisturbed'
  <1>1. CommandOK(Return(p), rows')
    BY ReturnOK DEF Undisturbed
  <1>2. proc' = [proc EXCEPT ![p] = Return(p)] /\ todo' = todo
    BY DEF Continue, Step
  <1>3. QED
    BY <1>1, <1>2, StepOK DEF Undisturbed

(* A step that leaves the tables alone and goes on.                        *)
LEMMA GotoStep ==
  ASSUME Undisturbed, Watch, shaken' = {}, UNCHANGED rows, NEW p \in Proc, ~At(p, "idle"),
         NEW label, label # "idle", NEW mem, Continue(p, Goto(p, label, mem)),
         \A s : s.at = label /\ s.cmd = proc[p].cmd /\ s.mem = mem => Holds(s, rows)
  PROVE  Undisturbed'
  <1> DEFINE s == Goto(p, label, mem)
  <1>1. proc' = [proc EXCEPT ![p] = s] /\ todo' = todo
    BY DEF Continue, Step
  <1>2. CommandOK(proc[p], rows) /\ proc[p].at # "idle"
    BY DEF Undisturbed, At
  <1>3. /\ DOMAIN s = ProcFields
        /\ s.at = label /\ s.cmd = proc[p].cmd /\ s.mem = mem /\ s.rest = proc[p].rest
    BY <1>2, GotoFields DEF CommandOK
  <1> HIDE DEF s
  <1>4. CommandOK(s, rows')
    BY <1>2, <1>3 DEF CommandOK
  <1>5. QED
    BY <1>1, <1>4, StepOK DEF Undisturbed

LEMMA PutSealOK ==
  ASSUME Undisturbed, Watch, shaken' = {}, NEW p \in Proc, PutSeal(p)
  PROVE  Undisturbed'
  <1> DEFINE mem == <<[Head(Mem(p)) EXCEPT !.node = Seal(Cmd(p).r, @)]>> \o Tail(Mem(p))
             rotating == Cmd(p).op = "rotate"
             table == rows[Cmd(p).r]
  <1>1. /\ At(p, "put") /\ UNCHANGED rows /\ Continue(p, Goto(p, "put.row", mem))
        /\ ~At(p, "idle")
    BY DEF PutSeal, graphVars, At
  <1>2. Mem(p) # <<>> /\ PutsOK(Mem(p), rotating, table)
    BY <1>1 DEF Undisturbed, CommandOK, Holds, At, Mem, Cmd
  <1>3. mem # <<>> /\ PutsOK(mem, rotating, table)
    BY <1>2, ReplacedPut
  <1> HIDE DEF mem
  <1>4. \A s : s.at = "put.row" /\ s.cmd = proc[p].cmd /\ s.mem = mem => Holds(s, rows)
    BY <1>3 DEF Holds, Cmd
  <1>5. QED
    BY <1>1, <1>4, GotoStep

(* The row that is written: decided if it is active, and of the state it   *)
(* had if a rotation writes it.                                            *)
LEMMA PutRowOK ==
  ASSUME Undisturbed, Watch, shaken' = {}, NEW p \in Proc, PutRow(p)
  PROVE  Undisturbed'
  <1> DEFINE put == Head(Mem(p))
             r == Cmd(p).r
             known == put.n \in DOMAIN rows[r]
             row == [state |-> put.state, tier |-> put.node.tier, blob |-> put.node,
                     created |-> IF known THEN rows[r][put.n].created ELSE put.node.updated,
                     updated |-> put.node.updated, local |-> TRUE,
                     decided |-> IF put.decided # None THEN put.decided
                                 ELSE IF known THEN rows[r][put.n].decided ELSE None]
             new == [n \in {put.n} |-> row]
             table == Upsert(new, rows[r])
             rotating == Cmd(p).op = "rotate"
             s == IF Len(Mem(p)) = 1 THEN Return(p) ELSE Goto(p, "put", Tail(Mem(p)))
  <1>1. /\ At(p, "put.row") /\ rows' = [rows EXCEPT ![r] = table]
        /\ proc' = [proc EXCEPT ![p] = s] /\ todo' = todo
    BY DEF PutRow, Continue, Step
  <1>2. CommandOK(proc[p], rows) /\ proc[p].at = "put.row" /\ ~At(p, "idle")
    BY <1>1 DEF Undisturbed, At
  <1>3. r \in Replica /\ TableOK(rows[r])
    BY <1>2 DEF CommandOK, Named, Cmd, Undisturbed
  <1>4. Mem(p) # <<>> /\ PutsOK(Mem(p), rotating, rows[r])
    BY <1>2 DEF CommandOK, Holds, Mem, Cmd
  <1>5. IF rotating THEN Keeps(put, rows[r]) ELSE Decided(put)
    BY <1>4, FirstPut
  <1>6. DOMAIN row = RowFields
    BY DEF RowFields
  <1>7. Decided(row)
    <2>1. CASE rotating
      <3>1. known /\ put.decided = None /\ put.state = rows[r][put.n].state
        BY <1>5, <2>1 DEF Keeps
      <3>2. Decided(rows[r][put.n])
        BY <1>3, <3>1 DEF TableOK
      <3>3. row.state = rows[r][put.n].state /\ row.decided = rows[r][put.n].decided
        BY <3>1
      <3>4. QED
        BY <3>2, <3>3 DEF Decided
    <2>2. CASE ~rotating
      <3>1. put.state = "active" => put.decided = "active"
        BY <1>5, <2>2 DEF Decided
      <3>2. row.state = put.state /\ (put.decided = "active" => row.decided = "active")
        BY DEF None
      <3>3. QED
        BY <3>1, <3>2 DEF Decided
    <2>3. QED
      BY <2>1, <2>2
  <1>8. row.state = put.state
    OBVIOUS
  <1> HIDE DEF row
  <1>9. TableOK(table)
    <2>1. DOMAIN new = {put.n} /\ new[put.n] = row
      OBVIOUS
    <2> HIDE DEF new
    <2>2. TableOK(new)
      BY <1>6, <1>7, <2>1, OneRow
    <2>3. QED
      BY <1>3, <2>2, UpsertTable
  <1>10. rotating => SameStates(rows[r], table)
    BY <1>5, <1>8 DEF Keeps, SameStates, Upsert
  <1> HIDE DEF table
  <1>11. /\ DOMAIN rows' = Replica /\ rows'[r] = table
         /\ \A x \in Replica : x # r => rows'[x] = rows[x]
    BY <1>1, <1>3 DEF Undisturbed
  <1>12. CommandOK(s, rows')
    <2>1. CASE Len(Mem(p)) = 1
      BY <1>2, <2>1, ReturnOK
    <2>2. CASE Len(Mem(p)) # 1
      <3> DEFINE g == Goto(p, "put", Tail(Mem(p)))
      <3>1. DOMAIN proc[p] = ProcFields
        BY <1>2 DEF CommandOK
      <3>2. /\ DOMAIN g = ProcFields
            /\ g.at = "put" /\ g.cmd = proc[p].cmd /\ g.mem = Tail(Mem(p)) /\ g.rest = proc[p].rest
        BY <3>1 DEF Goto, ProcFields
      <3> HIDE DEF g
      <3>3. Tail(Mem(p)) # <<>> /\ PutsOK(Tail(Mem(p)), rotating, rows[r])
        BY <1>4, <2>2, OtherPuts
      <3>4. Holds(g, rows)
        BY <3>2, <3>3 DEF Holds, Cmd
      <3>5. CommandOK(g, rows)
        BY <1>2, <3>2, <3>4 DEF CommandOK
      <3>6. CommandOK(g, rows')
        BY <1>10, <1>11, <3>2, <3>5, SameStatesOK DEF Cmd
      <3>7. QED
        BY <2>2, <3>6 DEF g
    <2>3. QED
      BY <2>1, <2>2
  <1>13. \A x \in Replica : TableOK(rows'[x])
    BY <1>9, <1>11 DEF Undisturbed
  <1>14. \A x \in Replica : rows'[x] = rows[x] \/ Writing(p, x)
    BY <1>2, <1>11 DEF Writing
  <1> HIDE DEF s
  <1>15. QED
    BY <1>1, <1>11, <1>12, <1>13, <1>14, StepOK

LEMMA SetStateOK ==
  ASSUME Undisturbed, Watch, shaken' = {}, NEW p \in Proc, SetState(p)
  PROVE  Undisturbed'
  <1> DEFINE r == Cmd(p).r
             n == Cmd(p).n
             row == [rows[r][n] EXCEPT !.state = Mem(p), !.updated = now, !.decided = Mem(p)]
             table == [rows[r] EXCEPT ![n] = row]
  <1>1. /\ At(p, "state") /\ rows' = [rows EXCEPT ![r] = table]
        /\ proc' = [proc EXCEPT ![p] = Return(p)] /\ todo' = todo
    BY DEF SetState, Continue, Step
  <1>2. CommandOK(proc[p], rows) /\ proc[p].at = "state" /\ ~At(p, "idle")
    BY <1>1 DEF Undisturbed, At
  <1>3. r \in Replica /\ TableOK(rows[r])
    BY <1>2 DEF CommandOK, Named, Cmd, Undisturbed
  <1>4. n \in DOMAIN rows[r] => DOMAIN row = RowFields /\ row.state = Mem(p) /\ row.decided = Mem(p)
    BY <1>3 DEF TableOK, RowFields
  <1> HIDE DEF row
  <1>5. /\ DOMAIN table = DOMAIN rows[r]
        /\ \A k \in DOMAIN rows[r] : table[k] = IF k = n THEN row ELSE rows[r][k]
    OBVIOUS
  <1> HIDE DEF table
  <1>6. TableOK(table)
    BY <1>3, <1>4, <1>5 DEF TableOK, Decided
  <1>7. /\ DOMAIN rows' = Replica /\ rows'[r] = table
        /\ \A x \in Replica : x # r => rows'[x] = rows[x]
    BY <1>1, <1>3 DEF Undisturbed
  <1>8. CommandOK(Return(p), rows')
    BY <1>2, ReturnOK
  <1>9. \A x \in Replica : TableOK(rows'[x])
    BY <1>6, <1>7 DEF Undisturbed
  <1>10. \A x \in Replica : rows'[x] = rows[x] \/ Writing(p, x)
    BY <1>2, <1>7 DEF Writing
  <1>11. QED
    BY <1>1, <1>7, <1>8, <1>9, <1>10, StepOK

LEMMA RotateReadOK ==
  ASSUME Undisturbed, Watch, shaken' = {}, NEW p \in Proc, RotateRead(p)
  PROVE  Undisturbed'
  <1> DEFINE r == Cmd(p).r
             set == {Put(n, rows[r][n].blob, Mem(p)[n], None) : n \in DOMAIN Mem(p)}
             mem == [left |-> Tiers, puts |-> SetToSeq(set)]
             error == \E n \in DOMAIN Mem(p) : ~Opens(r, rows[r][n])
  <1>1. /\ At(p, "rotate.read") /\ UNCHANGED rows /\ ~At(p, "idle")
        /\ Continue(p, IF error THEN Idle ELSE Goto(p, "rotate.keys", mem))
    BY DEF RotateRead, graphVars, At
  <1>2. CASE error
    <2>1. proc' = [proc EXCEPT ![p] = Idle] /\ todo' = todo
      BY <1>1, <1>2 DEF Continue, Step
    <2>2. QED
      BY <1>1, <2>1, IdleOK, StepOK DEF Undisturbed
  <1>3. CASE ~error
    <2>1. Cmd(p).op = "rotate" /\ ListsStates(Mem(p), rows[r])
      BY <1>1 DEF Undisturbed, CommandOK, Holds, At, Mem, Cmd
    <2>2. \A x \in set : DOMAIN x = PutFields /\ Keeps(x, rows[r])
      BY <2>1 DEF Put, PutFields, Keeps, ListsStates
    <2>3. IsFiniteSet(set)
      <3> DEFINE f == [n \in DOMAIN Mem(p) |-> Put(n, rows[r][n].blob, Mem(p)[n], None)]
      <3>1. f \in Surjection(DOMAIN Mem(p), set)
        BY DEF Surjection
      <3>2. IsFiniteSet(DOMAIN Mem(p))
        BY <2>1 DEF ListsStates
      <3> HIDE DEF f, set
      <3>3. QED
        BY <3>1, <3>2, FS_Surjection
    <2> HIDE DEF set
    <2>4. PutsOK(SetToSeq(set), TRUE, rows[r])
      BY <2>2, <2>3, PutsOfSet
    <2>5. DOMAIN mem = {"left", "puts"} /\ mem.puts = SetToSeq(set)
      OBVIOUS
    <2> HIDE DEF mem
    <2>6. \A s : s.at = "rotate.keys" /\ s.cmd = proc[p].cmd /\ s.mem = mem => Holds(s, rows)
      BY <2>1, <2>4, <2>5 DEF Holds, Cmd
    <2>7. QED
      BY <1>1, <1>3, <2>6, GotoStep
  <1>4. QED
    BY <1>2, <1>3

LEMMA RotateKeysOK ==
  ASSUME Undisturbed, Watch, shaken' = {}, NEW p \in Proc, RotateKeys(p)
  PROVE  Undisturbed'
  <1> DEFINE left == Tail(Mem(p).left)
             more == [Mem(p) EXCEPT !.left = left]
             puts == Mem(p).puts
             table == rows[Cmd(p).r]
  <1>1. /\ At(p, "rotate.keys") /\ UNCHANGED rows /\ ~At(p, "idle")
        /\ Continue(p, IF left # <<>> THEN Goto(p, "rotate.keys", more)
                       ELSE IF puts = <<>> THEN Return(p) ELSE Goto(p, "put", puts))
    BY DEF RotateKeys, At
  <1>2. /\ Cmd(p).op = "rotate" /\ DOMAIN Mem(p) = {"left", "puts"}
        /\ PutsOK(puts, TRUE, table)
    BY <1>1 DEF Undisturbed, CommandOK, Holds, At, Mem, Cmd
  <1>3. CASE left # <<>>
    <2>1. DOMAIN more = {"left", "puts"} /\ more.puts = puts
      BY <1>2
    <2> HIDE DEF more
    <2>2. \A s : s.at = "rotate.keys" /\ s.cmd = proc[p].cmd /\ s.mem = more => Holds(s, rows)
      BY <1>2, <2>1 DEF Holds, Cmd
    <2>3. QED
      BY <1>1, <1>3, <2>2, GotoStep
  <1>4. CASE left = <<>> /\ puts = <<>>
    BY <1>1, <1>4, ReturnStep
  <1>5. CASE left = <<>> /\ puts # <<>>
    <2> HIDE DEF puts
    <2>1. \A s : s.at = "put" /\ s.cmd = proc[p].cmd /\ s.mem = puts => Holds(s, rows)
      BY <1>2, <1>5 DEF Holds, Cmd
    <2>2. QED
      BY <1>1, <1>5, <2>1, GotoStep
  <1>6. QED
    BY <1>3, <1>4, <1>5

(* What is imported was decided where it comes from.                       *)
LEMMA ImportTable ==
  ASSUME NEW x, TableOK(rows[x]), DOMAIN rows = Replica, x \in Replica,
         NEW index, TableOK(index.rows), Import(x, index)
  PROVE  /\ DOMAIN rows' = Replica /\ TableOK(rows'[x])
         /\ \A y \in Replica : y # x => rows'[y] = rows[y]
  <1> DEFINE mine == rows[x]
             taken == {n \in DOMAIN index.rows : n \in DOMAIN mine => Newer(mine[n], index.rows[n])}
             row(n) == [index.rows[n] EXCEPT !.local = FALSE,
                          !.created = IF n \in DOMAIN mine THEN mine[n].created ELSE @]
             new == [n \in taken |-> row(n)]
             table == Upsert(new, mine)
  <1>1. rows' = [rows EXCEPT ![x] = table]
    BY DEF Import
  <1>2. ASSUME NEW n \in taken
        PROVE  DOMAIN new[n] = RowFields /\ Decided(new[n])
    <2>1. DOMAIN index.rows[n] = RowFields /\ Decided(index.rows[n])
      BY DEF TableOK
    <2>2. /\ DOMAIN row(n) = RowFields
          /\ row(n).state = index.rows[n].state /\ row(n).decided = index.rows[n].decided
      BY <2>1 DEF RowFields
    <2>3. QED
      BY <2>1, <2>2 DEF Decided
  <1>3. DOMAIN new = taken /\ IsFiniteSet(taken)
    BY FS_Subset DEF TableOK
  <1> HIDE DEF new, taken
  <1>4. TableOK(new)
    BY <1>2, <1>3 DEF TableOK
  <1>5. TableOK(table)
    BY <1>4, UpsertTable
  <1> HIDE DEF table
  <1>6. QED
    BY <1>1, <1>5

(* The end of a session: the table of one replica is replaced.             *)
LEMMA ImportStep ==
  ASSUME Undisturbed, Watch, shaken' = {}, NEW p \in Proc, NEW x \in Replica,
         NEW index, TableOK(index.rows), Import(x, index), Writing(p, x),
         NEW s, proc' = [proc EXCEPT ![p] = s], todo' = todo, CommandOK(s, rows')
  PROVE  Undisturbed'
  <1>1. /\ DOMAIN rows' = Replica /\ TableOK(rows'[x])
        /\ \A y \in Replica : y # x => rows'[y] = rows[y]
    BY ImportTable DEF Undisturbed
  <1>2. \A y \in Replica : TableOK(rows'[y])
    BY <1>1 DEF Undisturbed
  <1>3. \A y \in Replica : rows'[y] = rows[y] \/ Writing(p, y)
    BY <1>1
  <1>4. QED
    BY <1>1, <1>2, <1>3, StepOK

LEMMA SyncOK ==
  ASSUME Undisturbed, Watch, shaken' = {}, NEW p \in Proc,
         \/ SyncEdges(p) \/ SyncPush(p) \/ SyncAnswer(p) \/ SyncAnswerEdges(p) \/ SyncPull(p)
  PROVE  Undisturbed'
  <1>1. CommandOK(proc[p], rows)
    BY DEF Undisturbed
  <1>2. CASE SyncEdges(p)
    <2> DEFINE mem == [rows |-> Mem(p), edges |-> edges[Cmd(p).r]]
    <2>1. /\ proc[p].at = "sync.edges" /\ UNCHANGED rows /\ ~At(p, "idle")
          /\ Continue(p, Goto(p, "sync.push", mem))
      BY <1>2 DEF SyncEdges, graphVars, At
    <2>2. mem.rows = Mem(p) /\ TableOK(Mem(p)) /\ proc[p].cmd.op = "sync"
      BY <1>1, <2>1 DEF CommandOK, Holds, Mem
    <2> HIDE DEF mem
    <2>3. \A s : s.at = "sync.push" /\ s.cmd = proc[p].cmd /\ s.mem = mem => Holds(s, rows)
      BY <2>2 DEF Holds
    <2>4. QED
      BY <2>1, <2>3, GotoStep
  <1>3. CASE SyncPush(p)
    <2> DEFINE mem == Mem(p)
               s == Goto(p, "sync.answer", mem)
               x == Cmd(p).s
    <2>1. /\ proc[p].at = "sync.push" /\ Import(x, mem) /\ todo' = todo
          /\ proc' = [proc EXCEPT ![p] = s]
      BY <1>3 DEF SyncPush, At, Continue, Step
    <2>2. TableOK(mem.rows) /\ Cmd(p).op = "sync" /\ x \in Replica
      BY <1>1, <2>1 DEF CommandOK, Holds, Named, Mem, Cmd
    <2>3. /\ DOMAIN s = ProcFields
          /\ s.at = "sync.answer" /\ s.cmd = proc[p].cmd /\ s.mem = mem /\ s.rest = proc[p].rest
      BY <1>1 DEF CommandOK, Goto, ProcFields
    <2>4. Writing(p, x)
      BY <2>1, <2>2 DEF Writing
    <2> HIDE DEF s, mem, x
    <2>5. CommandOK(s, rows')
      BY <1>1, <2>1, <2>2, <2>3 DEF CommandOK, Holds, Cmd
    <2>6. QED
      BY <2>1, <2>2, <2>4, <2>5, ImportStep
  <1>4. CASE SyncAnswer(p)
    <2> DEFINE mem == [sent |-> Mem(p), rows |-> rows[Cmd(p).s]]
    <2>1. /\ proc[p].at = "sync.answer" /\ UNCHANGED rows /\ ~At(p, "idle")
          /\ Continue(p, Goto(p, "sync.answer.edges", mem))
      BY <1>4 DEF SyncAnswer, graphVars, At
    <2>2. mem.rows = rows[Cmd(p).s] /\ proc[p].cmd.op = "sync" /\ Cmd(p).s \in Replica
      BY <1>1, <2>1 DEF CommandOK, Holds, Named, Cmd
    <2>3. TableOK(mem.rows)
      BY <2>2 DEF Undisturbed
    <2> HIDE DEF mem
    <2>4. \A s : s.at = "sync.answer.edges" /\ s.cmd = proc[p].cmd /\ s.mem = mem => Holds(s, rows)
      BY <2>2, <2>3 DEF Holds
    <2>5. QED
      BY <2>1, <2>4, GotoStep
  <1>5. CASE SyncAnswerEdges(p)
    <2> DEFINE mem == [sent |-> Mem(p).sent, got |-> [rows |-> Mem(p).rows, edges |-> edges[Cmd(p).s]]]
    <2>1. /\ proc[p].at = "sync.answer.edges" /\ UNCHANGED rows /\ ~At(p, "idle")
          /\ Continue(p, Goto(p, "sync.pull", mem))
      BY <1>5 DEF SyncAnswerEdges, graphVars, At
    <2>2. mem.got.rows = Mem(p).rows /\ TableOK(Mem(p).rows) /\ proc[p].cmd.op = "sync"
      BY <1>1, <2>1 DEF CommandOK, Holds, Mem
    <2> HIDE DEF mem
    <2>3. \A s : s.at = "sync.pull" /\ s.cmd = proc[p].cmd /\ s.mem = mem => Holds(s, rows)
      BY <2>2 DEF Holds
    <2>4. QED
      BY <2>1, <2>3, GotoStep
  <1>6. CASE SyncPull(p)
    <2> DEFINE got == Mem(p).got
               x == Cmd(p).r
    <2>1. /\ proc[p].at = "sync.pull" /\ Import(x, got) /\ todo' = todo
          /\ proc' = [proc EXCEPT ![p] = Return(p)] /\ ~At(p, "idle")
      BY <1>6 DEF SyncPull, At, Continue, Step
    <2>2. TableOK(got.rows) /\ x \in Replica
      BY <1>1, <2>1 DEF CommandOK, Holds, Named, Mem, Cmd
    <2>3. Writing(p, x)
      BY <2>1 DEF Writing
    <2>4. CommandOK(Return(p), rows')
      BY <1>1, <2>1, ReturnOK
    <2> HIDE DEF got, x
    <2>5. QED
      BY <2>1, <2>2, <2>3, <2>4, ImportStep
  <1>7. QED
    BY <1>2, <1>3, <1>4, <1>5, <1>6
-----------------------------------------------------------------------------
LEMMA InvStep ==
  ASSUME Inv, [Next]_vars
  PROVE  Inv'
  <1> SUFFICES ASSUME shaken' = {}
               PROVE  Undisturbed'
    BY DEF Inv
  <1>1. CASE UNCHANGED vars
    BY <1>1 DEF Inv, Undisturbed, vars, cmdVars, graphVars
  <1>2. CASE Next
    <2>1. Watch
      BY <1>2 DEF Next
    <2>2. shaken = {} /\ Undisturbed
      BY <2>1 DEF Watch, Inv
    <2>3. CASE Commanded
      BY <2>1, <2>2, <2>3, CommandedOK
    <2>4. CASE Tick /\ UNCHANGED <<graphVars, history>>
      BY <2>2, <2>4, OnlyOK DEF Tick, graphVars
    <2>5. ASSUME NEW p \in Proc, NEW c \in todo, Link(p, c)
          PROVE  Undisturbed'
      BY <2>2, <2>5, OnlyOK DEF Link, Only
    <2>6. ASSUME NEW p \in Proc, Die(p), UNCHANGED <<graphVars, history>>
          PROVE  Undisturbed'
      <3>1. proc' = [proc EXCEPT ![p] = Idle] /\ todo' = todo /\ rows' = rows
        BY <2>6 DEF Die, graphVars
      <3>2. QED
        BY <2>1, <2>2, <3>1, IdleOK, StepOK DEF Undisturbed
    <2>7. ASSUME NEW p \in Proc, WriteProposal(p) \/ ClearProposal(p) \/ LogAccess(p)
          PROVE  Undisturbed'
      <3>1. Continue(p, Return(p)) /\ ~At(p, "idle") /\ UNCHANGED rows
        BY <2>7 DEF WriteProposal, ClearProposal, LogAccess, At
      <3>2. QED
        BY <2>1, <2>2, <3>1, ReturnStep
    <2>8. CASE Stepped
      BY <2>1, <2>2, <2>5, <2>6, <2>7, <2>8, PutSealOK, PutRowOK, SetStateOK, RotateReadOK,
         RotateKeysOK, SyncOK DEF Stepped
    <2>9. QED
      BY <1>2, <2>3, <2>4, <2>8 DEF Next
  <1>3. QED
    BY <1>1, <1>2

(* Only people make a node active: no agent, inference, exchange or        *)
(* rotation of keys brings one in, or brings back what a person has put    *)
(* away, unless a rotation met another writer.                             *)
THEOREM GraphexPeopleDecide == Spec => []PeopleDecide
  <1>1. Init => Inv
    <2> SUFFICES ASSUME Init
                 PROVE  Undisturbed
      BY DEF Inv
    <2>1. PICK s \in Scenarios : todo = s.todo /\ rows = s.rows
      BY DEF Init
    <2>2. \A c \in todo : Named(c)
      BY <2>1, ScenariosAssumption
    <2>3. DOMAIN rows = Replica /\ \A r \in Replica : TableOK(rows[r])
      <3>1. GraphOK(rows, s.writes)
        BY <2>1, ScenariosAssumption
      <3>2. \A r \in Replica : \A n \in DOMAIN rows[r] :
              RowOK(rows[r][n], 1) /\ (rows[r][n].state = "active" => rows[r][n].decided = "active")
        BY <3>1 DEF GraphOK
      <3>3. \A row : RowOK(row, 1) => DOMAIN row = RowFields
        BY DEF RowOK, RowFields
      <3>4. QED
        BY <3>1, <3>2, <3>3 DEF GraphOK, TableOK, Decided
    <2>4. DOMAIN proc = Proc /\ \A p \in Proc : CommandOK(proc[p], rows)
      BY IdleOK DEF Init
    <2>5. QED
      BY <2>2, <2>3, <2>4 DEF Undisturbed
  <1>2. Inv /\ [Next]_vars => Inv'
    BY InvStep
  <1>3. Inv => PeopleDecide
    BY DEF Inv, Undisturbed, TableOK, Decided, PeopleDecide
  <1>4. QED
    BY <1>1, <1>2, <1>3, PTL DEF Spec
-----------------------------------------------------------------------------
(* Types: what the tables and the commands hold, at a time t and with the  *)
(* nodes that the tables of the replicas have.                             *)
PutTyped(x, t) ==
  DOMAIN x = PutFields /\ x.n \in Node /\ x.state \in State /\ NodeOK(x.node, t)
QueueTyped(q, t) ==
  Queue(q) /\ q # <<>> /\ \A i \in 1 .. Len(q) : PutTyped(q[i], t)
TableTyped(table, t) ==
  /\ IsFiniteSet(DOMAIN table) /\ DOMAIN table \subseteq Node
  /\ \A n \in DOMAIN table : RowOK(table[n], t)
Ends(es, nodes) == \A e \in DOMAIN es : {e[1], e[2]} \subseteq nodes
IndexTyped(x, t, nodes) == TableTyped(x.rows, t) /\ Ends(x.edges, nodes)
Anywhere(tables) == UNION {DOMAIN tables[r] : r \in Replica}

PartsOf(op) ==
  CASE op = "propose" -> <<"pending", "log">>
    [] op = "infer"   -> <<"pending">>
    [] op \in {"accept", "reject"} -> <<"clear">>
    [] OTHER -> <<>>
RestAt(op, at) ==
  CASE at \in {"put", "put.row", "state"} -> PartsOf(op)
    [] at = "pending" /\ op = "propose" -> <<"log">>
    [] OTHER -> <<>>

Putting(s) == s.at \in {"put", "put.row"}
SyncLabels == {"sync.edges", "sync.push", "sync.answer", "sync.answer.edges", "sync.pull"}

Hand(s, t, tables) ==
  LET mine  == DOMAIN tables[s.cmd.r]
      nodes == Anywhere(tables)
  IN  /\ s.at \in {"put", "put.row", "state", "pending", "log", "clear", "rotate.read", "rotate.keys"} \cup SyncLabels
      /\ Putting(s) =>
           /\ QueueTyped(s.mem, t) /\ s.cmd.op \in {"add", "propose", "infer", "accept", "rotate"}
           /\ s.cmd.op # "rotate" => \A i \in 1 .. Len(s.mem) : s.mem[i].n = s.cmd.n
      /\ s.at = "state" => s.cmd.op \in {"accept", "reject"} /\ s.cmd.n \in mine /\ s.mem \in State
      /\ s.at = "pending" => s.cmd.op \in {"propose", "infer"} /\ s.cmd.n \in mine
      /\ s.at = "log" => s.cmd.op = "propose"
      /\ s.at = "clear" => s.cmd.op \in {"accept", "reject"}
      /\ s.at = "rotate.read" =>
           /\ s.cmd.op = "rotate" /\ IsFiniteSet(DOMAIN s.mem) /\ DOMAIN s.mem \subseteq mine
           /\ \A n \in DOMAIN s.mem : s.mem[n] \in State
      /\ s.at = "rotate.keys" =>
           /\ s.cmd.op = "rotate" /\ DOMAIN s.mem = {"left", "puts"}
           /\ s.mem.left \in Seq(Tier) /\ s.mem.left # <<>>
           /\ s.mem.puts = <<>> \/ QueueTyped(s.mem.puts, t)
      /\ s.at \in SyncLabels => s.cmd.op = "sync"
      /\ s.at = "sync.edges" => TableTyped(s.mem, t)
      /\ s.at \in {"sync.push", "sync.answer"} => IndexTyped(s.mem, t, nodes)
      /\ s.at = "sync.answer.edges" => IndexTyped(s.mem.sent, t, nodes) /\ TableTyped(s.mem.rows, t)
      /\ s.at = "sync.pull" => IndexTyped(s.mem.sent, t, nodes) /\ IndexTyped(s.mem.got, t, nodes)

HandTyped(s, t, tables) ==
  /\ DOMAIN s = ProcFields
  /\ s.at = "idle" => s.cmd = NoCmd
  /\ s.at # "idle" => Named(s.cmd) /\ s.rest = RestAt(s.cmd.op, s.at) /\ Hand(s, t, tables)

TablesTyped ==
  /\ DOMAIN rows = Replica /\ DOMAIN edges = Replica /\ DOMAIN pending = Replica
  /\ tierKeys \in [Replica -> [Tier -> Nat]]
  /\ \A r \in Replica : /\ TableTyped(rows[r], now)
                        /\ pending[r] \subseteq DOMAIN rows[r]
                        /\ Ends(edges[r], Anywhere(rows))
Typed ==
  /\ now \in 1 .. MaxNow /\ deaths \in 0 .. MaxDeaths
  /\ \A c \in todo : Named(c)
  /\ TablesTyped
  /\ DOMAIN proc = Proc /\ \A p \in Proc : HandTyped(proc[p], now, rows)
-----------------------------------------------------------------------------
(* Queues.                                                                 *)

LEMMA QueueParts ==
  ASSUME NEW q, Queue(q), q # <<>>
  PROVE  /\ Len(q) \in Nat \ {0} /\ Head(q) = q[1]
         /\ Queue(Tail(q)) /\ Len(Tail(q)) = Len(q) - 1
         /\ \A i \in 1 .. Len(q) - 1 : Tail(q)[i] = q[i + 1]
         /\ Len(q) # 1 => Tail(q) # <<>>
  <1>1. PICK S : q \in Seq(S)
    BY DEF Queue
  <1>2. Len(q) \in Nat \ {0}
    BY <1>1, EmptySeq
  <1>3. /\ Tail(q) \in Seq(S) /\ Len(Tail(q)) = Len(q) - 1
        /\ \A i \in 1 .. Len(Tail(q)) : Tail(q)[i] = q[i + 1]
    BY <1>1, HeadTailProperties
  <1>4. Head(q) = q[1]
    BY <1>1, <1>2
  <1>5. Queue(Tail(q))
    BY <1>3 DEF Queue
  <1>6. Len(<<>>) = 0
    OBVIOUS
  <1>7. Len(q) # 1 => Len(q) - 1 # 0
    BY <1>2
  <1>8. QED
    BY <1>2, <1>3, <1>4, <1>5, <1>6, <1>7

LEMMA HeadReplaced ==
  ASSUME NEW q, Queue(q), q # <<>>, NEW x
  PROVE  LET z == <<x>> \o Tail(q)
         IN  /\ Queue(z) /\ z # <<>> /\ Len(z) = Len(q)
             /\ \A i \in 1 .. Len(q) : z[i] = IF i = 1 THEN x ELSE q[i]
  <1> DEFINE z == <<x>> \o Tail(q)
  <1>1. PICK S : Tail(q) \in Seq(S)
    BY QueueParts DEF Queue
  <1>2. Tail(q) \in Seq(S \cup {x})
    BY <1>1
  <1>3. <<x>> \in Seq(S \cup {x}) /\ Len(<<x>>) = 1 /\ <<x>>[1] = x
    OBVIOUS
  <1>4. /\ z \in Seq(S \cup {x}) /\ Len(z) = 1 + Len(Tail(q))
        /\ \A i \in 1 .. Len(z) : z[i] = IF i <= 1 THEN x ELSE Tail(q)[i - 1]
    BY <1>2, <1>3, ConcatProperties
  <1>5. Len(q) \in Nat \ {0} /\ Len(Tail(q)) = Len(q) - 1
    BY QueueParts
  <1> HIDE DEF z
  <1>6. Len(z) = Len(q)
    BY <1>4, <1>5
  <1>7. Queue(z)
    BY <1>4 DEF Queue
  <1>8. z # <<>>
    <2>1. Len(<<>>) = 0
      OBVIOUS
    <2> QED BY <1>5, <1>6, <2>1
  <1>9. ASSUME NEW i \in 1 .. Len(q) PROVE z[i] = IF i = 1 THEN x ELSE q[i]
    <2>1. CASE i = 1
      BY <1>4, <1>6, <2>1
    <2>2. CASE i # 1
      <3>1. i - 1 \in 1 .. Len(q) - 1 /\ ~(i <= 1) /\ (i - 1) + 1 = i
        BY <1>5, <2>2
      <3>2. Tail(q)[i - 1] = q[(i - 1) + 1]
        BY <3>1, QueueParts
      <3> QED BY <1>4, <1>6, <2>2, <3>1, <3>2
    <2> QED BY <2>1, <2>2
  <1> QED BY <1>6, <1>7, <1>8, <1>9 DEF z

LEMMA OneQueued ==
  ASSUME NEW x, NEW t, PutTyped(x, t)
  PROVE  QueueTyped(<<x>>, t) /\ Len(<<x>>) = 1 /\ <<x>>[1] = x
  <1>1. <<x>> \in Seq({x}) /\ Len(<<x>>) = 1 /\ <<x>>[1] = x /\ <<x>> # <<>>
    OBVIOUS
  <1>2. Queue(<<x>>)
    BY <1>1 DEF Queue
  <1>3. \A i \in 1 .. Len(<<x>>) : <<x>>[i] = x
    BY <1>1
  <1> QED BY <1>1, <1>2, <1>3 DEF QueueTyped

LEMMA SetQueued ==
  ASSUME NEW set, IsFiniteSet(set)
  PROVE  LET q == SetToSeq(set)
         IN  Queue(q) /\ \A x : x \in set <=> \E i \in 1 .. Len(q) : q[i] = x
  <1> DEFINE q == SetToSeq(set)
             n == Cardinality(set)
  <1>1. PICK f \in Bijection(1 .. n, set) : TRUE
    BY FS_CardinalityType DEF ExistsBijection
  <1>2. f \in [1 .. n -> set] /\ IsInjective(f)
    BY <1>1 DEF Bijection, Injection, IsInjective
  <1>3. q \in [1 .. n -> set] /\ IsInjective(q)
    BY <1>2 DEF SetToSeq
  <1>4. n \in Nat
    BY FS_CardinalityType
  <1> HIDE DEF q
  <1>5. q \in Seq(set) /\ Len(q) = n
    BY <1>3, <1>4
  <1>6. IsFiniteSet(1 .. n) /\ Cardinality(1 .. n) = n
    BY <1>4, FS_Interval
  <1>7. q \in Injection(1 .. n, set)
    BY <1>3 DEF Injection, IsInjective
  <1>8. q \in Surjection(1 .. n, set)
    BY <1>6, <1>7, FS_Injection DEF Surjection
  <1> QED BY <1>3, <1>5, <1>8 DEF Queue, Surjection, q
-----------------------------------------------------------------------------
(* What has its type keeps it as time passes and the tables grow.          *)

Grows(a, b) == \A r \in Replica : DOMAIN a[r] \subseteq DOMAIN b[r]

LEMMA NodeLater ==
  ASSUME NEW t \in Nat, NEW u \in Nat, t <= u
  PROVE  /\ \A x : NodeOK(x, t) => NodeOK(x, u)
         /\ \A x : RowOK(x, t) => RowOK(x, u)
         /\ \A x : PutTyped(x, t) => PutTyped(x, u)
         /\ \A x : QueueTyped(x, t) => QueueTyped(x, u)
         /\ \A x : TableTyped(x, t) => TableTyped(x, u)
  <1>1. \A i : i \in 0 .. t => i \in 0 .. u
    OBVIOUS
  <1>2. \A x : NodeOK(x, t) => NodeOK(x, u)
    BY <1>1 DEF NodeOK
  <1>3. \A x : RowOK(x, t) => RowOK(x, u)
    BY <1>1, <1>2 DEF RowOK
  <1>4. \A x : PutTyped(x, t) => PutTyped(x, u)
    BY <1>2 DEF PutTyped
  <1>5. \A x : QueueTyped(x, t) => QueueTyped(x, u)
    BY <1>4 DEF QueueTyped
  <1>6. \A x : TableTyped(x, t) => TableTyped(x, u)
    BY <1>3 DEF TableTyped
  <1> QED BY <1>2, <1>3, <1>4, <1>5, <1>6

LEMMA AnywhereGrows ==
  ASSUME NEW a, NEW b, Grows(a, b)
  PROVE  /\ Anywhere(a) \subseteq Anywhere(b)
         /\ \A es : Ends(es, Anywhere(a)) => Ends(es, Anywhere(b))
  <1>1. Anywhere(a) \subseteq Anywhere(b)
    BY DEF Anywhere, Grows
  <1> QED BY <1>1 DEF Ends

LEMMA HandLater ==
  ASSUME NEW s, NEW t \in Nat, NEW u \in Nat, t <= u, NEW a, NEW b, Grows(a, b), HandTyped(s, t, a)
  PROVE  HandTyped(s, u, b)
  <1>1. CASE s.at = "idle"
    BY <1>1 DEF HandTyped
  <1>2. CASE s.at # "idle"
    <2>1. Named(s.cmd) /\ Hand(s, t, a)
      BY <1>2 DEF HandTyped
    <2>2. DOMAIN a[s.cmd.r] \subseteq DOMAIN b[s.cmd.r]
      BY <2>1 DEF Named, Grows
    <2>3. \A x : IndexTyped(x, t, Anywhere(a)) => IndexTyped(x, u, Anywhere(b))
      BY NodeLater, AnywhereGrows DEF IndexTyped
    <2>4. Hand(s, u, b)
      BY <2>1, <2>2, <2>3, NodeLater DEF Hand
    <2> QED BY <1>2, <2>4 DEF HandTyped
  <1> QED BY <1>1, <1>2

(* A step of p that leaves its hand and the tables typed.                  *)
LEMMA TypedStep ==
  ASSUME Typed, NEW p \in Proc, NEW s, proc' = [proc EXCEPT ![p] = s], HandTyped(s, now, rows'),
         Grows(rows, rows'), TablesTyped', now' = now, deaths' \in 0 .. MaxDeaths, todo' \subseteq todo
  PROVE  Typed'
  <1>1. now \in Nat
    BY CommandsAssumption DEF Typed
  <1>2. DOMAIN proc' = Proc /\ proc'[p] = s /\ \A q \in Proc \ {p} : proc'[q] = proc[q]
    BY DEF Typed
  <1>3. \A q \in Proc : HandTyped(proc[q], now, rows')
    BY <1>1, HandLater DEF Typed
  <1>4. \A q \in Proc : HandTyped(proc'[q], now', rows')
    BY <1>2, <1>3
  <1> QED BY <1>2, <1>4 DEF Typed

LEMMA IdleTyped == \A t, tables : HandTyped(Idle, t, tables)
  BY DEF HandTyped, Idle, ProcFields

LEMMA TablesSame ==
  ASSUME TablesTyped, UNCHANGED <<rows, edges, tierKeys, pending, now>>
  PROVE  TablesTyped' /\ Grows(rows, rows')
  BY DEF TablesTyped, Grows

(* A part of a command is over.                                            *)
LEMMA ReturnTyped ==
  ASSUME NEW p, NEW t, NEW u, NEW a, NEW b, HandTyped(proc[p], t, a), ~At(p, "idle"),
         proc[p].cmd.op \in {"propose", "infer"} => proc[p].cmd.n \in DOMAIN b[proc[p].cmd.r]
  PROVE  HandTyped(Return(p), u, b)
  <1>1. CASE proc[p].rest = <<>>
    BY <1>1, IdleTyped DEF Return
  <1>2. CASE proc[p].rest # <<>>
    <2> DEFINE s == [proc[p] EXCEPT !.at = Head(proc[p].rest), !.rest = Tail(@), !.on = NoRow, !.mem = None]
               op == proc[p].cmd.op
    <2>1. Return(p) = s
      BY <1>2 DEF Return
    <2>2. /\ DOMAIN s = ProcFields /\ s.cmd = proc[p].cmd
          /\ s.at = Head(proc[p].rest) /\ s.rest = Tail(proc[p].rest)
      BY DEF HandTyped, ProcFields
    <2> HIDE DEF s
    <2>3. Named(s.cmd) /\ proc[p].rest = RestAt(op, proc[p].at)
      BY <2>2 DEF HandTyped, At
    <2>4. \/ op = "propose" /\ proc[p].rest = <<"pending", "log">>
          \/ op = "infer" /\ proc[p].rest = <<"pending">>
          \/ op \in {"accept", "reject"} /\ proc[p].rest = <<"clear">>
          \/ op = "propose" /\ proc[p].rest = <<"log">>
      BY <1>2, <2>3 DEF RestAt, PartsOf
    <2>5. \/ op = "propose" /\ s.at = "pending" /\ s.rest = <<"log">>
          \/ op = "infer" /\ s.at = "pending" /\ s.rest = <<>>
          \/ op \in {"accept", "reject"} /\ s.at = "clear" /\ s.rest = <<>>
          \/ op = "propose" /\ s.at = "log" /\ s.rest = <<>>
      <3>1. \A x : Head(<<x>>) = x /\ Tail(<<x>>) = <<>>
        OBVIOUS
      <3>2. Head(<<"pending", "log">>) = "pending" /\ Tail(<<"pending", "log">>) = <<"log">>
        OBVIOUS
      <3>3. CASE proc[p].rest = <<"pending", "log">>
        BY <2>2, <2>4, <3>2, <3>3
      <3>4. CASE \E x : proc[p].rest = <<x>>
        BY <2>2, <2>4, <3>1, <3>4
      <3> QED BY <2>4, <3>3, <3>4
    <2>6. s.rest = RestAt(s.cmd.op, s.at) /\ s.at # "idle"
      BY <2>2, <2>5 DEF RestAt, PartsOf
    <2>7. Hand(s, u, b)
      BY <2>2, <2>5 DEF Hand, Putting, SyncLabels
    <2> QED BY <2>1, <2>2, <2>3, <2>6, <2>7 DEF HandTyped
  <1> QED BY <1>1, <1>2
-----------------------------------------------------------------------------
(* The first statements of the commands.                                   *)

LEMMA OnlyTyped ==
  ASSUME Typed, UNCHANGED graphVars, UNCHANGED <<now, proc, deaths>>, todo' \subseteq todo
  PROVE  Typed'
  BY TablesSame DEF Typed, graphVars

LEMMA BeginTyped ==
  ASSUME Typed, UNCHANGED graphVars, NEW p \in Proc, NEW c \in todo, NEW label, label # "idle",
         NEW on, NEW mem, NEW rest, rest = RestAt(c.op, label), Begin(p, c, label, on, mem, rest),
         \A s : s.at = label /\ s.cmd = c /\ s.mem = mem => Hand(s, now, rows)
  PROVE  Typed'
  <1> DEFINE s == [Idle EXCEPT !.at = label, !.cmd = c, !.on = on, !.mem = mem, !.rest = rest]
  <1>1. proc' = [proc EXCEPT ![p] = s] /\ todo' \subseteq todo /\ now' = now /\ deaths' = deaths
    BY DEF Begin, Step
  <1>2. DOMAIN s = ProcFields /\ s.at = label /\ s.cmd = c /\ s.mem = mem /\ s.rest = rest
    BY BeginFields
  <1> HIDE DEF s
  <1>3. Named(c)
    BY DEF Typed
  <1>4. rows' = rows
    BY DEF graphVars
  <1>5. HandTyped(s, now, rows')
    BY <1>2, <1>3, <1>4 DEF HandTyped
  <1>6. TablesTyped' /\ Grows(rows, rows')
    BY <1>1, TablesSame DEF Typed, graphVars
  <1> QED BY <1>1, <1>5, <1>6, TypedStep DEF Typed

(* A command that begins with one node to put.                             *)
LEMMA PutTypedBegins ==
  ASSUME Typed, UNCHANGED graphVars, NEW p \in Proc, NEW c \in todo,
         c.op \in {"add", "propose", "infer", "accept"}, NEW on, NEW node, NodeOK(node, now),
         NEW state \in State, NEW decided,
         Begin(p, c, "put", on, <<Put(c.n, node, state, decided)>>, PartsOf(c.op))
  PROVE  Typed'
  <1> DEFINE x == Put(c.n, node, state, decided)
  <1>1. c.n \in Node
    BY DEF Typed, Named
  <1>2. PutTyped(x, now) /\ x.n = c.n
    BY <1>1 DEF Put, PutFields, PutTyped
  <1> HIDE DEF x
  <1>3. QueueTyped(<<x>>, now) /\ \A i \in 1 .. Len(<<x>>) : <<x>>[i].n = c.n
    BY <1>2, OneQueued
  <1>4. \A s : s.at = "put" /\ s.cmd = c /\ s.mem = <<x>> => Hand(s, now, rows)
    BY <1>3 DEF Hand, Putting, SyncLabels
  <1>5. Begin(p, c, "put", on, <<x>>, PartsOf(c.op)) /\ PartsOf(c.op) = RestAt(c.op, "put")
    BY DEF x, RestAt
  <1> QED BY <1>4, <1>5, BeginTyped

LEMMA StateBegins ==
  ASSUME Typed, UNCHANGED graphVars, NEW p \in Proc, NEW c \in todo, c.op \in {"accept", "reject"},
         c.n \in DOMAIN rows[c.r], NEW on, NEW mem \in State, Begin(p, c, "state", on, mem, <<"clear">>)
  PROVE  Typed'
  <1>1. \A s : s.at = "state" /\ s.cmd = c /\ s.mem = mem => Hand(s, now, rows)
    BY DEF Hand, Putting, SyncLabels
  <1>2. <<"clear">> = RestAt(c.op, "state")
    BY DEF RestAt, PartsOf
  <1> QED BY <1>1, <1>2, BeginTyped

LEMMA RowHas ==
  ASSUME Typed, NEW r \in Replica, NEW n \in DOMAIN rows[r]
  PROVE  RowOK(rows[r][n], now) /\ n \in Node
  BY DEF Typed, TablesTyped, TableTyped

LEMMA EncodedOK ==
  ASSUME Typed, NEW c, c.tier \in Tier, NEW source \in Source
  PROVE  NodeOK(Encoded(c, source), now)
  <1>1. now \in 0 .. now
    BY CommandsAssumption DEF Typed
  <1> QED BY <1>1 DEF Encoded, NodeOK

LEMMA CommandedTyped ==
  ASSUME Typed, Commanded
  PROVE  Typed'
  <1>1. PICK p \in Proc, c \in todo :
          /\ \/ Add(p, c) \/ Propose(p, c) \/ Infer(p, c) \/ Accept(p, c) \/ Reject(p, c)
             \/ Rotate(p, c) \/ Sync(p, c)
          /\ UNCHANGED <<graphVars, history>>
    BY DEF Commanded
  <1>2. UNCHANGED graphVars
    BY <1>1
  <1>3. Named(c)
    BY DEF Typed
  <1>4. ASSUME Only(p, c) PROVE Typed'
    BY <1>2, <1>4, OnlyTyped DEF Only
  <1>5. "active" \in State /\ "proposed" \in State /\ "archived" \in State
        /\ "human" \in Source /\ "agent" \in Source /\ "inferred" \in Source /\ "approved" \in Source
    BY DEF State, Source
  <1>6. CASE Add(p, c)
    <2>1. c.op = "add" /\ PartsOf(c.op) = <<>> /\ c.tier \in Tier
      BY <1>3, <1>6 DEF Add, PartsOf, Named
    <2> QED BY <1>2, <1>5, <1>6, <2>1, PutTypedBegins, EncodedOK DEF Add
  <1>7. CASE Propose(p, c)
    <2>1. c.op = "propose" /\ PartsOf(c.op) = <<"pending", "log">> /\ c.tier \in Tier
      BY <1>3, <1>7 DEF Propose, PartsOf, Named
    <2> QED BY <1>2, <1>5, <1>7, <2>1, PutTypedBegins, EncodedOK DEF Propose
  <1>8. CASE Infer(p, c)
    <2>1. c.op = "infer" /\ PartsOf(c.op) = <<"pending">> /\ c.tier \in Tier
      BY <1>3, <1>8 DEF Infer, PartsOf, Named
    <2> QED BY <1>2, <1>4, <1>5, <1>8, <2>1, PutTypedBegins, EncodedOK DEF Infer
  <1>9. CASE Accept(p, c)
    <2>1. c.op = "accept" /\ PartsOf(c.op) = <<"clear">>
      BY <1>9 DEF Accept, PartsOf
    <2>2. CASE ~Readable(c.r, c.n)
      BY <1>4, <1>9, <2>2 DEF Accept
    <2>3. CASE Readable(c.r, c.n)
      <3> DEFINE node == rows[c.r][c.n].blob
                 told == [node EXCEPT !.source = "approved", !.updated = now]
      <3>1. c.n \in DOMAIN rows[c.r] /\ NodeOK(node, now)
        BY <1>3, <2>3, RowHas DEF Readable, RowOK, Named
      <3>2. NodeOK(told, now)
        <4>1. now \in 0 .. now
          BY CommandsAssumption DEF Typed
        <4> QED BY <1>5, <3>1, <4>1 DEF NodeOK
      <3>3. \/ Begin(p, c, "put", NodeRow(c), <<Put(c.n, told, "active", "active")>>, <<"clear">>)
            \/ Begin(p, c, "state", NodeRow(c), "active", <<"clear">>)
        BY <1>9, <2>3 DEF Accept
      <3> HIDE DEF node, told
      <3> QED BY <1>2, <1>5, <2>1, <3>1, <3>2, <3>3, PutTypedBegins, StateBegins
    <2> QED BY <2>2, <2>3
  <1>10. CASE Reject(p, c)
    BY <1>2, <1>4, <1>5, <1>10, StateBegins DEF Reject
  <1>11. CASE Rotate(p, c)
    <2>1. c.r \in Replica
      BY <1>3 DEF Named
    <2>2. /\ DOMAIN Listed(c.r) = DOMAIN rows[c.r] /\ IsFiniteSet(DOMAIN rows[c.r])
          /\ \A n \in DOMAIN rows[c.r] : Listed(c.r)[n] \in State
      BY <2>1, RowHas DEF Listed, RowOK, Typed, TablesTyped, TableTyped
    <2>3. \A s : s.at = "rotate.read" /\ s.cmd = c /\ s.mem = Listed(c.r) => Hand(s, now, rows)
      BY <1>11, <2>2 DEF Rotate, Hand, Putting, SyncLabels
    <2>4. <<>> = RestAt(c.op, "rotate.read")
      BY DEF RestAt
    <2> QED BY <1>2, <1>11, <2>3, <2>4, BeginTyped DEF Rotate
  <1>12. CASE Sync(p, c)
    <2>1. TableTyped(rows[c.r], now)
      BY <1>3 DEF Named, Typed, TablesTyped
    <2>2. \A s : s.at = "sync.edges" /\ s.cmd = c /\ s.mem = rows[c.r] => Hand(s, now, rows)
      BY <1>12, <2>1 DEF Sync, Hand, Putting, SyncLabels
    <2>3. <<>> = RestAt(c.op, "sync.edges")
      BY DEF RestAt
    <2> QED BY <1>2, <1>12, <2>2, <2>3, BeginTyped DEF Sync
  <1> QED BY <1>1, <1>6, <1>7, <1>8, <1>9, <1>10, <1>11, <1>12
-----------------------------------------------------------------------------
(* The statements that follow.                                             *)

LEMMA AtHand ==
  ASSUME Typed, NEW p \in Proc, ~At(p, "idle")
  PROVE  /\ HandTyped(proc[p], now, rows) /\ DOMAIN proc[p] = ProcFields
         /\ Named(proc[p].cmd) /\ proc[p].cmd.r \in Replica
         /\ proc[p].rest = RestAt(proc[p].cmd.op, proc[p].at) /\ Hand(proc[p], now, rows)
  BY DEF Typed, HandTyped, At, Named

LEMMA GotoTyped ==
  ASSUME Typed, TablesTyped', Grows(rows, rows'), NEW p \in Proc, ~At(p, "idle"),
         NEW label, label # "idle", NEW mem, Continue(p, Goto(p, label, mem)),
         RestAt(proc[p].cmd.op, label) = RestAt(proc[p].cmd.op, proc[p].at),
         \A s : s.at = label /\ s.cmd = proc[p].cmd /\ s.mem = mem => Hand(s, now, rows')
  PROVE  Typed'
  <1> DEFINE s == Goto(p, label, mem)
  <1>1. proc' = [proc EXCEPT ![p] = s] /\ todo' = todo /\ now' = now /\ deaths' = deaths
    BY DEF Continue, Step
  <1>2. /\ DOMAIN s = ProcFields
        /\ s.at = label /\ s.cmd = proc[p].cmd /\ s.mem = mem /\ s.rest = proc[p].rest
    BY AtHand, GotoFields
  <1> HIDE DEF s
  <1>3. HandTyped(s, now, rows')
    BY <1>2, AtHand DEF HandTyped
  <1> QED BY <1>1, <1>3, TypedStep DEF Typed

LEMMA ReturnStepTyped ==
  ASSUME Typed, TablesTyped', Grows(rows, rows'), NEW p \in Proc, ~At(p, "idle"), Continue(p, Return(p)),
         proc[p].cmd.op \in {"propose", "infer"} => proc[p].cmd.n \in DOMAIN rows'[proc[p].cmd.r]
  PROVE  Typed'
  <1>1. proc' = [proc EXCEPT ![p] = Return(p)] /\ todo' = todo /\ now' = now /\ deaths' = deaths
    BY DEF Continue, Step
  <1>2. HandTyped(Return(p), now, rows')
    <2>1. HandTyped(proc[p], now, rows)
      BY AtHand
    <2>2. PICK a, b : a = rows /\ b = rows'
      OBVIOUS
    <2>3. HandTyped(Return(p), now, b)
      BY <2>1, <2>2, ReturnTyped
    <2> QED BY <2>2, <2>3
  <1> QED BY <1>1, <1>2, TypedStep DEF Typed

LEMMA PutSealTyped ==
  ASSUME Typed, NEW p \in Proc, PutSeal(p)
  PROVE  Typed'
  <1>0. PICK q : q = Mem(p) OBVIOUS
  <1> DEFINE x == [Head(q) EXCEPT !.node = Seal(Cmd(p).r, @)]
             z == <<x>> \o Tail(q)
  <1>1. /\ proc[p].at = "put" /\ ~At(p, "idle") /\ UNCHANGED graphVars
        /\ Continue(p, Goto(p, "put.row", z))
    BY <1>0 DEF PutSeal, At
  <1>2. /\ QueueTyped(q, now) /\ proc[p].cmd.op \in {"add", "propose", "infer", "accept", "rotate"}
        /\ proc[p].cmd.op # "rotate" => \A i \in 1 .. Len(q) : q[i].n = proc[p].cmd.n
    BY <1>0, <1>1, AtHand DEF Hand, Putting, Mem
  <1>3. Queue(q) /\ q # <<>> /\ Head(q) = q[1] /\ 1 \in 1 .. Len(q)
    BY <1>2, QueueParts DEF QueueTyped
  <1>4. PutTyped(x, now) /\ x.n = q[1].n
    <2>1. PutTyped(Head(q), now)
      BY <1>2, <1>3 DEF QueueTyped
    <2>2. \A node : NodeOK(node, now) => NodeOK(Seal(Cmd(p).r, node), now)
      BY DEF NodeOK, Seal
    <2> QED BY <1>3, <2>1, <2>2 DEF PutTyped, PutFields
  <1> HIDE DEF x
  <1>5. Queue(z) /\ z # <<>> /\ Len(z) = Len(q) /\ \A i \in 1 .. Len(q) : z[i] = IF i = 1 THEN x ELSE q[i]
    BY <1>3, HeadReplaced
  <1> HIDE DEF z
  <1>6. QueueTyped(z, now)
    BY <1>2, <1>4, <1>5 DEF QueueTyped
  <1>7. proc[p].cmd.op # "rotate" => \A i \in 1 .. Len(z) : z[i].n = proc[p].cmd.n
    BY <1>2, <1>3, <1>4, <1>5
  <1>8. rows' = rows /\ TablesTyped' /\ Grows(rows, rows')
    BY <1>1, TablesSame DEF graphVars, Typed, Continue, Step
  <1>9. \A s : s.at = "put.row" /\ s.cmd = proc[p].cmd /\ s.mem = z => Hand(s, now, rows')
    BY <1>2, <1>6, <1>7 DEF Hand, Putting, SyncLabels
  <1>10. RestAt(proc[p].cmd.op, "put.row") = RestAt(proc[p].cmd.op, proc[p].at)
    BY <1>1 DEF RestAt
  <1> QED BY <1>1, <1>8, <1>9, <1>10, GotoTyped

(* The tables after one table has been replaced.                           *)
LEMMA TablesReplaced ==
  ASSUME Typed, NEW r \in Replica, NEW table, rows' = [rows EXCEPT ![r] = table],
         TableTyped(table, now), DOMAIN rows[r] \subseteq DOMAIN table,
         now' = now, UNCHANGED <<tierKeys, pending>>, DOMAIN edges' = Replica,
         \A x \in Replica : Ends(edges'[x], Anywhere(rows'))
  PROVE  TablesTyped' /\ Grows(rows, rows')
  <1>1. DOMAIN rows' = Replica /\ rows'[r] = table /\ \A x \in Replica \ {r} : rows'[x] = rows[x]
    BY DEF Typed, TablesTyped
  <1>2. Grows(rows, rows')
    BY <1>1 DEF Grows
  <1> QED BY <1>1, <1>2 DEF Typed, TablesTyped, Grows

LEMMA EndsKept ==
  ASSUME Typed, NEW b, Grows(rows, b)
  PROVE  \A x \in Replica : Ends(edges[x], Anywhere(b))
  BY AnywhereGrows DEF Typed, TablesTyped

(* The row a put writes, and the table with it.                            *)
PutRowOf(put, table) ==
  [state |-> put.state, tier |-> put.node.tier, blob |-> put.node,
   created |-> IF put.n \in DOMAIN table THEN table[put.n].created ELSE put.node.updated,
   updated |-> put.node.updated, local |-> TRUE,
   decided |-> IF put.decided # None THEN put.decided
               ELSE IF put.n \in DOMAIN table THEN table[put.n].decided ELSE None]

(* What PutRow does: of the queue q it writes put, as row, into the table  *)
(* of r.                                                                   *)
RowPut(p, r, q, put, row, table) ==
  /\ proc[p].at = "put.row" /\ r = proc[p].cmd.r /\ q = proc[p].mem /\ put = q[1]
  /\ row = PutRowOf(put, rows[r])
  /\ rows' = [rows EXCEPT ![r] = table] /\ UNCHANGED <<edges, tierKeys, pending, audit>>
  /\ DOMAIN table = DOMAIN rows[r] \cup {put.n} /\ table[put.n] = row
  /\ \A n \in DOMAIN rows[r] : n # put.n => table[n] = rows[r][n]
  /\ Written(r, put.n, row.updated)
  /\ Continue(p, IF Len(q) = 1 THEN Return(p) ELSE Goto(p, "put", Tail(q)))
  /\ QueueTyped(q, now) /\ Queue(q) /\ q # <<>> /\ PutTyped(put, now)
  /\ RowOK(row, now) /\ row.local

LEMMA PutRowDoes ==
  ASSUME Typed, NEW p \in Proc, PutRow(p)
  PROVE  \E r \in Replica : \E q, put, row, table : RowPut(p, r, q, put, row, table)
  <1>1. proc[p].at = "put.row" /\ ~At(p, "idle")
    BY DEF PutRow, At
  <1>2. PICK r, q : r = proc[p].cmd.r /\ q = proc[p].mem /\ r \in Replica
    BY <1>1, AtHand
  <1>3. PICK put : put = Head(q)
    OBVIOUS
  <1>4. PICK row : row = PutRowOf(put, rows[r])
    OBVIOUS
  <1>5. PICK table : table = Upsert([n \in {put.n} |-> row], rows[r])
    OBVIOUS
  <1>6. /\ rows' = [rows EXCEPT ![r] = table] /\ UNCHANGED <<edges, tierKeys, pending, audit>>
        /\ Written(r, put.n, row.updated)
        /\ Continue(p, IF Len(q) = 1 THEN Return(p) ELSE Goto(p, "put", Tail(q)))
    BY <1>2, <1>3, <1>4, <1>5 DEF PutRow, PutRowOf, Mem, Cmd
  <1>7. /\ DOMAIN table = DOMAIN rows[r] \cup {put.n} /\ table[put.n] = row
        /\ \A n \in DOMAIN rows[r] : n # put.n => table[n] = rows[r][n]
    BY <1>5 DEF Upsert
  <1>8. QueueTyped(q, now)
    BY <1>1, <1>2, AtHand DEF Hand, Putting
  <1>9. Queue(q) /\ q # <<>> /\ put = q[1] /\ 1 \in 1 .. Len(q)
    BY <1>3, <1>8, QueueParts DEF QueueTyped
  <1>10. PutTyped(put, now)
    BY <1>8, <1>9 DEF QueueTyped
  <1>11. RowOK(row, now) /\ row.local
    <2>1. NodeOK(put.node, now) /\ put.state \in State
      BY <1>10 DEF PutTyped
    <2>2. put.n \in DOMAIN rows[r] => rows[r][put.n].created \in 0 .. now
      BY <1>2, RowHas DEF RowOK
    <2>3. put.node.updated \in 0 .. now
      BY <2>1 DEF NodeOK
    <2> QED BY <1>4, <2>1, <2>2, <2>3 DEF PutRowOf, RowOK
  <1>12. RowPut(p, r, q, put, row, table)
    BY <1>1, <1>2, <1>3, <1>4, <1>6, <1>7, <1>8, <1>9, <1>10, <1>11 DEF RowPut
  <1> QED BY <1>2, <1>12

LEMMA PutRowTyped ==
  ASSUME Typed, NEW p \in Proc, PutRow(p)
  PROVE  Typed'
  <1>0. PICK r \in Replica : \E q, put, row, table : RowPut(p, r, q, put, row, table)
    BY PutRowDoes
  <1>1. PICK q, put, row, table : RowPut(p, r, q, put, row, table)
    BY <1>0
  <1> USE DEF RowPut
  <1>2. now' = now /\ ~At(p, "idle")
    BY <1>1 DEF Continue, Step, At
  <1>3. TableTyped(table, now)
    <2>1. IsFiniteSet(DOMAIN table)
      <3>1. IsFiniteSet(DOMAIN rows[r])
        BY DEF Typed, TablesTyped, TableTyped
      <3>2. IsFiniteSet(DOMAIN rows[r] \cup {put.n})
        BY <3>1, FS_AddElement
      <3> QED BY <1>1, <3>2
    <2>2. put.n \in Node
      BY <1>1 DEF PutTyped
    <2> QED BY <1>1, <2>1, <2>2, RowHas DEF TableTyped
  <1>4. Grows(rows, rows')
    BY <1>1 DEF Grows, Typed, TablesTyped
  <1>5. TablesTyped'
    BY <1>1, <1>2, <1>3, <1>4, EndsKept, TablesReplaced DEF Typed, TablesTyped
  <1>6. rows'[r] = table
    BY <1>1 DEF Typed, TablesTyped
  <1>7. /\ proc[p].cmd.op \in {"add", "propose", "infer", "accept", "rotate"}
        /\ proc[p].cmd.op # "rotate" => \A i \in 1 .. Len(q) : q[i].n = proc[p].cmd.n
    BY <1>1, <1>2, AtHand DEF Hand, Putting
  <1>8. Len(q) \in Nat \ {0}
    BY <1>1, QueueParts
  <1>9. proc[p].cmd.op # "rotate" => proc[p].cmd.n \in DOMAIN rows'[r]
    <2>1. 1 \in 1 .. Len(q)
      BY <1>8
    <2> QED BY <1>1, <1>6, <1>7, <2>1
  <1>10. CASE Len(q) = 1
    BY <1>1, <1>2, <1>4, <1>5, <1>9, <1>10, ReturnStepTyped
  <1>11. CASE Len(q) # 1
    <2>1. PICK z : z = Tail(q)
      OBVIOUS
    <2>2. Queue(q) /\ q # <<>> /\ \A i \in 1 .. Len(q) : PutTyped(q[i], now)
      BY <1>1 DEF QueueTyped
    <2> HIDE DEF RowPut
    <2>3. Queue(z) /\ z # <<>> /\ Len(z) = Len(q) - 1 /\ \A i \in 1 .. Len(q) - 1 : z[i] = q[i + 1]
      BY <1>11, <2>1, <2>2, QueueParts
    <2>4. /\ QueueTyped(z, now)
          /\ proc[p].cmd.op # "rotate" => \A i \in 1 .. Len(z) : z[i].n = proc[p].cmd.n
      <3>1. ASSUME NEW i \in 1 .. Len(z)
            PROVE  PutTyped(z[i], now) /\ (proc[p].cmd.op # "rotate" => z[i].n = proc[p].cmd.n)
        <4>1. i + 1 \in 1 .. Len(q) /\ z[i] = q[i + 1]
          BY <1>8, <2>3
        <4> QED BY <1>7, <2>2, <4>1
      <3> QED BY <2>3, <3>1 DEF QueueTyped
    <2>5. \A s : s.at = "put" /\ s.cmd = proc[p].cmd /\ s.mem = z => Hand(s, now, rows')
      BY <1>7, <2>4 DEF Hand, Putting, SyncLabels
    <2>6. Continue(p, Goto(p, "put", z))
      BY <1>1, <1>11, <2>1 DEF RowPut
    <2>7. RestAt(proc[p].cmd.op, "put") = RestAt(proc[p].cmd.op, proc[p].at)
      BY <1>1 DEF RestAt, RowPut
    <2> QED BY <1>2, <1>4, <1>5, <2>5, <2>6, <2>7, GotoTyped
  <1> QED BY <1>10, <1>11

LEMMA SetStateTyped ==
  ASSUME Typed, NEW p \in Proc, SetState(p)
  PROVE  Typed'
  <1> DEFINE r == Cmd(p).r
             n == Cmd(p).n
             row == [rows[r][n] EXCEPT !.state = Mem(p), !.updated = now, !.decided = Mem(p)]
             table == [rows[r] EXCEPT ![n] = row]
  <1>1. /\ proc[p].at = "state" /\ ~At(p, "idle") /\ rows' = [rows EXCEPT ![r] = table]
        /\ Continue(p, Return(p)) /\ UNCHANGED <<edges, tierKeys, pending>> /\ now' = now
    BY DEF SetState, At, Continue, Step
  <1>2. /\ proc[p].cmd.op \in {"accept", "reject"} /\ r \in Replica /\ n \in DOMAIN rows[r] /\ Mem(p) \in State
    BY <1>1, AtHand DEF Hand, Mem, Cmd
  <1>3. RowOK(row, now)
    <2>1. now \in 0 .. now
      BY CommandsAssumption DEF Typed
    <2>2. RowOK(rows[r][n], now)
      BY <1>2, RowHas
    <2> QED BY <1>2, <2>1, <2>2 DEF RowOK
  <1> HIDE DEF row
  <1>4. DOMAIN table = DOMAIN rows[r] /\ \A k \in DOMAIN rows[r] : table[k] = IF k = n THEN row ELSE rows[r][k]
    OBVIOUS
  <1> HIDE DEF table
  <1>5. TableTyped(table, now)
    BY <1>2, <1>3, <1>4 DEF TableTyped, Typed, TablesTyped
  <1>6. Grows(rows, rows')
    BY <1>1, <1>4 DEF Grows, Typed, TablesTyped
  <1>7. TablesTyped'
    BY <1>1, <1>2, <1>4, <1>5, <1>6, EndsKept, TablesReplaced DEF Typed, TablesTyped
  <1> QED BY <1>1, <1>2, <1>6, <1>7, ReturnStepTyped

LEMMA ProposalTyped ==
  ASSUME Typed, NEW p \in Proc, WriteProposal(p) \/ ClearProposal(p) \/ LogAccess(p)
  PROVE  Typed'
  <1>1. /\ Continue(p, Return(p)) /\ ~At(p, "idle") /\ UNCHANGED <<rows, edges, tierKeys>> /\ now' = now
        /\ proc[p].at \in {"pending", "clear", "log"}
    BY DEF WriteProposal, ClearProposal, LogAccess, At, Continue, Step
  <1>2. Grows(rows, rows')
    BY <1>1 DEF Grows
  <1>3. TablesTyped'
    <2>1. CASE proc[p].at = "pending" /\ WriteProposal(p)
      <3>1. proc[p].cmd.r \in Replica /\ proc[p].cmd.n \in DOMAIN rows[proc[p].cmd.r]
        BY <1>1, <2>1, AtHand DEF Hand
      <3> QED BY <1>1, <2>1, <3>1 DEF WriteProposal, Typed, TablesTyped, Cmd
    <2>2. CASE ClearProposal(p)
      BY <1>1, <2>2, AtHand DEF ClearProposal, Typed, TablesTyped, Cmd
    <2>3. CASE LogAccess(p)
      BY <1>1, <2>3 DEF LogAccess, Typed, TablesTyped
    <2> QED BY <2>1, <2>2, <2>3 DEF WriteProposal, At
  <1>4. CASE proc[p].at = "pending"
    <2>1. proc[p].cmd.n \in DOMAIN rows'[proc[p].cmd.r]
      BY <1>1, <1>4, AtHand DEF Hand
    <2> QED BY <1>1, <1>2, <1>3, <2>1, ReturnStepTyped
  <1>5. CASE proc[p].at \in {"clear", "log"}
    <2>1. Return(p) = Idle
      BY <1>1, <1>5, AtHand DEF Return, RestAt
    <2>2. proc' = [proc EXCEPT ![p] = Idle] /\ todo' = todo /\ deaths' = deaths
      BY <1>1, <2>1 DEF Continue, Step
    <2> QED BY <1>1, <1>2, <1>3, <2>2, IdleTyped, TypedStep DEF Typed
  <1> QED BY <1>1, <1>4, <1>5

LEMMA LinkTyped ==
  ASSUME Typed, NEW p \in Proc, NEW c \in todo, Link(p, c)
  PROVE  Typed'
  <1> DEFINE both == {c.from, c.to} \subseteq DOMAIN rows[c.r]
  <1>1. /\ UNCHANGED <<rows, tierKeys, pending, now, proc, deaths>> /\ todo' \subseteq todo
        /\ edges' = IF both THEN [edges EXCEPT ![c.r] = PutEdge(@, c.from, c.to, c.both)] ELSE edges
    BY DEF Link, Only
  <1>2. c.r \in Replica
    BY DEF Typed, Named
  <1>3. DOMAIN PutEdge(edges[c.r], c.from, c.to, c.both) = DOMAIN edges[c.r] \cup {<<c.from, c.to>>}
    BY DEF PutEdge, Upsert
  <1>4. both => {c.from, c.to} \subseteq Anywhere(rows)
    BY <1>2 DEF Anywhere
  <1>5. DOMAIN edges' = Replica /\ \A x \in Replica : Ends(edges'[x], Anywhere(rows))
    <2>1. DOMAIN edges = Replica /\ \A x \in Replica : Ends(edges[x], Anywhere(rows))
      BY DEF Typed, TablesTyped
    <2>2. CASE both
      <3>1. edges'[c.r] = PutEdge(edges[c.r], c.from, c.to, c.both) /\ DOMAIN edges' = Replica
            /\ \A x \in Replica \ {c.r} : edges'[x] = edges[x]
        BY <1>1, <1>2, <2>1, <2>2
      <3>2. Ends(edges'[c.r], Anywhere(rows))
        BY <1>2, <1>3, <1>4, <2>1, <2>2, <3>1 DEF Ends
      <3> QED BY <2>1, <3>1, <3>2
    <2>3. CASE ~both
      BY <1>1, <2>1, <2>3
    <2> QED BY <2>2, <2>3
  <1>6. TablesTyped'
    BY <1>1, <1>5 DEF Typed, TablesTyped
  <1> QED BY <1>1, <1>6 DEF Typed

LEMMA DieTyped ==
  ASSUME Typed, NEW p \in Proc, Die(p), UNCHANGED graphVars
  PROVE  Typed'
  <1>1. proc' = [proc EXCEPT ![p] = Idle] /\ todo' = todo /\ now' = now /\ deaths' = deaths + 1 /\ deaths < MaxDeaths
    BY DEF Die
  <1>2. deaths' \in 0 .. MaxDeaths
    BY <1>1, CommandsAssumption DEF Typed
  <1>3. TablesTyped' /\ Grows(rows, rows')
    BY <1>1, TablesSame DEF graphVars, Typed
  <1> QED BY <1>1, <1>2, <1>3, IdleTyped, TypedStep

LEMMA TickTyped ==
  ASSUME Typed, Tick, UNCHANGED graphVars
  PROVE  Typed'
  <1>1. now' = now + 1 /\ now' \in 1 .. MaxNow /\ now \in Nat /\ now' \in Nat /\ now <= now'
    BY CommandsAssumption DEF Tick, Typed
  <1>2. UNCHANGED <<todo, proc, deaths, rows, edges, tierKeys, pending>>
    BY DEF Tick, graphVars
  <1>3. Grows(rows, rows')
    BY <1>2 DEF Grows
  <1>4. TablesTyped'
    BY <1>1, <1>2, NodeLater DEF Typed, TablesTyped
  <1>5. PICK t, a, b : t = now' /\ a = rows /\ b = rows'
    OBVIOUS
  <1>6. \A p \in Proc : HandTyped(proc[p], t, b)
    BY <1>1, <1>3, <1>5, HandLater DEF Typed
  <1> QED BY <1>1, <1>2, <1>4, <1>5, <1>6 DEF Typed

LEMMA RotateReadTyped ==
  ASSUME Typed, NEW p \in Proc, RotateRead(p)
  PROVE  Typed'
  <1> DEFINE r == Cmd(p).r
             set == {Put(n, rows[r][n].blob, Mem(p)[n], None) : n \in DOMAIN Mem(p)}
             q == SetToSeq(set)
             mem == [left |-> Tiers, puts |-> q]
             error == \E n \in DOMAIN Mem(p) : ~Opens(r, rows[r][n])
  <1>1. /\ proc[p].at = "rotate.read" /\ UNCHANGED graphVars /\ ~At(p, "idle")
        /\ Continue(p, IF error THEN Idle ELSE Goto(p, "rotate.keys", mem))
    BY DEF RotateRead, At
  <1>2. rows' = rows /\ TablesTyped' /\ Grows(rows, rows')
    BY <1>1, TablesSame DEF graphVars, Typed, Continue, Step
  <1>3. CASE error
    <2>1. proc' = [proc EXCEPT ![p] = Idle] /\ todo' = todo /\ now' = now /\ deaths' = deaths
      BY <1>1, <1>3 DEF Continue, Step
    <2> QED BY <1>2, <2>1, IdleTyped, TypedStep DEF Typed
  <1>4. CASE ~error
    <2>1. /\ proc[p].cmd.op = "rotate" /\ r \in Replica
          /\ IsFiniteSet(DOMAIN Mem(p)) /\ DOMAIN Mem(p) \subseteq DOMAIN rows[r]
          /\ \A n \in DOMAIN Mem(p) : Mem(p)[n] \in State
      BY <1>1, AtHand DEF Hand, Mem, Cmd
    <2>2. \A x \in set : PutTyped(x, now)
      <3>1. \A n \in DOMAIN Mem(p) : n \in Node /\ NodeOK(rows[r][n].blob, now)
        BY <2>1, RowHas DEF RowOK
      <3> QED BY <2>1, <3>1 DEF PutTyped, Put, PutFields
    <2>3. IsFiniteSet(set)
      <3> DEFINE f == [n \in DOMAIN Mem(p) |-> Put(n, rows[r][n].blob, Mem(p)[n], None)]
      <3>1. f \in Surjection(DOMAIN Mem(p), set)
        BY DEF Surjection
      <3> HIDE DEF f, set
      <3> QED BY <2>1, <3>1, FS_Surjection
    <2> HIDE DEF set
    <2>4. Queue(q) /\ \A i \in 1 .. Len(q) : PutTyped(q[i], now)
      BY <2>2, <2>3, SetQueued
    <2>5. q = <<>> \/ QueueTyped(q, now)
      BY <2>4 DEF QueueTyped
    <2>6. mem.left \in Seq(Tier) /\ mem.left # <<>>
      BY DEF Tiers, Tier, ToSet
    <2>7. DOMAIN mem = {"left", "puts"} /\ mem.puts = q
      OBVIOUS
    <2> HIDE DEF q, mem
    <2>8. \A s : s.at = "rotate.keys" /\ s.cmd = proc[p].cmd /\ s.mem = mem => Hand(s, now, rows')
      BY <2>1, <2>5, <2>6, <2>7 DEF Hand, Putting, SyncLabels
    <2>9. RestAt(proc[p].cmd.op, "rotate.keys") = RestAt(proc[p].cmd.op, proc[p].at)
      BY <1>1 DEF RestAt
    <2> QED BY <1>1, <1>2, <1>4, <2>8, <2>9, GotoTyped
  <1> QED BY <1>3, <1>4

LEMMA RotateKeysTyped ==
  ASSUME Typed, NEW p \in Proc, RotateKeys(p)
  PROVE  Typed'
  <1> DEFINE left == Tail(Mem(p).left)
             more == [Mem(p) EXCEPT !.left = left]
             puts == Mem(p).puts
             r == Cmd(p).r
             first == Head(Mem(p).left)
  <1>1. /\ proc[p].at = "rotate.keys" /\ UNCHANGED <<rows, edges, pending>> /\ ~At(p, "idle") /\ now' = now
        /\ tierKeys' = [tierKeys EXCEPT ![r][first] = @ + 1]
        /\ Continue(p, IF left # <<>> THEN Goto(p, "rotate.keys", more)
                       ELSE IF puts = <<>> THEN Return(p) ELSE Goto(p, "put", puts))
    BY DEF RotateKeys, At, Continue, Step
  <1>2. /\ proc[p].cmd.op = "rotate" /\ r \in Replica /\ DOMAIN Mem(p) = {"left", "puts"}
        /\ Mem(p).left \in Seq(Tier) /\ Mem(p).left # <<>>
        /\ puts = <<>> \/ QueueTyped(puts, now)
    BY <1>1, AtHand DEF Hand, Mem, Cmd
  <1>3. first \in Tier /\ left \in Seq(Tier)
    BY <1>2
  <1>4. tierKeys' \in [Replica -> [Tier -> Nat]]
    <2>1. PICK f : f = first
      OBVIOUS
    <2>2. tierKeys \in [Replica -> [Tier -> Nat]] /\ tierKeys[r][f] + 1 \in Nat
      BY <1>2, <1>3, <2>1 DEF Typed, TablesTyped
    <2>3. tierKeys' = [tierKeys EXCEPT ![r] = [tierKeys[r] EXCEPT ![f] = tierKeys[r][f] + 1]]
      BY <1>1, <1>2, <1>3, <2>1, <2>2
    <2>4. [tierKeys[r] EXCEPT ![f] = tierKeys[r][f] + 1] \in [Tier -> Nat]
      BY <1>2, <2>2
    <2> QED BY <1>2, <2>2, <2>3, <2>4
  <1>5. TablesTyped' /\ Grows(rows, rows')
    BY <1>1, <1>4 DEF Typed, TablesTyped, Grows
  <1>6. CASE left # <<>>
    <2>1. DOMAIN more = {"left", "puts"} /\ more.puts = puts /\ more.left = left
      BY <1>2
    <2> HIDE DEF more, left, puts
    <2>2. \A s : s.at = "rotate.keys" /\ s.cmd = proc[p].cmd /\ s.mem = more => Hand(s, now, rows')
      BY <1>2, <1>3, <1>6, <2>1 DEF Hand, Putting, SyncLabels
    <2>3. Continue(p, Goto(p, "rotate.keys", more))
      BY <1>1, <1>6
    <2> QED BY <1>1, <1>5, <2>2, <2>3, GotoTyped
  <1>7. CASE left = <<>> /\ puts = <<>>
    BY <1>1, <1>2, <1>5, <1>7, ReturnStepTyped
  <1>8. CASE left = <<>> /\ puts # <<>>
    <2> HIDE DEF puts, left
    <2>1. QueueTyped(puts, now)
      BY <1>2, <1>8
    <2>2. \A s : s.at = "put" /\ s.cmd = proc[p].cmd /\ s.mem = puts => Hand(s, now, rows')
      BY <1>2, <2>1 DEF Hand, Putting, SyncLabels
    <2>3. Continue(p, Goto(p, "put", puts)) /\ RestAt(proc[p].cmd.op, "put") = RestAt(proc[p].cmd.op, proc[p].at)
      BY <1>1, <1>2, <1>8 DEF RestAt, PartsOf
    <2> QED BY <1>1, <1>5, <2>2, <2>3, GotoTyped
  <1> QED BY <1>6, <1>7, <1>8
-----------------------------------------------------------------------------
(* What an import does: a row of the index is taken where it is newer or   *)
(* the table has none.                                                     *)
Taken(n, mine, theirs) == n \in DOMAIN theirs /\ (n \in DOMAIN mine => Newer(mine[n], theirs[n]))
ReceivedAs(row, theirs) ==
  /\ Bare(row) = Bare(theirs) /\ row.updated = theirs.updated /\ ~row.local
  /\ row.state = theirs.state /\ row.decided = theirs.decided
Imported(r, index, table, es) ==
  /\ rows' = [rows EXCEPT ![r] = table] /\ edges' = [edges EXCEPT ![r] = es]
  /\ DOMAIN table = DOMAIN rows[r] \cup DOMAIN index.rows
  /\ \A n \in DOMAIN table :
       IF Taken(n, rows[r], index.rows) THEN ReceivedAs(table[n], index.rows[n]) /\ RowOK(table[n], now)
       ELSE n \in DOMAIN rows[r] /\ table[n] = rows[r][n]
  /\ DOMAIN es = DOMAIN edges[r] \cup DOMAIN index.edges
  /\ TableTyped(table, now)

LEMMA ImportDoes ==
  ASSUME Typed, NEW r \in Replica, NEW index, TableTyped(index.rows, now), Import(r, index)
  PROVE  \E table, es : Imported(r, index, table, es)
  <1> DEFINE mine == rows[r]
             theirs == index.rows
             taken == {n \in DOMAIN theirs : n \in DOMAIN mine => Newer(mine[n], theirs[n])}
             row(n) == [theirs[n] EXCEPT !.local = FALSE,
                          !.created = IF n \in DOMAIN mine THEN mine[n].created ELSE @]
             table == Upsert([n \in taken |-> row(n)], mine)
             es == Upsert(edges[r], index.edges)
  <1>1. rows' = [rows EXCEPT ![r] = table] /\ edges' = [edges EXCEPT ![r] = es]
    BY DEF Import
  <1>2. DOMAIN table = taken \cup DOMAIN mine /\ \A n \in DOMAIN table : table[n] = IF n \in taken THEN row(n) ELSE mine[n]
    BY DEF Upsert
  <1>3. \A n : n \in taken <=> Taken(n, mine, theirs)
    BY DEF Taken
  <1>4. DOMAIN table = DOMAIN mine \cup DOMAIN theirs
    BY <1>2
  <1>5. ASSUME NEW n \in taken PROVE ReceivedAs(row(n), theirs[n]) /\ RowOK(row(n), now)
    <2>1. PICK x : x = theirs[n] /\ RowOK(x, now)
      BY DEF TableTyped
    <2>2. PICK at : at = IF n \in DOMAIN mine THEN mine[n].created ELSE x.created
      OBVIOUS
    <2>3. at \in 0 .. now
      <3>1. n \in DOMAIN mine => mine[n].created \in 0 .. now
        BY RowHas DEF RowOK
      <3> QED BY <2>1, <2>2, <3>1 DEF RowOK
    <2>4. row(n) = [x EXCEPT !.local = FALSE, !.created = at]
      BY <2>1, <2>2
    <2>5. PICK y : y = [x EXCEPT !.local = FALSE, !.created = at]
      OBVIOUS
    <2>6. DOMAIN y = DOMAIN x /\ \A k \in DOMAIN x : y[k] = IF k = "created" THEN at ELSE IF k = "local" THEN FALSE ELSE x[k]
      BY <2>5
    <2>7. DOMAIN x = RowFields
      BY <2>1 DEF RowOK, RowFields
    <2>8. Bare(y) = Bare(x)
      BY <2>6, <2>7 DEF Bare, RowFields
    <2>9. ReceivedAs(y, x) /\ RowOK(y, now)
      BY <2>1, <2>3, <2>6, <2>7, <2>8 DEF ReceivedAs, RowOK, RowFields
    <2> QED BY <2>1, <2>4, <2>5, <2>9
  <1> HIDE DEF table, taken, row, es
  <1>6. \A n \in DOMAIN table :
          IF Taken(n, mine, theirs) THEN ReceivedAs(table[n], theirs[n]) /\ RowOK(table[n], now)
          ELSE n \in DOMAIN mine /\ table[n] = mine[n]
    BY <1>2, <1>3, <1>5
  <1>7. DOMAIN es = DOMAIN edges[r] \cup DOMAIN index.edges
    BY DEF es, Upsert
  <1>8. TableTyped(table, now)
    <2>1. TableTyped(mine, now)
      BY DEF Typed, TablesTyped
    <2>2. IsFiniteSet(DOMAIN mine \cup DOMAIN theirs)
      BY <2>1, FS_Union DEF TableTyped
    <2> QED BY <1>4, <1>6, <2>1, <2>2 DEF TableTyped
  <1>9. Imported(r, index, table, es)
    BY <1>1, <1>4, <1>6, <1>7, <1>8 DEF Imported
  <1> QED BY <1>9

LEMMA ImportTyped ==
  ASSUME Typed, NEW r \in Replica, NEW index, IndexTyped(index, now, Anywhere(rows)), Import(r, index),
         UNCHANGED <<tierKeys, pending, now>>
  PROVE  TablesTyped' /\ Grows(rows, rows')
  <1>1. PICK table, es : Imported(r, index, table, es)
    BY ImportDoes DEF IndexTyped
  <1>2. Grows(rows, rows')
    BY <1>1 DEF Imported, Grows, Typed, TablesTyped
  <1>3. PICK nodes : nodes = Anywhere(rows')
    OBVIOUS
  <1>4. \A x \in Replica : Ends(edges[x], nodes)
    BY <1>2, <1>3, EndsKept
  <1>5. Ends(index.edges, nodes)
    BY <1>2, <1>3, AnywhereGrows DEF IndexTyped
  <1>6. Ends(es, nodes)
    BY <1>1, <1>4, <1>5 DEF Imported, Ends
  <1>7. DOMAIN edges' = Replica /\ edges'[r] = es /\ \A x \in Replica \ {r} : edges'[x] = edges[x]
    BY <1>1 DEF Imported, Typed, TablesTyped
  <1>8. \A x \in Replica : Ends(edges'[x], nodes)
    BY <1>4, <1>6, <1>7
  <1> QED BY <1>1, <1>3, <1>7, <1>8, TablesReplaced DEF Imported

LEMMA SyncTyped ==
  ASSUME Typed, NEW p \in Proc,
         \/ SyncEdges(p) \/ SyncPush(p) \/ SyncAnswer(p) \/ SyncAnswerEdges(p) \/ SyncPull(p)
  PROVE  Typed'
  <1> DEFINE nodes == Anywhere(rows)
  <1>1. proc[p].at \in SyncLabels /\ ~At(p, "idle")
    BY DEF SyncEdges, SyncPush, SyncAnswer, SyncAnswerEdges, SyncPull, At, SyncLabels
  <1>2. /\ proc[p].cmd.op = "sync" /\ Cmd(p).r \in Replica /\ Cmd(p).s \in Replica
        /\ Hand(proc[p], now, rows)
    BY <1>1, AtHand DEF Hand, Named, Cmd
  <1>3. \A label \in SyncLabels : RestAt(proc[p].cmd.op, label) = RestAt(proc[p].cmd.op, proc[p].at)
    BY <1>1 DEF RestAt, SyncLabels
  <1>4. \A r \in Replica : TableTyped(rows[r], now) /\ Ends(edges[r], nodes)
    BY DEF Typed, TablesTyped
  <1>5. UNCHANGED graphVars /\ now' = now => rows' = rows /\ TablesTyped' /\ Grows(rows, rows')
    BY TablesSame DEF graphVars, Typed
  <1>6. CASE SyncEdges(p)
    <2> DEFINE mem == [rows |-> Mem(p), edges |-> edges[Cmd(p).r]]
    <2>1. proc[p].at = "sync.edges" /\ UNCHANGED graphVars /\ now' = now /\ Continue(p, Goto(p, "sync.push", mem))
      BY <1>6 DEF SyncEdges, At, Continue, Step
    <2>2. TableTyped(Mem(p), now)
      BY <1>2, <2>1 DEF Hand, Mem
    <2>3. IndexTyped(mem, now, nodes)
      BY <1>2, <1>4, <2>2 DEF IndexTyped
    <2> HIDE DEF mem
    <2>4. \A s : s.at = "sync.push" /\ s.cmd = proc[p].cmd /\ s.mem = mem => Hand(s, now, rows)
      BY <1>2, <2>3 DEF Hand, Putting, SyncLabels
    <2>5. "sync.push" \in SyncLabels
      BY DEF SyncLabels
    <2> QED BY <1>1, <1>3, <1>5, <2>1, <2>4, <2>5, GotoTyped
  <1>7. CASE SyncPush(p)
    <2>0. PICK mem : mem = Mem(p)
      OBVIOUS
    <2>1. /\ proc[p].at = "sync.push" /\ Import(Cmd(p).s, mem) /\ UNCHANGED <<tierKeys, pending, now>>
          /\ Continue(p, Goto(p, "sync.answer", mem))
      BY <1>7, <2>0 DEF SyncPush, At, Continue, Step
    <2>2. IndexTyped(mem, now, nodes)
      BY <1>2, <2>0, <2>1 DEF Hand, Mem
    <2>3. TablesTyped' /\ Grows(rows, rows')
      BY <1>2, <2>1, <2>2, ImportTyped
    <2>4. PICK later : later = Anywhere(rows')
      OBVIOUS
    <2>5. IndexTyped(mem, now, later)
      BY <2>2, <2>3, <2>4, AnywhereGrows DEF IndexTyped
    <2>6. \A s : s.at = "sync.answer" /\ s.cmd = proc[p].cmd /\ s.mem = mem => Hand(s, now, rows')
      BY <1>2, <2>4, <2>5 DEF Hand, Putting, SyncLabels
    <2>7. "sync.answer" \in SyncLabels
      BY DEF SyncLabels
    <2> QED BY <1>1, <1>3, <2>1, <2>3, <2>6, <2>7, GotoTyped
  <1>8. CASE SyncAnswer(p)
    <2> DEFINE mem == [sent |-> Mem(p), rows |-> rows[Cmd(p).s]]
    <2>1. proc[p].at = "sync.answer" /\ UNCHANGED graphVars /\ now' = now /\ Continue(p, Goto(p, "sync.answer.edges", mem))
      BY <1>8 DEF SyncAnswer, At, Continue, Step
    <2>2. IndexTyped(mem.sent, now, nodes) /\ TableTyped(mem.rows, now)
      BY <1>2, <1>4, <2>1 DEF Hand, Mem
    <2> HIDE DEF mem
    <2>3. \A s : s.at = "sync.answer.edges" /\ s.cmd = proc[p].cmd /\ s.mem = mem => Hand(s, now, rows)
      BY <1>2, <2>2 DEF Hand, Putting, SyncLabels
    <2>4. "sync.answer.edges" \in SyncLabels
      BY DEF SyncLabels
    <2> QED BY <1>1, <1>3, <1>5, <2>1, <2>3, <2>4, GotoTyped
  <1>9. CASE SyncAnswerEdges(p)
    <2> DEFINE got == [rows |-> Mem(p).rows, edges |-> edges[Cmd(p).s]]
               mem == [sent |-> Mem(p).sent, got |-> got]
    <2>1. proc[p].at = "sync.answer.edges" /\ UNCHANGED graphVars /\ now' = now /\ Continue(p, Goto(p, "sync.pull", mem))
      BY <1>9 DEF SyncAnswerEdges, At, Continue, Step
    <2>2. IndexTyped(Mem(p).sent, now, nodes) /\ TableTyped(Mem(p).rows, now)
      BY <1>2, <2>1 DEF Hand, Mem
    <2>3. IndexTyped(got, now, nodes)
      BY <1>2, <1>4, <2>2 DEF IndexTyped
    <2> HIDE DEF got
    <2>4. IndexTyped(mem.sent, now, nodes) /\ IndexTyped(mem.got, now, nodes)
      BY <2>2, <2>3
    <2> HIDE DEF mem
    <2>5. \A s : s.at = "sync.pull" /\ s.cmd = proc[p].cmd /\ s.mem = mem => Hand(s, now, rows)
      BY <1>2, <2>4 DEF Hand, Putting, SyncLabels
    <2>6. "sync.pull" \in SyncLabels
      BY DEF SyncLabels
    <2>7. Continue(p, Goto(p, "sync.pull", mem))
      BY <2>1 DEF mem, got
    <2> QED BY <1>1, <1>3, <1>5, <2>1, <2>5, <2>6, <2>7, GotoTyped
  <1>10. CASE SyncPull(p)
    <2>0. PICK got : got = Mem(p).got
      OBVIOUS
    <2>1. /\ proc[p].at = "sync.pull" /\ Import(Cmd(p).r, got) /\ UNCHANGED <<tierKeys, pending, now>>
          /\ Continue(p, Return(p))
      BY <1>10, <2>0 DEF SyncPull, At, Continue, Step
    <2>2. IndexTyped(got, now, nodes)
      BY <1>2, <2>0, <2>1 DEF Hand, Mem
    <2>3. TablesTyped' /\ Grows(rows, rows')
      BY <1>2, <2>1, <2>2, ImportTyped
    <2> QED BY <1>1, <1>2, <2>1, <2>3, ReturnStepTyped
  <1> QED BY <1>6, <1>7, <1>8, <1>9, <1>10

LEMMA TypedInit == Init => Typed
  <1> SUFFICES ASSUME Init PROVE Typed
    OBVIOUS
  <1>1. PICK s \in Scenarios : todo = s.todo /\ rows = s.rows /\ writes = s.writes
    BY DEF Init
  <1>2. GraphOK(rows, writes) /\ \A c \in todo : Named(c)
    BY <1>1, ScenariosAssumption
  <1>3. /\ now = 1 /\ now \in 1 .. MaxNow /\ deaths \in 0 .. MaxDeaths
        /\ DOMAIN edges = Replica /\ DOMAIN pending = Replica /\ tierKeys \in [Replica -> [Tier -> Nat]]
        /\ DOMAIN proc = Proc /\ \A p \in Proc : proc[p] = Idle
        /\ \A r \in Replica : pending[r] = {} /\ edges[r] = <<>>
    BY CommandsAssumption DEF Init
  <1>4. \A r \in Replica : TableTyped(rows[r], now)
    BY <1>2, <1>3 DEF GraphOK, TableTyped
  <1>5. \A r \in Replica : Ends(edges[r], Anywhere(rows))
    BY <1>3 DEF Ends
  <1>6. DOMAIN rows = Replica
    BY <1>2 DEF GraphOK
  <1>7. TablesTyped
    BY <1>3, <1>4, <1>5, <1>6 DEF TablesTyped
  <1> QED BY <1>2, <1>3, <1>7, IdleTyped DEF Typed

LEMMA TypedNext == Typed /\ [Next]_vars => Typed'
  <1> SUFFICES ASSUME Typed, [Next]_vars PROVE Typed'
    OBVIOUS
  <1>1. CASE UNCHANGED vars
    BY <1>1, OnlyTyped DEF vars, cmdVars
  <1>2. CASE Commanded
    BY <1>2, CommandedTyped
  <1>3. CASE Tick /\ UNCHANGED <<graphVars, history>>
    BY <1>3, TickTyped
  <1>4. CASE Stepped
    <2>1. ASSUME NEW p \in Proc, Die(p), UNCHANGED <<graphVars, history>> PROVE Typed'
      BY <2>1, DieTyped
    <2> QED BY <1>4, <2>1, PutSealTyped, PutRowTyped, SetStateTyped, ProposalTyped, RotateReadTyped,
              RotateKeysTyped, SyncTyped, LinkTyped DEF Stepped
  <1> QED BY <1>1, <1>2, <1>3, <1>4 DEF Next
-----------------------------------------------------------------------------
(* Sealing: in a replica where no rotation met another writer, what the    *)
(* commands there stored can be opened with the keys as they are, or, while*)
(* a rotation has changed them, is in its queue.                           *)
Fine(r, keys, row) == row.local => row.tier = "public" \/ row.blob.key = <<r, row.tier, keys[row.tier]>>
AllFine(r, keys, table) == \A n \in DOMAIN table : Fine(r, keys, table[n])
Queued(q, n) == \E i \in 1 .. Len(q) : q[i].n = n
Rot(s, r) == s.cmd.op = "rotate" /\ s.cmd.r = r /\ s.at # "rotate.read"

SealHand(s, r, keys, table) ==
  s.at # "idle" /\ s.cmd.r = r =>
    /\ s.at = "put.row" => LET node == s.mem[1].node IN node.key = <<r, node.tier, keys[node.tier]>>
    /\ s.at = "rotate.read" => DOMAIN s.mem = DOMAIN table
    /\ s.at = "rotate.keys" => \A n \in DOMAIN table : Queued(s.mem.puts, n)
    /\ Putting(s) /\ s.cmd.op = "rotate" => \A n \in DOMAIN table : Fine(r, keys, table[n]) \/ Queued(s.mem, n)

Sealed(r) ==
  /\ \A p \in Proc : SealHand(proc[p], r, tierKeys[r], rows[r])
  /\ (\A p \in Proc : ~Rot(proc[p], r)) => AllFine(r, tierKeys[r], rows[r])

SealInv == \A r \in Replica \ shaken : Sealed(r)

(* In an undisturbed replica nobody writes while a rotation runs, and no   *)
(* rotation dies in it.                                                    *)
LEMMA Undisturbing ==
  ASSUME Watch, NEW r \in Replica \ shaken', NEW q \in Proc, proc[q].cmd.op = "rotate", proc[q].cmd.r = r
  PROVE  /\ \A p \in Proc \ {q} : ~Writing(p, r)
         /\ proc[q].at \in {"rotate.keys", "put", "put.row"} /\ deaths' # deaths => proc'[q] # Idle
  BY DEF Watch, Cmd

LEMMA SealStep ==
  ASSUME Typed, Watch, NEW r \in Replica \ shaken', Sealed(r), NEW p \in Proc, NEW s, proc' = [proc EXCEPT ![p] = s],
         NEW k, NEW t, k = tierKeys'[r], t = rows'[r],
         t = rows[r] \/ Writing(p, r), k = tierKeys[r] \/ Rot(proc[p], r),
         SealHand(s, r, k, t),
         ~Rot(s, r) /\ (Rot(proc[p], r) \/ AllFine(r, tierKeys[r], rows[r])) => AllFine(r, k, t)
  PROVE  Sealed(r)'
  <1>1. DOMAIN proc = Proc /\ proc'[p] = s /\ \A q \in Proc \ {p} : proc'[q] = proc[q]
    BY DEF Typed
  <1>2. ASSUME NEW q \in Proc \ {p} PROVE SealHand(proc[q], r, k, t)
    <2>1. SealHand(proc[q], r, tierKeys[r], rows[r])
      BY DEF Sealed
    <2>2. CASE proc[q].at = "idle" \/ proc[q].cmd.r # r
      BY <2>2 DEF SealHand
    <2>3. CASE proc[q].at # "idle" /\ proc[q].cmd.r = r /\ proc[q].cmd.op = "rotate"
      <3>1. t = rows[r]
        BY <2>3, Undisturbing
      <3>2. Putting(proc[q]) => k = tierKeys[r]
        <4>1. Putting(proc[q]) => Writing(q, r)
          BY <2>3 DEF Putting, Writing, Cmd
        <4>2. Rot(proc[p], r) => ~Writing(q, r)
          BY Undisturbing DEF Rot
        <4> QED BY <4>1, <4>2
      <3>3. proc[q].at = "put.row" => Putting(proc[q])
        BY DEF Putting
      <3> QED BY <2>1, <2>3, <3>1, <3>2, <3>3 DEF SealHand
    <2>4. CASE proc[q].at # "idle" /\ proc[q].cmd.r = r /\ proc[q].cmd.op # "rotate"
      <3>1. Hand(proc[q], now, rows)
        BY <2>4, AtHand DEF At
      <3>2. proc[q].at \notin {"rotate.read", "rotate.keys"}
        BY <2>4, <3>1 DEF Hand
      <3>3. proc[q].at = "put.row" => k = tierKeys[r]
        <4>1. proc[q].at = "put.row" => Writing(q, r)
          BY <2>4 DEF Writing, Cmd
        <4>2. Rot(proc[p], r) => ~Writing(q, r)
          BY Undisturbing DEF Rot
        <4> QED BY <4>1, <4>2
      <3> QED BY <2>1, <2>4, <3>2, <3>3 DEF SealHand
    <2> QED BY <2>2, <2>3, <2>4
  <1>3. ASSUME \A q \in Proc : ~Rot(proc'[q], r) PROVE AllFine(r, k, t)
    <2>1. ~Rot(s, r) /\ \A q \in Proc \ {p} : ~Rot(proc[q], r)
      BY <1>1, <1>3
    <2>2. Rot(proc[p], r) \/ AllFine(r, tierKeys[r], rows[r])
      BY <2>1 DEF Sealed
    <2> QED BY <2>1, <2>2
  <1> QED BY <1>1, <1>2, <1>3 DEF Sealed

(* A step that leaves keys and rows alone.                                 *)
LEMMA SealQuiet ==
  ASSUME Typed, Watch, NEW r \in Replica \ shaken', Sealed(r), NEW p \in Proc, NEW s, proc' = [proc EXCEPT ![p] = s],
         tierKeys' = tierKeys, rows' = rows, SealHand(s, r, tierKeys[r], rows[r]), Rot(proc[p], r) => Rot(s, r)
  PROVE  Sealed(r)'
  <1>1. PICK k, t : k = tierKeys[r] /\ t = rows[r]
    OBVIOUS
  <1>2. SealHand(s, r, k, t)
    BY <1>1
  <1>3. ~Rot(s, r) /\ (Rot(proc[p], r) \/ AllFine(r, tierKeys[r], rows[r])) => AllFine(r, k, t)
    BY <1>1
  <1> QED BY <1>1, <1>2, <1>3, SealStep

LEMMA SealSame ==
  ASSUME NEW r, Sealed(r), UNCHANGED <<proc, rows, tierKeys>>
  PROVE  Sealed(r)'
  BY DEF Sealed

(* A command that is over, or goes on with its proposal.                   *)
LEMMA ReturnWhere ==
  ASSUME NEW p, NEW t, NEW a, HandTyped(proc[p], t, a), ~At(p, "idle")
  PROVE  /\ \A r, k, table : SealHand(Return(p), r, k, table) /\ ~Rot(Return(p), r)
         /\ Return(p).at \in {"idle", "pending", "log", "clear"}
  <1>1. \/ Return(p) = Idle
        \/ Return(p).at \in {"pending", "log", "clear"} /\ Return(p).cmd.op # "rotate"
    <2>1. proc[p].rest = RestAt(proc[p].cmd.op, proc[p].at) /\ DOMAIN proc[p] = ProcFields
      BY DEF HandTyped, At
    <2>2. CASE proc[p].rest = <<>>
      BY <2>2 DEF Return
    <2>3. CASE proc[p].rest # <<>>
      <3>1. /\ proc[p].rest \in {<<"pending", "log">>, <<"pending">>, <<"clear">>, <<"log">>}
            /\ proc[p].cmd.op # "rotate"
        BY <2>1, <2>3 DEF RestAt, PartsOf
      <3>2. Head(proc[p].rest) \in {"pending", "clear", "log"}
        <4>1. \A x : Head(<<x>>) = x
          OBVIOUS
        <4>2. Head(<<"pending", "log">>) = "pending"
          OBVIOUS
        <4> QED BY <3>1, <4>1, <4>2
      <3>3. Return(p).at = Head(proc[p].rest) /\ Return(p).cmd = proc[p].cmd
        BY <2>1, <2>3 DEF Return, ProcFields
      <3> QED BY <3>1, <3>2, <3>3
    <2> QED BY <2>2, <2>3
  <1>2. Idle.at = "idle" /\ Idle.cmd.op # "rotate"
    BY DEF Idle, NoCmd, None
  <1> QED BY <1>1, <1>2 DEF SealHand, Rot, Putting

LEMMA SealBegin ==
  ASSUME Typed, Watch, NEW r \in Replica \ shaken', Sealed(r), UNCHANGED graphVars, NEW p \in Proc, NEW c, NEW label,
         NEW on, NEW mem, NEW rest, Begin(p, c, label, on, mem, rest),
         \/ label = "rotate.read" /\ c.op = "rotate" /\ (c.r = r => DOMAIN mem = DOMAIN rows[r])
         \/ label = "put" /\ c.op # "rotate"
         \/ label \in {"state", "sync.edges"}
  PROVE  Sealed(r)'
  <1> DEFINE s == [Idle EXCEPT !.at = label, !.cmd = c, !.on = on, !.mem = mem, !.rest = rest]
  <1>1. proc' = [proc EXCEPT ![p] = s] /\ proc[p].at = "idle"
    BY DEF Begin, Step, At
  <1>2. s.at = label /\ s.cmd = c /\ s.mem = mem
    BY BeginFields
  <1> HIDE DEF s
  <1>3. SealHand(s, r, tierKeys[r], rows[r])
    BY <1>2 DEF SealHand, Putting
  <1>4. ~Rot(proc[p], r)
    BY <1>1 DEF Typed, HandTyped, Rot, NoCmd, None
  <1> QED BY <1>1, <1>3, <1>4, SealQuiet DEF graphVars

LEMMA CommandedSealed ==
  ASSUME Typed, Watch, NEW r \in Replica \ shaken', Sealed(r), Commanded
  PROVE  Sealed(r)'
  <1>1. PICK p \in Proc, c \in todo :
          /\ \/ Add(p, c) \/ Propose(p, c) \/ Infer(p, c) \/ Accept(p, c) \/ Reject(p, c)
             \/ Rotate(p, c) \/ Sync(p, c)
          /\ UNCHANGED <<graphVars, history>>
    BY DEF Commanded
  <1>2. UNCHANGED graphVars
    BY <1>1
  <1>3. ASSUME Only(p, c) PROVE Sealed(r)'
    BY <1>2, <1>3, SealSame DEF Only, graphVars
  <1>4. ASSUME c.op # "rotate", NEW on, NEW mem, NEW rest, NEW label \in {"put", "state", "sync.edges"},
               Begin(p, c, label, on, mem, rest)
        PROVE  Sealed(r)'
    BY <1>2, <1>4, SealBegin
  <1>5. CASE Add(p, c)
    BY <1>4, <1>5 DEF Add
  <1>6. CASE Propose(p, c)
    BY <1>4, <1>6 DEF Propose
  <1>7. CASE Infer(p, c)
    BY <1>3, <1>4, <1>7 DEF Infer
  <1>8. CASE Accept(p, c)
    BY <1>3, <1>4, <1>8 DEF Accept
  <1>9. CASE Reject(p, c)
    BY <1>3, <1>4, <1>9 DEF Reject
  <1>10. CASE Rotate(p, c)
    <2>1. DOMAIN Listed(c.r) = DOMAIN rows[c.r]
      BY DEF Listed
    <2> QED BY <1>2, <1>10, <2>1, SealBegin DEF Rotate
  <1>11. CASE Sync(p, c)
    BY <1>4, <1>11 DEF Sync
  <1> QED BY <1>1, <1>5, <1>6, <1>7, <1>8, <1>9, <1>10, <1>11
-----------------------------------------------------------------------------
LEMMA ReturnSealed ==
  ASSUME Typed, Watch, NEW r \in Replica \ shaken', Sealed(r), NEW p \in Proc, ~At(p, "idle"),
         proc' = [proc EXCEPT ![p] = Return(p)], tierKeys' = tierKeys, rows' = rows, ~Rot(proc[p], r)
  PROVE  Sealed(r)'
  <1>1. SealHand(Return(p), r, tierKeys[r], rows[r])
    <2>1. HandTyped(proc[p], now, rows)
      BY AtHand
    <2>2. PICK k, t : k = tierKeys[r] /\ t = rows[r]
      OBVIOUS
    <2>3. SealHand(Return(p), r, k, t)
      BY <2>1, ReturnWhere
    <2> QED BY <2>2, <2>3
  <1> QED BY <1>1, SealQuiet

LEMMA ProposalSealed ==
  ASSUME Typed, Watch, NEW r \in Replica \ shaken', Sealed(r), NEW p \in Proc,
         WriteProposal(p) \/ ClearProposal(p) \/ LogAccess(p)
  PROVE  Sealed(r)'
  <1>1. /\ proc' = [proc EXCEPT ![p] = Return(p)] /\ ~At(p, "idle") /\ UNCHANGED <<rows, tierKeys>>
        /\ proc[p].at \in {"pending", "clear", "log"}
    BY DEF WriteProposal, ClearProposal, LogAccess, At, Continue, Step
  <1>2. proc[p].cmd.op # "rotate"
    BY <1>1, AtHand DEF Hand
  <1> QED BY <1>1, <1>2, ReturnSealed DEF Rot

LEMMA PutSealSealed ==
  ASSUME Typed, Watch, NEW r \in Replica \ shaken', Sealed(r), NEW p \in Proc, PutSeal(p)
  PROVE  Sealed(r)'
  <1>0. PICK q : q = Mem(p) OBVIOUS
  <1>1. PICK x : x = [Head(q) EXCEPT !.node = Seal(Cmd(p).r, @)]
    OBVIOUS
  <1>2. PICK z : z = <<x>> \o Tail(q)
    OBVIOUS
  <1>3. /\ proc[p].at = "put" /\ ~At(p, "idle") /\ UNCHANGED <<rows, tierKeys>>
        /\ proc' = [proc EXCEPT ![p] = Goto(p, "put.row", z)]
    BY <1>0, <1>1, <1>2 DEF PutSeal, At, Continue, Step, graphVars
  <1>4. /\ QueueTyped(q, now) /\ DOMAIN proc[p] = ProcFields
    BY <1>0, <1>3, AtHand DEF Hand, Putting, Mem
  <1>5. Queue(q) /\ q # <<>> /\ Head(q) = q[1] /\ 1 \in 1 .. Len(q)
    BY <1>4, QueueParts DEF QueueTyped
  <1>6. z[1] = x /\ Len(z) = Len(q) /\ \A i \in 1 .. Len(q) : z[i] = IF i = 1 THEN x ELSE q[i]
    BY <1>2, <1>5, HeadReplaced
  <1>7. /\ x.n = q[1].n /\ x.node.tier = q[1].node.tier
        /\ proc[p].cmd.r = r => x.node.key = <<r, x.node.tier, tierKeys[r][x.node.tier]>>
    <2>1. PutTyped(Head(q), now)
      BY <1>4, <1>5 DEF QueueTyped
    <2>2. PICK node : node = Head(q).node /\ NodeOK(node, now)
      BY <2>1 DEF PutTyped
    <2>3. x.n = Head(q).n /\ x.node = Seal(Cmd(p).r, node)
      BY <1>1, <2>1, <2>2 DEF PutTyped, PutFields
    <2>4. /\ x.node.tier = node.tier
          /\ x.node.key = <<Cmd(p).r, node.tier, tierKeys[Cmd(p).r][node.tier]>>
      BY <2>2, <2>3 DEF Seal, NodeOK
    <2> QED BY <1>5, <2>2, <2>3, <2>4 DEF Cmd
  <1>8. \A n : Queued(q, n) => Queued(z, n)
    BY <1>6, <1>7 DEF Queued
  <1>9. PICK s : s = Goto(p, "put.row", z)
    OBVIOUS
  <1>10. s.at = "put.row" /\ s.cmd = proc[p].cmd /\ s.mem = z
    BY <1>4, <1>9, GotoFields
  <1>11. PICK k, t : k = tierKeys[r] /\ t = rows[r]
    OBVIOUS
  <1>12. SealHand(s, r, k, t)
    <2>1. SealHand(proc[p], r, k, t)
      BY <1>11 DEF Sealed
    <2>2. s.cmd.r = r /\ s.cmd.op = "rotate" => \A n \in DOMAIN t : Fine(r, k, t[n]) \/ Queued(q, n)
      BY <1>0, <1>3, <1>10, <2>1 DEF SealHand, Putting, Mem
    <2>3. s.cmd.r = r => z[1].node.key = <<r, z[1].node.tier, k[z[1].node.tier]>>
      BY <1>6, <1>7, <1>10, <1>11
    <2> QED BY <1>8, <1>10, <2>2, <2>3 DEF SealHand
  <1>13. Rot(proc[p], r) => Rot(s, r)
    BY <1>10 DEF Rot
  <1>14. SealHand(s, r, tierKeys[r], rows[r])
    BY <1>11, <1>12
  <1>15. proc' = [proc EXCEPT ![p] = s]
    BY <1>3, <1>9
  <1> QED BY <1>3, <1>13, <1>14, <1>15, SealQuiet

LEMMA PutRowSealed ==
  ASSUME Typed, Watch, NEW r \in Replica \ shaken', Sealed(r), NEW p \in Proc, PutRow(p)
  PROVE  Sealed(r)'
  <1>0. PICK a \in Replica : \E q, put, row, table : RowPut(p, a, q, put, row, table)
    BY PutRowDoes
  <1>1. PICK q, put, row, table : RowPut(p, a, q, put, row, table)
    BY <1>0
  <1>2. PICK s : s = IF Len(q) = 1 THEN Return(p) ELSE Goto(p, "put", Tail(q))
    OBVIOUS
  <1>3. /\ proc' = [proc EXCEPT ![p] = s] /\ tierKeys' = tierKeys /\ ~At(p, "idle") /\ proc[p].at = "put.row"
        /\ a = proc[p].cmd.r /\ q = proc[p].mem
    BY <1>1, <1>2 DEF RowPut, Continue, Step, At
  <1>4. PICK k, t, u : k = tierKeys[r] /\ t = rows[r] /\ u = rows'[r]
    OBVIOUS
  <1>5. Queue(q) /\ q # <<>> /\ Len(q) \in Nat \ {0} /\ put = q[1]
    BY <1>1, QueueParts DEF RowPut
  <1>6. DOMAIN proc[p] = ProcFields /\ HandTyped(proc[p], now, rows)
    BY <1>3, AtHand
  <1>7. Len(q) # 1 => s.at = "put" /\ s.cmd = proc[p].cmd /\ s.mem = Tail(q)
    <2>1. PICK tail, g : tail = Tail(q) /\ g = Goto(p, "put", tail)
      OBVIOUS
    <2>2. g.at = "put" /\ g.cmd = proc[p].cmd /\ g.mem = tail
      BY <1>6, <2>1 DEF Goto, ProcFields
    <2> QED BY <1>2, <2>1, <2>2
  <1>8. Len(q) = 1 => SealHand(s, r, k, u) /\ ~Rot(s, r)
    BY <1>2, <1>3, <1>6, ReturnWhere
  <1>9. CASE a # r
    <2>1. u = t
      BY <1>1, <1>4, <1>9 DEF RowPut, Typed, TablesTyped
    <2>2. ~Rot(proc[p], r)
      BY <1>3, <1>9 DEF Rot
    <2>3. Len(q) # 1 => SealHand(s, r, k, u) /\ ~Rot(s, r)
      BY <1>3, <1>7, <1>9 DEF SealHand, Rot
    <2>4. SealHand(s, r, tierKeys[r], rows[r]) /\ rows'[r] = rows[r]
      BY <1>4, <1>8, <2>1, <2>3
    <2> QED BY <1>3, <1>4, <1>8, <2>1, <2>2, <2>3, <2>4, SealStep
  <1>10. CASE a = r
    <2>1. u = table
      BY <1>1, <1>4, <1>10 DEF RowPut, Typed, TablesTyped
    <2>2. SealHand(proc[p], r, k, t)
      BY <1>4 DEF Sealed
    <2>3. Fine(r, k, table[put.n])
      <3>1. q[1].node.key = <<r, q[1].node.tier, k[q[1].node.tier]>>
        BY <1>3, <1>10, <2>2 DEF SealHand
      <3>2. table[put.n].blob = put.node /\ table[put.n].tier = put.node.tier
        <4>1. table[put.n] = PutRowOf(put, rows[a])
          BY <1>1 DEF RowPut
        <4>2. \A b : PutRowOf(put, b).blob = put.node /\ PutRowOf(put, b).tier = put.node.tier
          BY DEF PutRowOf
        <4> QED BY <4>1, <4>2
      <3> QED BY <1>5, <3>1, <3>2 DEF Fine
    <2>4. \A n \in DOMAIN table : n = put.n \/ (n \in DOMAIN t /\ table[n] = t[n])
      BY <1>1, <1>4, <1>10 DEF RowPut
    <2>5. \A n : Queued(q, n) /\ n # put.n => Len(q) # 1 /\ Queued(Tail(q), n)
      <3> SUFFICES ASSUME NEW n, NEW i \in 1 .. Len(q), q[i].n = n, n # put.n
                   PROVE  Len(q) # 1 /\ Queued(Tail(q), n)
        BY DEF Queued
      <3>1. i # 1 /\ Len(q) # 1 /\ i - 1 \in 1 .. Len(q) - 1 /\ (i - 1) + 1 = i
        BY <1>5
      <3>2. Len(Tail(q)) = Len(q) - 1 /\ Tail(q)[i - 1] = q[(i - 1) + 1]
        BY <1>5, <3>1, QueueParts
      <3> QED BY <3>1, <3>2 DEF Queued
    <2>6. AllFine(r, k, t) => AllFine(r, k, u)
      BY <2>1, <2>3, <2>4 DEF AllFine
    <2>7. CASE Rot(proc[p], r)
      <3>1. \A n \in DOMAIN t : Fine(r, k, t[n]) \/ Queued(q, n)
        BY <1>3, <1>10, <2>2, <2>7 DEF SealHand, Putting, Rot
      <3>2. \A n \in DOMAIN u : Fine(r, k, u[n]) \/ (Len(q) # 1 /\ Queued(Tail(q), n))
        BY <2>1, <2>3, <2>4, <2>5, <3>1
      <3>3. Len(q) # 1 => SealHand(s, r, k, u)
        BY <1>7, <3>2 DEF SealHand
      <3>4. Len(q) # 1 => Rot(s, r)
        BY <1>7, <2>7 DEF Rot
      <3>5. Len(q) = 1 => AllFine(r, k, u)
        BY <3>2 DEF AllFine
      <3>6. SealHand(s, r, k, u)
        BY <1>8, <3>3
      <3>7. ~Rot(s, r) => AllFine(r, k, u)
        BY <3>4, <3>5
      <3>8. Writing(p, r)
        BY <1>3, <1>10 DEF Writing, Cmd
      <3>9. k = tierKeys'[r] /\ u = rows'[r] /\ k = tierKeys[r]
        BY <1>3, <1>4
      <3> HIDE DEF AllFine, SealHand, Rot, Writing
      <3> QED BY <1>3, <3>6, <3>7, <3>8, <3>9, SealStep
    <2>8. CASE ~Rot(proc[p], r)
      <3>1. proc[p].cmd.op # "rotate"
        BY <1>3, <1>10, <2>8 DEF Rot
      <3>2. Len(q) # 1 => SealHand(s, r, k, u)
        BY <1>7, <3>1 DEF SealHand
      <3>3. SealHand(s, r, k, u)
        BY <1>8, <3>2
      <3>4. ~Rot(s, r) /\ (Rot(proc[p], r) \/ AllFine(r, tierKeys[r], rows[r])) => AllFine(r, k, u)
        BY <1>4, <2>6, <2>8
      <3>5. Writing(p, r)
        BY <1>3, <1>10 DEF Writing, Cmd
      <3>6. k = tierKeys'[r] /\ u = rows'[r] /\ k = tierKeys[r]
        BY <1>3, <1>4
      <3> QED BY <1>3, <3>3, <3>4, <3>5, <3>6, SealStep
    <2> QED BY <2>7, <2>8
  <1> QED BY <1>9, <1>10

LEMMA SetStateSealed ==
  ASSUME Typed, Watch, NEW r \in Replica \ shaken', Sealed(r), NEW p \in Proc, SetState(p)
  PROVE  Sealed(r)'
  <1> DEFINE a == Cmd(p).r
             n == Cmd(p).n
             row == [rows[a][n] EXCEPT !.state = Mem(p), !.updated = now, !.decided = Mem(p)]
  <1>1. /\ proc[p].at = "state" /\ ~At(p, "idle") /\ rows' = [rows EXCEPT ![a] = [@ EXCEPT ![n] = row]]
        /\ proc' = [proc EXCEPT ![p] = Return(p)] /\ tierKeys' = tierKeys
    BY DEF SetState, At, Continue, Step
  <1>2. /\ proc[p].cmd.op \in {"accept", "reject"} /\ a \in Replica /\ n \in DOMAIN rows[a]
        /\ HandTyped(proc[p], now, rows)
    BY <1>1, AtHand DEF Hand, Mem, Cmd
  <1>3. row.tier = rows[a][n].tier /\ row.blob = rows[a][n].blob /\ row.local = rows[a][n].local
    <2>1. DOMAIN rows[a][n] = RowFields
      BY <1>2, RowHas DEF RowOK, RowFields
    <2> QED BY <2>1 DEF RowFields
  <1> HIDE DEF row
  <1>4. PICK k, t, u : k = tierKeys[r] /\ t = rows[r] /\ u = rows'[r]
    OBVIOUS
  <1>5. AllFine(r, k, t) => AllFine(r, k, u)
    <2>1. a # r => u = t
      BY <1>1, <1>4 DEF Typed, TablesTyped
    <2>2. a = r => u = [t EXCEPT ![n] = row]
      BY <1>1, <1>2, <1>4 DEF Typed, TablesTyped
    <2>3. a = r => DOMAIN u = DOMAIN t /\ \A m \in DOMAIN t : u[m] = IF m = n THEN row ELSE t[m]
      BY <2>2
    <2>4. a = r => \A m \in DOMAIN t : u[m].tier = t[m].tier /\ u[m].blob = t[m].blob /\ u[m].local = t[m].local
      BY <1>3, <1>4, <2>3
    <2> QED BY <2>1, <2>3, <2>4 DEF AllFine, Fine
  <1>6. SealHand(Return(p), r, k, u) /\ ~Rot(Return(p), r)
    BY <1>1, <1>2, ReturnWhere
  <1>7. ~Rot(proc[p], r)
    BY <1>2 DEF Rot
  <1>8. u = rows[r] \/ Writing(p, r)
    <2>1. a # r => u = rows[r]
      BY <1>1, <1>4 DEF Typed, TablesTyped
    <2>2. a = r => Writing(p, r)
      BY <1>1 DEF Writing
    <2> QED BY <2>1, <2>2
  <1>9. PICK s : s = Return(p)
    OBVIOUS
  <1>10. k = tierKeys'[r] /\ u = rows'[r] /\ k = tierKeys[r]
    BY <1>1, <1>4
  <1>11. ~Rot(s, r) /\ (Rot(proc[p], r) \/ AllFine(r, tierKeys[r], rows[r])) => AllFine(r, k, u)
    BY <1>4, <1>5, <1>7
  <1>12. proc' = [proc EXCEPT ![p] = s] /\ SealHand(s, r, k, u)
    BY <1>1, <1>6, <1>9
  <1> QED BY <1>8, <1>10, <1>11, <1>12, SealStep

LEMMA RotateReadSealed ==
  ASSUME Typed, Watch, NEW r \in Replica \ shaken', Sealed(r), NEW p \in Proc, RotateRead(p)
  PROVE  Sealed(r)'
  <1> DEFINE a == Cmd(p).r
             set == {Put(n, rows[a][n].blob, Mem(p)[n], None) : n \in DOMAIN Mem(p)}
             q == SetToSeq(set)
             mem == [left |-> Tiers, puts |-> q]
             error == \E n \in DOMAIN Mem(p) : ~Opens(a, rows[a][n])
  <1>1. /\ proc[p].at = "rotate.read" /\ UNCHANGED <<rows, tierKeys>> /\ ~At(p, "idle")
        /\ proc' = [proc EXCEPT ![p] = IF error THEN Idle ELSE Goto(p, "rotate.keys", mem)]
    BY DEF RotateRead, At, Continue, Step, graphVars
  <1>2. DOMAIN proc[p] = ProcFields /\ IsFiniteSet(DOMAIN Mem(p))
    BY <1>1, AtHand DEF Hand, Mem
  <1>3. ~Rot(proc[p], r)
    BY <1>1 DEF Rot
  <1>4. CASE error
    <2>1. \A k, t : SealHand(Idle, r, k, t)
      BY DEF Idle, SealHand
    <2>2. proc' = [proc EXCEPT ![p] = Idle]
      BY <1>1, <1>4
    <2> QED BY <1>1, <1>3, <2>1, <2>2, SealQuiet
  <1>5. CASE ~error
    <2>1. IsFiniteSet(set)
      <3> DEFINE f == [n \in DOMAIN Mem(p) |-> Put(n, rows[a][n].blob, Mem(p)[n], None)]
      <3>1. f \in Surjection(DOMAIN Mem(p), set)
        BY DEF Surjection
      <3> HIDE DEF f, set
      <3> QED BY <1>2, <3>1, FS_Surjection
    <2>2. \A n \in DOMAIN Mem(p) : \E x \in set : x.n = n
      <3>1. \A n, b, m : Put(n, b, m, None).n = n
        BY DEF Put
      <3>2. \A n \in DOMAIN Mem(p) : Put(n, rows[a][n].blob, Mem(p)[n], None) \in set
        OBVIOUS
      <3> QED BY <3>1, <3>2
    <2> HIDE DEF set
    <2>3. \A x \in set : \E i \in 1 .. Len(q) : q[i] = x
      BY <2>1, SetQueued
    <2> HIDE DEF q
    <2>4. \A n \in DOMAIN Mem(p) : Queued(q, n)
      BY <2>2, <2>3 DEF Queued
    <2>5. mem.puts = q
      OBVIOUS
    <2> HIDE DEF mem, error
    <2>6. PICK s : s = Goto(p, "rotate.keys", mem)
      OBVIOUS
    <2>7. s.at = "rotate.keys" /\ s.cmd = proc[p].cmd /\ s.mem = mem
      BY <1>2, <2>6 DEF Goto, ProcFields
    <2>8. PICK k, t : k = tierKeys[r] /\ t = rows[r]
      OBVIOUS
    <2>9. proc[p].cmd.r = r => DOMAIN Mem(p) = DOMAIN t
      BY <1>1, <2>8 DEF Sealed, SealHand, Mem
    <2>10. SealHand(s, r, k, t)
      BY <2>4, <2>5, <2>7, <2>9 DEF SealHand, Putting
    <2>11. SealHand(s, r, tierKeys[r], rows[r]) /\ proc' = [proc EXCEPT ![p] = s]
      BY <1>1, <1>5, <2>6, <2>8, <2>10
    <2> QED BY <1>1, <1>3, <2>11, SealQuiet
  <1> QED BY <1>4, <1>5

LEMMA RotateKeysSealed ==
  ASSUME Typed, Watch, NEW r \in Replica \ shaken', Sealed(r), NEW p \in Proc, RotateKeys(p)
  PROVE  Sealed(r)'
  <1> DEFINE left == Tail(Mem(p).left)
             more == [Mem(p) EXCEPT !.left = left]
             puts == Mem(p).puts
             a == Cmd(p).r
             first == Head(Mem(p).left)
  <1>1. /\ proc[p].at = "rotate.keys" /\ rows' = rows /\ ~At(p, "idle")
        /\ tierKeys' = [tierKeys EXCEPT ![a][first] = @ + 1]
    BY DEF RotateKeys, At
  <1>2. PICK s : s = IF left # <<>> THEN Goto(p, "rotate.keys", more)
                     ELSE IF puts = <<>> THEN Return(p) ELSE Goto(p, "put", puts)
    OBVIOUS
  <1>3. proc' = [proc EXCEPT ![p] = s]
    BY <1>2 DEF RotateKeys, Continue, Step
  <1>4. /\ proc[p].cmd.op = "rotate" /\ a \in Replica /\ DOMAIN Mem(p) = {"left", "puts"}
        /\ DOMAIN proc[p] = ProcFields /\ HandTyped(proc[p], now, rows)
        /\ a = proc[p].cmd.r
    BY <1>1, AtHand DEF Hand, Mem, Cmd
  <1>5. more.puts = puts
    BY <1>4
  <1> HIDE DEF left, more
  <1>6. PICK m, o : m = more /\ o = puts
    OBVIOUS
  <1>7. \/ s.at = "rotate.keys" /\ s.cmd = proc[p].cmd /\ s.mem = m
        \/ s.at = "put" /\ s.cmd = proc[p].cmd /\ s.mem = o
        \/ s = Return(p) /\ o = <<>>
    <2>1. PICK g, h : g = Goto(p, "rotate.keys", m) /\ h = Goto(p, "put", o)
      OBVIOUS
    <2>2. g.at = "rotate.keys" /\ g.cmd = proc[p].cmd /\ g.mem = m /\ h.at = "put" /\ h.cmd = proc[p].cmd /\ h.mem = o
      BY <1>4, <2>1 DEF Goto, ProcFields
    <2> QED BY <1>2, <1>6, <2>1, <2>2
  <1>8. PICK k, t : k = tierKeys'[r] /\ t = rows[r]
    OBVIOUS
  <1>9. \A kk, tt : SealHand(Return(p), r, kk, tt) /\ ~Rot(Return(p), r)
    BY <1>1, <1>4, ReturnWhere
  <1>10. a = r => \A n \in DOMAIN t : Queued(o, n)
    <2>1. SealHand(proc[p], r, tierKeys[r], t)
      BY <1>8 DEF Sealed
    <2> QED BY <1>1, <1>4, <1>6, <2>1 DEF SealHand, Mem
  <1>11. m.puts = o
    BY <1>5, <1>6
  <1>12. SealHand(s, r, k, t)
    BY <1>4, <1>7, <1>9, <1>10, <1>11 DEF SealHand, Putting
  <1>13. CASE a = r
    <2>1. ~Rot(s, r) => AllFine(r, k, t)
      <3>1. ~Rot(s, r) => o = <<>>
        BY <1>4, <1>7, <1>13 DEF Rot
      <3>2. o = <<>> => \A n : ~Queued(o, n)
        BY DEF Queued
      <3> QED BY <1>10, <1>13, <3>1, <3>2 DEF AllFine
    <2>2. Rot(proc[p], r)
      BY <1>1, <1>4, <1>13 DEF Rot
    <2>3. t = rows'[r]
      BY <1>1, <1>8
    <2> QED BY <1>1, <1>3, <1>8, <1>12, <2>1, <2>2, <2>3, SealStep
  <1>14. CASE a # r
    <2>1. k = tierKeys[r]
      BY <1>1, <1>8, <1>14 DEF Typed, TablesTyped
    <2>2. ~Rot(proc[p], r)
      BY <1>4, <1>14 DEF Rot
    <2>3. t = rows'[r]
      BY <1>1, <1>8
    <2>4. AllFine(r, tierKeys[r], rows[r]) => AllFine(r, k, t)
      BY <1>8, <2>1
    <2> QED BY <1>1, <1>3, <1>8, <1>12, <2>1, <2>2, <2>3, <2>4, SealStep
  <1> QED BY <1>13, <1>14
-----------------------------------------------------------------------------
(* The exchange: what it takes from another replica is not local.          *)
LEMMA SyncSealed ==
  ASSUME Typed, Watch, NEW r \in Replica \ shaken', Sealed(r), NEW p \in Proc,
         \/ SyncEdges(p) \/ SyncPush(p) \/ SyncAnswer(p) \/ SyncAnswerEdges(p) \/ SyncPull(p)
  PROVE  Sealed(r)'
  <1>1. proc[p].at \in SyncLabels /\ ~At(p, "idle") /\ tierKeys' = tierKeys
    BY DEF SyncEdges, SyncPush, SyncAnswer, SyncAnswerEdges, SyncPull, At, SyncLabels, graphVars
  <1>2. /\ proc[p].cmd.op = "sync" /\ Cmd(p).r \in Replica /\ Cmd(p).s \in Replica
        /\ DOMAIN proc[p] = ProcFields /\ HandTyped(proc[p], now, rows) /\ Hand(proc[p], now, rows)
    BY <1>1, AtHand DEF Hand, Named, Cmd
  <1>3. ~Rot(proc[p], r)
    BY <1>2 DEF Rot
  <1>4. ASSUME NEW label \in SyncLabels, NEW mem, NEW s, s = Goto(p, label, mem)
        PROVE  \A k, t : SealHand(s, r, k, t) /\ ~Rot(s, r)
    <2>1. s.at = label /\ s.cmd = proc[p].cmd
      BY <1>2, <1>4 DEF Goto, ProcFields
    <2> QED BY <1>2, <1>4, <2>1 DEF SealHand, Rot, Putting, SyncLabels
  <1>5. \A k, t : SealHand(Return(p), r, k, t) /\ ~Rot(Return(p), r)
    BY <1>1, <1>2, ReturnWhere
  <1>6. ASSUME NEW s, proc' = [proc EXCEPT ![p] = s], \A k, t : SealHand(s, r, k, t) /\ ~Rot(s, r),
               rows' = rows \/ \E a \in Replica : \E index :
                                 TableTyped(index.rows, now) /\ Import(a, index) /\ (a = r => Writing(p, r))
        PROVE  Sealed(r)'
    <2>1. CASE rows' = rows
      BY <1>1, <1>3, <1>6, <2>1, SealQuiet
    <2>2. CASE rows' # rows
      <3>12. PICK a \in Replica : \E index :
                    TableTyped(index.rows, now) /\ Import(a, index) /\ (a = r => Writing(p, r))
        BY <1>6, <2>2
      <3>1. PICK index : TableTyped(index.rows, now) /\ Import(a, index) /\ (a = r => Writing(p, r))
        BY <3>12
      <3>2. PICK table, es : Imported(a, index, table, es)
        BY <3>1, ImportDoes
      <3>3. PICK k, t, u : k = tierKeys[r] /\ t = rows[r] /\ u = rows'[r]
        OBVIOUS
      <3>4. a # r => u = t
        BY <3>2, <3>3 DEF Imported, Typed, TablesTyped
      <3>5. a = r => u = table
        BY <3>2, <3>3 DEF Imported, Typed, TablesTyped
      <3>6. a = r => \A n \in DOMAIN u : ~u[n].local \/ (n \in DOMAIN t /\ u[n] = t[n])
        BY <3>2, <3>3, <3>5 DEF Imported, ReceivedAs
      <3>7. AllFine(r, k, t) => AllFine(r, k, u)
        BY <3>4, <3>6 DEF AllFine, Fine
      <3>8. ~Rot(s, r) /\ (Rot(proc[p], r) \/ AllFine(r, tierKeys[r], rows[r])) => AllFine(r, k, u)
        BY <1>3, <3>3, <3>7
      <3>9. k = tierKeys'[r] /\ u = rows'[r] /\ k = tierKeys[r] /\ (u = rows[r] \/ Writing(p, r))
        BY <1>1, <3>1, <3>3, <3>4
      <3>10. SealHand(s, r, k, u)
        BY <1>6
      <3>11. proc' = [proc EXCEPT ![p] = s]
        BY <1>6
      <3> QED BY <3>8, <3>9, <3>10, <3>11, SealStep
    <2> QED BY <2>1, <2>2
  <1>7. CASE SyncEdges(p)
    <2>1. PICK s : s = Goto(p, "sync.push", [rows |-> Mem(p), edges |-> edges[Cmd(p).r]])
      OBVIOUS
    <2>2. proc' = [proc EXCEPT ![p] = s] /\ rows' = rows
      BY <1>7, <2>1 DEF SyncEdges, Continue, Step, graphVars
    <2>3. "sync.push" \in SyncLabels
      BY DEF SyncLabels
    <2>4. \A k, t : SealHand(s, r, k, t) /\ ~Rot(s, r)
      BY <1>4, <2>1, <2>3
    <2> QED BY <1>6, <2>2, <2>4
  <1>8. CASE SyncPush(p)
    <2>1. PICK mem : mem = Mem(p)
      OBVIOUS
    <2>2. PICK s : s = Goto(p, "sync.answer", mem)
      OBVIOUS
    <2>3. proc[p].at = "sync.push" /\ proc' = [proc EXCEPT ![p] = s] /\ Import(Cmd(p).s, mem)
      BY <1>8, <2>1, <2>2 DEF SyncPush, Continue, Step, At
    <2>4. TableTyped(mem.rows, now)
      BY <1>2, <2>1, <2>3 DEF Hand, Mem, IndexTyped
    <2>5. Cmd(p).s = r => Writing(p, r)
      BY <1>2, <2>3 DEF Writing, Cmd
    <2>6. "sync.answer" \in SyncLabels
      BY DEF SyncLabels
    <2>7. \A k, t : SealHand(s, r, k, t) /\ ~Rot(s, r)
      BY <1>4, <2>2, <2>6
    <2> QED BY <1>2, <1>6, <2>3, <2>4, <2>5, <2>7
  <1>9. CASE SyncAnswer(p)
    <2>1. PICK s : s = Goto(p, "sync.answer.edges", [sent |-> Mem(p), rows |-> rows[Cmd(p).s]])
      OBVIOUS
    <2>2. proc' = [proc EXCEPT ![p] = s] /\ rows' = rows
      BY <1>9, <2>1 DEF SyncAnswer, Continue, Step, graphVars
    <2>3. "sync.answer.edges" \in SyncLabels
      BY DEF SyncLabels
    <2>4. \A k, t : SealHand(s, r, k, t) /\ ~Rot(s, r)
      BY <1>4, <2>1, <2>3
    <2> QED BY <1>6, <2>2, <2>4
  <1>10. CASE SyncAnswerEdges(p)
    <2>1. PICK s : s = Goto(p, "sync.pull", [sent |-> Mem(p).sent, got |-> [rows |-> Mem(p).rows, edges |-> edges[Cmd(p).s]]])
      OBVIOUS
    <2>2. proc' = [proc EXCEPT ![p] = s] /\ rows' = rows
      BY <1>10, <2>1 DEF SyncAnswerEdges, Continue, Step, graphVars
    <2>3. "sync.pull" \in SyncLabels
      BY DEF SyncLabels
    <2>4. \A k, t : SealHand(s, r, k, t) /\ ~Rot(s, r)
      BY <1>4, <2>1, <2>3
    <2> QED BY <1>6, <2>2, <2>4
  <1>11. CASE SyncPull(p)
    <2>1. PICK got : got = Mem(p).got
      OBVIOUS
    <2>2. PICK s : s = Return(p)
      OBVIOUS
    <2>3. proc[p].at = "sync.pull" /\ proc' = [proc EXCEPT ![p] = s] /\ Import(Cmd(p).r, got)
      BY <1>11, <2>1, <2>2 DEF SyncPull, Continue, Step, At
    <2>4. TableTyped(got.rows, now)
      BY <1>2, <2>1, <2>3 DEF Hand, Mem, IndexTyped
    <2>5. Cmd(p).r = r => Writing(p, r)
      BY <1>2, <2>3 DEF Writing, Cmd
    <2>6. \A k, t : SealHand(s, r, k, t) /\ ~Rot(s, r)
      BY <1>5, <2>2
    <2> QED BY <1>2, <1>6, <2>3, <2>4, <2>5, <2>6
  <1> QED BY <1>7, <1>8, <1>9, <1>10, <1>11
-----------------------------------------------------------------------------
LEMMA DieSealed ==
  ASSUME Typed, Watch, NEW r \in Replica \ shaken', Sealed(r), NEW p \in Proc, Die(p), UNCHANGED graphVars
  PROVE  Sealed(r)'
  <1>1. /\ proc' = [proc EXCEPT ![p] = Idle] /\ rows' = rows /\ tierKeys' = tierKeys /\ ~At(p, "idle")
        /\ deaths' = deaths + 1 /\ deaths' # deaths
    BY DEF Die, graphVars, Typed
  <1>2. \A k, t : SealHand(Idle, r, k, t)
    BY DEF Idle, SealHand
  <1>3. ~Rot(proc[p], r)
    <2> SUFFICES ASSUME Rot(proc[p], r) PROVE FALSE
      OBVIOUS
    <2>1. Hand(proc[p], now, rows) /\ DOMAIN proc = Proc
      BY <1>1, AtHand DEF Typed
    <2>2. proc[p].cmd.op = "rotate" /\ proc[p].cmd.r = r /\ proc[p].at # "rotate.read"
      BY DEF Rot
    <2>3. proc[p].at \in {"rotate.keys", "put", "put.row"}
      BY <2>1, <2>2 DEF Hand, SyncLabels
    <2>4. proc'[p] = Idle
      BY <1>1, <2>1
    <2> QED BY <1>1, <2>2, <2>3, <2>4, Undisturbing
  <1> QED BY <1>1, <1>2, <1>3, SealQuiet

LEMMA SealInit == Init => SealInv
  <1> SUFFICES ASSUME Init PROVE SealInv
    OBVIOUS
  <1>1. PICK s \in Scenarios : todo = s.todo /\ rows = s.rows /\ writes = s.writes
    BY DEF Init
  <1>2. GraphOK(rows, writes)
    BY <1>1, ScenariosAssumption
  <1>3. \A p \in Proc : proc[p] = Idle
    BY DEF Init
  <1>4. ASSUME NEW r \in Replica PROVE AllFine(r, tierKeys[r], rows[r])
    <2>1. \A t \in Tier : tierKeys[r][t] = 0
      BY DEF Init
    <2>2. \A n \in DOMAIN rows[r] : /\ rows[r][n].tier \in Tier
                                    /\ rows[r][n].local => rows[r][n].tier = "public" \/ rows[r][n].blob.key = <<r, rows[r][n].tier, 0>>
      BY <1>2 DEF GraphOK, RowOK, NodeOK
    <2> QED BY <2>1, <2>2 DEF AllFine, Fine
  <1>5. \A r, k, t : SealHand(Idle, r, k, t)
    BY DEF Idle, SealHand
  <1> QED BY <1>3, <1>4, <1>5 DEF SealInv, Sealed

LEMMA SealNext == Typed /\ SealInv /\ [Next]_vars => SealInv'
  <1> SUFFICES ASSUME Typed, SealInv, [Next]_vars PROVE SealInv'
    OBVIOUS
  <1>1. CASE UNCHANGED vars
    BY <1>1 DEF vars, cmdVars, graphVars, SealInv, Sealed
  <1>2. CASE Next
    <2>1. Watch
      BY <1>2 DEF Next
    <2>2. SUFFICES ASSUME NEW r \in Replica \ shaken' PROVE Sealed(r)'
      BY DEF SealInv
    <2>3. Sealed(r)
      BY <2>1 DEF Watch, SealInv
    <2>4. CASE Commanded
      BY <2>1, <2>3, <2>4, CommandedSealed
    <2>5. CASE Tick /\ UNCHANGED <<graphVars, history>>
      BY <2>3, <2>5, SealSame DEF Tick, graphVars
    <2>6. CASE Stepped
      <3>1. ASSUME NEW p \in Proc, Die(p), UNCHANGED <<graphVars, history>> PROVE Sealed(r)'
        BY <2>1, <2>3, <3>1, DieSealed
      <3>2. ASSUME NEW p \in Proc, NEW c \in todo, Link(p, c) PROVE Sealed(r)'
        BY <2>3, <3>2, SealSame DEF Link, Only
      <3>3. PICK p \in Proc :
              \/ PutSeal(p) \/ PutRow(p) \/ SetState(p) \/ WriteProposal(p) \/ ClearProposal(p) \/ LogAccess(p)
              \/ RotateRead(p) \/ RotateKeys(p)
              \/ SyncEdges(p) \/ SyncPush(p) \/ SyncAnswer(p) \/ SyncAnswerEdges(p) \/ SyncPull(p)
              \/ \E c \in todo : Link(p, c)
              \/ Die(p) /\ UNCHANGED <<graphVars, history>>
        BY <2>6 DEF Stepped
      <3> QED BY <2>1, <2>3, <3>1, <3>2, <3>3, PutSealSealed, PutRowSealed, SetStateSealed, ProposalSealed,
                 RotateReadSealed, RotateKeysSealed, SyncSealed
    <2> QED BY <1>2, <2>4, <2>5, <2>6 DEF Next
  <1> QED BY <1>1, <1>2

LEMMA SealedMeans == Typed /\ SealInv => GraphInv
  <1> SUFFICES ASSUME Typed, SealInv PROVE GraphInv
    OBVIOUS
  <1>1. TypeOK
    <2>1. \A r \in Replica : \A n \in DOMAIN rows[r] : n \in Node /\ RowOK(rows[r][n], now)
      BY RowHas
    <2>2. \A r \in Replica : pending[r] \subseteq DOMAIN rows[r] /\ tierKeys[r] \in [Tier -> Nat]
      BY DEF Typed, TablesTyped
    <2>3. \A r \in Replica : \A e \in DOMAIN edges[r] : {e[1], e[2]} \subseteq UNION {DOMAIN rows[s] : s \in Replica}
      BY DEF Typed, TablesTyped, Ends, Anywhere
    <2> QED BY <2>1, <2>2, <2>3 DEF TypeOK, Typed
  <1>2. SealedOpens
    <2> SUFFICES ASSUME NEW r \in Replica \ shaken, \A p \in Proc : ~Rotating(p, r),
                        NEW n \in DOMAIN rows[r], rows[r][n].local
                 PROVE  Opens(r, rows[r][n])
      BY DEF SealedOpens
    <2>1. \A p \in Proc : ~Rot(proc[p], r)
      BY DEF Rotating, Rot, Cmd, At
    <2>2. AllFine(r, tierKeys[r], rows[r])
      BY <2>1 DEF SealInv, Sealed
    <2> QED BY <2>2 DEF AllFine, Fine, Opens
  <1> QED BY <1>1, <1>2 DEF GraphInv

(* Whatever commands run at once, are killed or repeated: the tables keep  *)
(* their types, the edges go between nodes that some replica has, and what *)
(* a command of a replica stored there the replica can open, unless a      *)
(* rotation met another writer or died.                                    *)
THEOREM GraphexStateSound == Spec => []GraphInv
  <1>1. Init => Typed /\ SealInv
    BY TypedInit, SealInit
  <1>2. Typed /\ SealInv /\ [Next]_vars => (Typed /\ SealInv)'
    BY TypedNext, SealNext
  <1>3. Typed /\ SealInv => GraphInv
    BY SealedMeans
  <1> QED BY <1>1, <1>2, <1>3, PTL DEF Spec
-----------------------------------------------------------------------------
(* The exchange.  Of a node that was never written twice under one         *)
(* timestamp, nor set back, every copy with the same timestamp, in a table *)
(* or on its way to one, is from the same write; and what a session has    *)
(* pushed, the other replica still has, or something newer.                *)
Bringing(s) ==
  CASE s.at = "sync.edges" -> s.mem
    [] s.at \in {"sync.push", "sync.answer.edges"} -> s.mem.rows
    [] s.at = "sync.pull" -> s.mem.got.rows
    [] OTHER -> <<>>
Tables(ts, ps) == {ts[r] : r \in Replica} \cup {Bringing(ps[p]) : p \in Proc}

Agreeing(T, w, twice) ==
  \A a \in T : \A n \in DOMAIN a :
    /\ <<n, a[n].updated>> \in w
    /\ \A b \in T : n \in DOMAIN b \ twice /\ b[n].updated = a[n].updated => Bare(b[n]) = Bare(a[n])

AheadOf(x, table, es, twice) ==
  /\ DOMAIN x.rows \subseteq DOMAIN table /\ DOMAIN x.edges \subseteq DOMAIN es
  /\ \A n \in DOMAIN x.rows \ twice : x.rows[n].updated <= table[n].updated
Ahead(s, ts, es, twice) ==
  /\ s.at = "sync.answer" => AheadOf(s.mem, ts[s.cmd.s], es[s.cmd.s], twice)
  /\ s.at \in {"sync.answer.edges", "sync.pull"} => AheadOf(s.mem.sent, ts[s.cmd.s], es[s.cmd.s], twice)

Exchanging ==
  /\ Agreeing(Tables(rows, proc), writes, ambiguous)
  /\ \A p \in Proc : Ahead(proc[p], rows, edges, ambiguous)

(* A row a table had before, and the one row a step has written.           *)
Had(n, row, T) == \E a \in T : n \in DOMAIN a /\ Bare(row) = Bare(a[n]) /\ row.updated = a[n].updated
Fresh(n, row, n0, row0, w, w1, twice1) ==
  n = n0 /\ row = row0 /\ <<n, row.updated>> \in w1 /\ (<<n, row.updated>> \in w => n \in twice1)

RowsFrom(n0, row0) ==
  \A r \in Replica : \A n \in DOMAIN rows'[r] :
    Had(n, rows'[r][n], Tables(rows, proc)) \/ Fresh(n, rows'[r][n], n0, row0, writes, writes', ambiguous')

LEMMA AgreeingStep ==
  ASSUME NEW T, NEW w, NEW twice, Agreeing(T, w, twice), NEW w1, w \subseteq w1, NEW twice1, twice \subseteq twice1,
         NEW n0, NEW row0, NEW T1,
         \A c \in T1 : \A n \in DOMAIN c : Had(n, c[n], T) \/ Fresh(n, c[n], n0, row0, w, w1, twice1)
  PROVE  Agreeing(T1, w1, twice1)
  <1>1. ASSUME NEW n, NEW row, Had(n, row, T) PROVE <<n, row.updated>> \in w
    BY <1>1 DEF Had, Agreeing
  <1>2. SUFFICES ASSUME NEW c \in T1, NEW n \in DOMAIN c
                 PROVE  /\ <<n, c[n].updated>> \in w1
                        /\ \A d \in T1 : n \in DOMAIN d \ twice1 /\ d[n].updated = c[n].updated => Bare(d[n]) = Bare(c[n])
    BY DEF Agreeing
  <1>3. <<n, c[n].updated>> \in w1
    BY <1>1 DEF Fresh
  <1>4. SUFFICES ASSUME NEW d \in T1, n \in DOMAIN d \ twice1, d[n].updated = c[n].updated
                 PROVE  Bare(d[n]) = Bare(c[n])
    BY <1>3
  <1>0. /\ Had(n, c[n], T) \/ Fresh(n, c[n], n0, row0, w, w1, twice1)
        /\ Had(n, d[n], T) \/ Fresh(n, d[n], n0, row0, w, w1, twice1)
    BY <1>4
  <1>5. CASE Had(n, c[n], T) /\ Had(n, d[n], T)
    <2>1. PICK a \in T : n \in DOMAIN a /\ Bare(c[n]) = Bare(a[n]) /\ c[n].updated = a[n].updated
      BY <1>5 DEF Had
    <2>2. PICK b \in T : n \in DOMAIN b /\ Bare(d[n]) = Bare(b[n]) /\ d[n].updated = b[n].updated
      BY <1>5 DEF Had
    <2>3. n \in DOMAIN b \ twice
      BY <1>4, <2>2
    <2>4. Bare(b[n]) = Bare(a[n])
      BY <1>4, <2>1, <2>2, <2>3 DEF Agreeing
    <2> QED BY <2>1, <2>2, <2>4
  <1>6. CASE ~Had(n, c[n], T) \/ ~Had(n, d[n], T)
    <2>1. Fresh(n, c[n], n0, row0, w, w1, twice1) \/ Fresh(n, d[n], n0, row0, w, w1, twice1)
      BY <1>0, <1>6
    <2>2. <<n, c[n].updated>> \notin w
      BY <1>4, <2>1 DEF Fresh
    <2>3. ~Had(n, c[n], T) /\ ~Had(n, d[n], T)
      BY <1>1, <1>4, <2>2
    <2>4. c[n] = row0 /\ d[n] = row0
      BY <1>0, <2>3 DEF Fresh
    <2> QED BY <2>4
  <1> QED BY <1>5, <1>6

(* No table loses a row or an edge, nor goes back to an older row but of a *)
(* node that is set back.                                                  *)
Forward(r) ==
  /\ DOMAIN rows[r] \subseteq DOMAIN rows'[r] /\ DOMAIN edges[r] \subseteq DOMAIN edges'[r]
  /\ \A n \in DOMAIN rows[r] \ ambiguous' : rows[r][n].updated <= rows'[r][n].updated

LEMMA AheadLater ==
  ASSUME NEW x, NEW t, TableTyped(x.rows, t), NEW a, NEW b, TableTyped(a, t), TableTyped(b, t),
         NEW es, NEW fs, NEW twice, NEW twice1, AheadOf(x, a, es, twice), twice \subseteq twice1,
         DOMAIN a \subseteq DOMAIN b, DOMAIN es \subseteq DOMAIN fs,
         \A n \in DOMAIN a \ twice1 : a[n].updated <= b[n].updated
  PROVE  AheadOf(x, b, fs, twice1)
  <1>1. ASSUME NEW n \in DOMAIN x.rows \ twice1 PROVE x.rows[n].updated <= b[n].updated
    <2>1. n \in DOMAIN a /\ n \in DOMAIN b /\ n \in DOMAIN x.rows \ twice
      BY DEF AheadOf
    <2>2. x.rows[n].updated <= a[n].updated /\ a[n].updated <= b[n].updated
      BY <2>1 DEF AheadOf
    <2>3. x.rows[n].updated \in 0 .. t /\ a[n].updated \in 0 .. t /\ b[n].updated \in 0 .. t
      BY <2>1 DEF TableTyped, RowOK
    <2> QED BY <2>2, <2>3
  <1> QED BY <1>1 DEF AheadOf

LEMMA ExchangeStep ==
  ASSUME Typed, Typed', Exchanging, now' = now, \A r \in Replica : Forward(r),
         ambiguous \subseteq ambiguous', writes \subseteq writes',
         \A q \in Proc : \/ proc'[q] = proc[q]
                         \/ /\ Ahead(proc'[q], rows', edges', ambiguous')
                            /\ Bringing(proc'[q]) \in Tables(rows, proc) \cup {<<>>},
         NEW n0, NEW row0,
         RowsFrom(n0, row0)
  PROVE  Exchanging'
  <1>1. PICK T, T1 : T = Tables(rows, proc) /\ T1 = Tables(rows', proc')
    OBVIOUS
  <1>2. PICK w, w1, twice, twice1 : w = writes /\ w1 = writes' /\ twice = ambiguous /\ twice1 = ambiguous'
    OBVIOUS
  <1>3. ASSUME NEW c \in T, NEW n \in DOMAIN c PROVE Had(n, c[n], T)
    BY <1>3 DEF Had
  <1>4. ASSUME NEW q \in Proc, NEW n \in DOMAIN Bringing(proc'[q]) PROVE Had(n, Bringing(proc'[q])[n], T)
    <2>1. PICK c : c = Bringing(proc'[q])
      OBVIOUS
    <2>2. c \in T
      <3>1. \A x \in Proc : Bringing(proc[x]) \in T
        BY <1>1 DEF Tables
      <3>2. c \in T \/ c = <<>>
        BY <1>1, <2>1, <3>1
      <3>3. c # <<>>
        BY <1>4, <2>1
      <3> QED BY <3>2, <3>3
    <2> QED BY <1>3, <1>4, <2>1, <2>2
  <1>5. ASSUME NEW c \in T1, NEW n \in DOMAIN c
        PROVE  Had(n, c[n], T) \/ Fresh(n, c[n], n0, row0, w, w1, twice1)
    <2>1. (\E r \in Replica : c = rows'[r]) \/ \E q \in Proc : c = Bringing(proc'[q])
      BY <1>1 DEF Tables
    <2> QED BY <1>1, <1>2, <1>4, <1>5, <2>1 DEF RowsFrom
  <1>6. Agreeing(T, w, twice)
    BY <1>1, <1>2 DEF Exchanging
  <1>7. Agreeing(T1, w1, twice1)
    BY <1>2, <1>5, <1>6, AgreeingStep
  <1>8. ASSUME NEW q \in Proc PROVE Ahead(proc'[q], rows', edges', twice1)
    <2>1. CASE proc'[q] # proc[q]
      BY <1>2, <2>1
    <2>2. CASE proc'[q] = proc[q] /\ proc[q].at \in {"sync.answer", "sync.answer.edges", "sync.pull"}
      <3>1. PICK x : x = IF proc[q].at = "sync.answer" THEN proc[q].mem ELSE proc[q].mem.sent
        OBVIOUS
      <3>2. PICK s : s = proc[q].cmd.s
        OBVIOUS
      <3>3. AheadOf(x, rows[s], edges[s], twice)
        BY <1>2, <2>2, <3>1, <3>2 DEF Exchanging, Ahead
      <3>4. TableTyped(x.rows, now) /\ s \in Replica
        BY <2>2, <3>1, <3>2, AtHand DEF Hand, At, Named, IndexTyped, SyncLabels
      <3>5. TableTyped(rows[s], now) /\ TableTyped(rows'[s], now)
        BY <3>4 DEF Typed, TablesTyped
      <3>6. Forward(s)
        BY <3>4
      <3>7. AheadOf(x, rows'[s], edges'[s], twice1)
        <4>1. PICK a, b, es, fs : a = rows[s] /\ b = rows'[s] /\ es = edges[s] /\ fs = edges'[s]
          OBVIOUS
        <4>2. /\ DOMAIN a \subseteq DOMAIN b /\ DOMAIN es \subseteq DOMAIN fs
              /\ \A n \in DOMAIN a \ twice1 : a[n].updated <= b[n].updated
          BY <1>2, <3>6, <4>1 DEF Forward
        <4>3. AheadOf(x, b, fs, twice1)
          BY <1>2, <3>3, <3>4, <3>5, <4>1, <4>2, AheadLater
        <4> QED BY <4>1, <4>3
      <3> QED BY <2>2, <3>1, <3>2, <3>7 DEF Ahead
    <2>3. CASE proc'[q] = proc[q] /\ proc[q].at \notin {"sync.answer", "sync.answer.edges", "sync.pull"}
      BY <2>3 DEF Ahead
    <2> QED BY <2>1, <2>2, <2>3
  <1> QED BY <1>1, <1>2, <1>7, <1>8 DEF Exchanging

LEMMA ExchangeMove ==
  ASSUME Typed, Typed', Exchanging, now' = now, \A r \in Replica : Forward(r),
         ambiguous \subseteq ambiguous', writes \subseteq writes',
         NEW p \in Proc, NEW s, proc' = [proc EXCEPT ![p] = s], Ahead(s, rows', edges', ambiguous'),
         Bringing(s) \in Tables(rows, proc) \cup {<<>>},
         NEW n0, NEW row0,
         RowsFrom(n0, row0)
  PROVE  Exchanging'
  <1>1. proc'[p] = s /\ \A q \in Proc \ {p} : proc'[q] = proc[q]
    BY DEF Typed
  <1>2. \A q \in Proc : \/ proc'[q] = proc[q]
                       \/ /\ Ahead(proc'[q], rows', edges', ambiguous')
                          /\ Bringing(proc'[q]) \in Tables(rows, proc) \cup {<<>>}
    BY <1>1
  <1> QED BY <1>2, ExchangeStep

(* Steps that write no row.                                                *)
LEMMA RowsHad ==
  ASSUME rows' = rows
  PROVE  \A r \in Replica : \A n \in DOMAIN rows'[r] : Had(n, rows'[r][n], Tables(rows, proc))
  <1>1. \A r \in Replica : rows[r] \in Tables(rows, proc)
    BY DEF Tables
  <1> QED BY <1>1 DEF Had

LEMMA RowsForward ==
  ASSUME Typed, rows' = rows, \A r \in Replica : DOMAIN edges[r] \subseteq DOMAIN edges'[r]
  PROVE  \A r \in Replica : Forward(r)
  <1>1. \A r \in Replica : \A n \in DOMAIN rows[r] : rows[r][n].updated \in 0 .. now
    BY RowHas DEF RowOK
  <1>2. \A r \in Replica : \A n \in DOMAIN rows[r] : rows[r][n].updated <= rows[r][n].updated
    <2>1. \A i : i \in 0 .. now => i <= i
      OBVIOUS
    <2> QED BY <1>1, <2>1
  <1> QED BY <1>2 DEF Forward

LEMMA ExchangeQuiet ==
  ASSUME Typed, Typed', Exchanging, now' = now, UNCHANGED <<rows, edges, writes, ambiguous>>,
         NEW p \in Proc, NEW s, proc' = [proc EXCEPT ![p] = s], Ahead(s, rows, edges, ambiguous),
         Bringing(s) \in Tables(rows, proc) \cup {<<>>}
  PROVE  Exchanging'
  <1>1. \A r \in Replica : Forward(r)
    BY RowsForward
  <1>2. Ahead(s, rows', edges', ambiguous')
    BY Zenon
  <1>3. PICK n0, row0 : n0 = 0 /\ row0 = 0
    OBVIOUS
  <1>4. ambiguous \subseteq ambiguous' /\ writes \subseteq writes'
    OBVIOUS
  <1>5. RowsFrom(n0, row0)
    BY RowsHad DEF RowsFrom
  <1> QED BY <1>1, <1>2, <1>4, <1>5, ExchangeMove

LEMMA AwayHand ==
  ASSUME NEW s, s.at \notin SyncLabels
  PROVE  Bringing(s) = <<>> /\ \A ts, es, twice : Ahead(s, ts, es, twice)
  BY DEF Bringing, Ahead, SyncLabels

LEMMA ExchangeAway ==
  ASSUME Typed, Typed', Exchanging, now' = now, UNCHANGED <<rows, edges, writes, ambiguous>>,
         NEW p \in Proc, NEW s, proc' = [proc EXCEPT ![p] = s], s.at \notin SyncLabels
  PROVE  Exchanging'
  BY AwayHand, ExchangeQuiet

LEMMA ExchangeOnly ==
  ASSUME Exchanging, UNCHANGED <<rows, edges, writes, ambiguous, proc>>
  PROVE  Exchanging'
  BY DEF Exchanging

LEMMA CommandedExchanging ==
  ASSUME Typed, Typed', Exchanging, Commanded
  PROVE  Exchanging'
  <1>1. PICK p \in Proc, c \in todo :
          /\ \/ Add(p, c) \/ Propose(p, c) \/ Infer(p, c) \/ Accept(p, c) \/ Reject(p, c)
             \/ Rotate(p, c) \/ Sync(p, c)
          /\ UNCHANGED <<graphVars, history>>
    BY DEF Commanded
  <1>2. UNCHANGED <<rows, edges, writes, ambiguous>>
    BY <1>1 DEF graphVars, history
  <1>3. ASSUME Only(p, c) PROVE Exchanging'
    BY <1>2, <1>3, ExchangeOnly DEF Only
  <1>4. ASSUME NEW label, NEW on, NEW mem, NEW rest, Begin(p, c, label, on, mem, rest),
               label \in {"put", "state", "rotate.read"} \/ (label = "sync.edges" /\ mem = rows[c.r])
        PROVE  Exchanging'
    <2> DEFINE s == [Idle EXCEPT !.at = label, !.cmd = c, !.on = on, !.mem = mem, !.rest = rest]
    <2>1. proc' = [proc EXCEPT ![p] = s] /\ now' = now
      BY <1>4 DEF Begin, Step
    <2>2. s.at = label /\ s.cmd = c /\ s.mem = mem
      BY BeginFields
    <2> HIDE DEF s
    <2>3. CASE label \in {"put", "state", "rotate.read"}
      <3>1. s.at \notin SyncLabels
        BY <2>2, <2>3 DEF SyncLabels
      <3> QED BY <1>2, <2>1, <3>1, ExchangeAway
    <2>4. CASE label = "sync.edges" /\ mem = rows[c.r]
      <3>1. c.r \in Replica
        BY DEF Typed, Named
      <3>2. Bringing(s) = rows[c.r] /\ Ahead(s, rows, edges, ambiguous)
        BY <2>2, <2>4 DEF Bringing, Ahead
      <3>3. Bringing(s) \in Tables(rows, proc)
        BY <3>1, <3>2 DEF Tables
      <3> QED BY <1>2, <2>1, <3>2, <3>3, ExchangeQuiet
    <2> QED BY <1>4, <2>3, <2>4
  <1>5. CASE Add(p, c)
    BY <1>4, <1>5 DEF Add
  <1>6. CASE Propose(p, c)
    BY <1>4, <1>6 DEF Propose
  <1>7. CASE Infer(p, c)
    BY <1>3, <1>4, <1>7 DEF Infer
  <1>8. CASE Accept(p, c)
    BY <1>3, <1>4, <1>8 DEF Accept
  <1>9. CASE Reject(p, c)
    BY <1>3, <1>4, <1>9 DEF Reject
  <1>10. CASE Rotate(p, c)
    BY <1>4, <1>10 DEF Rotate
  <1>11. CASE Sync(p, c)
    BY <1>4, <1>11 DEF Sync
  <1> QED BY <1>1, <1>5, <1>6, <1>7, <1>8, <1>9, <1>10, <1>11

LEMMA ReturnAway ==
  ASSUME Typed, NEW p \in Proc, ~At(p, "idle")
  PROVE  Return(p).at \notin SyncLabels
  <1>1. HandTyped(proc[p], now, rows)
    BY AtHand
  <1>2. Return(p).at \in {"idle", "pending", "log", "clear"}
    BY <1>1, ReturnWhere
  <1> QED BY <1>2 DEF SyncLabels

LEMMA QuietExchanging ==
  ASSUME Typed, Typed', Exchanging, NEW p \in Proc,
         \/ PutSeal(p) \/ WriteProposal(p) \/ ClearProposal(p) \/ LogAccess(p) \/ RotateRead(p) \/ RotateKeys(p)
         \/ Die(p) /\ UNCHANGED <<graphVars, history>>
  PROVE  Exchanging'
  <1>1. UNCHANGED <<rows, edges, writes, ambiguous, now>> /\ ~At(p, "idle")
    BY DEF PutSeal, WriteProposal, ClearProposal, LogAccess, RotateRead, RotateKeys, Die, graphVars, history,
           Continue, Step, At
  <1>2. \E s : /\ proc' = [proc EXCEPT ![p] = s]
               /\ s = Idle \/ s = Return(p) \/ \E label \in {"put", "put.row", "rotate.keys"} : \E mem : s = Goto(p, label, mem)
    <2>1. CASE PutSeal(p)
      BY <2>1, Zenon DEF PutSeal, Continue, Step
    <2>2. CASE WriteProposal(p) \/ ClearProposal(p) \/ LogAccess(p)
      BY <2>2, Zenon DEF WriteProposal, ClearProposal, LogAccess, Continue, Step
    <2>3. CASE RotateRead(p)
      <3>1. PICK s : Continue(p, s) /\ (s = Idle \/ \E mem : s = Goto(p, "rotate.keys", mem))
        BY <2>3, Zenon DEF RotateRead
      <3> QED BY <3>1, Zenon DEF Continue, Step
    <2>4. CASE RotateKeys(p)
      <3>1. PICK s : Continue(p, s) /\ (s = Return(p) \/ \E label \in {"put", "rotate.keys"} : \E mem : s = Goto(p, label, mem))
        BY <2>4, Zenon DEF RotateKeys
      <3> QED BY <3>1, Zenon DEF Continue, Step
    <2>5. CASE Die(p)
      BY <2>5, Zenon DEF Die
    <2> QED BY <2>1, <2>2, <2>3, <2>4, <2>5
  <1>3. PICK s : /\ proc' = [proc EXCEPT ![p] = s]
                 /\ s = Idle \/ s = Return(p) \/ \E label \in {"put", "put.row", "rotate.keys"} : \E mem : s = Goto(p, label, mem)
    BY <1>2
  <1>4. s.at \notin SyncLabels
    <2>1. CASE s = Idle
      BY <2>1 DEF Idle, SyncLabels
    <2>2. CASE s = Return(p)
      BY <1>1, <2>2, ReturnAway
    <2>3. CASE \E label \in {"put", "put.row", "rotate.keys"} : \E mem : s = Goto(p, label, mem)
      <3>3. PICK label \in {"put", "put.row", "rotate.keys"} : \E mem : s = Goto(p, label, mem)
        BY <2>3
      <3>1. PICK mem : s = Goto(p, label, mem)
        BY <3>3
      <3>2. s.at = label
        BY <1>1, <3>1, AtHand DEF Goto, ProcFields
      <3> QED BY <3>1, <3>2 DEF SyncLabels
    <2> QED BY <1>3, <2>1, <2>2, <2>3
  <1> QED BY <1>1, <1>3, <1>4, ExchangeAway

LEMMA LinkExchanging ==
  ASSUME Typed, Typed', Exchanging, NEW p \in Proc, NEW c \in todo, Link(p, c)
  PROVE  Exchanging'
  <1> DEFINE both == {c.from, c.to} \subseteq DOMAIN rows[c.r]
  <1>1. /\ UNCHANGED <<rows, proc, now, writes, ambiguous>>
        /\ edges' = IF both THEN [edges EXCEPT ![c.r] = PutEdge(@, c.from, c.to, c.both)] ELSE edges
    BY DEF Link, Only, history
  <1>2. \A r \in Replica : DOMAIN edges[r] \subseteq DOMAIN edges'[r]
    <2>1. DOMAIN edges = Replica
      BY DEF Typed, TablesTyped
    <2>2. \A es : DOMAIN es \subseteq DOMAIN PutEdge(es, c.from, c.to, c.both)
      BY DEF PutEdge, Upsert
    <2>3. PICK fs : fs = PutEdge(edges[c.r], c.from, c.to, c.both)
      OBVIOUS
    <2>4. edges' = edges \/ edges' = [edges EXCEPT ![c.r] = fs]
      BY <1>1, <2>3
    <2> QED BY <2>1, <2>2, <2>3, <2>4
  <1>3. \A r \in Replica : Forward(r)
    BY <1>1, <1>2, RowsForward
  <1>4. PICK n0, row0 : n0 = 0 /\ row0 = 0
    OBVIOUS
  <1>5. RowsFrom(n0, row0)
    BY <1>1, RowsHad DEF RowsFrom
  <1>6. \A q \in Proc : proc'[q] = proc[q]
    BY <1>1
  <1>7. ambiguous \subseteq ambiguous' /\ writes \subseteq writes' /\ now' = now
    BY <1>1
  <1> QED BY <1>3, <1>5, <1>6, <1>7, ExchangeStep

(* Steps that write a row.                                                 *)
Wrote(p, s, a, n, row, table) ==
  /\ rows' = [rows EXCEPT ![a] = table] /\ edges' = edges /\ now' = now
  /\ DOMAIN table = DOMAIN rows[a] \cup {n} /\ table[n] = row
  /\ \A m \in DOMAIN rows[a] : m # n => table[m] = rows[a][m]
  /\ row.updated \in 0 .. now /\ Written(a, n, row.updated)
  /\ proc' = [proc EXCEPT ![p] = s] /\ s.at \notin SyncLabels

LEMMA ExchangeWritten ==
  ASSUME Typed, Typed', Exchanging, NEW p \in Proc, NEW a \in Replica, NEW s, NEW n, NEW row, NEW table,
         Wrote(p, s, a, n, row, table)
  PROVE  Exchanging'
  <1>1. rows'[a] = table /\ \A r \in Replica \ {a} : rows'[r] = rows[r]
    BY DEF Wrote, Typed, TablesTyped
  <1>2. ambiguous \subseteq ambiguous' /\ writes \subseteq writes' /\ <<n, row.updated>> \in writes'
    BY DEF Wrote, Written
  <1>3. <<n, row.updated>> \in writes => n \in ambiguous'
    BY DEF Wrote, Written
  <1>4. \A r \in Replica : \A m \in DOMAIN rows[r] : rows[r][m].updated \in 0 .. now
    BY RowHas DEF RowOK
  <1>5. \A i, j : i \in 0 .. now /\ j \in 0 .. now => i <= i /\ (i < j \/ j <= i)
    OBVIOUS
  <1>6. ASSUME NEW r \in Replica PROVE Forward(r)
    <2>1. CASE r # a
      BY <1>1, <1>4, <1>5, <2>1 DEF Forward, Wrote
    <2>2. CASE r = a
      <3>1. n \in DOMAIN rows[a] /\ n \notin ambiguous' => rows[a][n].updated <= row.updated
        <4>1. n \in DOMAIN rows[a] /\ row.updated < rows[a][n].updated => n \in ambiguous'
          BY DEF Wrote, Written
        <4>2. row.updated \in 0 .. now
          BY DEF Wrote
        <4> QED BY <1>4, <1>5, <4>1, <4>2
      <3>2. \A m \in DOMAIN rows[a] \ ambiguous' : rows[a][m].updated <= table[m].updated
        BY <1>4, <1>5, <3>1 DEF Wrote
      <3> QED BY <1>1, <2>2, <3>2 DEF Forward, Wrote
    <2> QED BY <2>1, <2>2
  <1>7. \A r \in Replica : rows[r] \in Tables(rows, proc)
    BY DEF Tables
  <1>8. PICK T : T = Tables(rows, proc)
    OBVIOUS
  <1>9. ASSUME NEW r \in Replica, NEW m \in DOMAIN rows'[r]
        PROVE  Had(m, rows'[r][m], T) \/ Fresh(m, rows'[r][m], n, row, writes, writes', ambiguous')
    <2>1. CASE r = a /\ m = n
      BY <1>1, <1>2, <1>3, <2>1 DEF Fresh, Wrote
    <2>2. CASE r # a \/ m # n
      <3>1. m \in DOMAIN rows[r] /\ rows'[r][m] = rows[r][m]
        BY <1>1, <1>9, <2>2 DEF Wrote
      <3> QED BY <1>7, <1>8, <3>1 DEF Had
    <2> QED BY <2>1, <2>2
  <1>10. Bringing(s) = <<>> /\ Ahead(s, rows', edges', ambiguous')
    BY AwayHand DEF Wrote
  <1>11. Bringing(s) \in Tables(rows, proc) \cup {<<>>}
    BY <1>10
  <1>12. RowsFrom(n, row)
    BY <1>8, <1>9 DEF RowsFrom
  <1>13. proc' = [proc EXCEPT ![p] = s] /\ now' = now
    BY DEF Wrote
  <1> QED BY <1>2, <1>6, <1>10, <1>11, <1>12, <1>13, ExchangeMove

LEMMA PutRowExchanging ==
  ASSUME Typed, Typed', Exchanging, NEW p \in Proc, PutRow(p)
  PROVE  Exchanging'
  <1>0. PICK a \in Replica : \E q, put, row, table : RowPut(p, a, q, put, row, table)
    BY PutRowDoes
  <1>1. PICK q, put, row, table : RowPut(p, a, q, put, row, table)
    BY <1>0
  <1>2. PICK s : s = IF Len(q) = 1 THEN Return(p) ELSE Goto(p, "put", Tail(q))
    OBVIOUS
  <1>3. /\ proc' = [proc EXCEPT ![p] = s] /\ now' = now /\ ~At(p, "idle")
        /\ rows' = [rows EXCEPT ![a] = table] /\ edges' = edges
        /\ DOMAIN table = DOMAIN rows[a] \cup {put.n} /\ table[put.n] = row
        /\ Written(a, put.n, row.updated) /\ RowOK(row, now)
    BY <1>1, <1>2 DEF RowPut, Continue, Step, At
  <1>4. \A m \in DOMAIN rows[a] : m # put.n => table[m] = rows[a][m]
    BY <1>1 DEF RowPut
  <1>5. s.at \notin SyncLabels
    <2>1. Goto(p, "put", Tail(q)).at = "put"
      BY <1>3, AtHand DEF Goto, ProcFields
    <2>2. Return(p).at \notin SyncLabels
      BY <1>3, ReturnAway
    <2> QED BY <1>2, <2>1, <2>2 DEF SyncLabels
  <1>6. row.updated \in 0 .. now
    BY <1>3 DEF RowOK
  <1>7. Wrote(p, s, a, put.n, row, table)
    BY <1>3, <1>4, <1>5, <1>6 DEF Wrote
  <1> QED BY <1>7, ExchangeWritten

LEMMA SetStateExchanging ==
  ASSUME Typed, Typed', Exchanging, NEW p \in Proc, SetState(p)
  PROVE  Exchanging'
  <1>1. PICK a, n : a = Cmd(p).r /\ n = Cmd(p).n
    OBVIOUS
  <1>2. PICK row : row = [rows[a][n] EXCEPT !.state = Mem(p), !.updated = now, !.decided = Mem(p)]
    OBVIOUS
  <1>3. PICK table : table = [rows[a] EXCEPT ![n] = row]
    OBVIOUS
  <1>4. /\ proc[p].at = "state" /\ ~At(p, "idle") /\ rows' = [rows EXCEPT ![a] = table] /\ now' = now
        /\ proc' = [proc EXCEPT ![p] = Return(p)] /\ edges' = edges /\ Written(a, n, now)
    BY <1>1, <1>2, <1>3 DEF SetState, At, Continue, Step
  <1>5. a \in Replica /\ n \in DOMAIN rows[a]
    BY <1>1, <1>4, AtHand DEF Hand, Mem, Cmd
  <1>6. row.updated = now
    <2>1. DOMAIN rows[a][n] = RowFields
      BY <1>5, RowHas DEF RowOK, RowFields
    <2> QED BY <1>2, <2>1 DEF RowFields
  <1>7. now \in 0 .. now
    BY CommandsAssumption DEF Typed
  <1>8. DOMAIN table = DOMAIN rows[a] \cup {n} /\ table[n] = row /\ \A m \in DOMAIN rows[a] : m # n => table[m] = rows[a][m]
    BY <1>3, <1>5
  <1>9. PICK s : s = Return(p)
    OBVIOUS
  <1>10. s.at \notin SyncLabels
    BY <1>4, <1>9, ReturnAway
  <1>11. row.updated \in 0 .. now /\ Written(a, n, row.updated) /\ proc' = [proc EXCEPT ![p] = s]
    BY <1>4, <1>6, <1>7, <1>9
  <1>12. Wrote(p, s, a, n, row, table)
    BY <1>4, <1>8, <1>10, <1>11 DEF Wrote
  <1> QED BY <1>5, <1>12, ExchangeWritten

(* Imports.                                                                *)
LEMMA ExchangeImport ==
  ASSUME Typed, Typed', Exchanging, now' = now, NEW a \in Replica, NEW index, TableTyped(index.rows, now),
         Import(a, index), index.rows \in Tables(rows, proc), UNCHANGED <<writes, ambiguous>>,
         NEW p \in Proc, NEW s, proc' = [proc EXCEPT ![p] = s], Bringing(s) = <<>>,
         AheadOf(index, rows'[a], edges'[a], ambiguous) => Ahead(s, rows', edges', ambiguous)
  PROVE  Exchanging'
  <1>1. PICK table, es : Imported(a, index, table, es)
    BY ImportDoes
  <1>2. /\ rows'[a] = table /\ \A r \in Replica \ {a} : rows'[r] = rows[r]
        /\ edges'[a] = es /\ \A r \in Replica \ {a} : edges'[r] = edges[r]
    BY <1>1 DEF Imported, Typed, TablesTyped
  <1>3. PICK mine, theirs : mine = rows[a] /\ theirs = index.rows
    OBVIOUS
  <1>4. /\ DOMAIN table = DOMAIN mine \cup DOMAIN theirs
        /\ DOMAIN es = DOMAIN edges[a] \cup DOMAIN index.edges
        /\ \A n \in DOMAIN table :
             IF Taken(n, mine, theirs) THEN ReceivedAs(table[n], theirs[n])
             ELSE n \in DOMAIN mine /\ table[n] = mine[n]
    BY <1>1, <1>3 DEF Imported
  <1>5. /\ \A r \in Replica : \A m \in DOMAIN rows[r] : rows[r][m].updated \in 0 .. now
        /\ \A m \in DOMAIN theirs : theirs[m].updated \in 0 .. now
    BY <1>3, RowHas DEF RowOK, TableTyped
  <1>6. \A i, j : i \in 0 .. now /\ j \in 0 .. now => i <= i /\ (i > j => j <= i) /\ (~(i > j) => i <= j)
    OBVIOUS
  <1>7. \A n \in DOMAIN mine : mine[n].updated <= table[n].updated
    <2> SUFFICES ASSUME NEW n \in DOMAIN mine PROVE mine[n].updated <= table[n].updated
      OBVIOUS
    <2>1. CASE Taken(n, mine, theirs)
      <3>1. table[n].updated = theirs[n].updated /\ n \in DOMAIN theirs /\ theirs[n].updated > mine[n].updated
        BY <1>4, <2>1 DEF Taken, ReceivedAs, Newer
      <3> QED BY <1>3, <1>5, <1>6, <3>1
    <2>2. CASE ~Taken(n, mine, theirs)
      BY <1>3, <1>4, <1>5, <1>6, <2>2
    <2> QED BY <2>1, <2>2
  <1>8. \A n \in DOMAIN theirs : theirs[n].updated <= table[n].updated
    <2> SUFFICES ASSUME NEW n \in DOMAIN theirs PROVE theirs[n].updated <= table[n].updated
      OBVIOUS
    <2>1. CASE Taken(n, mine, theirs)
      BY <1>4, <1>5, <1>6, <2>1 DEF ReceivedAs
    <2>2. CASE ~Taken(n, mine, theirs)
      <3>1. n \in DOMAIN mine /\ table[n] = mine[n] /\ ~(theirs[n].updated > mine[n].updated)
        BY <1>4, <2>2 DEF Taken, Newer
      <3> QED BY <1>3, <1>5, <1>6, <3>1
    <2> QED BY <2>1, <2>2
  <1>9. ASSUME NEW r \in Replica PROVE Forward(r)
    <2>1. CASE r # a
      BY <1>2, <1>5, <1>6, <2>1 DEF Forward
    <2>2. CASE r = a
      BY <1>2, <1>3, <1>4, <1>7, <2>2 DEF Forward
    <2> QED BY <2>1, <2>2
  <1>10. PICK T : T = Tables(rows, proc)
    OBVIOUS
  <1>11. theirs \in T /\ \A r \in Replica : rows[r] \in T
    BY <1>3, <1>10 DEF Tables
  <1>12. ASSUME NEW r \in Replica, NEW m \in DOMAIN rows'[r] PROVE Had(m, rows'[r][m], T)
    <2>1. CASE r # a
      BY <1>2, <1>11, <1>12, <2>1 DEF Had
    <2>2. CASE r = a /\ Taken(m, mine, theirs)
      <3>1. m \in DOMAIN theirs /\ ReceivedAs(rows'[r][m], theirs[m])
        BY <1>2, <1>4, <1>12, <2>2 DEF Taken
      <3> QED BY <1>11, <3>1 DEF Had, ReceivedAs
    <2>3. CASE r = a /\ ~Taken(m, mine, theirs)
      <3>1. m \in DOMAIN mine /\ rows'[r][m] = mine[m]
        BY <1>2, <1>4, <1>12, <2>3
      <3> QED BY <1>3, <1>11, <2>3, <3>1 DEF Had
    <2> QED BY <2>1, <2>2, <2>3
  <1>13. AheadOf(index, rows'[a], edges'[a], ambiguous)
    BY <1>2, <1>3, <1>4, <1>8 DEF AheadOf
  <1>14. Ahead(s, rows', edges', ambiguous') /\ Bringing(s) \in Tables(rows, proc) \cup {<<>>}
    BY <1>13
  <1>15. PICK n0, row0 : n0 = 0 /\ row0 = 0
    OBVIOUS
  <1>16. RowsFrom(n0, row0)
    BY <1>10, <1>12 DEF RowsFrom
  <1>17. ambiguous \subseteq ambiguous' /\ writes \subseteq writes'
    OBVIOUS
  <1> QED BY <1>9, <1>14, <1>16, <1>17, ExchangeMove

LEMMA SyncExchanging ==
  ASSUME Typed, Typed', Exchanging, NEW p \in Proc,
         \/ SyncEdges(p) \/ SyncPush(p) \/ SyncAnswer(p) \/ SyncAnswerEdges(p) \/ SyncPull(p)
  PROVE  Exchanging'
  <1>1. proc[p].at \in SyncLabels /\ ~At(p, "idle") /\ now' = now /\ UNCHANGED <<writes, ambiguous>>
    BY DEF SyncEdges, SyncPush, SyncAnswer, SyncAnswerEdges, SyncPull, At, SyncLabels, Continue, Step, history
  <1>2. /\ Cmd(p).r \in Replica /\ Cmd(p).s \in Replica /\ DOMAIN proc[p] = ProcFields
        /\ Hand(proc[p], now, rows) /\ Cmd(p) = proc[p].cmd /\ Mem(p) = proc[p].mem
    BY <1>1, AtHand DEF Hand, Named, Cmd, Mem
  <1>3. ASSUME NEW label, NEW mem, NEW s, s = Goto(p, label, mem)
        PROVE  s.at = label /\ s.cmd = proc[p].cmd /\ s.mem = mem
    BY <1>2, <1>3 DEF Goto, ProcFields
  <1>4. Bringing(proc[p]) \in Tables(rows, proc) /\ \A r \in Replica : rows[r] \in Tables(rows, proc)
    BY DEF Tables
  <1>5. Ahead(proc[p], rows, edges, ambiguous)
    BY DEF Exchanging
  <1>6. CASE SyncEdges(p)
    <2>1. PICK mem : mem = [rows |-> Mem(p), edges |-> edges[Cmd(p).r]]
      OBVIOUS
    <2>2. PICK s : s = Goto(p, "sync.push", mem)
      OBVIOUS
    <2>3. proc[p].at = "sync.edges" /\ proc' = [proc EXCEPT ![p] = s] /\ UNCHANGED <<rows, edges>>
      BY <1>6, <2>1, <2>2 DEF SyncEdges, Continue, Step, graphVars, At
    <2>4. s.at = "sync.push" /\ s.mem = mem
      BY <1>3, <2>2
    <2>5. mem.rows = Mem(p)
      BY <2>1
    <2>6. Bringing(s) = Bringing(proc[p]) /\ Ahead(s, rows, edges, ambiguous)
      BY <1>2, <2>3, <2>4, <2>5 DEF Bringing, Ahead
    <2>7. Bringing(s) \in Tables(rows, proc) \cup {<<>>}
      BY <1>4, <2>6
    <2> QED BY <1>1, <2>3, <2>6, <2>7, ExchangeQuiet
  <1>7. CASE SyncPush(p)
    <2>1. PICK mem, a : mem = Mem(p) /\ a = Cmd(p).s
      OBVIOUS
    <2>2. PICK s : s = Goto(p, "sync.answer", mem)
      OBVIOUS
    <2>3. proc[p].at = "sync.push" /\ proc' = [proc EXCEPT ![p] = s] /\ Import(a, mem)
      BY <1>7, <2>1, <2>2 DEF SyncPush, Continue, Step, At
    <2>4. s.at = "sync.answer" /\ s.mem = mem /\ s.cmd.s = a
      BY <1>2, <1>3, <2>1, <2>2
    <2>5. TableTyped(mem.rows, now)
      BY <1>2, <2>1, <2>3 DEF Hand, IndexTyped
    <2>6. mem.rows = Bringing(proc[p])
      BY <1>2, <2>1, <2>3 DEF Bringing
    <2>7. Bringing(s) = <<>>
      BY <2>4 DEF Bringing
    <2>8. AheadOf(mem, rows'[a], edges'[a], ambiguous) => Ahead(s, rows', edges', ambiguous)
      BY <2>4 DEF Ahead
    <2>9. a \in Replica /\ mem.rows \in Tables(rows, proc)
      BY <1>2, <1>4, <2>1, <2>6
    <2> QED BY <1>1, <2>3, <2>5, <2>7, <2>8, <2>9, ExchangeImport
  <1>8. CASE SyncAnswer(p)
    <2>1. PICK mem : mem = [sent |-> Mem(p), rows |-> rows[Cmd(p).s]]
      OBVIOUS
    <2>2. PICK s : s = Goto(p, "sync.answer.edges", mem)
      OBVIOUS
    <2>3. proc[p].at = "sync.answer" /\ proc' = [proc EXCEPT ![p] = s] /\ UNCHANGED <<rows, edges>>
      BY <1>8, <2>1, <2>2 DEF SyncAnswer, Continue, Step, graphVars, At
    <2>4. s.at = "sync.answer.edges" /\ s.mem = mem /\ s.cmd = proc[p].cmd
      BY <1>3, <2>2
    <2>5. mem.sent = proc[p].mem /\ mem.rows = rows[Cmd(p).s]
      BY <1>2, <2>1
    <2>6. Bringing(s) = rows[Cmd(p).s] /\ Ahead(s, rows, edges, ambiguous)
      BY <1>5, <2>3, <2>4, <2>5 DEF Bringing, Ahead
    <2>7. Bringing(s) \in Tables(rows, proc) \cup {<<>>}
      BY <1>2, <1>4, <2>6
    <2> QED BY <1>1, <2>3, <2>6, <2>7, ExchangeQuiet
  <1>9. CASE SyncAnswerEdges(p)
    <2>1. PICK got : got = [rows |-> Mem(p).rows, edges |-> edges[Cmd(p).s]]
      OBVIOUS
    <2>2. PICK mem : mem = [sent |-> Mem(p).sent, got |-> got]
      OBVIOUS
    <2>3. PICK s : s = Goto(p, "sync.pull", mem)
      OBVIOUS
    <2>4. proc[p].at = "sync.answer.edges" /\ proc' = [proc EXCEPT ![p] = s] /\ UNCHANGED <<rows, edges>>
      BY <1>9, <2>1, <2>2, <2>3 DEF SyncAnswerEdges, Continue, Step, graphVars, At
    <2>5. s.at = "sync.pull" /\ s.mem = mem /\ s.cmd = proc[p].cmd
      BY <1>3, <2>3
    <2>6. mem.sent = proc[p].mem.sent /\ mem.got.rows = proc[p].mem.rows
      BY <1>2, <2>1, <2>2
    <2>7. Bringing(s) = Bringing(proc[p]) /\ Ahead(s, rows, edges, ambiguous)
      BY <1>5, <2>4, <2>5, <2>6 DEF Bringing, Ahead
    <2>8. Bringing(s) \in Tables(rows, proc) \cup {<<>>}
      BY <1>4, <2>7
    <2> QED BY <1>1, <2>4, <2>7, <2>8, ExchangeQuiet
  <1>10. CASE SyncPull(p)
    <2>1. PICK got, a : got = Mem(p).got /\ a = Cmd(p).r
      OBVIOUS
    <2>2. PICK s : s = Return(p)
      OBVIOUS
    <2>3. proc[p].at = "sync.pull" /\ proc' = [proc EXCEPT ![p] = s] /\ Import(a, got)
      BY <1>10, <2>1, <2>2 DEF SyncPull, Continue, Step, At
    <2>4. s.at \notin SyncLabels
      BY <1>1, <2>2, ReturnAway
    <2>5. TableTyped(got.rows, now)
      BY <1>2, <2>1, <2>3 DEF Hand, IndexTyped
    <2>6. got.rows = Bringing(proc[p])
      BY <1>2, <2>1, <2>3 DEF Bringing
    <2>7. Bringing(s) = <<>> /\ Ahead(s, rows', edges', ambiguous)
      BY <2>4, AwayHand
    <2>8. a \in Replica /\ got.rows \in Tables(rows, proc)
      BY <1>2, <1>4, <2>1, <2>6
    <2> QED BY <1>1, <2>3, <2>5, <2>7, <2>8, ExchangeImport
  <1> QED BY <1>6, <1>7, <1>8, <1>9, <1>10

LEMMA ExchangingInit == Init => Exchanging
  <1> SUFFICES ASSUME Init PROVE Exchanging
    OBVIOUS
  <1>1. PICK s \in Scenarios : todo = s.todo /\ rows = s.rows /\ writes = s.writes
    BY DEF Init
  <1>2. GraphOK(rows, writes)
    BY <1>1, ScenariosAssumption
  <1>3. \A p \in Proc : proc[p] = Idle
    BY DEF Init
  <1>4. Idle.at \notin SyncLabels
    BY DEF Idle, SyncLabels
  <1>5. \A p \in Proc : Ahead(proc[p], rows, edges, ambiguous) /\ Bringing(proc[p]) = <<>>
    BY <1>3, <1>4, AwayHand
  <1>6. ASSUME NEW a \in Tables(rows, proc), NEW n \in DOMAIN a PROVE \E r \in Replica : a = rows[r]
    BY <1>5, <1>6 DEF Tables
  <1>7. ASSUME NEW a \in Tables(rows, proc), NEW n \in DOMAIN a
        PROVE  /\ <<n, a[n].updated>> \in writes
               /\ \A b \in Tables(rows, proc) :
                    n \in DOMAIN b \ ambiguous /\ b[n].updated = a[n].updated => Bare(b[n]) = Bare(a[n])
    <2>1. PICK r \in Replica : a = rows[r]
      BY <1>6, <1>7
    <2>2. n \in DOMAIN rows[r]
      BY <1>7, <2>1
    <2>3. /\ <<n, rows[r][n].updated>> \in writes
          /\ \A q \in Replica : n \in DOMAIN rows[q] /\ rows[q][n].updated = rows[r][n].updated => Bare(rows[q][n]) = Bare(rows[r][n])
      BY <1>2, <2>2 DEF GraphOK
    <2>4. ASSUME NEW b \in Tables(rows, proc), n \in DOMAIN b \ ambiguous, b[n].updated = a[n].updated
          PROVE  Bare(b[n]) = Bare(a[n])
      <3>1. PICK q \in Replica : b = rows[q]
        BY <1>6, <2>4
      <3> QED BY <2>1, <2>3, <2>4, <3>1
    <2> QED BY <2>1, <2>3, <2>4
  <1> QED BY <1>5, <1>7 DEF Exchanging, Agreeing

LEMMA ExchangingNext == Typed /\ Typed' /\ Exchanging /\ [Next]_vars => Exchanging'
  <1> SUFFICES ASSUME Typed, Typed', Exchanging, [Next]_vars PROVE Exchanging'
    OBVIOUS
  <1>1. CASE UNCHANGED vars
    BY <1>1, ExchangeOnly DEF vars, cmdVars, graphVars, history
  <1>2. CASE Commanded
    BY <1>2, CommandedExchanging
  <1>3. CASE Tick /\ UNCHANGED <<graphVars, history>>
    BY <1>3, ExchangeOnly DEF Tick, graphVars, history
  <1>4. CASE Stepped
    BY <1>4, QuietExchanging, PutRowExchanging, SetStateExchanging, SyncExchanging, LinkExchanging DEF Stepped
  <1> QED BY <1>1, <1>2, <1>3, <1>4 DEF Next
-----------------------------------------------------------------------------
(* Only a step of its own moves a session that is about to pull.           *)
LEMMA PullMoves ==
  ASSUME Typed, Next, NEW p \in Proc, At(p, "sync.pull"), proc'[p] # proc[p], deaths' = deaths
  PROVE  SyncPull(p)
  <1> SUFFICES ASSUME ~SyncPull(p) PROVE FALSE
    OBVIOUS
  <1>1. DOMAIN proc = Proc /\ proc[p].at = "sync.pull"
    BY DEF Typed, At
  <1>2. ASSUME NEW q \in Proc, NEW s, proc' = [proc EXCEPT ![q] = s], proc[q].at # "sync.pull" PROVE FALSE
    BY <1>1, <1>2
  <1>3. proc' # proc
    OBVIOUS
  <1>4. ASSUME Commanded PROVE FALSE
    <2>1. PICK q \in Proc, c \in todo :
            \/ Add(q, c) \/ Propose(q, c) \/ Infer(q, c) \/ Accept(q, c) \/ Reject(q, c)
            \/ Rotate(q, c) \/ Sync(q, c)
      BY <1>4 DEF Commanded
    <2>2. \E label, on, mem, rest : Begin(q, c, label, on, mem, rest)
      <3>1. ~Only(q, c)
        BY <1>3 DEF Only
      <3>2. CASE Add(q, c)
        BY <3>2, Zenon DEF Add
      <3>3. CASE Propose(q, c)
        BY <3>3, Zenon DEF Propose
      <3>4. CASE Infer(q, c)
        BY <3>1, <3>4, Zenon DEF Infer
      <3>5. CASE Accept(q, c)
        BY <3>1, <3>5, Zenon DEF Accept
      <3>6. CASE Reject(q, c)
        BY <3>1, <3>6, Zenon DEF Reject
      <3>7. CASE Rotate(q, c)
        BY <3>7, Zenon DEF Rotate
      <3>8. CASE Sync(q, c)
        BY <3>8, Zenon DEF Sync
      <3> QED BY <2>1, <3>2, <3>3, <3>4, <3>5, <3>6, <3>7, <3>8
    <2>3. \E s : proc' = [proc EXCEPT ![q] = s] /\ proc[q].at = "idle"
      BY <2>2, Zenon DEF Begin, Step, At
    <2> QED BY <1>2, <2>3
  <1>5. ASSUME NEW q \in Proc, NEW s, Continue(q, s), proc[q].at # "sync.pull" PROVE FALSE
    <2>1. proc' = [proc EXCEPT ![q] = s]
      BY <1>5 DEF Continue, Step
    <2> QED BY <1>2, <1>5, <2>1
  <1>6. ASSUME NEW q \in Proc,
               \/ PutSeal(q) \/ PutRow(q) \/ SetState(q) \/ WriteProposal(q) \/ ClearProposal(q) \/ LogAccess(q)
               \/ RotateRead(q) \/ RotateKeys(q)
               \/ SyncEdges(q) \/ SyncPush(q) \/ SyncAnswer(q) \/ SyncAnswerEdges(q)
        PROVE  FALSE
    <2>1. proc[q].at # "sync.pull"
      BY <1>6 DEF PutSeal, PutRow, SetState, WriteProposal, ClearProposal, LogAccess, RotateRead, RotateKeys,
                  SyncEdges, SyncPush, SyncAnswer, SyncAnswerEdges, At
    <2>2. \E s : Continue(q, s)
      BY <1>6, Zenon DEF PutSeal, PutRow, SetState, WriteProposal, ClearProposal, LogAccess, RotateRead, RotateKeys,
                  SyncEdges, SyncPush, SyncAnswer, SyncAnswerEdges
    <2> QED BY <1>5, <2>1, <2>2
  <1>7. ASSUME NEW q \in Proc, SyncPull(q) PROVE FALSE
    <2>1. q # p
      BY <1>7
    <2>2. \E s : proc' = [proc EXCEPT ![q] = s]
      BY <1>7, Zenon DEF SyncPull, Continue, Step
    <2> QED BY <1>1, <2>1, <2>2
  <1>8. ASSUME NEW q \in Proc, Die(q) PROVE FALSE
    <2>1. deaths' = deaths + 1 /\ deaths \in 0 .. MaxDeaths /\ MaxDeaths \in Nat
      BY <1>8, CommandsAssumption DEF Die, Typed
    <2> QED BY <2>1
  <1>9. ASSUME NEW q \in Proc, NEW c \in todo, Link(q, c) PROVE FALSE
    BY <1>3, <1>9 DEF Link, Only
  <1>10. ASSUME Tick PROVE FALSE
    BY <1>3, <1>10 DEF Tick
  <1> QED BY <1>4, <1>6, <1>7, <1>8, <1>9, <1>10 DEF Next, Stepped

LEMMA HistoryGrows ==
  ASSUME [Next]_vars
  PROVE  ambiguous \subseteq ambiguous'
  <1>1. CASE UNCHANGED vars
    BY <1>1 DEF vars, history
  <1>2. CASE Commanded \/ (Tick /\ UNCHANGED <<graphVars, history>>)
    BY <1>2 DEF Commanded, history
  <1>3. CASE Stepped
    <2>1. \A r, n, t : Written(r, n, t) => ambiguous \subseteq ambiguous'
      BY DEF Written
    <2>2. ASSUME NEW p \in Proc, PutRow(p) \/ SetState(p) PROVE ambiguous \subseteq ambiguous'
      <3>1. \E r, n, t : Written(r, n, t)
        BY <2>2, Zenon DEF PutRow, SetState
      <3> QED BY <2>1, <3>1
    <2>3. PICK p \in Proc : UNCHANGED history \/ PutRow(p) \/ SetState(p)
      BY <1>3 DEF Stepped, PutSeal, WriteProposal, ClearProposal, LogAccess, RotateRead, RotateKeys,
                  SyncEdges, SyncPush, SyncAnswer, SyncAnswerEdges, SyncPull, Link, history
    <2> QED BY <2>2, <2>3 DEF history
  <1> QED BY <1>1, <1>2, <1>3 DEF Next

(* A pull that imports the index as the other replica has it, into the     *)
(* index that was pushed.                                                  *)
LEMMA PullAgrees ==
  ASSUME Typed, Typed', Exchanging, NEW p \in Proc, SyncPull(p), NEW r, NEW s, r = Cmd(p).r, s = Cmd(p).s, r # s,
         Mem(p).sent = Index(r), Mem(p).got = Index(s)
  PROVE  /\ r \in Replica /\ s \in Replica
         /\ DOMAIN rows'[r] = DOMAIN rows'[s] /\ DOMAIN edges'[r] = DOMAIN edges'[s]
         /\ \A n \in DOMAIN rows'[r] \ ambiguous' : Bare(rows'[r][n]) = Bare(rows'[s][n])
  <1>1. proc[p].at = "sync.pull" /\ ~At(p, "idle") /\ ambiguous' = ambiguous /\ Import(r, Index(s))
    BY DEF SyncPull, At, history
  <1>2. r \in Replica /\ s \in Replica /\ proc[p].cmd.s = s
    BY <1>1, AtHand DEF Hand, Named, Cmd, SyncLabels
  <1>3. PICK a, b, ae, be : a = rows[r] /\ b = rows[s] /\ ae = edges[r] /\ be = edges[s]
    OBVIOUS
  <1>4. Index(r).rows = a /\ Index(r).edges = ae /\ Index(s).rows = b /\ Index(s).edges = be
    BY <1>3 DEF Index
  <1>5. AheadOf(Index(r), b, be, ambiguous)
    BY <1>1, <1>2, <1>3 DEF Exchanging, Ahead, Mem
  <1>6. DOMAIN a \subseteq DOMAIN b /\ DOMAIN ae \subseteq DOMAIN be
        /\ \A n \in DOMAIN a \ ambiguous : a[n].updated <= b[n].updated
    BY <1>4, <1>5 DEF AheadOf
  <1>7. TableTyped(b, now) /\ TableTyped(a, now)
    BY <1>2, <1>3 DEF Typed, TablesTyped
  <1>8. PICK table, es : Imported(r, Index(s), table, es)
    BY <1>1, <1>2, <1>4, <1>7, ImportDoes
  <1>9. rows'[r] = table /\ rows'[s] = b /\ edges'[r] = es /\ edges'[s] = be
    BY <1>2, <1>3, <1>8 DEF Imported, Typed, TablesTyped
  <1>10. DOMAIN table = DOMAIN b /\ DOMAIN es = DOMAIN be
    BY <1>3, <1>4, <1>6, <1>8 DEF Imported
  <1>11. ASSUME NEW n \in DOMAIN b \ ambiguous PROVE Bare(table[n]) = Bare(b[n])
    <2>1. CASE Taken(n, a, b)
      BY <1>3, <1>4, <1>8, <1>10, <2>1 DEF Imported, ReceivedAs
    <2>2. CASE ~Taken(n, a, b)
      <3>1. n \in DOMAIN a /\ table[n] = a[n]
        BY <1>3, <1>4, <1>8, <1>10, <2>2 DEF Imported
      <3>2. ~(b[n].updated > a[n].updated) /\ a[n].updated <= b[n].updated
        BY <1>6, <2>2, <3>1 DEF Taken, Newer
      <3>3. a[n].updated \in 0 .. now /\ b[n].updated \in 0 .. now
        BY <1>7, <3>1 DEF TableTyped, RowOK
      <3>4. a[n].updated = b[n].updated
        BY <3>2, <3>3
      <3>5. a \in Tables(rows, proc) /\ b \in Tables(rows, proc)
        BY <1>2, <1>3 DEF Tables
      <3>6. Bare(a[n]) = Bare(b[n])
        BY <3>1, <3>4, <3>5 DEF Exchanging, Agreeing
      <3> QED BY <3>1, <3>6
    <2> QED BY <2>1, <2>2
  <1> QED BY <1>1, <1>2, <1>9, <1>10, <1>11

LEMMA MetNext ==
  ASSUME Typed, Typed', Exchanging, ExchangedAgree, [Next]_vars
  PROVE  ExchangedAgree'
  <1>1. CASE UNCHANGED vars
    BY <1>1 DEF vars, graphVars, history, ExchangedAgree
  <1>2. CASE Next
    <2> DEFINE Agree(m) == \A r, s \in m :
                 /\ DOMAIN rows'[r] = DOMAIN rows'[s] /\ DOMAIN edges'[r] = DOMAIN edges'[s]
                 /\ Replica = m => \A e \in DOMAIN edges'[r] : {e[1], e[2]} \subseteq DOMAIN rows'[r]
                 /\ \A n \in DOMAIN rows'[r] \ ambiguous' : Bare(rows'[r][n]) = Bare(rows'[s][n])
    <2>1. SUFFICES ASSUME NEW m \in met' PROVE Agree(m)
      BY DEF ExchangedAgree
    <2>2. CASE m \in met /\ \A r \in m : rows'[r] = rows[r] /\ edges'[r] = edges[r]
      <3>1. ambiguous \subseteq ambiguous'
        BY HistoryGrows
      <3>2. \A r, s \in m :
              /\ DOMAIN rows[r] = DOMAIN rows[s] /\ DOMAIN edges[r] = DOMAIN edges[s]
              /\ Replica = m => \A e \in DOMAIN edges[r] : {e[1], e[2]} \subseteq DOMAIN rows[r]
              /\ \A n \in DOMAIN rows[r] \ ambiguous : Bare(rows[r][n]) = Bare(rows[s][n])
        BY <2>2 DEF ExchangedAgree
      <3> QED BY <2>2, <3>1, <3>2
    <2>3. CASE ~(m \in met /\ \A r \in m : rows'[r] = rows[r] /\ edges'[r] = edges[r])
      <3>1. PICK p \in Proc : /\ m = {Cmd(p).r, Cmd(p).s} /\ At(p, "sync.pull") /\ proc'[p] # proc[p] /\ deaths' = deaths
                              /\ Mem(p).sent = Index(Cmd(p).r) /\ Mem(p).got = Index(Cmd(p).s)
        BY <1>2, <2>1, <2>3 DEF Next, Watch
      <3>2. SyncPull(p)
        BY <1>2, <3>1, PullMoves
      <3>3. PICK a, b : a = Cmd(p).r /\ b = Cmd(p).s
        OBVIOUS
      <3>4. a # b => /\ DOMAIN rows'[a] = DOMAIN rows'[b] /\ DOMAIN edges'[a] = DOMAIN edges'[b]
                     /\ \A n \in DOMAIN rows'[a] \ ambiguous' : Bare(rows'[a][n]) = Bare(rows'[b][n])
        BY <3>1, <3>2, <3>3, PullAgrees
      <3>5. \A r, s \in m : /\ DOMAIN rows'[r] = DOMAIN rows'[s] /\ DOMAIN edges'[r] = DOMAIN edges'[s]
                            /\ \A n \in DOMAIN rows'[r] \ ambiguous' : Bare(rows'[r][n]) = Bare(rows'[s][n])
        BY <3>1, <3>3, <3>4
      <3>6. ASSUME Replica = m, NEW r \in m, NEW e \in DOMAIN edges'[r]
            PROVE  {e[1], e[2]} \subseteq DOMAIN rows'[r]
        <4>1. {e[1], e[2]} \subseteq Anywhere(rows')
          BY <3>6 DEF Typed, TablesTyped, Ends
        <4>2. \A s \in Replica : DOMAIN rows'[s] = DOMAIN rows'[r]
          BY <3>5, <3>6
        <4>3. PICK ts : ts = rows'
          OBVIOUS
        <4>4. \A x \in Anywhere(ts) : \E s \in Replica : x \in DOMAIN ts[s]
          BY DEF Anywhere
        <4>5. Anywhere(ts) \subseteq DOMAIN ts[r]
          BY <4>2, <4>3, <4>4
        <4> QED BY <4>1, <4>3, <4>5
      <3> QED BY <3>5, <3>6
    <2> QED BY <2>2, <2>3
  <1> QED BY <1>1, <1>2

(* Replicas that exchanged their indexes as they are have the same edges   *)
(* and the same nodes, of any number of replicas, commands and sessions at *)
(* once, and whatever was killed: unless two writes of a node bear one     *)
(* timestamp, or a write an older one than the row it replaced.            *)
THEOREM GraphexExchangeAgrees == Spec => []ExchangedAgree
  <1>1. Init => Typed /\ Exchanging /\ ExchangedAgree
    <2>1. Init => ExchangedAgree
      BY DEF Init, ExchangedAgree
    <2> QED BY <2>1, TypedInit, ExchangingInit
  <1>2. Typed /\ Exchanging /\ ExchangedAgree /\ [Next]_vars => (Typed /\ Exchanging /\ ExchangedAgree)'
    BY TypedNext, ExchangingNext, MetNext
  <1> QED BY <1>1, <1>2, PTL DEF Spec
=============================================================================
