---------------------------- MODULE Beliefs_proof ----------------------------
(***************************************************************************)
(* For any processes, branches, edits and evidence: a belief has its types *)
(* and tells of a transition once, the commands on it keep what others did *)
(* to it, and what it said of a changeset that was scanned it goes on to   *)
(* say.  First what the folds and the walk along first parents compute:    *)
(* what a scan of a changeset finds is what scans of those before it found *)
(* and no more (HitsWhere).  Then an invariant of four parts: the shape of *)
(* the state, in which every payload is sound and a scan about to write    *)
(* holds all it has found (Shape); a process that is not late holds what   *)
(* follows from what is stored (FreshOK); at most one is about to tell of  *)
(* the status stored, which nobody has told (ToldOK); and the history has  *)
(* every verdict on a changeset that was scanned (SettledOK).              *)
(***************************************************************************)
EXTENDS Beliefs, FiniteSetTheorems, WellFoundedInduction, TLAPS

USE BranchAssumption, SpanAssumption, ChangeAssumption, ScopeAssumption, BoundAssumption

-----------------------------------------------------------------------------
(* Recursive definitions.  What one computes is shown for every input by   *)
(* taking the least for which it would not hold.                           *)

LEMMA NatMin ==
  ASSUME NEW T \in SUBSET Nat, T # {}
  PROVE  \E m \in T : \A k \in T : m <= k
  <1> DEFINE R == OpToRel(<, Nat)
  <1>1. PICK m \in T : \A k \in T : <<k, m>> \notin R
    <2>1. IsWellFoundedOn(R, Nat)   BY NatLessThanWellFounded
    <2> HIDE DEF R
    <2>2. QED                       BY <2>1, WFMin
  <1>2. ASSUME NEW k \in T, k < m PROVE FALSE
    <2>1. <<k, m>> \in R            BY <1>2 DEF OpToRel
    <2>2. QED                       BY <2>1, <1>1
  <1>3. QED                         BY <1>2

LEMMA LeastFails ==
  ASSUME NEW T, \A n \in Nat : (\A k \in 0 .. n - 1 : k \in T) => n \in T
  PROVE  \A n \in Nat : n \in T
  <1> SUFFICES ASSUME Nat \ T # {} PROVE FALSE
    OBVIOUS
  <1>1. PICK m \in Nat \ T : \A k \in Nat \ T : m <= k
    BY NatMin
  <1>2. \A k \in 0 .. m - 1 : k \in T
    BY <1>1
  <1> QED BY <1>1, <1>2

(* The steps of the folds over sequences, and the recursion FoldLeft is    *)
(* defined by: over all sets of positions.                                 *)
Turn(kind, st, h, C) == IF kind = "seen" /\ h.cs \notin C THEN st ELSE Turned(st, h.to)

StepOf(kind, acc, x, C) ==
  CASE kind = "record" -> Record(acc, x)
    [] kind = "scan"   -> ScanOne(acc, x)
    [] OTHER           -> Turn(kind, acc, x, C)

Iterates(f, kind, base, s, n, C) ==
  f = [S \in SUBSET (1 .. n) |-> IF S = {} THEN base ELSE StepOf(kind, f[S \ {Max(S)}], s[Max(S)], C)]

LEMMA IterationGrows ==
  ASSUME NEW kind, NEW base, NEW s, NEW C, NEW m \in Nat, NEW f, Iterates(f, kind, base, s, m, C)
  PROVE  \E g : Iterates(g, kind, base, s, m + 1, C)
  <1> DEFINE g == [S \in SUBSET (1 .. m + 1) |->
                     IF S = {} THEN base
                     ELSE IF m + 1 \in S THEN StepOf(kind, f[S \ {m + 1}], s[m + 1], C) ELSE f[S]]
  <1>1. ASSUME NEW S \in SUBSET (1 .. m), S # {}
        PROVE  f[S] = StepOf(kind, f[S \ {Max(S)}], s[Max(S)], C)
    BY <1>1 DEF Iterates
  <1>2. f[{}] = base
    BY DEF Iterates
  <1>3. ASSUME NEW S \in SUBSET (1 .. m) PROVE g[S] = f[S]
    <2>1. m + 1 \notin S /\ S \in SUBSET (1 .. m + 1)
      OBVIOUS
    <2> QED BY <1>2, <2>1
  <1>4. ASSUME NEW S \in SUBSET (1 .. m + 1), S # {}
        PROVE  g[S] = StepOf(kind, g[S \ {Max(S)}], s[Max(S)], C)
    <2>1. CASE m + 1 \in S
      <3>1. Max(S) = m + 1
        <4>1. \A k \in S : m + 1 >= k
          OBVIOUS
        <4>2. \A k \in S : (\A j \in S : k >= j) => k = m + 1
          BY <2>1
        <4> QED BY <2>1, <4>1, <4>2 DEF Max
      <3>2. S \ {m + 1} \in SUBSET (1 .. m)
        OBVIOUS
      <3>3. g[S] = StepOf(kind, f[S \ {m + 1}], s[m + 1], C)
        BY <1>4, <2>1
      <3> HIDE DEF g
      <3> QED BY <1>3, <3>1, <3>2, <3>3
    <2>2. CASE m + 1 \notin S
      <3>1. S \in SUBSET (1 .. m)
        BY <2>2
      <3>2. S \ {Max(S)} \in SUBSET (1 .. m)
        BY <3>1
      <3> HIDE DEF g
      <3> QED BY <1>1, <1>3, <1>4, <3>1, <3>2
    <2> QED BY <2>1, <2>2
  <1>5. g[{}] = base
    OBVIOUS
  <1>6. g = [S \in SUBSET (1 .. m + 1) |-> g[S]]
    OBVIOUS
  <1> HIDE DEF g
  <1>7. Iterates(g, kind, base, s, m + 1, C)
    <2>1. \A S \in SUBSET (1 .. m + 1) :
            g[S] = IF S = {} THEN base ELSE StepOf(kind, g[S \ {Max(S)}], s[Max(S)], C)
      BY <1>4, <1>5
    <2> QED BY <1>6, <2>1 DEF Iterates
  <1> QED BY <1>7

LEMMA IterationExists ==
  ASSUME NEW kind, NEW base, NEW s, NEW C, NEW n \in Nat
  PROVE  \E f : Iterates(f, kind, base, s, n, C)
  <1> DEFINE T == {m \in Nat : \E f : Iterates(f, kind, base, s, m, C)}
  <1>1. 0 \in T
    <2> DEFINE f == [S \in SUBSET (1 .. 0) |-> base]
    <2>1. \A S \in SUBSET (1 .. 0) : S = {}
      OBVIOUS
    <2>2. Iterates(f, kind, base, s, 0, C)
      BY <2>1 DEF Iterates
    <2> QED BY <2>2
  <1>2. ASSUME NEW m \in Nat, \A k \in 0 .. m - 1 : k \in T PROVE m \in T
    <2>1. CASE m # 0
      <3>1. m - 1 \in T /\ m - 1 \in Nat /\ (m - 1) + 1 = m
        BY <1>2, <2>1
      <3>2. PICK f : Iterates(f, kind, base, s, m - 1, C)
        BY <3>1
      <3>3. \E g : Iterates(g, kind, base, s, (m - 1) + 1, C)
        BY <3>1, <3>2, IterationGrows
      <3> QED BY <3>1, <3>3
    <2> QED BY <1>1, <2>1
  <1> HIDE DEF T
  <1>3. n \in T
    BY <1>2, LeastFails
  <1> QED BY <1>3 DEF T

(* A fold as the values it goes through.                                   *)
Traces(g, kind, base, s, n, C) ==
  /\ g[0] = base
  /\ \A k \in 1 .. n : g[k] = StepOf(kind, g[k - 1], s[k], C)

LEMMA IterationTraces ==
  ASSUME NEW kind, NEW base, NEW s, NEW C, NEW n \in Nat, NEW f, Iterates(f, kind, base, s, n, C)
  PROVE  \E g : Traces(g, kind, base, s, n, C) /\ g[n] = f[1 .. n]
  <1> DEFINE g == [k \in 0 .. n |-> f[1 .. k]]
  <1>1. g[0] = base
    <2>1. 1 .. 0 = {} /\ {} \in SUBSET (1 .. n)
      OBVIOUS
    <2>2. f[{}] = base
      BY <2>1 DEF Iterates
    <2> QED BY <2>1, <2>2
  <1>2. ASSUME NEW k \in 1 .. n PROVE g[k] = StepOf(kind, g[k - 1], s[k], C)
    <2>1. Max(1 .. k) = k
      <3>1. k \in 1 .. k /\ \A j \in 1 .. k : k >= j
        OBVIOUS
      <3>2. \A i \in 1 .. k : (\A j \in 1 .. k : i >= j) => i = k
        OBVIOUS
      <3> QED BY <3>1, <3>2 DEF Max
    <2>2. (1 .. k) \ {k} = 1 .. (k - 1) /\ 1 .. k # {} /\ 1 .. k \in SUBSET (1 .. n)
      OBVIOUS
    <2>3. f[1 .. k] = StepOf(kind, f[(1 .. k) \ {Max(1 .. k)}], s[Max(1 .. k)], C)
      BY <2>2 DEF Iterates
    <2>4. g[k] = f[1 .. k] /\ g[k - 1] = f[1 .. (k - 1)]
      OBVIOUS
    <2> QED BY <2>1, <2>2, <2>3, <2>4
  <1>3. g[n] = f[1 .. n]
    OBVIOUS
  <1> HIDE DEF g
  <1> QED BY <1>1, <1>2, <1>3 DEF Traces

LEMMA RecordTraces ==
  ASSUME NEW base, NEW n \in Nat, NEW s, DOMAIN s = 1 .. n
  PROVE  \E g : Traces(g, "record", base, s, n, {}) /\ FoldLeft(Record, base, s) = g[n]
  <1> DEFINE F(f) == f = [S \in SUBSET (1 .. n) |-> IF S = {} THEN base ELSE Record(f[S \ {Max(S)}], s[Max(S)])]
             h == CHOOSE f : F(f)
  <1>1. FoldLeft(Record, base, s) = h[1 .. n]
    BY DEF FoldLeft, MapThenFoldSet
  <1>2. PICK f : Iterates(f, "record", base, s, n, {})
    BY IterationExists
  <1>3. F(f)
    BY <1>2 DEF Iterates, StepOf
  <1>4. F(h)
    BY <1>3
  <1> HIDE DEF h
  <1>5. Iterates(h, "record", base, s, n, {})
    BY <1>4 DEF Iterates, StepOf
  <1> QED BY <1>1, <1>5, IterationTraces

LEMMA ScanTraces ==
  ASSUME NEW base, NEW n \in Nat, NEW s, DOMAIN s = 1 .. n
  PROVE  \E g : Traces(g, "scan", base, s, n, {}) /\ FoldLeft(ScanOne, base, s) = g[n]
  <1> DEFINE F(f) == f = [S \in SUBSET (1 .. n) |-> IF S = {} THEN base ELSE ScanOne(f[S \ {Max(S)}], s[Max(S)])]
             h == CHOOSE f : F(f)
  <1>1. FoldLeft(ScanOne, base, s) = h[1 .. n]
    BY DEF FoldLeft, MapThenFoldSet
  <1>2. PICK f : Iterates(f, "scan", base, s, n, {})
    BY IterationExists
  <1>3. F(f)
    BY <1>2 DEF Iterates, StepOf
  <1>4. F(h)
    BY <1>3
  <1> HIDE DEF h
  <1>5. Iterates(h, "scan", base, s, n, {})
    BY <1>4 DEF Iterates, StepOf
  <1> QED BY <1>1, <1>5, IterationTraces

LEMMA StatusTraces ==
  ASSUME NEW n \in Nat, NEW s, DOMAIN s = 1 .. n
  PROVE  \E g : Traces(g, "all", "active", s, n, {}) /\ StatusOf(s) = g[n]
  <1> DEFINE F(f) == f = [S \in SUBSET (1 .. n) |-> IF S = {} THEN "active" ELSE Turned(f[S \ {Max(S)}], s[Max(S)].to)]
             h == CHOOSE f : F(f)
  <1>1. StatusOf(s) = h[1 .. n]
    BY DEF StatusOf, FoldLeft, MapThenFoldSet
  <1>2. PICK f : Iterates(f, "all", "active", s, n, {})
    BY IterationExists
  <1>3. F(f)
    BY <1>2 DEF Iterates, StepOf, Turn
  <1>4. F(h)
    BY <1>3
  <1> HIDE DEF h
  <1>5. Iterates(h, "all", "active", s, n, {})
    BY <1>4 DEF Iterates, StepOf, Turn
  <1> QED BY <1>1, <1>5, IterationTraces

LEMMA SeenTraces ==
  ASSUME NEW n \in Nat, NEW s, DOMAIN s = 1 .. n, NEW C
  PROVE  \E g : Traces(g, "seen", "active", s, n, C) /\ SeenFrom(s, C) = g[n]
  <1> DEFINE F(f) == f = [S \in SUBSET (1 .. n) |->
                            IF S = {} THEN "active"
                            ELSE IF s[Max(S)].cs \in C THEN Turned(f[S \ {Max(S)}], s[Max(S)].to) ELSE f[S \ {Max(S)}]]
             h == CHOOSE f : F(f)
  <1>1. SeenFrom(s, C) = h[1 .. n]
    BY DEF SeenFrom, FoldLeft, MapThenFoldSet
  <1>2. PICK f : Iterates(f, "seen", "active", s, n, C)
    BY IterationExists
  <1>3. F(f)
    BY <1>2 DEF Iterates, StepOf, Turn
  <1>4. F(h)
    BY <1>3
  <1> HIDE DEF h
  <1>5. Iterates(h, "seen", "active", s, n, C)
    BY <1>4 DEF Iterates, StepOf, Turn
  <1> QED BY <1>1, <1>5, IterationTraces
-----------------------------------------------------------------------------
LEMMA TraceKeeps ==
  ASSUME NEW g, NEW kind, NEW base, NEW s, NEW n \in Nat, NEW C, Traces(g, kind, base, s, n, C),
         NEW V, base \in V, \A v \in V, k \in 1 .. n : StepOf(kind, v, s[k], C) \in V
  PROVE  \A k \in 0 .. n : g[k] \in V
  <1> DEFINE T == {k \in Nat : k <= n => g[k] \in V}
  <1>1. ASSUME NEW m \in Nat, \A k \in 0 .. m - 1 : k \in T PROVE m \in T
    <2>1. CASE m = 0
      BY <2>1 DEF Traces
    <2>2. CASE m \in 1 .. n
      <3>1. g[m - 1] \in V
        BY <1>1, <2>2
      <3>2. g[m] = StepOf(kind, g[m - 1], s[m], C)
        BY <2>2 DEF Traces
      <3> QED BY <2>2, <3>1, <3>2
    <2> QED BY <2>1, <2>2
  <1> HIDE DEF T
  <1>2. \A k \in Nat : k \in T
    BY <1>1, LeastFails
  <1> QED BY <1>2 DEF T

Agree(s, t, j) == \A i \in 1 .. j : s[i] = t[i]

LEMMA TraceAgrees ==
  ASSUME NEW g, NEW h, NEW kind, NEW base, NEW s, NEW t, NEW n \in Nat, NEW m \in Nat, NEW C,
         Traces(g, kind, base, s, n, C), Traces(h, kind, base, t, m, C),
         NEW j \in Nat, j <= n, j <= m, Agree(s, t, j)
  PROVE  \A k \in 0 .. j : g[k] = h[k]
  <1> DEFINE T == {k \in Nat : k <= j => g[k] = h[k]}
  <1>1. ASSUME NEW i \in Nat, \A k \in 0 .. i - 1 : k \in T PROVE i \in T
    <2>1. CASE i = 0
      BY <2>1 DEF Traces
    <2>2. CASE i \in 1 .. j
      <3>1. g[i - 1] = h[i - 1] /\ s[i] = t[i]
        BY <1>1, <2>2 DEF Agree
      <3>2. g[i] = StepOf(kind, g[i - 1], s[i], C) /\ h[i] = StepOf(kind, h[i - 1], t[i], C)
        BY <2>2 DEF Traces
      <3> QED BY <2>2, <3>1, <3>2
    <2> QED BY <2>1, <2>2
  <1> HIDE DEF T
  <1>2. \A k \in Nat : k \in T
    BY <1>1, LeastFails
  <1> QED BY <1>2 DEF T

(* The status a history gives when one more verdict is recorded.           *)
LEMMA StatusAppend ==
  ASSUME NEW S, NEW h \in Seq(S), NEW x \in S
  PROVE  StatusOf(Append(h, x)) = Turned(StatusOf(h), x.to)
  <1> DEFINE n == Len(h)
             k == Append(h, x)
  <1>1. n \in Nat /\ DOMAIN h = 1 .. n /\ DOMAIN k = 1 .. n + 1 /\ k[n + 1] = x
        /\ \A i \in 1 .. n : h[i] = k[i]
    OBVIOUS
  <1> HIDE DEF n, k
  <1>2. PICK g : Traces(g, "all", "active", h, n, {}) /\ StatusOf(h) = g[n]
    BY <1>1, StatusTraces
  <1>3. PICK e : Traces(e, "all", "active", k, n + 1, {}) /\ StatusOf(k) = e[n + 1]
    BY <1>1, StatusTraces
  <1>4. g[n] = e[n]
    <2>1. n + 1 \in Nat /\ n <= n /\ n <= n + 1 /\ n \in 0 .. n /\ Agree(h, k, n)
      BY <1>1 DEF Agree
    <2>2. \A i \in 0 .. n : g[i] = e[i]
      BY <1>1, <1>2, <1>3, <2>1, TraceAgrees
    <2> QED BY <2>1, <2>2
  <1>5. e[n + 1] = StepOf("all", e[n], x, {})
    BY <1>1, <1>3 DEF Traces
  <1> QED BY <1>2, <1>3, <1>4, <1>5 DEF k, StepOf, Turn

LEMMA StatusEmpty == StatusOf(<<>>) = "active"
  <1>1. DOMAIN <<>> = 1 .. 0
    OBVIOUS
  <1>2. PICK g : Traces(g, "all", "active", <<>>, 0, {}) /\ StatusOf(<<>>) = g[0]
    BY <1>1, StatusTraces
  <1> QED BY <1>2 DEF Traces

LEMMA StatusType ==
  ASSUME NEW h, NEW n \in Nat, DOMAIN h = 1 .. n
  PROVE  StatusOf(h) \in Status
  <1>1. PICK g : Traces(g, "all", "active", h, n, {}) /\ StatusOf(h) = g[n]
    BY StatusTraces
  <1>2. \A v \in Status, k \in 1 .. n : StepOf("all", v, h[k], {}) \in Status
    BY DEF StepOf, Turn, Turned, Status
  <1>3. "active" \in Status
    BY DEF Status
  <1>4. \A k \in 0 .. n : g[k] \in Status
    BY <1>1, <1>2, <1>3, TraceKeeps
  <1> QED BY <1>1, <1>4
-----------------------------------------------------------------------------
(* The inductive invariant.                                                *)
Scans == {"promote", "stale", "rescan", "bisect"}

(* The changesets form a forest in the order they were made.               *)
IsSeq(s) == s \in Seq({s[i] : i \in 1 .. Len(s)})
LogOK ==
  /\ IsSeq(log) /\ Len(log) \in 1 .. MaxChangesets
  /\ \A c \in 1 .. Len(log) : /\ log[c].parent \in 0 .. c - 1
                              /\ log[c].kind \in {"none", "edit", "drop", "make"}
                              /\ log[c].ops \subseteq LineOp /\ IsFiniteSet(log[c].ops)

(* A payload: the status is the one its history gives, and the history     *)
(* speaks of the anchor.                                                   *)
Sound(d) ==
  /\ d \in Belief /\ d.status = StatusOf(d.history)
  /\ d.anchor # 0 => \E i \in 1 .. Len(d.history) : d.history[i].cs = d.anchor

(* What a process can be at, and with what command.                        *)
At(r) ==
  CASE r.pc = "idle"  -> TRUE
    [] r.pc \in {"list", "tell"} -> r.cmd \in {"promote", "stale"}
    [] r.pc = "read"  -> r.cmd \in Scans
    [] r.pc = "anew"  -> r.cmd = "reaffirm"
    [] r.pc = "save"  -> r.cmd \in Scans \cup {"reaffirm"}
    [] r.pc = "put"   -> r.cmd \in Scans \cup {"add", "propose", "reaffirm", "accept"}
    [] r.pc = "side"  -> r.cmd = "propose"
    [] r.pc = "clear" -> r.cmd \in {"accept", "reject"}

(* The verdicts of a scan.  One that a process has yet to write is         *)
(* complete.                                                               *)
Hits(d, c) == ToSet(Scan(d, c))
Complete(d, c) == d.anchor \in Ancestors(c) /\ Hits(d, c) \subseteq ToSet(d.history)

(* What a process is doing.                                                *)
Pcs      == {"idle", "list", "read", "tell", "anew", "save", "put", "side", "clear"}
Cmds     == {"none", "promote", "stale", "rescan", "bisect", "add", "propose",
             "reaffirm", "accept", "reject"}
Tips     == 0 .. MaxChangesets
ProcType == [pc : Pcs, cmd : Cmds, tip : Tips, from : Status, node : Node]
Holds(r) ==
  /\ r \in ProcType /\ Sound(r.node.data) /\ At(r)
  /\ r.pc = "put" /\ r.cmd = "propose" => r.node.state = "proposed"
  /\ r.cmd \notin {"none", "accept", "reject"} => r.tip \in 1 .. Len(log)
  /\ r.pc \in {"save", "put"} /\ r.cmd \in Scans => Complete(r.node.data, r.tip)

(* The first part: what TypeOK says, and what its parts rest on.           *)
TreeOK   == LogOK /\ \A c \in 2 .. Len(log) : log[c].parent \in 1 .. c - 1 /\ Fits(log[c].ops, Len(log[log[c].parent].lines))
RefsOK   == tip \in [Branches -> 0 .. Len(log)] /\ head \in Branches /\ tip[head] # 0
StoredOK == node \in Node /\ Sound(node.data) /\ proposal \in BOOLEAN /\ left \in 0 .. MaxCommands
RunningOK == proc \in [Procs -> ProcType] /\ \A p \in Procs : Holds(proc[p])
RuledOK  == /\ scanned \in 0 .. MaxChangesets /\ settled \subseteq 1 .. Len(log)
            /\ told \in [{"stale", "invalidated"} -> Nat]
WatchedOK == late \subseteq Procs \X {"status", "data", "state"} /\ crossed \in BOOLEAN
Shape == TreeOK /\ RefsOK /\ StoredOK /\ RunningOK /\ RuledOK /\ WatchedOK

(* The histories that go on from h with members of H that h does not have. *)
Longer(h, k, H) ==
  /\ Len(h) <= Len(k) /\ \A i \in 1 .. Len(h) : k[i] = h[i]
  /\ \A i \in Len(h) + 1 .. Len(k) : k[i] \in H \ ToSet(h)

(* A scan only makes a verdict worse.                                      *)
Goes(st, to) ==
  to = st \/ to = "invalidated" \/ (to = "stale" /\ st # "invalidated")

Grown(d, e, c) ==
  /\ e.anchor = d.anchor /\ e.span = d.span
  /\ Longer(d.history, e.history, Hits(d, c)) /\ Goes(d.status, e.status)

(* What a process holds that is not late follows from what is stored.      *)
FreshData(r) ==
  LET d == node.data
      e == r.node.data
  IN  /\ r.pc \in {"save", "put"} /\ r.cmd \in Scans => Grown(d, e, r.tip)
      /\ r.pc \in {"save", "put"} /\ r.cmd = "reaffirm" =>
           e.anchor = r.tip /\ Longer(d.history, e.history, {Entry(r.tip, "reaffirmed")})
      /\ r.pc = "put" /\ r.cmd = "accept" => e = d
      /\ r.pc = "tell" => e = d
FreshState(r) ==
  r.pc = "put" /\ r.cmd \in Scans \cup {"reaffirm"} => r.node.state = node.state
FreshStatus(r) ==
  r.pc \in {"read", "save", "put"} /\ r.cmd \in {"promote", "stale"} => r.from = node.data.status
UpToDate(p) ==
  /\ <<p, "data">> \notin late => FreshData(proc[p])
  /\ <<p, "state">> \notin late => FreshState(proc[p])
  /\ <<p, "status">> \notin late => FreshStatus(proc[p])
FreshOK == \A p \in Procs : UpToDate(p)

(* Who is about to tell of the status the node has: at most one process,   *)
(* of a status that has not been told.                                     *)
Teller(p) ==
  /\ proc[p].pc = "tell" /\ proc[p].from # node.data.status
  /\ <<p, "data">> \notin late /\ <<p, "status">> \notin late
ToldOK ==
  ~crossed =>
    /\ \A k \in {"stale", "invalidated"} : told[k] <= 1
    /\ told["stale"] = 1 => node.data.status \in {"stale", "invalidated"}
    /\ told["invalidated"] = 1 => node.data.status = "invalidated"
    /\ \A p \in Procs : Teller(p) /\ node.data.status \in {"stale", "invalidated"}
                        => told[node.data.status] = 0
    /\ \A p, q \in Procs : Teller(p) /\ Teller(q) => p = q

SettledOK ==
  ~crossed => \A c \in settled : node.data.anchor \in Ancestors(c)
                                 => Hits(node.data, c) \subseteq ToSet(node.data.history)
-----------------------------------------------------------------------------
(* The changesets between an anchor and a changeset.                       *)
Walks(f, a, n) == f = [d \in 0 .. n |-> IF d \in {0, a} THEN <<>> ELSE Append(f[log[d].parent], d)]

LEMMA WalkGrows ==
  ASSUME LogOK, NEW a, NEW m \in Nat, m + 1 <= Len(log), NEW f, Walks(f, a, m)
  PROVE  \E g : Walks(g, a, m + 1)
  <1> DEFINE g == [d \in 0 .. m + 1 |-> IF d \in {0, a} THEN <<>> ELSE Append(f[log[d].parent], d)]
  <1>1. ASSUME NEW d \in 0 .. m PROVE g[d] = f[d]
    <2>1. f[d] = IF d \in {0, a} THEN <<>> ELSE Append(f[log[d].parent], d)
      BY DEF Walks
    <2>2. d \in 0 .. m + 1
      OBVIOUS
    <2> QED BY <2>1, <2>2
  <1>2. ASSUME NEW d \in 0 .. m + 1, d # 0 PROVE g[log[d].parent] = f[log[d].parent]
    <2>1. log[d].parent \in 0 .. m
      BY <1>2 DEF LogOK
    <2> QED BY <1>1, <2>1
  <1>3. \A d \in 0 .. m + 1 : g[d] = IF d \in {0, a} THEN <<>> ELSE Append(g[log[d].parent], d)
    <2>1. \A d \in 0 .. m + 1 : g[d] = IF d \in {0, a} THEN <<>> ELSE Append(f[log[d].parent], d)
      OBVIOUS
    <2> HIDE DEF g
    <2> QED BY <1>2, <2>1
  <1>4. g = [d \in 0 .. m + 1 |-> g[d]]
    OBVIOUS
  <1> HIDE DEF g
  <1>5. Walks(g, a, m + 1)
    BY <1>3, <1>4 DEF Walks
  <1> QED BY <1>5

LEMMA WalkExists ==
  ASSUME LogOK, NEW a, NEW n \in 0 .. Len(log)
  PROVE  \E f : Walks(f, a, n)
  <1> DEFINE T == {m \in Nat : m <= Len(log) => \E f : Walks(f, a, m)}
  <1>0. Len(log) \in Nat
    BY DEF LogOK
  <1>1. 0 \in T
    <2> DEFINE f == [d \in 0 .. 0 |-> <<>>]
    <2>1. Walks(f, a, 0)
      BY DEF Walks
    <2> QED BY <2>1
  <1>2. ASSUME NEW m \in Nat, \A k \in 0 .. m - 1 : k \in T PROVE m \in T
    <2> SUFFICES ASSUME m # 0, m <= Len(log) PROVE \E f : Walks(f, a, m)
      BY <1>1
    <2>1. m - 1 \in T /\ m - 1 \in Nat /\ (m - 1) + 1 = m /\ m - 1 <= Len(log)
      BY <1>0, <1>2
    <2>2. PICK f : Walks(f, a, m - 1)
      BY <2>1
    <2>3. \E g : Walks(g, a, (m - 1) + 1)
      BY <2>1, <2>2, WalkGrows
    <2> QED BY <2>1, <2>3
  <1> HIDE DEF T
  <1>3. n \in Nat /\ n \in T /\ n <= Len(log)
    BY <1>0, <1>2, LeastFails
  <1> QED BY <1>3 DEF T

LEMMA ChainEq ==
  LogOK => \A a : \A c \in 0 .. Len(log) :
             ChainAfter(a, c) = IF c \in {0, a} THEN <<>> ELSE Append(ChainAfter(a, log[c].parent), c)
  <1> SUFFICES ASSUME LogOK, NEW a, NEW c \in 0 .. Len(log)
               PROVE  ChainAfter(a, c) = IF c \in {0, a} THEN <<>> ELSE Append(ChainAfter(a, log[c].parent), c)
    OBVIOUS
  <1> DEFINE n == Len(log)
             f == CHOOSE f : Walks(f, a, n)
  <1>1. n \in Nat /\ n \in 0 .. Len(log)
    BY DEF LogOK
  <1>2. Walks(f, a, n)
    BY <1>1, WalkExists
  <1>3. \A d : ChainAfter(a, d) = f[d]
    BY DEF ChainAfter, Walks
  <1>4. f[c] = IF c \in {0, a} THEN <<>> ELSE Append(f[log[c].parent], c)
    <2> HIDE DEF f
    <2> QED BY <1>1, <1>2 DEF Walks
  <1> HIDE DEF f
  <1> QED BY <1>3, <1>4

LEMMA SeqWider ==
  ASSUME NEW S, NEW T, S \subseteq T, NEW s \in Seq(S)
  PROVE  s \in Seq(T)
  OBVIOUS

LEMMA ChainType ==
  ASSUME LogOK, NEW a, NEW c \in 0 .. Len(log)
  PROVE  ChainAfter(a, c) \in Seq(1 .. c)
  <1> DEFINE T == {x \in Nat : x <= Len(log) => ChainAfter(a, x) \in Seq(1 .. x)}
  <1>1. ASSUME NEW x \in Nat, \A k \in 0 .. x - 1 : k \in T PROVE x \in T
    <2> SUFFICES ASSUME x <= Len(log) PROVE ChainAfter(a, x) \in Seq(1 .. x)
      OBVIOUS
    <2>1. x \in 0 .. Len(log)
      BY DEF LogOK
    <2>2. CASE x \in {0, a}
      <3>1. ChainAfter(a, x) = <<>>
        BY <2>1, <2>2, ChainEq
      <3> QED BY <3>1
    <2>3. CASE x \notin {0, a}
      <3> DEFINE p == log[x].parent
      <3>1. p \in 0 .. x - 1
        BY <2>1, <2>3 DEF LogOK
      <3>2. ChainAfter(a, p) \in Seq(1 .. p)
        BY <1>1, <3>1, <2>1 DEF LogOK
      <3>3. ChainAfter(a, x) = Append(ChainAfter(a, p), x)
        BY <2>1, <2>3, ChainEq
      <3> HIDE DEF p
      <3>4. ChainAfter(a, p) \in Seq(1 .. x)
        BY <3>1, <3>2, SeqWider
      <3>5. x \in 1 .. x
        BY <2>3
      <3> QED BY <3>3, <3>4, <3>5
    <2> QED BY <2>2, <2>3
  <1> HIDE DEF T
  <1>2. c \in Nat /\ c <= Len(log)
    BY DEF LogOK
  <1>3. c \in T
    BY <1>1, <1>2, LeastFails
  <1> QED BY <1>2, <1>3 DEF T

(* The same as a set.                                                      *)
On(a, c) == ToSet(ChainAfter(a, c))

LEMMA AppendSet ==
  ASSUME NEW S, NEW s \in Seq(S), NEW x
  PROVE  ToSet(Append(s, x)) = ToSet(s) \cup {x}
  <1> DEFINE n == Len(s)
             k == Append(s, x)
  <1>1. n \in Nat /\ DOMAIN s = 1 .. n /\ DOMAIN k = 1 .. n + 1 /\ k[n + 1] = x
        /\ \A i \in 1 .. n : k[i] = s[i]
    OBVIOUS
  <1> HIDE DEF n, k
  <1>2. \A i \in 1 .. n + 1 : i = n + 1 \/ i \in 1 .. n
    BY <1>1
  <1>3. ToSet(k) \subseteq ToSet(s) \cup {x}
    BY <1>1, <1>2 DEF ToSet
  <1>4. ToSet(s) \cup {x} \subseteq ToSet(k)
    <2>1. x \in ToSet(k)
      <3>1. n + 1 \in 1 .. n + 1
        BY <1>1
      <3> QED BY <1>1, <3>1 DEF ToSet
    <2>2. ASSUME NEW i \in 1 .. n PROVE s[i] \in ToSet(k)
      <3>1. i \in 1 .. n + 1
        BY <1>1
      <3> QED BY <1>1, <3>1 DEF ToSet
    <2> QED BY <1>1, <2>1, <2>2 DEF ToSet
  <1> QED BY <1>3, <1>4 DEF k

LEMMA OnEq ==
  ASSUME LogOK, NEW a, NEW c \in 0 .. Len(log)
  PROVE  On(a, c) = IF c \in {0, a} THEN {} ELSE On(a, log[c].parent) \cup {c}
  <1>1. CASE c \in {0, a}
    <2>1. ChainAfter(a, c) = <<>>
      BY <1>1, ChainEq
    <2> QED BY <1>1, <2>1 DEF On, ToSet
  <1>2. CASE c \notin {0, a}
    <2>1. log[c].parent \in 0 .. Len(log)
      BY <1>2 DEF LogOK
    <2>2. ChainAfter(a, c) = Append(ChainAfter(a, log[c].parent), c)
      BY <1>2, ChainEq
    <2>3. ChainAfter(a, log[c].parent) \in Seq(1 .. log[c].parent)
      BY <2>1, ChainType
    <2> QED BY <1>2, <2>2, <2>3, AppendSet DEF On
  <1> QED BY <1>1, <1>2

LEMMA OnType ==
  ASSUME LogOK, NEW a, NEW c \in 0 .. Len(log)
  PROVE  On(a, c) \subseteq 1 .. c
  BY ChainType DEF On, ToSet

LEMMA AncestorsOn == \A c : Ancestors(c) = On(0, c)
  BY DEF Ancestors, On

LEMMA AncestorsIn ==
  ASSUME LogOK, NEW c \in 1 .. Len(log)
  PROVE  c \in Ancestors(c)
  BY OnEq, AncestorsOn DEF LogOK

LEMMA AncestorsOlder ==
  ASSUME LogOK, NEW c \in 0 .. Len(log)
  PROVE  Ancestors(c) \subseteq 1 .. c
  BY OnType, AncestorsOn

LEMMA AncestorsClosed ==
  ASSUME LogOK, NEW c \in 0 .. Len(log), NEW x \in Ancestors(c)
  PROVE  Ancestors(x) \subseteq Ancestors(c)
  <1> DEFINE T == {y \in Nat : y <= Len(log) => (x \in Ancestors(y) => Ancestors(x) \subseteq Ancestors(y))}
  <1>1. ASSUME NEW y \in Nat, \A k \in 0 .. y - 1 : k \in T PROVE y \in T
    <2> SUFFICES ASSUME y <= Len(log), x \in Ancestors(y), x # y PROVE Ancestors(x) \subseteq Ancestors(y)
      OBVIOUS
    <2>1. y \in 0 .. Len(log) /\ y # 0
      BY AncestorsOlder DEF LogOK
    <2>2. Ancestors(y) = Ancestors(log[y].parent) \cup {y}
      BY <2>1, OnEq, AncestorsOn
    <2>3. log[y].parent \in 0 .. y - 1
      BY <2>1 DEF LogOK
    <2>4. log[y].parent \in T /\ log[y].parent \in Nat /\ log[y].parent <= Len(log)
      BY <1>1, <2>1, <2>3
    <2> QED BY <2>2, <2>4
  <1> HIDE DEF T
  <1>2. c \in Nat /\ c <= Len(log)
    BY DEF LogOK
  <1>3. c \in T
    BY <1>1, <1>2, LeastFails
  <1> QED BY <1>2, <1>3 DEF T

(* Between an anchor and a changeset lie the ancestors of the one that the *)
(* other is an ancestor of.                                                *)
LEMMA Between ==
  ASSUME LogOK, NEW c \in 0 .. Len(log), NEW a \in Ancestors(c), NEW x
  PROVE  x \in On(a, c) <=> x \in Ancestors(c) /\ a \in Ancestors(x) /\ x # a
  <1> DEFINE T == {y \in Nat : y <= Len(log) => (a \in Ancestors(y) =>
                                (x \in On(a, y) <=> x \in Ancestors(y) /\ a \in Ancestors(x) /\ x # a))}
  <1>1. ASSUME NEW y \in Nat, \A k \in 0 .. y - 1 : k \in T PROVE y \in T
    <2> SUFFICES ASSUME y <= Len(log), a \in Ancestors(y)
                 PROVE  x \in On(a, y) <=> x \in Ancestors(y) /\ a \in Ancestors(x) /\ x # a
      OBVIOUS
    <2>1. y \in 0 .. Len(log) /\ y # 0 /\ a \in 1 .. y
      BY AncestorsOlder DEF LogOK
    <2>2. Ancestors(y) = Ancestors(log[y].parent) \cup {y}
      BY <2>1, OnEq, AncestorsOn
    <2>3. CASE y = a
      <3>1. On(a, y) = {}
        BY <2>1, <2>3, OnEq
      <3>2. ASSUME x \in Ancestors(y), a \in Ancestors(x) PROVE x = a
        <4>1. x \in 1 .. y
          BY <2>1, <3>2, AncestorsOlder
        <4>2. a \in 1 .. x
          BY <2>1, <3>2, <4>1, AncestorsOlder
        <4> QED BY <2>1, <2>3, <4>1, <4>2
      <3> QED BY <3>1, <3>2
    <2>4. CASE y # a
      <3> DEFINE q == log[y].parent
      <3>1. q \in 0 .. y - 1
        BY <2>1 DEF LogOK
      <3>2. On(a, y) = On(a, q) \cup {y}
        BY <2>1, <2>4, OnEq
      <3>3. a \in Ancestors(q)
        BY <2>2, <2>4
      <3>4. q \in T /\ q \in Nat /\ q <= Len(log)
        BY <1>1, <2>1, <3>1
      <3> HIDE DEF q
      <3>5. x \in On(a, q) <=> x \in Ancestors(q) /\ a \in Ancestors(x) /\ x # a
        BY <3>3, <3>4
      <3>6. Ancestors(y) = Ancestors(q) \cup {y}
        BY <2>2 DEF q
      <3> QED BY <2>4, <3>2, <3>5, <3>6
    <2> QED BY <2>3, <2>4
  <1> HIDE DEF T
  <1>2. c \in Nat /\ c <= Len(log)
    BY DEF LogOK
  <1>3. c \in T
    BY <1>1, <1>2, LeastFails
  <1> QED BY <1>2, <1>3 DEF T

-----------------------------------------------------------------------------
(* What one changeset makes of a span.                                     *)
Small(A, k) == {S \in SUBSET A : Cardinality(S) <= k}
Sums(f, A, k) ==
  f = [S \in Small(A, k) |->
         IF S = {} THEN 0
         ELSE ((CHOOSE o \in S : TRUE).new - (CHOOSE o \in S : TRUE).old) + f[S \ {CHOOSE o \in S : TRUE}]]

LEMMA SumGrows ==
  ASSUME NEW A \in SUBSET LineOp, IsFiniteSet(A), NEW k \in Nat, NEW f, Sums(f, A, k)
  PROVE  \E g : Sums(g, A, k + 1)
  <1> DEFINE x(S) == CHOOSE o \in S : TRUE
             g == [S \in Small(A, k + 1) |-> IF S = {} THEN 0 ELSE (x(S).new - x(S).old) + f[S \ {x(S)}]]
  <1>1. ASSUME NEW S \in Small(A, k + 1), S # {} PROVE S \ {x(S)} \in Small(A, k)
    <2>1. x(S) \in S /\ S \in SUBSET A /\ Cardinality(S) <= k + 1
      BY <1>1 DEF Small
    <2>2. IsFiniteSet(S)
      BY <2>1, FS_Subset
    <2>3. Cardinality(S \ {x(S)}) = Cardinality(S) - 1 /\ Cardinality(S) \in Nat
      BY <2>1, <2>2, FS_RemoveElement, FS_CardinalityType
    <2> HIDE DEF x
    <2> QED BY <2>1, <2>3 DEF Small
  <1>2. Small(A, k) \subseteq Small(A, k + 1)
    <2> SUFFICES ASSUME NEW S \in SUBSET A, Cardinality(S) <= k PROVE Cardinality(S) <= k + 1
      BY DEF Small
    <2>1. Cardinality(S) \in Nat
      BY FS_Subset, FS_CardinalityType
    <2> QED BY <2>1
  <1> HIDE DEF x
  <1>3. ASSUME NEW S \in Small(A, k) PROVE g[S] = f[S]
    <2>1. f[S] = IF S = {} THEN 0 ELSE (x(S).new - x(S).old) + f[S \ {x(S)}]
      BY DEF Sums, x
    <2> QED BY <1>2, <2>1
  <1>4. ASSUME NEW S \in Small(A, k + 1)
        PROVE  g[S] = IF S = {} THEN 0 ELSE (x(S).new - x(S).old) + g[S \ {x(S)}]
    <2>1. g[S] = IF S = {} THEN 0 ELSE (x(S).new - x(S).old) + f[S \ {x(S)}]
      OBVIOUS
    <2> HIDE DEF g
    <2> QED BY <1>1, <1>3, <2>1
  <1>5. g = [S \in Small(A, k + 1) |-> g[S]]
    OBVIOUS
  <1> HIDE DEF g
  <1>6. Sums(g, A, k + 1)
    BY <1>4, <1>5 DEF Sums, x
  <1> QED BY <1>6

LEMMA SumInt ==
  ASSUME NEW A \in SUBSET LineOp, IsFiniteSet(A), NEW f,
         Sums(f, A, Cardinality(A))
  PROVE  f[A] \in Int
  <1> DEFINE n == Cardinality(A)
             T == {k \in Nat : \A S \in Small(A, n) : Cardinality(S) = k => f[S] \in Int}
  <1>1. ASSUME NEW k \in Nat, \A j \in 0 .. k - 1 : j \in T, NEW S \in Small(A, n), Cardinality(S) = k
        PROVE  f[S] \in Int
    <2>1. f[S] = IF S = {} THEN 0
                 ELSE ((CHOOSE o \in S : TRUE).new - (CHOOSE o \in S : TRUE).old) + f[S \ {CHOOSE o \in S : TRUE}]
      BY DEF Sums
    <2> SUFFICES ASSUME S # {} PROVE f[S] \in Int
      BY <2>1
    <2>2. PICK o \in S : o = (CHOOSE x \in S : TRUE)
      OBVIOUS
    <2>3. f[S] = (o.new - o.old) + f[S \ {o}]
      BY <2>1, <2>2
    <2>4. S \in SUBSET A /\ IsFiniteSet(S) /\ n \in Nat
      BY FS_Subset, FS_CardinalityType DEF Small
    <2>5. Cardinality(S \ {o}) = k - 1 /\ k - 1 \in Nat
      <3>1. IsFiniteSet(S \ {o}) /\ Cardinality(S \ {o}) = Cardinality(S) - 1
        BY <2>4, FS_RemoveElement
      <3>2. Cardinality(S \ {o}) \in Nat
        BY <3>1, FS_CardinalityType
      <3> QED BY <1>1, <3>1, <3>2
    <2>6. S \ {o} \in Small(A, n)
      BY <1>1, <2>4, <2>5 DEF Small
    <2>7. f[S \ {o}] \in Int
      BY <1>1, <2>5, <2>6
    <2>8. o.new \in Int /\ o.old \in Int
      BY <2>4 DEF LineOp
    <2> QED BY <2>3, <2>7, <2>8
  <1>2. ASSUME NEW k \in Nat, \A j \in 0 .. k - 1 : j \in T PROVE k \in T
    BY <1>1, <1>2
  <1>3. n \in Nat /\ A \in Small(A, n)
    BY FS_CardinalityType DEF Small
  <1>4. n \in T
    <2> HIDE DEF T, n
    <2> QED BY <1>2, <1>3, LeastFails
  <1> QED BY <1>3, <1>4

LEMMA SumType ==
  ASSUME NEW A \in SUBSET LineOp, IsFiniteSet(A)
  PROVE  MapThenSumSet(LAMBDA o : o.new - o.old, A) \in Int
  <1> DEFINE n == Cardinality(A)
             T == {k \in Nat : \E f : Sums(f, A, k)}
             F(f) == f = [S \in SUBSET A |->
                            IF S = {} THEN 0
                            ELSE ((CHOOSE o \in S : TRUE).new - (CHOOSE o \in S : TRUE).old) + f[S \ {CHOOSE o \in S : TRUE}]]
             h == CHOOSE f : F(f)
  <1>1. 0 \in T
    <2> DEFINE f == [S \in Small(A, 0) |-> 0]
    <2>1. ASSUME NEW S \in Small(A, 0) PROVE S = {}
      <3>1. IsFiniteSet(S) /\ Cardinality(S) \in Nat /\ Cardinality(S) <= 0
        BY FS_Subset, FS_CardinalityType DEF Small
      <3> QED BY <3>1, FS_EmptySet
    <2>2. Sums(f, A, 0)
      BY <2>1 DEF Sums
    <2> QED BY <2>2
  <1>2. ASSUME NEW k \in Nat, \A j \in 0 .. k - 1 : j \in T PROVE k \in T
    <2> SUFFICES ASSUME k # 0 PROVE k \in T
      BY <1>1
    <2>1. k - 1 \in T /\ k - 1 \in Nat /\ (k - 1) + 1 = k
      BY <1>2
    <2>2. PICK f : Sums(f, A, k - 1)
      BY <2>1
    <2>3. \E g : Sums(g, A, (k - 1) + 1)
      BY <2>1, <2>2, SumGrows
    <2> QED BY <2>1, <2>3
  <1>3. n \in Nat
    BY FS_CardinalityType
  <1>4. n \in T
    <2> HIDE DEF T, n
    <2> QED BY <1>2, <1>3, LeastFails
  <1>5. PICK f : Sums(f, A, n)
    BY <1>4
  <1>6. Small(A, n) = SUBSET A
    <2>1. \A S \in SUBSET A : Cardinality(S) <= n
      BY FS_Subset
    <2> QED BY <2>1 DEF Small
  <1>7. F(f)
    BY <1>5, <1>6 DEF Sums
  <1>8. F(h)
    <2> HIDE DEF F
    <2> QED BY <1>7
  <1>9. MapThenSumSet(LAMBDA o : o.new - o.old, A) = h[A]
    BY DEF MapThenSumSet, MapThenFoldSet
  <1> HIDE DEF h
  <1>10. Sums(h, A, n)
    BY <1>6, <1>8 DEF Sums
  <1> QED BY <1>9, <1>10, SumInt

LEMMA DriftedType ==
  ASSUME NEW ops \in SUBSET LineOp, IsFiniteSet(ops), NEW s \in Nat \X Nat
  PROVE  Drifted(ops, s) \in Nat \X Nat
  <1> DEFINE A == {o \in ops : IsAbove(o, s)}
             d == MapThenSumSet(LAMBDA o : o.new - o.old, A)
  <1>1. A \in SUBSET LineOp /\ IsFiniteSet(A)
    <2>1. A \in SUBSET ops
      OBVIOUS
    <2> QED BY <2>1, FS_Subset
  <1>2. d \in Int
    <2> HIDE DEF A
    <2> QED BY <1>1, SumType
  <1>3. Drifted(ops, s) = <<IF s[1] + d < 1 THEN 1 ELSE s[1] + d, IF s[2] + d < 1 THEN 1 ELSE s[2] + d>>
    BY DEF Drifted
  <1> HIDE DEF d
  <1> QED BY <1>2, <1>3

Verdicts == {"stale", "invalidated"}

LEMMA RulingType ==
  ASSUME LogOK, NEW c \in 1 .. Len(log), NEW s \in Nat \X Nat
  PROVE  Ruling(c, s).span \in Nat \X Nat /\ Ruling(c, s).to \in Verdicts \cup {"none"}
  <1>1. log[c].kind \in {"none", "edit", "drop", "make"} /\ Drifted(log[c].ops, s) \in Nat \X Nat
    BY DriftedType DEF LogOK
  <1>2. Gone \in Nat \X Nat
    BY DEF Gone
  <1> HIDE DEF Gone
  <1> QED BY <1>1, <1>2 DEF Ruling, Verdicts

(* A scan, one changeset after the other.                                  *)
From(d) == [span |-> d.span, hits |-> <<>>]
Acc(d, c) == FoldLeft(ScanOne, From(d), ChainAfter(d.anchor, c))

LEMMA ScanAppend ==
  ASSUME NEW S, NEW s \in Seq(S), NEW x \in S, NEW base
  PROVE  FoldLeft(ScanOne, base, Append(s, x)) = ScanOne(FoldLeft(ScanOne, base, s), x)
  <1> DEFINE n == Len(s)
             k == Append(s, x)
  <1>1. n \in Nat /\ DOMAIN s = 1 .. n /\ DOMAIN k = 1 .. n + 1 /\ k[n + 1] = x
        /\ \A i \in 1 .. n : s[i] = k[i]
    OBVIOUS
  <1> HIDE DEF n, k
  <1>2. PICK g : Traces(g, "scan", base, s, n, {}) /\ FoldLeft(ScanOne, base, s) = g[n]
    BY <1>1, ScanTraces
  <1>3. PICK e : Traces(e, "scan", base, k, n + 1, {}) /\ FoldLeft(ScanOne, base, k) = e[n + 1]
    BY <1>1, ScanTraces
  <1>4. g[n] = e[n]
    <2>1. n + 1 \in Nat /\ n <= n /\ n <= n + 1 /\ n \in 0 .. n /\ Agree(s, k, n)
      BY <1>1 DEF Agree
    <2>2. \A i \in 0 .. n : g[i] = e[i]
      BY <1>1, <1>2, <1>3, <2>1, TraceAgrees
    <2> QED BY <2>1, <2>2
  <1>5. e[n + 1] = StepOf("scan", e[n], x, {})
    BY <1>1, <1>3 DEF Traces
  <1> QED BY <1>2, <1>3, <1>4, <1>5 DEF k, StepOf

LEMMA ScanEmpty ==
  ASSUME NEW base
  PROVE  FoldLeft(ScanOne, base, <<>>) = base
  <1>1. DOMAIN <<>> = 1 .. 0
    OBVIOUS
  <1>2. PICK g : Traces(g, "scan", base, <<>>, 0, {}) /\ FoldLeft(ScanOne, base, <<>>) = g[0]
    BY <1>1, ScanTraces
  <1> QED BY <1>2 DEF Traces

LEMMA AccEq ==
  LogOK => \A d : \A c \in 0 .. Len(log) :
             Acc(d, c) = IF c \in {0, d.anchor} THEN From(d) ELSE ScanOne(Acc(d, log[c].parent), c)
  <1> SUFFICES ASSUME LogOK, NEW d, NEW c \in 0 .. Len(log)
               PROVE  Acc(d, c) = IF c \in {0, d.anchor} THEN From(d) ELSE ScanOne(Acc(d, log[c].parent), c)
    OBVIOUS
  <1>1. CASE c \in {0, d.anchor}
    <2>1. ChainAfter(d.anchor, c) = <<>>
      BY <1>1, ChainEq
    <2> QED BY <1>1, <2>1, ScanEmpty DEF Acc
  <1>2. CASE c \notin {0, d.anchor}
    <2> DEFINE q == log[c].parent
    <2>1. q \in 0 .. c - 1
      BY <1>2 DEF LogOK
    <2>2. ChainAfter(d.anchor, c) = Append(ChainAfter(d.anchor, q), c)
      BY <1>2, ChainEq
    <2>3. q \in 0 .. Len(log) /\ Len(log) \in Nat
      BY <2>1 DEF LogOK
    <2>4. ChainAfter(d.anchor, q) \in Seq(1 .. q)
      BY <2>3, ChainType
    <2> HIDE DEF q
    <2>5. ChainAfter(d.anchor, q) \in Seq(1 .. c) /\ c \in 1 .. c
      BY <1>2, <2>1, <2>4, SeqWider
    <2>6. Acc(d, c) = ScanOne(Acc(d, q), c)
      BY <2>2, <2>5, ScanAppend DEF Acc
    <2> QED BY <1>2, <2>6 DEF q
  <1> QED BY <1>1, <1>2

Hit(a) == [cs : 1 .. a, to : Verdicts]

LEMMA AccType ==
  ASSUME LogOK, NEW d, d.span \in Nat \X Nat, NEW c \in 0 .. Len(log)
  PROVE  Acc(d, c).span \in Nat \X Nat /\ Acc(d, c).hits \in Seq(Hit(c))
  <1> DEFINE T == {x \in Nat : x <= Len(log) => Acc(d, x).span \in Nat \X Nat /\ Acc(d, x).hits \in Seq(Hit(x))}
  <1>1. ASSUME NEW x \in Nat, \A k \in 0 .. x - 1 : k \in T PROVE x \in T
    <2> SUFFICES ASSUME x <= Len(log)
                 PROVE  Acc(d, x).span \in Nat \X Nat /\ Acc(d, x).hits \in Seq(Hit(x))
      OBVIOUS
    <2>1. x \in 0 .. Len(log)
      BY DEF LogOK
    <2>2. CASE x \in {0, d.anchor}
      <3>1. Acc(d, x) = From(d)
        BY <2>1, <2>2, AccEq
      <3> QED BY <3>1 DEF From
    <2>3. CASE x \notin {0, d.anchor}
      <3> DEFINE q == log[x].parent
                 b == Acc(d, q)
      <3>1. q \in 0 .. x - 1
        BY <2>1, <2>3 DEF LogOK
      <3>2. q \in T /\ q \in Nat /\ q <= Len(log)
        BY <1>1, <2>1, <3>1 DEF LogOK
      <3>3. Acc(d, x) = ScanOne(b, x)
        BY <2>1, <2>3, AccEq
      <3>4. b.span \in Nat \X Nat /\ b.hits \in Seq(Hit(q))
        BY <3>2
      <3> HIDE DEF q, b
      <3>5. x \in 1 .. Len(log)
        BY <2>1, <2>3 DEF LogOK
      <3>6. Hit(q) \subseteq Hit(x)
        BY <3>1 DEF Hit
      <3>7. b.hits \in Seq(Hit(x))
        BY <3>4, <3>6, SeqWider
      <3>8. Ruling(x, b.span).span \in Nat \X Nat /\ Ruling(x, b.span).to \in Verdicts \cup {"none"}
        BY <3>4, <3>5, RulingType
      <3>9. CASE Ruling(x, b.span).to = "none"
        BY <3>3, <3>7, <3>8, <3>9 DEF ScanOne
      <3>10. CASE Ruling(x, b.span).to # "none"
        <4>1. [cs |-> x, to |-> Ruling(x, b.span).to] \in Hit(x)
          BY <3>5, <3>8, <3>10 DEF Hit
        <4>2. Append(b.hits, [cs |-> x, to |-> Ruling(x, b.span).to]) \in Seq(Hit(x))
          BY <3>7, <4>1
        <4> QED BY <3>3, <3>8, <3>10, <4>2 DEF ScanOne
      <3> QED BY <3>9, <3>10
    <2> QED BY <2>2, <2>3
  <1> HIDE DEF T
  <1>2. c \in Nat /\ c <= Len(log)
    BY DEF LogOK
  <1>3. c \in T
    BY <1>1, <1>2, LeastFails
  <1> QED BY <1>2, <1>3 DEF T

LEMMA ScanIsAcc == \A d, c : Scan(d, c) = Acc(d, c).hits
  BY DEF Scan, Acc, From

(* The verdicts as a set: those that follow one changeset are among those  *)
(* that follow a later one, and each is found by a scan of its own         *)
(* changeset.                                                              *)
LEMMA HitsEq ==
  ASSUME LogOK, NEW d, d.span \in Nat \X Nat, NEW c \in 0 .. Len(log)
  PROVE  /\ c \in {0, d.anchor} => Hits(d, c) = {}
         /\ c \notin {0, d.anchor} =>
              /\ Hits(d, log[c].parent) \subseteq Hits(d, c)
              /\ \A h \in Hits(d, c) : h \in Hits(d, log[c].parent) \/ h.cs = c
  <1>1. Hits(d, c) = ToSet(Acc(d, c).hits)
    BY ScanIsAcc DEF Hits
  <1>2. CASE c \in {0, d.anchor}
    <2>1. Acc(d, c).hits = <<>>
      BY <1>2, AccEq DEF From
    <2> QED BY <1>1, <1>2, <2>1 DEF ToSet
  <1>3. CASE c \notin {0, d.anchor}
    <2> DEFINE q == log[c].parent
               b == Acc(d, q)
    <2>1. q \in 0 .. Len(log)
      BY <1>3 DEF LogOK
    <2>2. Acc(d, c) = ScanOne(b, c)
      BY <1>3, AccEq
    <2>3. b.hits \in Seq(Hit(q)) /\ Hits(d, q) = ToSet(b.hits)
      BY <2>1, AccType, ScanIsAcc DEF Hits
    <2> HIDE DEF b, q
    <2>4. CASE Ruling(c, b.span).to = "none"
      <3>1. Acc(d, c).hits = b.hits
        BY <2>2, <2>4 DEF ScanOne
      <3> QED BY <1>1, <1>3, <2>3, <3>1 DEF q
    <2>5. CASE Ruling(c, b.span).to # "none"
      <3> DEFINE e == [cs |-> c, to |-> Ruling(c, b.span).to]
      <3>1. Acc(d, c).hits = Append(b.hits, e) /\ e.cs = c
        BY <2>2, <2>5 DEF ScanOne
      <3> HIDE DEF e
      <3>2. Hits(d, c) = Hits(d, q) \cup {e}
        BY <1>1, <2>3, <3>1, AppendSet
      <3> QED BY <1>3, <3>1, <3>2 DEF q
    <2> QED BY <2>4, <2>5
  <1> QED BY <1>2, <1>3

HitsAt(d, c) ==
  /\ \A h \in Hits(d, c) : h.cs \in On(d.anchor, c) /\ h \in Hits(d, h.cs)
  /\ \A x \in On(d.anchor, c) : Hits(d, x) \subseteq Hits(d, c)

LEMMA HitsWhere ==
  ASSUME LogOK, NEW d, d.span \in Nat \X Nat, NEW c \in 0 .. Len(log)
  PROVE  HitsAt(d, c)
  <1> DEFINE T == {y \in Nat : y <= Len(log) => HitsAt(d, y)}
  <1>1. ASSUME NEW y \in Nat, \A k \in 0 .. y - 1 : k \in T PROVE y \in T
    <2> SUFFICES ASSUME y <= Len(log) PROVE HitsAt(d, y)
      OBVIOUS
    <2>1. y \in 0 .. Len(log)
      BY DEF LogOK
    <2>2. On(d.anchor, y) = IF y \in {0, d.anchor} THEN {} ELSE On(d.anchor, log[y].parent) \cup {y}
      BY <2>1, OnEq
    <2>3. CASE y \in {0, d.anchor}
      <3>1. Hits(d, y) = {}
        BY <2>1, <2>3, HitsEq
      <3> QED BY <2>2, <2>3, <3>1 DEF HitsAt
    <2>4. CASE y \notin {0, d.anchor}
      <3> DEFINE q == log[y].parent
      <3>1. q \in 0 .. y - 1
        BY <2>1, <2>4 DEF LogOK
      <3>2. q \in T /\ q \in Nat /\ q <= Len(log)
        BY <1>1, <2>1, <3>1 DEF LogOK
      <3>3. Hits(d, q) \subseteq Hits(d, y) /\ \A h \in Hits(d, y) : h \in Hits(d, q) \/ h.cs = y
        BY <2>1, <2>4, HitsEq
      <3>4. On(d.anchor, y) = On(d.anchor, q) \cup {y}
        BY <2>2, <2>4
      <3>5. HitsAt(d, q)
        BY <3>2
      <3> HIDE DEF q
      <3> QED BY <3>3, <3>4, <3>5 DEF HitsAt
    <2> QED BY <2>3, <2>4
  <1> HIDE DEF T
  <1>2. c \in Nat /\ c <= Len(log)
    BY DEF LogOK
  <1>3. c \in T
    BY <1>1, <1>2, LeastFails
  <1> QED BY <1>2, <1>3 DEF T

-----------------------------------------------------------------------------
(* Growth of the log leaves the past alone.                                *)
LogGrows == \E e : log' = Append(log, e)

Equations ==
  LogOK =>
    /\ \A a : \A c \in 0 .. Len(log) :
         /\ c \in {0, a} => ChainAfter(a, c) = <<>>
         /\ \A q : c \notin {0, a} /\ q = log[c].parent => ChainAfter(a, c) = Append(ChainAfter(a, q), c)
    /\ \A d : \A c \in 0 .. Len(log) :
         /\ c \in {0, d.anchor} => Acc(d, c) = From(d)
         /\ \A q, b : c \notin {0, d.anchor} /\ q = log[c].parent /\ b = Acc(d, q) => Acc(d, c) = ScanOne(b, c)

LEMMA EquationsHold == Equations
  BY ChainEq, AccEq DEF Equations

Kept(c) ==
  /\ \A a : ChainAfter(a, c)' = ChainAfter(a, c)
  /\ \A d : Acc(d, c)' = Acc(d, c)

LEMMA PastKept ==
  ASSUME LogOK, LogOK', LogGrows \/ log' = log
  PROVE  /\ Len(log) \in Nat /\ Len(log) <= Len(log') /\ \A c \in 1 .. Len(log) : log'[c] = log[c]
         /\ \A c \in 0 .. Len(log) : Kept(c)
  <1>1. Len(log) \in Nat /\ Len(log') \in Nat /\ Len(log) <= Len(log') /\ \A c \in 1 .. Len(log) : log'[c] = log[c]
    <2> DEFINE S == {log[i] : i \in 1 .. Len(log)}
    <2>1. log \in Seq(S) /\ Len(log) \in Nat /\ Len(log') \in Nat
      BY DEF LogOK, IsSeq
    <2>2. CASE LogGrows
      <3>1. PICK e : log' = Append(log, e)
        BY <2>2 DEF LogGrows
      <3> HIDE DEF S
      <3> QED BY <2>1, <3>1
    <2> QED BY <2>1, <2>2
  <1>2. Equations'
    BY EquationsHold, PTL
  <1>3. ASSUME NEW c \in 1 .. Len(log), NEW acc PROVE ScanOne(acc, c)' = ScanOne(acc, c)
    <2>1. ASSUME NEW s PROVE Ruling(c, s)' = Ruling(c, s)
      <3>1. PICK r : r = log[c] /\ r = log'[c]
        BY <1>1
      <3>2. (log[c])' = r
        BY <3>1
      <3> QED BY <3>1, <3>2 DEF Ruling
    <2> QED BY <2>1 DEF ScanOne
  <1> DEFINE T == {y \in Nat : y <= Len(log) => Kept(y)}
  <1>4. ASSUME NEW y \in Nat, \A k \in 0 .. y - 1 : k \in T PROVE y \in T
    <2> SUFFICES ASSUME y <= Len(log) PROVE Kept(y)
      OBVIOUS
    <2>1. y \in 0 .. Len(log) /\ y \in 0 .. Len(log')
      BY <1>1
    <2>2. ASSUME y # 0 PROVE \E q \in 0 .. y - 1 : q = log[y].parent /\ q = log'[y].parent /\ Kept(q)
      <3>1. log[y].parent \in 0 .. y - 1 /\ log'[y] = log[y]
        BY <1>1, <2>1, <2>2 DEF LogOK
      <3>2. log[y].parent \in T /\ log[y].parent <= Len(log)
        BY <1>1, <1>4, <2>1, <3>1
      <3> QED BY <3>1, <3>2
    <2>3. ASSUME NEW a PROVE ChainAfter(a, y)' = ChainAfter(a, y)
      <3>1. CASE y \in {0, a}
        BY <1>2, <2>1, <3>1, EquationsHold DEF Equations
      <3>2. CASE y \notin {0, a}
        <4>1. PICK q \in 0 .. y - 1 : q = log[y].parent /\ q = log'[y].parent /\ Kept(q)
          BY <2>2, <3>2
        <4>2. ChainAfter(a, y) = Append(ChainAfter(a, q), y)
          BY <2>1, <3>2, <4>1, EquationsHold DEF Equations
        <4>3. ChainAfter(a, y)' = Append(ChainAfter(a, q)', y)
          BY <1>2, <2>1, <3>2, <4>1 DEF Equations
        <4> QED BY <4>1, <4>2, <4>3 DEF Kept
      <3> QED BY <3>1, <3>2
    <2>4. ASSUME NEW d PROVE Acc(d, y)' = Acc(d, y)
      <3>1. CASE y \in {0, d.anchor}
        BY <1>2, <2>1, <3>1, EquationsHold DEF Equations
      <3>2. CASE y \notin {0, d.anchor}
        <4>1. PICK q \in 0 .. y - 1 : q = log[y].parent /\ q = log'[y].parent /\ Kept(q)
          BY <2>2, <3>2
        <4>2. PICK b : b = Acc(d, q)
          OBVIOUS
        <4>3. b = Acc(d, q)'
          BY <4>1, <4>2 DEF Kept
        <4>4. Acc(d, y) = ScanOne(b, y)
          BY <2>1, <3>2, <4>1, <4>2, EquationsHold DEF Equations
        <4>5. Acc(d, y)' = ScanOne(b, y)'
          BY <1>2, <2>1, <3>2, <4>1, <4>3 DEF Equations
        <4>6. y \in 1 .. Len(log)
          BY <2>1, <3>2
        <4> QED BY <1>3, <4>4, <4>5, <4>6
      <3> QED BY <3>1, <3>2
    <2> QED BY <2>3, <2>4 DEF Kept
  <1> HIDE DEF T
  <1>5. ASSUME NEW c \in 0 .. Len(log) PROVE Kept(c)
    <2>1. c \in Nat /\ c <= Len(log)
      BY <1>1
    <2>2. c \in T
      BY <1>4, <2>1, LeastFails
    <2> QED BY <2>1, <2>2 DEF T
  <1> QED BY <1>1, <1>5
-----------------------------------------------------------------------------
(* Recording a verdict.                                                    *)
Verdict == [cs : 1 .. MaxChangesets, to : Status]
Fair(d) == d \in Belief /\ d.status = StatusOf(d.history)

Recorded(d, h, e) ==
  /\ Fair(e) /\ e.anchor = d.anchor /\ e.span = d.span
  /\ e.history = d.history \/ (h \notin ToSet(d.history) /\ e.history = Append(d.history, h))
  /\ e.status \in {d.status, Turned(d.status, h.to)}
  /\ h \in ToSet(e.history)

LEMMA RecordStep ==
  ASSUME NEW d, Fair(d), NEW h \in Verdict
  PROVE  Recorded(d, h, Record(d, h))
  <1>1. d.history \in Seq(Verdict) /\ d \in Belief
    BY DEF Fair, Belief, Verdict
  <1>2. CASE h \in ToSet(d.history)
    BY <1>2 DEF Record, Recorded, Fair
  <1>3. CASE h \notin ToSet(d.history)
    <2> DEFINE k == Append(d.history, h)
               e == Record(d, h)
               b == IF h.to = "invalidated" /\ d.culprit = 0 THEN h.cs ELSE d.culprit
    <2>1. k \in Seq(Verdict) /\ ToSet(k) = ToSet(d.history) \cup {h}
      BY <1>1, AppendSet
    <2>2. StatusOf(k) = Turned(d.status, h.to)
      BY <1>1, StatusAppend DEF Fair
    <2>3. StatusOf(k) \in Status
      <3>1. DOMAIN k = 1 .. Len(k) /\ Len(k) \in Nat
        BY <2>1
      <3> HIDE DEF k
      <3> QED BY <3>1, StatusType
    <2> HIDE DEF k
    <2>4. b \in 0 .. MaxChangesets
      BY <1>1 DEF Belief, Verdict
    <2>5. e = [d EXCEPT !.history = k, !.status = StatusOf(k), !.culprit = b]
      BY <1>1, <1>3 DEF Record, k, Belief
    <2> HIDE DEF e, b
    <2>6. e \in Belief /\ e.history = k /\ e.status = StatusOf(k) /\ e.anchor = d.anchor /\ e.span = d.span
      BY <1>1, <2>1, <2>3, <2>4, <2>5 DEF Belief, Verdict
    <2> QED BY <1>3, <2>1, <2>2, <2>6 DEF Recorded, Fair, e, k
  <1> QED BY <1>2, <1>3

(* Longer histories.                                                       *)
LEMMA LongerSelf ==
  ASSUME NEW S, NEW h \in Seq(S), NEW H
  PROVE  Longer(h, h, H)
  BY DEF Longer

LEMMA LongerAppend ==
  ASSUME NEW S, NEW h \in Seq(S), NEW k \in Seq(S), NEW H, Longer(h, k, H),
         NEW x \in H, x \notin ToSet(k)
  PROVE  Longer(h, Append(k, x), H)
  <1> DEFINE m == Append(k, x)
  <1>1. Len(h) \in Nat /\ Len(k) \in Nat /\ Len(m) = Len(k) + 1 /\ m[Len(k) + 1] = x
        /\ \A i \in 1 .. Len(k) : m[i] = k[i]
    OBVIOUS
  <1> HIDE DEF m
  <1>2. Len(h) <= Len(k) /\ \A i \in 1 .. Len(h) : k[i] = h[i]
    BY DEF Longer
  <1>3. x \notin ToSet(h)
    <2>1. DOMAIN h = 1 .. Len(h) /\ DOMAIN k = 1 .. Len(k)
      OBVIOUS
    <2>2. \A i \in 1 .. Len(h) : i \in 1 .. Len(k)
      BY <1>1, <1>2
    <2>3. ToSet(h) \subseteq ToSet(k)
      BY <1>2, <2>1, <2>2 DEF ToSet
    <2> QED BY <2>3
  <1>4. \A i \in Len(h) + 1 .. Len(m) : i = Len(k) + 1 \/ i \in Len(h) + 1 .. Len(k)
    BY <1>1, <1>2
  <1>5. \A i \in Len(h) + 1 .. Len(k) : i \in 1 .. Len(k) /\ k[i] \in H \ ToSet(h)
    BY <1>1 DEF Longer
  <1>6. \A i \in Len(h) + 1 .. Len(m) : m[i] \in H \ ToSet(h)
    BY <1>1, <1>3, <1>4, <1>5
  <1>7. \A i \in 1 .. Len(h) : m[i] = h[i]
    BY <1>1, <1>2
  <1> QED BY <1>1, <1>2, <1>6, <1>7 DEF Longer, m

LEMMA LongerIn ==
  ASSUME NEW S, NEW h \in Seq(S), NEW k \in Seq(S), NEW H, Longer(h, k, H)
  PROVE  IsPrefix(h, k) /\ ToSet(h) \subseteq ToSet(k) /\ ToSet(k) \subseteq ToSet(h) \cup H
  <1>1. Len(h) \in Nat /\ Len(k) \in Nat /\ DOMAIN h = 1 .. Len(h) /\ DOMAIN k = 1 .. Len(k)
    OBVIOUS
  <1>2. Len(h) <= Len(k) /\ \A i \in 1 .. Len(h) : k[i] = h[i]
    BY DEF Longer
  <1>3. SubSeq(h, 1, Len(h)) = SubSeq(k, 1, Len(h))
    BY <1>1, <1>2
  <1>4. \A i \in 1 .. Len(h) : i \in 1 .. Len(k)
    BY <1>1, <1>2
  <1>5. \A i \in 1 .. Len(k) : i \in 1 .. Len(h) \/ i \in Len(h) + 1 .. Len(k)
    BY <1>1
  <1>6. \A i \in 1 .. Len(k) : k[i] \in ToSet(h) \cup H
    BY <1>1, <1>2, <1>5 DEF Longer, ToSet
  <1> QED BY <1>1, <1>2, <1>3, <1>4, <1>6 DEF IsPrefix, ToSet

LEMMA RuledGrows ==
  ASSUME LogOK, NEW d, Sound(d), NEW c \in 0 .. Len(log)
  PROVE  Sound(Ruled(d, c)) /\ Grown(d, Ruled(d, c), c) /\ Hits(d, c) \subseteq ToSet(Ruled(d, c).history)
  <1> DEFINE s == Scan(d, c)
             n == Len(s)
             V == {e \in Belief : Sound(e) /\ Grown(d, e, c)}
  <1>0. d \in Belief /\ d.span \in Nat \X Nat /\ d.status \in Status /\ Len(log) \in Nat /\ d.history \in Seq(Verdict)
    BY DEF Sound, Belief, LogOK, Verdict
  <1>1. s \in Seq(Hit(c)) /\ s \in Seq(Verdict)
    <2>1. s \in Seq(Hit(c))
      BY <1>0, AccType, ScanIsAcc
    <2>2. Hit(c) \subseteq Verdict
      BY DEF Hit, Verdict, Verdicts, Status, LogOK
    <2> HIDE DEF s
    <2> QED BY <2>1, <2>2, SeqWider
  <1>2. n \in Nat /\ DOMAIN s = 1 .. n
    <2> HIDE DEF s
    <2> QED BY <1>1
  <1>3. \A k \in 1 .. n : s[k] \in Hits(d, c) /\ s[k] \in Hit(c) /\ s[k] \in Verdict
    <2>1. Hits(d, c) = ToSet(s)
      BY DEF Hits
    <2> HIDE DEF s
    <2> QED BY <1>1, <1>2, <2>1 DEF ToSet
  <1>4. Ruled(d, c) = FoldLeft(Record, d, s)
    BY DEF Ruled
  <1>5. Hits(d, c) = {s[k] : k \in 1 .. n}
    BY <1>2 DEF Hits, ToSet
  <1> HIDE DEF s, n
  <1>6. PICK g : Traces(g, "record", d, s, n, {}) /\ Ruled(d, c) = g[n]
    BY <1>2, <1>4, RecordTraces
  <1>7. d \in V
    BY <1>0, LongerSelf DEF Grown, Goes
  <1>8. ASSUME NEW e \in V, NEW x \in Verdict, x \in Hits(d, c), x \in Hit(c)
        PROVE  Record(e, x) \in V /\ (ToSet(e.history) \cup {x} \subseteq ToSet(Record(e, x).history))
    <2> DEFINE f == Record(e, x)
    <2>1. Sound(e) /\ Grown(d, e, c) /\ Fair(e) /\ e.history \in Seq(Verdict)
      BY DEF Sound, Fair, Belief, Verdict
    <2>2. Recorded(e, x, f)
      BY <2>1, RecordStep
    <2> HIDE DEF f
    <2>3. f.history \in Seq(Verdict) /\ f \in Belief
      BY <2>2 DEF Recorded, Fair, Belief, Verdict
    <2>4. Longer(d.history, f.history, Hits(d, c)) /\ ToSet(e.history) \cup {x} \subseteq ToSet(f.history)
      <3>1. Longer(d.history, e.history, Hits(d, c)) /\ x \in ToSet(f.history)
        BY <2>1, <2>2 DEF Grown, Recorded
      <3>2. CASE f.history = e.history
        BY <3>1, <3>2
      <3>3. CASE x \notin ToSet(e.history) /\ f.history = Append(e.history, x)
        <4>1. PICK k \in Seq(Verdict) : k = e.history
          BY <2>1
        <4>2. Longer(d.history, Append(k, x), Hits(d, c))
          BY <1>0, <1>8, <3>1, <3>3, <4>1, LongerAppend
        <4>3. ToSet(Append(k, x)) = ToSet(k) \cup {x}
          BY <4>1, AppendSet
        <4> QED BY <3>3, <4>1, <4>2, <4>3
      <3> QED BY <2>2, <3>2, <3>3 DEF Recorded
    <2>6. Goes(d.status, f.status)
      <3>1. Goes(d.status, e.status) /\ x.to \in {"stale", "invalidated"} /\ f.status \in {e.status, Turned(e.status, x.to)}
        BY <1>8, <2>1, <2>2 DEF Grown, Recorded, Hit, Verdicts
      <3> QED BY <3>1 DEF Goes, Turned
    <2>7. ASSUME f.anchor # 0 PROVE \E i \in 1 .. Len(f.history) : f.history[i].cs = f.anchor
      <3>1. PICK i \in 1 .. Len(e.history) : e.history[i].cs = f.anchor
        BY <2>1, <2>2, <2>7 DEF Sound, Recorded
      <3>2. i \in 1 .. Len(f.history) /\ f.history[i] = e.history[i]
        BY <2>1, <2>2 DEF Recorded
      <3> QED BY <3>1, <3>2
    <2>8. Sound(f)
      BY <2>2, <2>7 DEF Sound, Recorded, Fair
    <2>9. Grown(d, f, c)
      BY <2>1, <2>2, <2>4, <2>6 DEF Grown, Recorded
    <2> QED BY <2>3, <2>4, <2>8, <2>9 DEF f
  <1>9. \A v \in V, k \in 1 .. n : StepOf("record", v, s[k], {}) \in V
    <2> SUFFICES ASSUME NEW v \in V, NEW k \in 1 .. n PROVE Record(v, s[k]) \in V
      BY DEF StepOf
    <2> HIDE DEF V
    <2> QED BY <1>3, <1>8
  <1> HIDE DEF V
  <1>10. \A k \in 0 .. n : g[k] \in V
    BY <1>2, <1>6, <1>7, <1>9, TraceKeeps
  <1> DEFINE T == {k \in Nat : k <= n => \A i \in 1 .. k : s[i] \in ToSet(g[k].history)}
  <1>11. ASSUME NEW k \in Nat, \A j \in 0 .. k - 1 : j \in T PROVE k \in T
    <2> SUFFICES ASSUME k <= n, NEW i \in 1 .. k PROVE s[i] \in ToSet(g[k].history)
      OBVIOUS
    <2>1. k - 1 \in T /\ k - 1 \in 0 .. n /\ k \in 1 .. n
      BY <1>2, <1>11
    <2>2. g[k] = Record(g[k - 1], s[k])
      BY <1>6, <2>1 DEF Traces, StepOf
    <2>3. ToSet(g[k - 1].history) \cup {s[k]} \subseteq ToSet(g[k].history)
      BY <1>3, <1>8, <1>10, <2>1, <2>2
    <2>4. i = k \/ i \in 1 .. k - 1
      OBVIOUS
    <2> QED BY <1>2, <2>1, <2>3, <2>4
  <1>12. n \in T
    <2> HIDE DEF T
    <2> QED BY <1>2, <1>11, LeastFails
  <1>13. g[n] \in V /\ \A i \in 1 .. n : s[i] \in ToSet(g[n].history)
    BY <1>2, <1>10, <1>12
  <1> QED BY <1>5, <1>6, <1>13 DEF V

LEMMA ReanchoredGrows ==
  ASSUME NEW d, Sound(d), NEW c \in 1 .. MaxChangesets, NEW s \in Nat \X Nat
  PROVE  /\ Sound(Reanchored(d, c, s)) /\ Reanchored(d, c, s).anchor = c
         /\ Longer(d.history, Reanchored(d, c, s).history, {Entry(c, "reaffirmed")})
  <1> DEFINE b == [d EXCEPT !.anchor = c, !.span = s, !.culprit = 0]
             h == Entry(c, "reaffirmed")
             e == Reanchored(d, c, s)
  <1>1. b \in Belief /\ b.history = d.history /\ b.status = d.status /\ b.anchor = c
    <2> DEFINE N == 0 .. MaxChangesets
               P == Nat \X Nat
               Q == Seq([cs : 1 .. MaxChangesets, to : Status])
    <2>1. d \in [anchor : N, span : P, status : Status, culprit : N, history : Q] /\ c \in N /\ 0 \in N /\ s \in P
      BY DEF Sound, Belief
    <2> HIDE DEF N, P, Q
    <2>2. b \in [anchor : N, span : P, status : Status, culprit : N, history : Q]
          /\ b.history = d.history /\ b.status = d.status /\ b.anchor = c
      BY <2>1
    <2> QED BY <2>2 DEF Belief, N, P, Q
  <1>2. h \in Verdict /\ h.cs = c
    BY DEF Verdict, Entry, Status
  <1>3. e = Record(b, h)
    BY DEF Reanchored
  <1>4. Fair(b) /\ d.history \in Seq(Verdict)
    BY <1>1 DEF Fair, Sound, Belief, Verdict
  <1> HIDE DEF e, b, h
  <1>5. Recorded(b, h, e)
    BY <1>2, <1>3, <1>4, RecordStep
  <1>6. Longer(d.history, e.history, {h})
    <2>1. CASE e.history = d.history
      BY <1>4, <2>1, LongerSelf
    <2>2. CASE h \notin ToSet(d.history) /\ e.history = Append(d.history, h)
      <3>1. PICK k \in Seq(Verdict) : k = d.history
        BY <1>4
      <3>2. Longer(k, k, {h})
        BY LongerSelf
      <3>3. Longer(k, Append(k, h), {h})
        BY <2>2, <3>1, <3>2, LongerAppend
      <3> QED BY <2>2, <3>1, <3>3
    <2> QED BY <1>1, <1>5, <2>1, <2>2 DEF Recorded
  <1>7. e.history \in Seq(Verdict) /\ h \in ToSet(e.history)
    BY <1>5 DEF Recorded, Fair, Belief, Verdict
  <1>8. \E i \in 1 .. Len(e.history) : e.history[i].cs = c
    <2>1. DOMAIN e.history = 1 .. Len(e.history)
      BY <1>7
    <2> QED BY <1>2, <1>7, <2>1 DEF ToSet
  <1> QED BY <1>1, <1>5, <1>6, <1>8 DEF Sound, Recorded, Fair, e, h

LEMMA NewSound ==
  ASSUME NEW c \in 1 .. MaxChangesets, NEW s \in Nat \X Nat
  PROVE  Sound(NewBelief(c, s))
  <1> DEFINE h == Entry(c, "active")
             k == <<h>>
  <1>1. h \in Verdict /\ h.cs = c /\ h.to = "active"
    BY DEF Verdict, Entry, Status
  <1> HIDE DEF h
  <1>2. k \in Seq(Verdict) /\ Len(k) = 1 /\ k[1] = h /\ k = Append(<<>>, h)
    BY <1>1
  <1>3. StatusOf(k) = "active"
    <2>1. <<>> \in Seq(Verdict)
      OBVIOUS
    <2>2. StatusOf(Append(<<>>, h)) = Turned(StatusOf(<<>>), h.to)
      BY <1>1, <2>1, StatusAppend
    <2> QED BY <1>1, <1>2, <2>2, StatusEmpty DEF Turned
  <1>4. NewBelief(c, s) = [anchor |-> c, span |-> s, status |-> "active", culprit |-> 0, history |-> k]
    BY DEF NewBelief, h
  <1> HIDE DEF k
  <1>5. NewBelief(c, s) \in Belief
    BY <1>2, <1>4 DEF Belief, Verdict, Status
  <1>6. 1 \in 1 .. Len(k) /\ k[1].cs = c
    BY <1>1, <1>2
  <1> QED BY <1>3, <1>4, <1>5, <1>6 DEF Sound

LEMMA BlankSound == Sound(Blank)
  <1>1. Blank \in Belief
    BY DEF Blank, Belief, Gone, Status
  <1> QED BY <1>1, StatusEmpty DEF Sound, Blank

(* What the verdicts seen from somewhere give, when none of those that are *)
(* added can be seen from there.                                           *)
LEMMA SeenLonger ==
  ASSUME NEW S, NEW h \in Seq(S), NEW k \in Seq(S), NEW H, Longer(h, k, H), NEW C,
         \A x \in H \ ToSet(h) : x.cs \notin C
  PROVE  /\ SeenFrom(k, C) = SeenFrom(h, C)
         /\ (\E x \in ToSet(k) : x.cs \in C) <=> (\E x \in ToSet(h) : x.cs \in C)
  <1> DEFINE n == Len(h)
             m == Len(k)
  <1>1. n \in Nat /\ m \in Nat /\ DOMAIN h = 1 .. n /\ DOMAIN k = 1 .. m
    OBVIOUS
  <1>2. n <= m /\ (\A i \in 1 .. n : k[i] = h[i]) /\ \A i \in n + 1 .. m : k[i].cs \notin C
    BY DEF Longer
  <1> HIDE DEF n, m
  <1>3. PICK g : Traces(g, "seen", "active", h, n, C) /\ SeenFrom(h, C) = g[n]
    BY <1>1, SeenTraces
  <1>4. PICK e : Traces(e, "seen", "active", k, m, C) /\ SeenFrom(k, C) = e[m]
    BY <1>1, SeenTraces
  <1>5. g[n] = e[n]
    <2>1. n <= n /\ n \in 0 .. n /\ Agree(h, k, n)
      BY <1>1, <1>2 DEF Agree
    <2>2. \A i \in 0 .. n : g[i] = e[i]
      BY <1>1, <1>2, <1>3, <1>4, <2>1, TraceAgrees
    <2> QED BY <2>1, <2>2
  <1> DEFINE T == {i \in Nat : n + i <= m => e[n + i] = e[n]}
  <1>6. ASSUME NEW i \in Nat, \A j \in 0 .. i - 1 : j \in T PROVE i \in T
    <2> SUFFICES ASSUME n + i <= m PROVE e[n + i] = e[n]
      OBVIOUS
    <2>1. CASE i = 0
      BY <1>1, <2>1
    <2>2. CASE i # 0
      <3> DEFINE j == n + i
      <3>1. j \in n + 1 .. m /\ j \in 1 .. m /\ j - 1 = n + (i - 1) /\ i - 1 \in 0 .. i - 1 /\ n + (i - 1) <= m
        BY <1>1, <2>2
      <3>2. e[j - 1] = e[n]
        BY <1>6, <3>1
      <3> HIDE DEF j
      <3>3. e[j] = Turn("seen", e[j - 1], k[j], C)
        BY <1>4, <3>1 DEF Traces, StepOf
      <3> QED BY <1>2, <3>1, <3>2, <3>3 DEF Turn, j
    <2> QED BY <2>1, <2>2
  <1>7. e[m] = e[n]
    <2>1. m - n \in Nat /\ n + (m - n) = m
      BY <1>1, <1>2
    <2>2. m - n \in T
      <3> HIDE DEF T
      <3> QED BY <1>6, <2>1, LeastFails
    <2> QED BY <1>1, <2>1, <2>2
  <1>8. ASSUME NEW x \in ToSet(k), x.cs \in C PROVE x \in ToSet(h)
    <2>1. PICK i \in 1 .. m : x = k[i]
      BY <1>1 DEF ToSet
    <2>2. i \in 1 .. n
      BY <1>1, <1>2, <1>8, <2>1
    <2> QED BY <1>1, <1>2, <2>1, <2>2 DEF ToSet
  <1>9. ToSet(h) \subseteq ToSet(k)
    BY LongerIn
  <1> QED BY <1>3, <1>4, <1>5, <1>7, <1>8, <1>9

-----------------------------------------------------------------------------
(* The log grows.                                                          *)
LEMMA IsSeqAppend ==
  ASSUME NEW s, IsSeq(s), NEW e
  PROVE  /\ IsSeq(Append(s, e)) /\ Len(Append(s, e)) = Len(s) + 1 /\ Append(s, e)[Len(s) + 1] = e
         /\ \A i \in 1 .. Len(s) : Append(s, e)[i] = s[i]
  <1> DEFINE S == {s[i] : i \in 1 .. Len(s)}
             k == Append(s, e)
             T == {k[i] : i \in 1 .. Len(k)}
  <1>1. s \in Seq(S) /\ Len(s) \in Nat
    BY DEF IsSeq
  <1> HIDE DEF S
  <1>2. Len(k) = Len(s) + 1 /\ k[Len(s) + 1] = e /\ (\A i \in 1 .. Len(s) : k[i] = s[i])
        /\ k \in Seq(S \cup {e}) /\ DOMAIN k = 1 .. Len(k)
    BY <1>1
  <1> HIDE DEF k
  <1>3. \A i \in 1 .. Len(k) : k[i] \in T
    OBVIOUS
  <1> HIDE DEF T
  <1>4. k \in Seq(T)
    BY <1>2, <1>3
  <1> QED BY <1>2, <1>4 DEF IsSeq, T, k

LEMMA ChangesetOK ==
  ASSUME NEW c, NEW par, NEW ch \in Changes, Possible(par, ch)
  PROVE  LET e == Changeset(c, par, ch)
         IN  /\ e.parent = par /\ e.kind \in {"none", "edit", "drop", "make"}
             /\ e.ops \subseteq LineOp /\ IsFiniteSet(e.ops) /\ Fits(e.ops, Len(log[par].lines))
  <1>1. ch.kind \in {"none", "edit", "drop", "make"} /\ ch.ops \subseteq LineOp /\ IsFiniteSet(ch.ops)
    OBVIOUS
  <1>2. IsFiniteSet({}) /\ Fits({}, Len(log[par].lines))
    BY FS_EmptySet DEF Fits
  <1>3. ch.kind = "edit" => Fits(ch.ops, Len(log[par].lines))
    BY DEF Possible
  <1> QED BY <1>1, <1>2, <1>3 DEF Changeset

LEMMA GrowShape ==
  ASSUME TreeOK, RefsOK, NEW b \in Branches, NEW ch \in Changes, Grow(b, ch)
  PROVE  TreeOK' /\ RefsOK' /\ LogGrows /\ Len(log') = Len(log) + 1
  <1> DEFINE c == Len(log) + 1
             e == Changeset(c, tip[b], ch)
  <1>1. log' = Append(log, e) /\ tip' = [tip EXCEPT ![b] = c] /\ head' = head /\ c <= MaxChangesets
        /\ tip[b] # 0 /\ Possible(tip[b], ch)
    BY DEF Grow
  <1>2. IsSeq(log) /\ Len(log) \in Nat /\ tip[b] \in 1 .. Len(log)
    BY <1>1 DEF TreeOK, LogOK, RefsOK
  <1>3. /\ e.parent = tip[b] /\ e.kind \in {"none", "edit", "drop", "make"}
        /\ e.ops \subseteq LineOp /\ IsFiniteSet(e.ops) /\ Fits(e.ops, Len(log[tip[b]].lines))
    BY <1>1, ChangesetOK
  <1> HIDE DEF e
  <1>4. IsSeq(log') /\ Len(log') = c /\ log'[c] = e /\ \A i \in 1 .. Len(log) : log'[i] = log[i]
    BY <1>1, <1>2, IsSeqAppend
  <1>5. LogOK'
    <2>1. ASSUME NEW i \in 1 .. c
          PROVE  /\ log'[i].parent \in 0 .. i - 1 /\ log'[i].kind \in {"none", "edit", "drop", "make"}
                 /\ log'[i].ops \subseteq LineOp /\ IsFiniteSet(log'[i].ops)
      <3>1. CASE i = c
        BY <1>2, <1>3, <1>4, <3>1
      <3>2. CASE i \in 1 .. Len(log)
        BY <1>4, <3>2 DEF TreeOK, LogOK
      <3> QED BY <1>2, <3>1, <3>2
    <2>2. c \in 1 .. MaxChangesets
      BY <1>1, <1>2
    <2> QED BY <1>4, <2>1, <2>2 DEF LogOK
  <1>6. ASSUME NEW i \in 2 .. c
        PROVE  log'[i].parent \in 1 .. i - 1 /\ Fits(log'[i].ops, Len(log'[log'[i].parent].lines))
    <2>1. CASE i = c
      BY <1>2, <1>3, <1>4, <2>1
    <2>2. CASE i \in 2 .. Len(log)
      <3>1. log[i].parent \in 1 .. i - 1 /\ Fits(log[i].ops, Len(log[log[i].parent].lines))
        BY <2>2 DEF TreeOK
      <3>2. log'[i] = log[i] /\ log'[log[i].parent] = log[log[i].parent]
        BY <1>2, <1>4, <2>2, <3>1
      <3> QED BY <3>1, <3>2
    <2> QED BY <1>2, <2>1, <2>2
  <1>7. TreeOK'
    BY <1>4, <1>5, <1>6 DEF TreeOK
  <1>8. RefsOK'
    BY <1>1, <1>2, <1>4 DEF RefsOK
  <1> QED BY <1>1, <1>4, <1>7, <1>8 DEF LogGrows

(* What the log said of a changeset it goes on to say.                     *)
LEMMA CompleteKept ==
  ASSUME LogOK, LogOK', LogGrows \/ log' = log, NEW c \in 0 .. Len(log)
  PROVE  Ancestors(c)' = Ancestors(c) /\ \A d : Hits(d, c)' = Hits(d, c)
  <1>1. Kept(c)
    BY PastKept
  <1>2. ChainAfter(0, c)' = ChainAfter(0, c)
    BY <1>1 DEF Kept
  <1>3. Ancestors(c)' = Ancestors(c)
    BY <1>2 DEF Ancestors
  <1>4. ASSUME NEW d PROVE Hits(d, c)' = Hits(d, c)
    <2>1. Acc(d, c)' = Acc(d, c)
      BY <1>1 DEF Kept
    <2>2. Scan(d, c)' = Acc(d, c)'.hits /\ Scan(d, c) = Acc(d, c).hits
      BY DEF Scan, Acc, From
    <2> QED BY <2>1, <2>2 DEF Hits
  <1> QED BY <1>3, <1>4

LEMMA HoldsKept ==
  ASSUME LogOK, LogOK', LogGrows \/ log' = log, NEW r, Holds(r)
  PROVE  Holds(r)'
  <1>1. Len(log) \in Nat /\ Len(log') \in Nat /\ Len(log) <= Len(log')
    BY PastKept DEF LogOK
  <1>2. r.cmd \notin {"none", "accept", "reject"} => r.tip \in 1 .. Len(log) /\ r.tip \in 1 .. Len(log')
    BY <1>1 DEF Holds
  <1>3. ASSUME r.pc \in {"save", "put"}, r.cmd \in Scans PROVE Complete(r.node.data, r.tip)'
    <2>1. PICK d, c : d = r.node.data /\ c = r.tip
      OBVIOUS
    <2>2. c \in 0 .. Len(log) /\ Complete(d, c)
      BY <1>2, <1>3, <2>1 DEF Holds, Scans
    <2>3. Ancestors(c)' = Ancestors(c) /\ Hits(d, c)' = Hits(d, c)
      BY <2>2, CompleteKept
    <2>4. Complete(d, c)'
      BY <2>2, <2>3 DEF Complete
    <2> QED BY <2>1, <2>4
  <1> QED BY <1>2, <1>3 DEF Holds

(* One process moves on.                                                   *)
Moves(p, r) == proc' = [q \in Procs |-> IF q = p THEN r ELSE proc[q]]

LEMMA RunningMoves ==
  ASSUME RunningOK, LogOK, LogOK', LogGrows \/ log' = log,
         NEW p \in Procs, NEW r, Moves(p, r), Holds(r)'
  PROVE  RunningOK'
  <1>1. \A q \in Procs : Holds(proc[q])'
    <2> TAKE q \in Procs
    <2>1. PICK s : s = proc'[q]
      OBVIOUS
    <2>2. Holds(s)'
      <3>1. CASE q = p
        BY <2>1, <3>1 DEF Moves
      <3>2. CASE q # p
        <4>1. s = proc[q] /\ Holds(s)
          BY <2>1, <3>2 DEF Moves, RunningOK
        <4> QED BY <4>1, HoldsKept
      <3> QED BY <3>1, <3>2
    <2> QED BY <2>1, <2>2
  <1>2. \A q \in Procs : proc'[q] \in ProcType
    BY <1>1 DEF Holds
  <1>3. proc' \in [Procs -> ProcType]
    BY <1>2 DEF Moves
  <1> QED BY <1>1, <1>3 DEF RunningOK

LEMMA RunningStays ==
  ASSUME RunningOK, LogOK, LogOK', LogGrows \/ log' = log, proc' = proc
  PROVE  RunningOK'
  <1>1. \A q \in Procs : Holds(proc[q])'
    <2> TAKE q \in Procs
    <2>1. PICK s : s = proc[q] /\ s = proc'[q]
      OBVIOUS
    <2>2. Holds(s)'
      BY <2>1, HoldsKept DEF RunningOK
    <2> QED BY <2>1, <2>2
  <1> QED BY <1>1 DEF RunningOK

-----------------------------------------------------------------------------
(* What a process does next keeps to what a process can be at.             *)
Turns(p, pc, cmd, t, from, n) ==
  \E r \in ProcType : /\ Moves(p, r) /\ r.pc = pc /\ r.cmd = cmd /\ r.tip = t /\ r.from = from /\ r.node = n

LEMMA AbsentSound == Absent \in Node /\ Sound(Absent.data) /\ Absent.data = Blank
  <1>1. Blank \in Belief
    BY BlankSound DEF Sound
  <1>2. Absent.state = "none" /\ Absent.source = "human" /\ Absent.data = Blank
    BY DEF Absent
  <1>3. Absent \in Node
    BY <1>1 DEF Absent, Node
  <1> QED BY <1>2, <1>3, BlankSound

LEMMA IdleIs ==
  /\ Idle \in ProcType /\ Idle.pc = "idle" /\ Idle.cmd = "none" /\ Idle.tip = 0 /\ Idle.from = "active"
  /\ Idle.node = Absent /\ "active" \in Status
  BY AbsentSound DEF Idle, ProcType, Pcs, Cmds, Tips, Status

LEMMA ProcIs ==
  ASSUME Shape, NEW p \in Procs
  PROVE  /\ proc \in [Procs -> ProcType] /\ Holds(proc[p]) /\ proc[p] \in ProcType
         /\ proc[p].pc \in Pcs /\ proc[p].cmd \in Cmds
         /\ proc[p].tip \in Tips /\ proc[p].from \in Status
         /\ proc[p].node \in Node /\ Sound(proc[p].node.data) /\ At(proc[p])
  <1>1. Holds(proc[p]) /\ proc \in [Procs -> ProcType]
    BY DEF Shape, RunningOK
  <1>2. proc[p] \in ProcType /\ Sound(proc[p].node.data) /\ At(proc[p])
    BY <1>1 DEF Holds
  <1> QED BY <1>1, <1>2 DEF ProcType

LEMMA TipOK ==
  ASSUME Shape
  PROVE  tip[head] \in 1 .. Len(log) /\ tip[head] \in Tips /\ Len(log) \in 1 .. MaxChangesets
  BY DEF Shape, RefsOK, TreeOK, LogOK, Tips

LEMMA TurnsBy ==
  ASSUME Shape, NEW p \in Procs, NEW r \in ProcType, proc' = [proc EXCEPT ![p] = r]
  PROVE  Turns(p, r.pc, r.cmd, r.tip, r.from, r.node)
  <1>1. Moves(p, r)
    BY ProcIs DEF Moves
  <1> QED BY <1>1 DEF Turns

LEMMA DoneTurns ==
  ASSUME Shape, NEW p \in Procs, Done(p)
  PROVE  Turns(p, "idle", "none", 0, "active", Absent)
  BY IdleIs, TurnsBy DEF Done

(* A command starts.                                                       *)
LEMMA StartTurns ==
  ASSUME Shape, NEW p \in Procs, NEW pc \in Pcs, NEW cmd \in Cmds, NEW t \in Tips, NEW n \in Node,
         proc' = [proc EXCEPT ![p] = [Idle EXCEPT !.pc = pc, !.cmd = cmd, !.tip = t, !.node = n]]
  PROVE  Turns(p, pc, cmd, t, "active", n)
  <1> DEFINE r == [Idle EXCEPT !.pc = pc, !.cmd = cmd, !.tip = t, !.node = n]
  <1>1. r \in ProcType /\ r.pc = pc /\ r.cmd = cmd /\ r.tip = t /\ r.from = "active" /\ r.node = n
    BY IdleIs DEF ProcType
  <1> HIDE DEF r
  <1> QED BY <1>1, TurnsBy DEF r

LEMMA SetOutTurns ==
  ASSUME Shape, NEW p \in Procs, NEW pc \in Pcs, NEW cmd \in Cmds, NEW t \in Tips,
         proc' = [proc EXCEPT ![p] = [Idle EXCEPT !.pc = pc, !.cmd = cmd, !.tip = t]]
  PROVE  Turns(p, pc, cmd, t, "active", Absent)
  <1> DEFINE r == [Idle EXCEPT !.pc = pc, !.cmd = cmd, !.tip = t]
  <1>1. r \in ProcType /\ r.pc = pc /\ r.cmd = cmd /\ r.tip = t /\ r.from = "active" /\ r.node = Absent
    BY IdleIs DEF ProcType
  <1> HIDE DEF r
  <1> QED BY <1>1, TurnsBy DEF r

LEMMA CommandTurns ==
  ASSUME Shape, NEW p \in Procs
  PROVE  /\ Stale(p) => Turns(p, "list", "stale", tip[head], "active", Absent)
         /\ Bisect(p) => Turns(p, "read", "bisect", tip[head], "active", Absent)
         /\ Reaffirm(p) \/ AgentReaffirm(p) => Turns(p, "anew", "reaffirm", tip[head], "active", Absent)
  <1>1. "list" \in Pcs /\ "read" \in Pcs /\ "anew" \in Pcs /\ "stale" \in Cmds /\ "bisect" \in Cmds /\ "reaffirm" \in Cmds
    BY DEF Pcs, Cmds
  <1>2. Stale(p) => Turns(p, "list", "stale", tip[head], "active", Absent)
    BY <1>1, TipOK, SetOutTurns DEF Stale, Command
  <1>3. Bisect(p) => Turns(p, "read", "bisect", tip[head], "active", Absent)
    BY <1>1, TipOK, SetOutTurns DEF Bisect, Command
  <1>4. Reaffirm(p) \/ AgentReaffirm(p) => Turns(p, "anew", "reaffirm", tip[head], "active", Absent)
    BY <1>1, TipOK, SetOutTurns DEF Reaffirm, AgentReaffirm, Command
  <1> QED BY <1>2, <1>3, <1>4

LEMMA PromoteTurns ==
  ASSUME Shape, NEW p \in Procs, Promote(p)
  PROVE  Turns(p, "list", "promote", Len(log) + 1, "active", Absent)
  <1>1. "list" \in Pcs /\ "promote" \in Cmds
    BY DEF Pcs, Cmds
  <1>2. Len(log) + 1 \in Tips
    BY TipOK DEF Promote, Grow, Tips
  <1> QED BY <1>1, <1>2, SetOutTurns DEF Promote

Newly(n, cmd) ==
  /\ n \in Node /\ Sound(n.data) /\ cmd \in {"add", "propose"} /\ (cmd = "propose" => n.state = "proposed")

LEMMA NewTurns ==
  ASSUME Shape, NEW p \in Procs, NEW s \in Spans, NEW cmd \in {"add", "propose"}, NEW n,
         n = IF cmd = "add" THEN HumanBelief(NewBelief(tip[head], s)) ELSE AgentBelief(NewBelief(tip[head], s)),
         Command(p, [Idle EXCEPT !.pc = "put", !.cmd = cmd, !.tip = tip[head], !.node = n])
  PROVE  Newly(n, cmd) /\ Turns(p, "put", cmd, tip[head], "active", n)
  <1>2. tip[head] \in 1 .. MaxChangesets /\ s \in Nat \X Nat
    BY TipOK
  <1>3. Sound(NewBelief(tip[head], s)) /\ NewBelief(tip[head], s) \in Belief
    BY <1>2, NewSound DEF Sound
  <1>4. n \in Node /\ n.data = NewBelief(tip[head], s) /\ (cmd = "propose" => n.state = "proposed")
    BY <1>3 DEF HumanBelief, AgentBelief, Node
  <1>5. "put" \in Pcs /\ cmd \in Cmds
    BY DEF Pcs, Cmds
  <1>6. Turns(p, "put", cmd, tip[head], "active", n)
    BY <1>4, <1>5, TipOK, StartTurns DEF Command
  <1> QED BY <1>3, <1>4, <1>6 DEF Newly

LEMMA AddTurns ==
  ASSUME Shape, NEW p \in Procs, Add(p) \/ Propose(p)
  PROVE  \E n, cmd : Newly(n, cmd) /\ Turns(p, "put", cmd, tip[head], "active", n)
  <1>1. CASE Add(p)
    <2>1. PICK s \in Spans :
            Command(p, [Idle EXCEPT !.pc = "put", !.cmd = "add", !.tip = tip[head], !.node = HumanBelief(NewBelief(tip[head], s))])
      BY <1>1 DEF Add
    <2> DEFINE n == HumanBelief(NewBelief(tip[head], s))
    <2>2. Newly(n, "add") /\ Turns(p, "put", "add", tip[head], "active", n)
      BY <2>1, NewTurns
    <2> HIDE DEF n
    <2> QED BY <2>2
  <1>2. CASE Propose(p)
    <2>1. PICK s \in Spans :
            Command(p, [Idle EXCEPT !.pc = "put", !.cmd = "propose", !.tip = tip[head], !.node = AgentBelief(NewBelief(tip[head], s))])
      BY <1>2 DEF Propose
    <2> DEFINE n == AgentBelief(NewBelief(tip[head], s))
    <2>2. Newly(n, "propose") /\ Turns(p, "put", "propose", tip[head], "active", n)
      BY <2>1, NewTurns
    <2> HIDE DEF n
    <2> QED BY <2>2
  <1> QED BY <1>1, <1>2

(* A command goes on.                                                      *)
LEMMA ListTurns ==
  ASSUME Shape, NEW p \in Procs, List(p)
  PROVE  \/ Turns(p, "idle", "none", 0, "active", Absent)
         \/ Turns(p, "read", proc[p].cmd, proc[p].tip, node.data.status, proc[p].node)
  <1>1. CASE ~Found
    BY <1>1, DoneTurns DEF List
  <1>2. CASE Found
    <2>1. PICK s : s = node.data.status /\ proc' = [proc EXCEPT ![p].pc = "read", ![p].from = s]
      BY <1>2 DEF List
    <2>2. s \in Status
      BY <2>1 DEF Shape, StoredOK, Sound, Belief
    <2>3. "read" \in Pcs
      BY DEF Pcs
    <2> DEFINE r == [proc[p] EXCEPT !.pc = "read", !.from = s]
    <2>4. r \in ProcType /\ r.pc = "read" /\ r.cmd = proc[p].cmd /\ r.tip = proc[p].tip /\ r.from = s /\ r.node = proc[p].node
      BY <2>2, <2>3, ProcIs DEF ProcType
    <2>5. proc' = [proc EXCEPT ![p] = r]
      BY <2>1, ProcIs
    <2> HIDE DEF r
    <2>6. Turns(p, "read", proc[p].cmd, proc[p].tip, s, proc[p].node)
      BY <2>4, <2>5, TurnsBy
    <2> QED BY <2>1, <2>6
  <1> QED BY <1>1, <1>2

LEMMA AfterTurns ==
  ASSUME Shape, NEW p \in Procs, NEW n \in Node, AfterScan(p, n)
  PROVE  \/ Turns(p, "idle", "none", 0, "active", Absent)
         \/ /\ proc[p].cmd \in {"promote", "stale"}
            /\ Turns(p, "tell", proc[p].cmd, proc[p].tip, proc[p].from, n)
  <1>1. CASE proc[p].cmd \notin {"promote", "stale"}
    <2>1. proc' = [proc EXCEPT ![p] = Idle]
      BY <1>1 DEF AfterScan
    <2> QED BY <2>1, IdleIs, TurnsBy
  <1>2. CASE proc[p].cmd \in {"promote", "stale"}
    <2> DEFINE r == [proc[p] EXCEPT !.pc = "tell", !.node = n]
    <2>1. proc' = [proc EXCEPT ![p] = r]
      BY <1>2 DEF AfterScan
    <2>2. "tell" \in Pcs
      BY DEF Pcs
    <2>3. r \in ProcType /\ r.pc = "tell" /\ r.cmd = proc[p].cmd /\ r.tip = proc[p].tip /\ r.from = proc[p].from /\ r.node = n
      BY <2>2, ProcIs DEF ProcType
    <2> HIDE DEF r
    <2>4. Turns(p, "tell", proc[p].cmd, proc[p].tip, proc[p].from, n)
      BY <2>1, <2>3, TurnsBy
    <2> QED BY <1>2, <2>4
  <1> QED BY <1>1, <1>2

WithData(x) == [node EXCEPT !.data = x]

LEMMA WithDataIs ==
  ASSUME Shape, NEW x \in Belief
  PROVE  WithData(x) \in Node /\ WithData(x).data = x /\ WithData(x).state = node.state
  BY DEF WithData, Shape, StoredOK, Node

LEMMA SaveTurns ==
  ASSUME Shape, NEW p \in Procs, NEW x \in Belief,
         proc' = [proc EXCEPT ![p].pc = "save", ![p].node = WithData(x)]
  PROVE  Turns(p, "save", proc[p].cmd, proc[p].tip, proc[p].from, WithData(x))
  <1> DEFINE n == WithData(x)
             r == [proc[p] EXCEPT !.pc = "save", !.node = n]
  <1>1. n \in Node
    BY WithDataIs
  <1> HIDE DEF n
  <1>2. "save" \in Pcs
    BY DEF Pcs
  <1>3. r \in ProcType /\ r.pc = "save" /\ r.cmd = proc[p].cmd /\ r.tip = proc[p].tip /\ r.from = proc[p].from /\ r.node = n
    BY <1>1, <1>2, ProcIs DEF ProcType
  <1>4. proc' = [proc EXCEPT ![p] = r]
    BY ProcIs DEF n
  <1> HIDE DEF r
  <1>5. Turns(p, r.pc, r.cmd, r.tip, r.from, r.node)
    BY <1>3, <1>4, TurnsBy
  <1> QED BY <1>3, <1>5 DEF n

LEMMA ReadTurns ==
  ASSUME Shape, NEW p \in Procs, Read(p)
  PROVE  \/ /\ Turns(p, "idle", "none", 0, "active", Absent)
            /\ UNCHANGED <<scanned, settled>>
         \/ /\ node.data.anchor \in Ancestors(proc[p].tip) /\ Ruled(node.data, proc[p].tip) = node.data
            /\ AfterScan(p, node) /\ Settle(node.data, proc[p].tip)
         \/ /\ node.data.anchor \in Ancestors(proc[p].tip) /\ UNCHANGED <<scanned, settled>>
            /\ \E x : /\ x = Ruled(node.data, proc[p].tip) /\ Sound(x) /\ Grown(node.data, x, proc[p].tip)
                      /\ Hits(node.data, proc[p].tip) \subseteq ToSet(x.history)
                      /\ WithData(x) \in Node /\ WithData(x).data = x /\ WithData(x).state = node.state
                      /\ Turns(p, "save", proc[p].cmd, proc[p].tip, proc[p].from, WithData(x))
  <1>1. CASE node.data.anchor \notin Ancestors(proc[p].tip)
    BY <1>1, DoneTurns DEF Read
  <1>2. CASE node.data.anchor \in Ancestors(proc[p].tip) /\ Ruled(node.data, proc[p].tip) = node.data
    BY <1>2 DEF Read
  <1>3. CASE node.data.anchor \in Ancestors(proc[p].tip) /\ Ruled(node.data, proc[p].tip) # node.data
    <2>1. PICK x : x = Ruled(node.data, proc[p].tip)
      OBVIOUS
    <2>2. proc[p].tip \in 0 .. Len(log)
      <3>1. proc[p].pc = "read" /\ At(proc[p]) /\ Holds(proc[p])
        BY ProcIs DEF Read
      <3>2. proc[p].cmd \in Scans
        BY <3>1 DEF At
      <3> QED BY <3>1, <3>2, TipOK DEF Holds, Scans
    <2>3. LogOK /\ Sound(node.data)
      BY DEF Shape, TreeOK, StoredOK
    <2>4. Sound(x) /\ Grown(node.data, x, proc[p].tip) /\ Hits(node.data, proc[p].tip) \subseteq ToSet(x.history)
      BY <2>1, <2>2, <2>3, RuledGrows
    <2>5. x \in Belief
      BY <2>4 DEF Sound
    <2>6. proc' = [proc EXCEPT ![p].pc = "save", ![p].node = WithData(x)] /\ UNCHANGED <<scanned, settled>>
      BY <1>3, <2>1 DEF Read, WithData
    <2>7. Turns(p, "save", proc[p].cmd, proc[p].tip, proc[p].from, WithData(x))
      BY <2>5, <2>6, SaveTurns
    <2> QED BY <1>3, <2>1, <2>4, <2>5, <2>6, <2>7, WithDataIs
  <1> QED BY <1>1, <1>2, <1>3

LEMMA TellTurns ==
  ASSUME Shape, NEW p \in Procs, Tell(p)
  PROVE  \/ Turns(p, "idle", "none", 0, "active", Absent)
         \/ Turns(p, "read", "rescan", proc[p].tip, proc[p].from, proc[p].node)
  <1>1. CASE proc[p].cmd # "stale"
    BY <1>1, DoneTurns DEF Tell
  <1>2. CASE proc[p].cmd = "stale"
    <2> DEFINE r == [proc[p] EXCEPT !.pc = "read", !.cmd = "rescan"]
    <2>1. "read" \in Pcs /\ "rescan" \in Cmds
      BY DEF Pcs, Cmds
    <2>2. r \in ProcType /\ r.pc = "read" /\ r.cmd = "rescan" /\ r.tip = proc[p].tip /\ r.from = proc[p].from /\ r.node = proc[p].node
      BY <2>1, ProcIs DEF ProcType
    <2>3. proc' = [proc EXCEPT ![p] = r]
      BY <1>2, ProcIs DEF Tell
    <2> HIDE DEF r
    <2> QED BY <2>2, <2>3, TurnsBy
  <1> QED BY <1>1, <1>2

LEMMA AnewTurns ==
  ASSUME Shape, NEW p \in Procs, Anew(p)
  PROVE  \/ Turns(p, "idle", "none", 0, "active", Absent)
         \/ \E x : /\ Sound(x) /\ x.anchor = proc[p].tip
                   /\ Longer(node.data.history, x.history, {Entry(proc[p].tip, "reaffirmed")})
                   /\ WithData(x) \in Node /\ WithData(x).data = x /\ WithData(x).state = node.state
                   /\ Turns(p, "save", proc[p].cmd, proc[p].tip, proc[p].from, WithData(x))
  <1>1. PICK s \in {node.data.span} \cup Spans :
          IF Verified(proc[p].tip, s)
          THEN proc' = [proc EXCEPT ![p].pc = "save",
                          ![p].node = [node EXCEPT !.data = Reanchored(node.data, proc[p].tip, s)]]
          ELSE Done(p)
    BY DEF Anew
  <1>2. CASE ~Verified(proc[p].tip, s)
    BY <1>1, <1>2, DoneTurns
  <1>3. CASE Verified(proc[p].tip, s)
    <2>1. Sound(node.data)
      BY DEF Shape, StoredOK
    <2>2. s \in Nat \X Nat
      BY <2>1 DEF Sound, Belief
    <2>3. proc[p].tip \in 1 .. MaxChangesets
      <3>1. proc[p].pc = "anew" /\ At(proc[p]) /\ Holds(proc[p])
        BY ProcIs DEF Anew
      <3>2. proc[p].cmd = "reaffirm"
        BY <3>1 DEF At
      <3> QED BY <3>1, <3>2, TipOK DEF Holds
    <2>4. PICK x : x = Reanchored(node.data, proc[p].tip, s)
      OBVIOUS
    <2>5. Sound(x) /\ x.anchor = proc[p].tip /\ Longer(node.data.history, x.history, {Entry(proc[p].tip, "reaffirmed")})
      BY <2>1, <2>2, <2>3, <2>4, ReanchoredGrows
    <2>6. x \in Belief
      BY <2>5 DEF Sound
    <2>7. proc' = [proc EXCEPT ![p].pc = "save", ![p].node = WithData(x)]
      BY <1>1, <1>3, <2>4 DEF WithData
    <2>8. Turns(p, "save", proc[p].cmd, proc[p].tip, proc[p].from, WithData(x))
      BY <2>6, <2>7, SaveTurns
    <2> QED BY <2>5, <2>6, <2>8, WithDataIs
  <1> QED BY <1>2, <1>3

LEMMA StoreTurns ==
  ASSUME Shape, NEW p \in Procs, Save(p)
  PROVE  \E n \in Node : /\ n.data = proc[p].node.data /\ n.state = node.state
                         /\ Turns(p, "put", proc[p].cmd, proc[p].tip, proc[p].from, n)
  <1> DEFINE n == [proc[p].node EXCEPT !.state = node.state]
             r == [proc[p] EXCEPT !.pc = "put", !.node = n]
  <1>1. proc[p].node \in Node /\ node \in Node
    BY ProcIs DEF Shape, StoredOK
  <1>2. n \in Node /\ n.data = proc[p].node.data /\ n.state = node.state
    BY <1>1 DEF Node
  <1>3. proc' = [proc EXCEPT ![p] = r]
    BY ProcIs DEF Save
  <1>4. "put" \in Pcs
    BY DEF Pcs
  <1> HIDE DEF n
  <1>5. r \in ProcType /\ r.pc = "put" /\ r.cmd = proc[p].cmd /\ r.tip = proc[p].tip /\ r.from = proc[p].from /\ r.node = n
    BY <1>2, <1>4, ProcIs DEF ProcType
  <1> HIDE DEF r
  <1>6. Turns(p, "put", proc[p].cmd, proc[p].tip, proc[p].from, n)
    BY <1>3, <1>5, TurnsBy
  <1> QED BY <1>2, <1>6

LEMMA GoTurns ==
  ASSUME Shape, NEW p \in Procs, NEW pc \in Pcs, Go(p, pc)
  PROVE  Turns(p, pc, proc[p].cmd, proc[p].tip, proc[p].from, proc[p].node)
  <1> DEFINE r == [proc[p] EXCEPT !.pc = pc]
  <1>1. r \in ProcType /\ r.pc = pc /\ r.cmd = proc[p].cmd /\ r.tip = proc[p].tip /\ r.from = proc[p].from /\ r.node = proc[p].node
    BY ProcIs DEF ProcType
  <1>2. proc' = [proc EXCEPT ![p] = r]
    BY ProcIs DEF Go
  <1> HIDE DEF r
  <1> QED BY <1>1, <1>2, TurnsBy

WithState(x) == [node EXCEPT !.state = x]

LEMMA JudgeTurns ==
  ASSUME Shape, NEW p \in Procs, Accept(p) \/ Reject(p)
  PROVE  \/ \E cmd \in {"accept", "reject"} :
              /\ Turns(p, "clear", cmd, 0, "active", Absent)
              /\ \E s \in {"active", "archived"} :
                   node' = WithState(s) /\ (cmd = "reject" => s = "archived")
         \/ \E n \in Node : /\ n.data = node.data
                            /\ Turns(p, "put", "accept", 0, "active", n) /\ node' = node
  <1>1. "clear" \in Pcs /\ "put" \in Pcs /\ "accept" \in Cmds /\ "reject" \in Cmds /\ 0 \in Tips
    BY DEF Pcs, Cmds, Tips
  <1>2. ASSUME NEW cmd \in Cmds, Command(p, [Idle EXCEPT !.pc = "clear", !.cmd = cmd])
        PROVE  Turns(p, "clear", cmd, 0, "active", Absent)
    <2> DEFINE r == [Idle EXCEPT !.pc = "clear", !.cmd = cmd]
    <2>1. r \in ProcType /\ r.pc = "clear" /\ r.cmd = cmd /\ r.tip = 0 /\ r.from = "active" /\ r.node = Absent
      BY <1>1, IdleIs DEF ProcType
    <2>2. proc' = [proc EXCEPT ![p] = r]
      BY <1>2 DEF Command
    <2> HIDE DEF r
    <2> QED BY <2>1, <2>2, TurnsBy
  <1>3. CASE Reject(p)
    <2>1. Turns(p, "clear", "reject", 0, "active", Absent) /\ node' = WithState("archived")
      BY <1>1, <1>2, <1>3 DEF Reject, WithState
    <2> QED BY <2>1
  <1>4. CASE Accept(p) /\ node.source # "agent"
    <2>1. Turns(p, "clear", "accept", 0, "active", Absent) /\ node' = WithState("active")
      BY <1>1, <1>2, <1>4 DEF Accept, WithState
    <2> QED BY <2>1
  <1>5. CASE Accept(p) /\ node.source = "agent"
    <2> DEFINE n == WithState("active")
               r == [Idle EXCEPT !.pc = "put", !.cmd = "accept", !.node = n]
    <2>1. n \in Node /\ n.data = node.data
      BY DEF WithState, Shape, StoredOK, Node
    <2>2. proc' = [proc EXCEPT ![p] = r] /\ node' = node
      BY <1>5 DEF Accept, Command, WithState
    <2> HIDE DEF n
    <2>3. r \in ProcType /\ r.pc = "put" /\ r.cmd = "accept" /\ r.tip = 0 /\ r.from = "active" /\ r.node = n
      BY <1>1, <2>1, IdleIs DEF ProcType
    <2> HIDE DEF r
    <2>4. Turns(p, "put", "accept", 0, "active", n)
      BY <2>2, <2>3, TurnsBy
    <2> QED BY <2>1, <2>2, <2>4
  <1> QED BY <1>3, <1>4, <1>5

LEMMA PutIs ==
  ASSUME Shape, NEW p \in Procs, Put(p)
  PROVE  /\ node' = proc[p].node /\ proc[p].pc = "put" /\ UNCHANGED <<log, tip, head, proposal, left>>
         /\ \/ /\ proc[p].cmd \in Scans
               /\ AfterScan(p, proc[p].node) /\ Settle(proc[p].node.data, proc[p].tip) /\ told' = told
            \/ /\ proc[p].cmd = "accept"
               /\ Turns(p, "clear", "accept", proc[p].tip, proc[p].from, proc[p].node)
               /\ UNCHANGED <<scanned, settled, told>>
            \/ /\ proc[p].cmd \in {"add", "propose", "reaffirm"}
               /\ \/ Turns(p, "idle", "none", 0, "active", Absent)
                  \/ proc[p].cmd = "propose" /\ Turns(p, "side", "propose", proc[p].tip, proc[p].from, proc[p].node)
               /\ scanned' = proc[p].tip /\ told' = [k \in DOMAIN told |-> 0]
               /\ settled' = IF proc[p].cmd = "reaffirm" THEN {x \in settled : proc[p].tip \notin Ancestors(x)} ELSE {}
  <1>1. proc[p].pc = "put" /\ node' = proc[p].node /\ UNCHANGED <<log, tip, head, proposal, left>>
    BY DEF Put
  <1>2. proc[p].cmd \in Scans \cup {"add", "propose", "reaffirm", "accept"}
    BY <1>1, ProcIs DEF At
  <1>3. "side" \in Pcs /\ "clear" \in Pcs
    BY DEF Pcs
  <1>4. CASE proc[p].cmd \in Scans
    BY <1>1, <1>4 DEF Put, Scans
  <1>5. CASE proc[p].cmd = "accept"
    <2>1. Go(p, "clear") /\ UNCHANGED <<scanned, settled, told>>
      BY <1>5 DEF Put
    <2> QED BY <1>1, <1>3, <1>5, <2>1, GoTurns
  <1>6. CASE proc[p].cmd = "propose"
    <2>1. Go(p, "side") /\ scanned' = proc[p].tip /\ settled' = {} /\ told' = [k \in DOMAIN told |-> 0]
      BY <1>6 DEF Put
    <2> QED BY <1>1, <1>3, <1>6, <2>1, GoTurns
  <1>7. CASE proc[p].cmd \in {"add", "reaffirm"}
    <2>1. Done(p) /\ scanned' = proc[p].tip /\ told' = [k \in DOMAIN told |-> 0]
          /\ settled' = IF proc[p].cmd = "reaffirm" THEN {x \in settled : proc[p].tip \notin Ancestors(x)} ELSE {}
      BY <1>7 DEF Put
    <2> QED BY <1>1, <1>7, <2>1, DoneTurns
  <1> QED BY <1>2, <1>4, <1>5, <1>6, <1>7

Suits(pc, cmd) == \A r : r.pc = pc /\ r.cmd = cmd => At(r)
Fit(pc, cmd, t, n) ==
  /\ Sound(n.data) /\ Suits(pc, cmd)
  /\ pc = "put" /\ cmd = "propose" => n.state = "proposed"
  /\ cmd \notin {"none", "accept", "reject"} => t \in 1 .. Len(log)
  /\ pc \in {"save", "put"} /\ cmd \in Scans => Complete(n.data, t)

LEMMA TurnsKeep ==
  ASSUME Shape, log' = log, NEW p \in Procs, NEW pc, NEW cmd, NEW t, NEW from, NEW n,
         Turns(p, pc, cmd, t, from, n), Fit(pc, cmd, t, n)
  PROVE  RunningOK'
  <1>1. PICK r \in ProcType : Moves(p, r) /\ r.pc = pc /\ r.cmd = cmd /\ r.tip = t /\ r.from = from /\ r.node = n
    BY DEF Turns
  <1>2. Holds(r)
    BY <1>1 DEF Fit, Suits, Holds
  <1>3. LogOK /\ LogOK' /\ RunningOK
    BY DEF Shape, TreeOK, LogOK
  <1>4. Holds(r)'
    BY <1>2, <1>3, HoldsKept
  <1> QED BY <1>1, <1>3, <1>4, RunningMoves

LEMMA IdleFit == Fit("idle", "none", 0, Absent)
  <1>1. Suits("idle", "none")
    BY DEF Suits, At
  <1> QED BY <1>1, AbsentSound DEF Fit

LEMMA DoneKeeps ==
  ASSUME Shape, log' = log, NEW p \in Procs, Turns(p, "idle", "none", 0, "active", Absent)
  PROVE  RunningOK'
  BY TurnsKeep, IdleFit

LEMMA AfterKeeps ==
  ASSUME Shape, log' = log, NEW p \in Procs, NEW n \in Node, Sound(n.data), proc[p].pc \in {"read", "put"}, AfterScan(p, n)
  PROVE  RunningOK'
  <1>1. CASE Turns(p, "idle", "none", 0, "active", Absent)
    BY <1>1, DoneKeeps
  <1>2. CASE proc[p].cmd \in {"promote", "stale"} /\ Turns(p, "tell", proc[p].cmd, proc[p].tip, proc[p].from, n)
    <2>1. Suits("tell", proc[p].cmd)
      BY <1>2 DEF Suits, At
    <2>2. proc[p].tip \in 1 .. Len(log)
      BY <1>2, ProcIs DEF Holds
    <2>3. Fit("tell", proc[p].cmd, proc[p].tip, n)
      BY <2>1, <2>2 DEF Fit
    <2> QED BY <1>2, <2>3, TurnsKeep
  <1> QED BY <1>1, <1>2, AfterTurns

(* Every action keeps to what a process can be at.                         *)
LEMMA RunningKept ==
  ASSUME Shape, log' = log, NEW p \in Procs,
         \/ Stale(p) \/ Bisect(p) \/ List(p) \/ Read(p) \/ Tell(p)
         \/ Add(p) \/ Propose(p) \/ Reaffirm(p) \/ AgentReaffirm(p) \/ Anew(p) \/ Save(p) \/ Put(p)
         \/ WriteProposal(p) \/ Accept(p) \/ Reject(p) \/ ClearProposal(p) \/ Crash(p)
  PROVE  RunningOK'
  <1>0. Suits("list", "stale") /\ Suits("read", "bisect") /\ Suits("anew", "reaffirm") /\ Suits("put", "add")
        /\ Suits("put", "propose") /\ Suits("read", "rescan") /\ Suits("clear", "accept") /\ Suits("clear", "reject")
        /\ Suits("put", "accept") /\ Suits("side", "propose") /\ Suits("save", "reaffirm")
    BY DEF Suits, At, Scans
  <1>1. CASE Stale(p)
    <2>1. Fit("list", "stale", tip[head], Absent)
      BY <1>0, TipOK, AbsentSound DEF Fit
    <2> QED BY <1>1, <2>1, CommandTurns, TurnsKeep
  <1>2. CASE Bisect(p)
    <2>1. Fit("read", "bisect", tip[head], Absent)
      BY <1>0, TipOK, AbsentSound DEF Fit
    <2> QED BY <1>2, <2>1, CommandTurns, TurnsKeep
  <1>3. CASE Reaffirm(p) \/ AgentReaffirm(p)
    <2>1. Fit("anew", "reaffirm", tip[head], Absent)
      BY <1>0, TipOK, AbsentSound DEF Fit
    <2> QED BY <1>3, <2>1, CommandTurns, TurnsKeep
  <1>4. CASE Add(p) \/ Propose(p)
    <2>1. PICK n, cmd : Newly(n, cmd) /\ Turns(p, "put", cmd, tip[head], "active", n)
      BY <1>4, AddTurns
    <2>2. cmd \notin Scans
      BY <2>1 DEF Newly, Scans
    <2>3. Fit("put", cmd, tip[head], n)
      BY <1>0, <2>1, <2>2, TipOK DEF Fit, Newly
    <2> QED BY <2>1, <2>3, TurnsKeep
  <1>5. CASE List(p)
    <2>1. CASE Turns(p, "read", proc[p].cmd, proc[p].tip, node.data.status, proc[p].node)
      <3>1. proc[p].cmd \in {"promote", "stale"} /\ proc[p].tip \in 1 .. Len(log)
        BY <1>5, ProcIs DEF List, At, Holds
      <3>2. Suits("read", proc[p].cmd)
        BY <3>1 DEF Suits, At, Scans
      <3>3. Fit("read", proc[p].cmd, proc[p].tip, proc[p].node)
        BY <3>1, <3>2, ProcIs DEF Fit
      <3> QED BY <2>1, <3>3, TurnsKeep
    <2> QED BY <1>5, <2>1, ListTurns, DoneKeeps
  <1>6. CASE Read(p)
    <2>0. proc[p].pc = "read" /\ node \in Node /\ Sound(node.data) /\ proc[p].cmd \in Scans
      BY <1>6, ProcIs DEF Read, Shape, StoredOK, At
    <2>1. CASE Turns(p, "idle", "none", 0, "active", Absent)
      BY <2>1, DoneKeeps
    <2>2. CASE AfterScan(p, node)
      BY <2>0, <2>2, AfterKeeps
    <2>3. ASSUME node.data.anchor \in Ancestors(proc[p].tip),
                 NEW x, Sound(x), Grown(node.data, x, proc[p].tip), Hits(node.data, proc[p].tip) \subseteq ToSet(x.history),
                 WithData(x) \in Node, WithData(x).data = x,
                 Turns(p, "save", proc[p].cmd, proc[p].tip, proc[p].from, WithData(x))
          PROVE  RunningOK'
      <3>1. Suits("save", proc[p].cmd)
        BY <2>0 DEF Suits, At
      <3>2. proc[p].tip \in 1 .. Len(log)
        BY <2>0, ProcIs DEF Holds, Scans
      <3>3. Hits(x, proc[p].tip) = Hits(node.data, proc[p].tip) /\ x.anchor = node.data.anchor
        BY <2>3 DEF Grown, Hits, Scan
      <3>4. Fit("save", proc[p].cmd, proc[p].tip, WithData(x))
        BY <2>3, <3>1, <3>2, <3>3 DEF Fit, Complete
      <3> QED BY <2>3, <3>4, TurnsKeep
    <2> QED BY <1>6, <2>1, <2>2, <2>3, ReadTurns
  <1>7. CASE Tell(p)
    <2>1. CASE Turns(p, "read", "rescan", proc[p].tip, proc[p].from, proc[p].node)
      <3>1. proc[p].tip \in 1 .. Len(log)
        BY <1>7, ProcIs DEF Tell, At, Holds
      <3>2. Fit("read", "rescan", proc[p].tip, proc[p].node)
        BY <1>0, <3>1, ProcIs DEF Fit
      <3> QED BY <2>1, <3>2, TurnsKeep
    <2> QED BY <1>7, <2>1, TellTurns, DoneKeeps
  <1>8. CASE Anew(p)
    <2>1. ASSUME NEW x, Sound(x), WithData(x).data = x,
                 Turns(p, "save", proc[p].cmd, proc[p].tip, proc[p].from, WithData(x))
          PROVE  RunningOK'
      <3>1. proc[p].cmd = "reaffirm" /\ proc[p].tip \in 1 .. Len(log)
        BY <1>8, ProcIs DEF Anew, At, Holds
      <3>2. Fit("save", proc[p].cmd, proc[p].tip, WithData(x))
        BY <1>0, <2>1, <3>1 DEF Fit, Scans
      <3> QED BY <2>1, <3>2, TurnsKeep
    <2> QED BY <1>8, <2>1, AnewTurns, DoneKeeps
  <1>9. CASE Save(p)
    <2>1. PICK n \in Node : /\ n.data = proc[p].node.data /\ n.state = node.state
                            /\ Turns(p, "put", proc[p].cmd, proc[p].tip, proc[p].from, n)
      BY <1>9, StoreTurns
    <2>2. proc[p].pc = "save" /\ proc[p].cmd \in Scans \cup {"reaffirm"}
      BY <1>9, ProcIs DEF Save, At
    <2>3. Suits("put", proc[p].cmd)
      BY <2>2 DEF Suits, At
    <2>4. proc[p].tip \in 1 .. Len(log) /\ proc[p].cmd # "propose"
      BY <2>2, ProcIs DEF Holds, Scans
    <2>5. Fit("put", proc[p].cmd, proc[p].tip, n)
      BY <2>1, <2>2, <2>3, <2>4, ProcIs DEF Fit, Holds
    <2> QED BY <2>1, <2>5, TurnsKeep
  <1>10. CASE Put(p)
    <2>0. proc[p].pc = "put" /\ proc[p].node \in Node /\ Sound(proc[p].node.data)
      BY <1>10, ProcIs DEF Put
    <2>1. CASE AfterScan(p, proc[p].node)
      BY <2>0, <2>1, AfterKeeps
    <2>2. CASE Turns(p, "clear", "accept", proc[p].tip, proc[p].from, proc[p].node)
      <3>1. Fit("clear", "accept", proc[p].tip, proc[p].node)
        BY <1>0, <2>0 DEF Fit
      <3> QED BY <2>2, <3>1, TurnsKeep
    <2>3. CASE proc[p].cmd = "propose" /\ Turns(p, "side", "propose", proc[p].tip, proc[p].from, proc[p].node)
      <3>1. proc[p].tip \in 1 .. Len(log)
        BY <2>3, ProcIs DEF Holds
      <3>2. Fit("side", "propose", proc[p].tip, proc[p].node)
        BY <1>0, <2>0, <3>1 DEF Fit
      <3> QED BY <2>3, <3>2, TurnsKeep
    <2> QED BY <1>10, <2>1, <2>2, <2>3, PutIs, DoneKeeps
  <1>11. CASE Accept(p) \/ Reject(p)
    <2>1. ASSUME NEW cmd \in {"accept", "reject"}, Turns(p, "clear", cmd, 0, "active", Absent) PROVE RunningOK'
      <3>1. Fit("clear", cmd, 0, Absent)
        BY <1>0, AbsentSound DEF Fit
      <3> QED BY <2>1, <3>1, TurnsKeep
    <2>2. ASSUME NEW n \in Node, n.data = node.data, Turns(p, "put", "accept", 0, "active", n) PROVE RunningOK'
      <3>1. Sound(n.data)
        BY <2>2 DEF Shape, StoredOK
      <3>2. Fit("put", "accept", 0, n)
        BY <1>0, <3>1 DEF Fit, Scans
      <3> QED BY <2>2, <3>2, TurnsKeep
    <2> QED BY <1>11, <2>1, <2>2, JudgeTurns
  <1>12. CASE WriteProposal(p) \/ ClearProposal(p) \/ Crash(p)
    <2>1. Done(p)
      BY <1>12 DEF WriteProposal, ClearProposal, Crash
    <2> QED BY <2>1, DoneTurns, DoneKeeps
  <1> QED BY <1>1, <1>2, <1>3, <1>4, <1>5, <1>6, <1>7, <1>8, <1>9, <1>10, <1>11, <1>12

-----------------------------------------------------------------------------
(* The types, as an invariant.                                             *)
LEMMA IdleHolds == Holds(Idle)
  BY IdleIs, AbsentSound DEF Holds, At

LEMMA ShapeInit == Init => Shape
  <1> SUFFICES ASSUME Init PROVE Shape
    OBVIOUS
  <1>1. TreeOK
    <2> DEFINE e == [parent |-> 0, kind |-> "make", other |-> TRUE, ops |-> {}, there |-> TRUE, lines |-> Fresh(1)]
    <2>1. log = <<e>> /\ e.parent = 0 /\ e.kind = "make" /\ e.ops = {}
      BY DEF Init
    <2> HIDE DEF e
    <2>2. Len(log) = 1 /\ log[1] = e /\ \A c \in 1 .. Len(log) : c = 1
      BY <2>1
    <2>3. IsSeq(log)
      <3>1. e \in {log[i] : i \in 1 .. Len(log)}
        BY <2>2
      <3> DEFINE S == {log[i] : i \in 1 .. Len(log)}
      <3> HIDE DEF S
      <3>2. <<e>> \in Seq(S)
        BY <3>1 DEF S
      <3> QED BY <2>1, <3>2 DEF IsSeq, S
    <2>4. LogOK
      <3>1. ASSUME NEW c \in 1 .. Len(log) PROVE c = 1 /\ log[c] = e
        BY <2>2
      <3>2. Len(log) \in 1 .. MaxChangesets
        BY <2>2
      <3>3. e.parent \in 0 .. 1 - 1 /\ e.kind \in {"none", "edit", "drop", "make"} /\ e.ops \subseteq LineOp /\ IsFiniteSet(e.ops)
        BY <2>1, FS_EmptySet
      <3>4. \A c \in 1 .. Len(log) : /\ log[c].parent \in 0 .. c - 1
                                     /\ log[c].kind \in {"none", "edit", "drop", "make"}
                                     /\ log[c].ops \subseteq LineOp /\ IsFiniteSet(log[c].ops)
        BY <3>1, <3>3
      <3> QED BY <2>3, <3>2, <3>4 DEF LogOK
    <2>5. 2 .. Len(log) = {}
      BY <2>2
    <2> QED BY <2>4, <2>5 DEF TreeOK
  <1>2. RefsOK
    BY DEF Init, RefsOK
  <1>3. StoredOK
    <2>1. node = Absent /\ proposal = FALSE /\ left = MaxCommands
      BY DEF Init
    <2>2. left \in 0 .. MaxCommands
      BY <2>1
    <2> QED BY <2>1, <2>2, AbsentSound DEF StoredOK
  <1>4. RunningOK
    BY IdleIs, IdleHolds DEF Init, RunningOK
  <1>5. RuledOK
    BY DEF Init, RuledOK
  <1>6. WatchedOK
    BY DEF Init, WatchedOK
  <1> QED BY <1>1, <1>2, <1>3, <1>4, <1>5, <1>6 DEF Shape

LEMMA WatchKeeps ==
  ASSUME WatchedOK, Watch
  PROVE  WatchedOK'
  <1>1. late' \subseteq Procs \X {"status", "data", "state"}
    BY DEF Watch
  <1>2. crossed' \in BOOLEAN
    <2> DEFINE E == \E x \in late :
                      /\ proc'[x[1]] # proc[x[1]]
                      /\ IF proc[x[1]].pc = "put" THEN x[2] # "status" /\ node' # node
                                                  ELSE proc[x[1]].pc = "tell" /\ told' # told
    <2>1. crossed' = (crossed \/ E)
      BY DEF Watch
    <2> HIDE DEF E
    <2> QED BY <2>1 DEF WatchedOK
  <1> QED BY <1>1, <1>2 DEF WatchedOK

LEMMA TreeStays ==
  ASSUME TreeOK, RefsOK, UNCHANGED <<log, tip, head>>
  PROVE  TreeOK' /\ RefsOK'
  BY DEF TreeOK, LogOK, RefsOK

LEMMA SettleKeeps ==
  ASSUME Shape, NEW d, NEW c \in 0 .. Len(log), d.anchor \in Ancestors(c), Settle(d, c), log' = log
  PROVE  scanned' \in 0 .. MaxChangesets /\ settled' \subseteq 1 .. Len(log')
  <1>1. LogOK /\ Len(log) \in 1 .. MaxChangesets /\ settled \subseteq 1 .. Len(log)
    BY DEF Shape, TreeOK, LogOK, RuledOK
  <1>2. Ancestors(c) \subseteq 1 .. c /\ On(d.anchor, c) \subseteq 1 .. c
    BY <1>1, AncestorsOlder, OnType
  <1>3. scanned' = c /\ settled' = settled \cup {d.anchor} \cup On(d.anchor, c)
    BY DEF Settle, On
  <1>4. 1 .. c \subseteq 1 .. Len(log) /\ c \in 0 .. MaxChangesets
    BY <1>1
  <1> QED BY <1>1, <1>2, <1>3, <1>4

ProcSteps(p) ==
  \/ Stale(p) \/ Bisect(p) \/ List(p) \/ Read(p) \/ Tell(p)
  \/ Add(p) \/ Propose(p) \/ Reaffirm(p) \/ AgentReaffirm(p) \/ Anew(p) \/ Save(p) \/ Put(p)
  \/ WriteProposal(p) \/ Accept(p) \/ Reject(p) \/ ClearProposal(p) \/ Crash(p)

LEMMA ProcShape ==
  ASSUME Shape, NEW p \in Procs, ProcSteps(p)
  PROVE  TreeOK' /\ RefsOK' /\ StoredOK' /\ RunningOK' /\ RuledOK' /\ UNCHANGED <<log, tip, head>>
  <1>1. UNCHANGED <<log, tip, head>>
    BY DEF ProcSteps, Stale, Bisect, List, Read, Tell, Add, Propose, Reaffirm, AgentReaffirm, Anew, Save, Put,
           WriteProposal, Accept, Reject, ClearProposal, Crash
  <1>2. TreeOK' /\ RefsOK'
    BY <1>1, TreeStays DEF Shape
  <1>3. RunningOK'
    BY <1>1, RunningKept DEF ProcSteps
  <1>4. StoredOK
    BY DEF Shape
  <1>5. RuledOK /\ Len(log) \in 1 .. MaxChangesets
    BY TipOK DEF Shape
  <1>6. left' \in 0 .. MaxCommands
    <2>1. left' = left \/ (left > 0 /\ left' = left - 1)
      BY DEF ProcSteps, Command, graph, Stale, Bisect, List, Read, Tell, Add, Propose, Reaffirm,
             AgentReaffirm, Anew, Save, Put, WriteProposal, Accept, Reject, ClearProposal, Crash
    <2> QED BY <1>4, <2>1 DEF StoredOK
  <1>7. proposal' \in BOOLEAN
    BY <1>4 DEF ProcSteps, StoredOK, graph, Stale, Bisect, List, Read, Tell, Add, Propose, Reaffirm,
                AgentReaffirm, Anew, Save, Put, WriteProposal, Accept, Reject, ClearProposal, Crash
  <1>8. node' \in Node /\ Sound(node.data)' /\ RuledOK'
    <2>1. CASE Put(p)
      <3>1. node' = proc[p].node
        BY <2>1, PutIs
      <3>2. node' \in Node /\ Sound(node.data)'
        BY <3>1, ProcIs
      <3>3. CASE proc[p].cmd \in Scans /\ Settle(proc[p].node.data, proc[p].tip) /\ told' = told
        <4>1. Complete(proc[p].node.data, proc[p].tip) /\ proc[p].tip \in 1 .. Len(log)
          BY <2>1, <3>3, ProcIs DEF Holds, Put, Scans
        <4>2. proc[p].node.data.anchor \in Ancestors(proc[p].tip) /\ proc[p].tip \in 0 .. Len(log)
          BY <4>1, <1>5 DEF Complete
        <4> QED BY <1>1, <1>5, <3>2, <3>3, <4>2, SettleKeeps DEF RuledOK
      <3>4. CASE UNCHANGED <<scanned, settled, told>>
        BY <1>1, <1>5, <3>2, <3>4 DEF RuledOK
      <3>5. CASE /\ scanned' = proc[p].tip /\ told' = [k \in DOMAIN told |-> 0]
                 /\ settled' = IF proc[p].cmd = "reaffirm" THEN {x \in settled : proc[p].tip \notin Ancestors(x)} ELSE {}
        <4>1. scanned' \in 0 .. MaxChangesets
          BY <3>5, ProcIs DEF Tips
        <4>2. told' \in [{"stale", "invalidated"} -> Nat]
          BY <1>5, <3>5 DEF RuledOK
        <4>3. settled' \subseteq 1 .. Len(log)
          BY <1>5, <3>5 DEF RuledOK
        <4> QED BY <1>1, <3>2, <4>1, <4>2, <4>3 DEF RuledOK
      <3> QED BY <2>1, <3>3, <3>4, <3>5, PutIs
    <2>2. CASE Accept(p) \/ Reject(p)
      <3>1. UNCHANGED ghost
        BY <2>2 DEF Accept, Reject
      <3>2. ASSUME NEW s \in {"active", "archived"}, node' = WithState(s) PROVE node' \in Node /\ node'.data = node.data
        BY <1>4, <3>2 DEF WithState, StoredOK, Node
      <3>3. node' \in Node /\ node'.data = node.data
        BY <1>4, <2>2, <3>2, JudgeTurns DEF StoredOK
      <3> QED BY <1>1, <1>4, <1>5, <3>1, <3>3 DEF StoredOK, RuledOK, ghost
    <2>3. CASE Read(p)
      <3>1. node' = node /\ told' = told
        BY <2>3 DEF Read, graph
      <3>2. CASE node.data.anchor \in Ancestors(proc[p].tip) /\ Settle(node.data, proc[p].tip)
        <4>1. proc[p].tip \in 0 .. Len(log)
          <5>1. proc[p].cmd \in Scans /\ Holds(proc[p])
            BY <2>3, ProcIs DEF Read, At
          <5> QED BY <1>5, <5>1 DEF Holds, Scans
        <4> QED BY <1>1, <1>4, <1>5, <3>1, <3>2, <4>1, SettleKeeps DEF StoredOK, RuledOK
      <3>3. CASE UNCHANGED <<scanned, settled>>
        BY <1>1, <1>4, <1>5, <3>1, <3>3 DEF StoredOK, RuledOK
      <3> QED BY <2>3, <3>2, <3>3, ReadTurns
    <2>4. CASE Tell(p)
      <3>1. node' = node /\ UNCHANGED <<scanned, settled>>
        BY <2>4 DEF Tell, graph
      <3>2. told' \in [{"stale", "invalidated"} -> Nat]
        BY <1>5, <2>4 DEF Tell, RuledOK
      <3> QED BY <1>1, <1>4, <1>5, <3>1, <3>2 DEF StoredOK, RuledOK
    <2>5. CASE ~(Put(p) \/ Accept(p) \/ Reject(p) \/ Read(p) \/ Tell(p))
      <3>1. node' = node /\ UNCHANGED <<scanned, settled, told>>
        BY <2>5 DEF ProcSteps, graph, ghost, Stale, Bisect, List, Add, Propose, Reaffirm, AgentReaffirm, Anew, Save,
                    WriteProposal, ClearProposal, Crash
      <3> QED BY <1>1, <1>4, <1>5, <3>1 DEF StoredOK, RuledOK
    <2> QED BY <2>1, <2>2, <2>3, <2>4, <2>5
  <1> QED BY <1>1, <1>2, <1>3, <1>6, <1>7, <1>8 DEF StoredOK

LEMMA GrowKeeps ==
  ASSUME Shape, NEW b \in Branches, NEW ch \in Changes, Grow(b, ch)
  PROVE  TreeOK' /\ RefsOK' /\ node' = node /\ proposal' = proposal /\ Sound(node.data)' /\ RuledOK' /\ LogGrows /\ LogOK /\ LogOK'
         /\ Len(log') = Len(log) + 1
  <1>1. TreeOK' /\ RefsOK' /\ LogGrows /\ Len(log') = Len(log) + 1 /\ TreeOK
    BY GrowShape DEF Shape
  <1>2. UNCHANGED <<graph, ghost>>
    BY DEF Grow
  <1>3. RuledOK' /\ Sound(node.data)'
    BY <1>1, <1>2, TipOK DEF Shape, StoredOK, RuledOK, graph, ghost
  <1> QED BY <1>1, <1>2, <1>3 DEF graph, TreeOK

LEMMA ShapeStep ==
  ASSUME Shape, [Next]_vars
  PROVE  Shape'
  <1>1. CASE UNCHANGED vars
    <2>1. TreeOK' /\ RefsOK' /\ LogOK /\ LogOK' /\ log' = log /\ proc' = proc
      BY <1>1, TreeStays DEF Shape, vars, TreeOK
    <2>2. RunningOK'
      BY <2>1, RunningStays DEF Shape
    <2>3. StoredOK' /\ RuledOK' /\ WatchedOK'
      BY <1>1 DEF Shape, StoredOK, RuledOK, WatchedOK, vars
    <2> QED BY <2>1, <2>2, <2>3 DEF Shape
  <1>2. CASE Next
    <2>1. WatchedOK'
      BY <1>2, WatchKeeps DEF Next, Shape
    <2>2. CASE \E p \in Procs : ProcSteps(p)
      BY <2>1, <2>2, ProcShape DEF Shape
    <2>3. CASE FastForward
      <3>1. PICK b \in Branches, ch \in Changes : Grow(b, ch)
        BY <2>3 DEF FastForward
      <3>2. UNCHANGED <<proc, left>>
        BY <2>3 DEF FastForward
      <3>3. RunningOK'
        BY <3>1, <3>2, GrowKeeps, RunningStays DEF Shape
      <3>4. StoredOK'
        BY <3>1, <3>2, GrowKeeps DEF Shape, StoredOK
      <3> QED BY <2>1, <3>1, <3>3, <3>4, GrowKeeps DEF Shape
    <2>4. CASE \E p \in Procs : Promote(p)
      <3>1. PICK p \in Procs : Promote(p)
        BY <2>4
      <3>2. PICK ch \in Changes : Grow(head, ch)
        BY <3>1 DEF Promote
      <3>3. head \in Branches
        BY DEF Shape, RefsOK
      <3>4. /\ TreeOK' /\ RefsOK' /\ node' = node /\ proposal' = proposal /\ Sound(node.data)' /\ RuledOK'
            /\ LogGrows /\ LogOK /\ LogOK' /\ Len(log') = Len(log) + 1
        BY <3>2, <3>3, GrowKeeps
      <3>5. StoredOK'
        BY <3>1, <3>4 DEF Shape, StoredOK, Promote
      <3>6. PICK r \in ProcType : /\ Moves(p, r) /\ r.pc = "list" /\ r.cmd = "promote" /\ r.tip = Len(log) + 1
                                  /\ r.from = "active" /\ r.node = Absent
        BY <3>1, PromoteTurns DEF Turns
      <3>7. Holds(r)'
        <4>1. r.tip \in 1 .. Len(log')
          BY <3>4, <3>6, TipOK
        <4> QED BY <3>6, <4>1, AbsentSound DEF Holds, At
      <3>8. RunningOK'
        BY <3>4, <3>6, <3>7, RunningMoves DEF Shape
      <3> QED BY <2>1, <3>4, <3>5, <3>8 DEF Shape
    <2>5. CASE CreateBranch \/ Switch
      <3>1. UNCHANGED <<log, graph, proc, left, ghost>>
        BY <2>5 DEF CreateBranch, Switch
      <3>2. TreeOK' /\ LogOK /\ LogOK' /\ log' = log /\ proc' = proc
        BY <3>1 DEF Shape, TreeOK, LogOK
      <3>3. RefsOK'
        <4>1. tip \in [Branches -> 0 .. Len(log)] /\ head \in Branches /\ tip[head] # 0
          BY DEF Shape, RefsOK
        <4>2. CASE CreateBranch
          <5>1. PICK b \in Branches : tip[b] = 0 /\ tip' = [tip EXCEPT ![b] = tip[head]] /\ head' = head
            BY <4>2 DEF CreateBranch
          <5> QED BY <3>1, <4>1, <5>1 DEF RefsOK
        <4>3. CASE Switch
          BY <3>1, <4>1, <4>3 DEF RefsOK, Switch
        <4> QED BY <2>5, <4>2, <4>3
      <3>4. RunningOK'
        BY <3>2, RunningStays DEF Shape
      <3>5. StoredOK' /\ RuledOK'
        BY <3>1 DEF Shape, StoredOK, RuledOK, graph, ghost
      <3> QED BY <2>1, <3>2, <3>3, <3>4, <3>5 DEF Shape
    <2> QED BY <1>2, <2>2, <2>3, <2>4, <2>5 DEF Next, Steps, ProcSteps
  <1> QED BY <1>1, <1>2

LEMMA ShapeAlways == Spec => []Shape
  <1>1. Shape /\ [Next]_vars => Shape'
    BY ShapeStep
  <1> QED BY <1>1, ShapeInit, PTL DEF Spec

LEMMA ShapeTyped == Shape => TypeOK
  <1> SUFFICES ASSUME Shape PROVE TypeOK
    OBVIOUS
  <1>1. proc \in [Procs -> ProcType]
    BY DEF Shape, RunningOK
  <1> QED BY <1>1 DEF Shape, TreeOK, LogOK, RefsOK, StoredOK, RuledOK, WatchedOK, TypeOK, ProcType, Pcs, Cmds, Tips

-----------------------------------------------------------------------------
(* What a process goes by and is not late is what is stored.               *)
LEMMA NotLate ==
  ASSUME Watch, NEW p \in Procs, NEW k \in {"status", "data", "state"}, <<p, k>> \notin late', k \in GoesBy(proc'[p])
  PROVE  <<p, k>> \notin late /\ (proc'[p] = proc[p] => Part(node')[k] = Part(node)[k])
  <1>1. <<p, k>> \in Procs \X {"status", "data", "state"} /\ <<p, k>>[1] = p /\ <<p, k>>[2] = k
    OBVIOUS
  <1>2. late' = {x \in Procs \X {"status", "data", "state"} :
           /\ x[2] \in GoesBy(proc'[x[1]])
           /\ x \in late \/ (proc'[x[1]] = proc[x[1]] /\ Part(node')[x[2]] # Part(node)[x[2]])}
    BY DEF Watch
  <1> QED BY <1>1, <1>2

LEMMA Uncrossed ==
  ASSUME Watch, WatchedOK, ~crossed', NEW p \in Procs, proc'[p] # proc[p]
  PROVE  /\ ~crossed
         /\ proc[p].pc = "put" /\ node' # node => <<p, "data">> \notin late /\ <<p, "state">> \notin late
         /\ proc[p].pc = "tell" /\ told' # told => <<p, "data">> \notin late /\ <<p, "status">> \notin late
  <1>1. ASSUME NEW k \in {"status", "data", "state"}, <<p, k>> \in late
        PROVE  ~(IF proc[p].pc = "put" THEN k # "status" /\ node' # node ELSE proc[p].pc = "tell" /\ told' # told)
    <2>1. \A x \in late : ~( /\ proc'[x[1]] # proc[x[1]]
                             /\ IF proc[x[1]].pc = "put" THEN x[2] # "status" /\ node' # node
                                                         ELSE proc[x[1]].pc = "tell" /\ told' # told)
      BY DEF Watch
    <2>2. <<p, k>>[1] = p /\ <<p, k>>[2] = k
      OBVIOUS
    <2> QED BY <1>1, <2>1, <2>2
  <1>2. ~crossed
    BY DEF Watch
  <1> QED BY <1>1, <1>2

Logged == LogOK /\ LogOK' /\ (LogGrows \/ log' = log)

LEMMA OthersFresh ==
  ASSUME Shape, Watch, Logged, NEW p \in Procs, UpToDate(p), proc'[p] = proc[p]
  PROVE  UpToDate(p)'
  <1>1. PICK r : r = proc[p] /\ r = proc'[p]
    OBVIOUS
  <1>2. Holds(r) /\ At(r)
    BY <1>1, ProcIs
  <1>3. ASSUME <<p, "data">> \notin late' PROVE FreshData(r)'
    <2>1. CASE "data" \notin GoesBy(r)
      <3>1. r.pc \notin {"save", "put", "tell"} \/ r.cmd \in {"add", "propose"}
        BY <2>1 DEF GoesBy
      <3>2. r.pc = "tell" => r.cmd \in {"promote", "stale"}
        BY <1>2 DEF At
      <3> QED BY <3>1, <3>2 DEF FreshData, Scans
    <2>2. CASE "data" \in GoesBy(r)
      <3>1. <<p, "data">> \notin late /\ Part(node')["data"] = Part(node)["data"]
        BY <1>1, <1>3, <2>2, NotLate
      <3>2. PICK d : d = node.data /\ d = node'.data
        BY <3>1 DEF Part
      <3>3. FreshData(r)
        BY <1>1, <3>1 DEF UpToDate
      <3>4. ASSUME r.pc \in {"save", "put"}, r.cmd \in Scans PROVE Grown(d, r.node.data, r.tip)'
        <4>1. PICK e, c : e = r.node.data /\ c = r.tip
          OBVIOUS
        <4>2. c \in 0 .. Len(log)
          BY <1>2, <3>4, <4>1, TipOK DEF Holds, Scans
        <4>3. Hits(d, c)' = Hits(d, c)
          BY <4>2, CompleteKept DEF Logged
        <4>4. Grown(d, e, c)
          BY <3>2, <3>3, <3>4, <4>1 DEF FreshData
        <4>5. Grown(d, e, c)'
          BY <4>3, <4>4 DEF Grown
        <4> QED BY <4>1, <4>5
      <3>5. (node.data)' = d
        BY <3>2
      <3> QED BY <3>2, <3>3, <3>4, <3>5 DEF FreshData
    <2> QED BY <2>1, <2>2
  <1>4. ASSUME <<p, "state">> \notin late' PROVE FreshState(r)'
    <2> SUFFICES ASSUME r.pc = "put", r.cmd \in Scans \cup {"reaffirm"} PROVE r.node.state = node'.state
      BY DEF FreshState
    <2>1. "state" \in GoesBy(r)
      BY DEF GoesBy, Scans
    <2>2. <<p, "state">> \notin late /\ Part(node')["state"] = Part(node)["state"]
      BY <1>1, <1>4, <2>1, NotLate
    <2> QED BY <1>1, <2>2 DEF UpToDate, FreshState, Part
  <1>5. ASSUME <<p, "status">> \notin late' PROVE FreshStatus(r)'
    <2> SUFFICES ASSUME r.pc \in {"read", "save", "put"}, r.cmd \in {"promote", "stale"} PROVE r.from = node'.data.status
      BY DEF FreshStatus
    <2>1. "status" \in GoesBy(r)
      BY DEF GoesBy
    <2>2. <<p, "status">> \notin late /\ Part(node')["status"] = Part(node)["status"]
      BY <1>1, <1>5, <2>1, NotLate
    <2> QED BY <1>1, <2>2 DEF UpToDate, FreshStatus, Part
  <1> QED BY <1>1, <1>3, <1>4, <1>5 DEF UpToDate

LEMMA VacuousFresh ==
  ASSUME NEW p \in Procs, NEW pc, NEW cmd, NEW t, NEW from, NEW n, Turns(p, pc, cmd, t, from, n),
         pc \notin {"read", "save", "put", "tell"} \/ (pc = "read" /\ cmd \notin {"promote", "stale"}) \/ cmd \in {"add", "propose"},
         pc # "tell"
  PROVE  UpToDate(p)'
  <1>1. PICK r \in ProcType : Moves(p, r) /\ r.pc = pc /\ r.cmd = cmd
    BY DEF Turns
  <1>2. proc'[p] = r
    BY <1>1 DEF Moves
  <1>3. FreshData(r)' /\ FreshState(r)' /\ FreshStatus(r)'
    BY <1>1 DEF FreshData, FreshState, FreshStatus, Scans
  <1> QED BY <1>2, <1>3 DEF UpToDate

LEMMA TellFresh ==
  ASSUME NEW p \in Procs, NEW cmd, NEW t, NEW from, NEW n, Turns(p, "tell", cmd, t, from, n), node'.data = n.data
  PROVE  UpToDate(p)'
  <1>1. PICK r \in ProcType : Moves(p, r) /\ r.pc = "tell" /\ r.node = n
    BY DEF Turns
  <1>2. proc'[p] = r
    BY <1>1 DEF Moves
  <1>3. FreshData(r)' /\ FreshState(r)' /\ FreshStatus(r)'
    BY <1>1 DEF FreshData, FreshState, FreshStatus
  <1> QED BY <1>2, <1>3 DEF UpToDate

(* The process that moves.                                                 *)
LEMMA MoverFresh ==
  ASSUME Shape, Watch, NEW p \in Procs, UpToDate(p), ProcSteps(p)
  PROVE  UpToDate(p)'
  <1>0. log' = log /\ LogOK /\ LogOK'
    BY ProcShape DEF Shape, TreeOK
  <1>12. ASSUME NEW c, c = proc[p].tip, proc[p].cmd \in Scans, NEW d PROVE Hits(d, c)' = Hits(d, c)
    <2>1. c \in 0 .. Len(log)
      BY <1>12, ProcIs, TipOK DEF Holds, Scans
    <2> QED BY <1>0, <2>1, CompleteKept
  <1>1. CASE Turns(p, "idle", "none", 0, "active", Absent)
    BY <1>1, VacuousFresh
  <1>2. CASE Stale(p) \/ Bisect(p) \/ Reaffirm(p) \/ AgentReaffirm(p)
    BY <1>2, CommandTurns, VacuousFresh
  <1>3. CASE Add(p) \/ Propose(p)
    BY <1>3, AddTurns, VacuousFresh DEF Newly
  <1>4. CASE List(p)
    <2>1. CASE Turns(p, "read", proc[p].cmd, proc[p].tip, node.data.status, proc[p].node)
      <3>1. PICK r \in ProcType : Moves(p, r) /\ r.pc = "read" /\ r.from = node.data.status
        BY <2>1 DEF Turns
      <3>2. proc'[p] = r /\ node' = node
        BY <1>4, <3>1 DEF Moves, List, graph
      <3>3. FreshData(r)' /\ FreshState(r)' /\ FreshStatus(r)'
        BY <3>1, <3>2 DEF FreshData, FreshState, FreshStatus
      <3> QED BY <3>2, <3>3 DEF UpToDate
    <2> QED BY <1>1, <1>4, <2>1, ListTurns
  <1>5. CASE Read(p)
    <2>0. node' = node /\ proc[p].pc = "read" /\ node \in Node
      BY <1>5 DEF Read, graph, Shape, StoredOK
    <2>1. CASE AfterScan(p, node)
      BY <1>1, <2>0, <2>1, AfterTurns, TellFresh
    <2>2. ASSUME NEW x, Grown(node.data, x, proc[p].tip), WithData(x).data = x,
                 Turns(p, "save", proc[p].cmd, proc[p].tip, proc[p].from, WithData(x))
          PROVE  UpToDate(p)'
      <3>1. PICK r \in ProcType : /\ Moves(p, r) /\ r.pc = "save" /\ r.cmd = proc[p].cmd /\ r.tip = proc[p].tip
                                  /\ r.from = proc[p].from /\ r.node = WithData(x)
        BY <2>2 DEF Turns
      <3>2. proc'[p] = r
        BY <3>1 DEF Moves
      <3>3. PICK c, d : c = proc[p].tip /\ d = node.data /\ d = node'.data
        BY <2>0
      <3>4. r.cmd \in Scans
        BY <2>0, <3>1, ProcIs DEF At
      <3>5. Grown(d, x, c)'
        <4>1. Hits(d, c)' = Hits(d, c)
          BY <1>12, <3>1, <3>3, <3>4
        <4> QED BY <2>2, <3>3, <4>1 DEF Grown
      <3>6. FreshData(r)'
        <4>1. (node.data)' = d /\ r.node.data = x /\ r.tip = c
          BY <2>2, <3>1, <3>3
        <4> QED BY <3>1, <3>4, <3>5, <4>1 DEF FreshData, Scans
      <3>7. ASSUME <<p, "status">> \notin late' PROVE FreshStatus(r)'
        <4> SUFFICES ASSUME r.cmd \in {"promote", "stale"} PROVE r.from = node'.data.status
          BY DEF FreshStatus
        <4>1. "status" \in GoesBy(proc'[p])
          BY <3>1, <3>2 DEF GoesBy
        <4>2. <<p, "status">> \notin late
          BY <3>7, <4>1, NotLate
        <4> QED BY <2>0, <3>1, <4>2 DEF UpToDate, FreshStatus
      <3>8. FreshState(r)'
        BY <3>1 DEF FreshState
      <3> QED BY <3>2, <3>6, <3>7, <3>8 DEF UpToDate
    <2> QED BY <1>1, <1>5, <2>1, <2>2, ReadTurns
  <1>6. CASE Tell(p)
    BY <1>1, <1>6, TellTurns, VacuousFresh
  <1>7. CASE Anew(p)
    <2>1. ASSUME NEW x, x.anchor = proc[p].tip, Longer(node.data.history, x.history, {Entry(proc[p].tip, "reaffirmed")}),
                 WithData(x).data = x, Turns(p, "save", proc[p].cmd, proc[p].tip, proc[p].from, WithData(x))
          PROVE  UpToDate(p)'
      <3>1. PICK r \in ProcType : /\ Moves(p, r) /\ r.pc = "save" /\ r.cmd = proc[p].cmd /\ r.tip = proc[p].tip
                                  /\ r.from = proc[p].from /\ r.node = WithData(x)
        BY <2>1 DEF Turns
      <3>2. proc'[p] = r /\ node' = node
        BY <1>7, <3>1 DEF Moves, Anew, graph
      <3>3. r.cmd = "reaffirm"
        BY <1>7, <3>1, ProcIs DEF At, Anew
      <3>4. FreshData(r)' /\ FreshState(r)' /\ FreshStatus(r)'
        BY <2>1, <3>1, <3>2, <3>3 DEF FreshData, FreshState, FreshStatus, Scans
      <3> QED BY <3>2, <3>4 DEF UpToDate
    <2> QED BY <1>1, <1>7, <2>1, AnewTurns
  <1>8. CASE Save(p)
    <2>1. PICK n \in Node : /\ n.data = proc[p].node.data /\ n.state = node.state
                            /\ Turns(p, "put", proc[p].cmd, proc[p].tip, proc[p].from, n)
      BY <1>8, StoreTurns
    <2>2. PICK r \in ProcType : /\ Moves(p, r) /\ r.pc = "put" /\ r.cmd = proc[p].cmd /\ r.tip = proc[p].tip
                                /\ r.from = proc[p].from /\ r.node = n
      BY <2>1 DEF Turns
    <2>3. proc'[p] = r /\ node' = node /\ proc[p].pc = "save"
      BY <1>8, <2>2 DEF Moves, Save, graph
    <2>4. r.cmd \in Scans \cup {"reaffirm"}
      BY <2>2, <2>3, ProcIs DEF At
    <2>5. ASSUME <<p, "data">> \notin late' PROVE FreshData(r)'
      <3>1. "data" \in GoesBy(proc'[p])
        BY <2>2, <2>3, <2>4 DEF GoesBy, Scans
      <3>2. <<p, "data">> \notin late
        BY <2>5, <3>1, NotLate
      <3>3. FreshData(proc[p])
        BY <3>2 DEF UpToDate
      <3>4. PICK c, d, e : c = r.tip /\ d = node.data /\ d = node'.data /\ e = r.node.data
        BY <2>3
      <3>5. r.cmd \in Scans => Grown(d, e, c)
        BY <2>1, <2>2, <2>3, <3>3, <3>4 DEF FreshData
      <3>6. r.cmd = "reaffirm" => e.anchor = c /\ Longer(d.history, e.history, {Entry(c, "reaffirmed")})
        BY <2>1, <2>2, <2>3, <3>3, <3>4 DEF FreshData
      <3>7. r.cmd \in Scans => Grown(d, e, c)'
        <4>1. r.cmd \in Scans => Hits(d, c)' = Hits(d, c)
          BY <1>12, <2>2, <3>4
        <4> QED BY <3>5, <4>1 DEF Grown
      <3>8. (node.data)' = d /\ r.cmd # "accept" /\ r.pc = "put"
        BY <2>2, <2>4, <3>4 DEF Scans
      <3> QED BY <3>4, <3>6, <3>7, <3>8 DEF FreshData
    <2>6. FreshState(r)'
      BY <2>1, <2>2, <2>3 DEF FreshState
    <2>7. ASSUME <<p, "status">> \notin late' PROVE FreshStatus(r)'
      <3> SUFFICES ASSUME r.cmd \in {"promote", "stale"} PROVE r.from = node'.data.status
        BY DEF FreshStatus
      <3>1. "status" \in GoesBy(proc'[p])
        BY <2>2, <2>3 DEF GoesBy
      <3>2. <<p, "status">> \notin late
        BY <2>7, <3>1, NotLate
      <3> QED BY <2>2, <2>3, <3>2 DEF UpToDate, FreshStatus
    <2> QED BY <2>3, <2>5, <2>6, <2>7 DEF UpToDate
  <1>9. CASE Put(p)
    <2>0. node' = proc[p].node /\ proc[p].node \in Node
      BY <1>9, PutIs, ProcIs
    <2>1. CASE AfterScan(p, proc[p].node)
      BY <1>1, <2>0, <2>1, AfterTurns, TellFresh
    <2>2. CASE \/ Turns(p, "clear", "accept", proc[p].tip, proc[p].from, proc[p].node)
               \/ Turns(p, "side", "propose", proc[p].tip, proc[p].from, proc[p].node)
      BY <2>2, VacuousFresh
    <2> QED BY <1>1, <1>9, <2>1, <2>2, PutIs
  <1>10. CASE Accept(p) \/ Reject(p)
    <2>1. ASSUME NEW cmd, Turns(p, "clear", cmd, 0, "active", Absent) PROVE UpToDate(p)'
      BY <2>1, VacuousFresh
    <2>2. ASSUME NEW n \in Node, n.data = node.data, Turns(p, "put", "accept", 0, "active", n), node' = node PROVE UpToDate(p)'
      <3>1. PICK r \in ProcType : Moves(p, r) /\ r.pc = "put" /\ r.cmd = "accept" /\ r.node = n
        BY <2>2 DEF Turns
      <3>2. proc'[p] = r
        BY <3>1 DEF Moves
      <3>3. FreshData(r)' /\ FreshState(r)' /\ FreshStatus(r)'
        BY <2>2, <3>1 DEF FreshData, FreshState, FreshStatus, Scans
      <3> QED BY <3>2, <3>3 DEF UpToDate
    <2> QED BY <1>10, <2>1, <2>2, JudgeTurns
  <1>11. CASE WriteProposal(p) \/ ClearProposal(p) \/ Crash(p)
    <2>1. Done(p)
      BY <1>11 DEF WriteProposal, ClearProposal, Crash
    <2> QED BY <1>1, <2>1, DoneTurns
  <1> QED BY <1>2, <1>3, <1>4, <1>5, <1>6, <1>7, <1>8, <1>9, <1>10, <1>11 DEF ProcSteps

-----------------------------------------------------------------------------
(* What a step of one process leaves to the others.                        *)
LEMMA OthersStay ==
  ASSUME Shape, NEW p \in Procs, ProcSteps(p) \/ Promote(p), NEW q \in Procs, q # p
  PROVE  proc'[q] = proc[q]
  <1>1. CASE Promote(p)
    BY <1>1, ProcIs DEF Promote
  <1>2. CASE ProcSteps(p)
    <2>1. proc \in [Procs -> ProcType]
      BY ProcIs
    <2>2. ASSUME NEW r, proc' = [proc EXCEPT ![p] = r] PROVE proc'[q] = proc[q]
      BY <2>1, <2>2
    <2>3. ASSUME NEW x, proc' = [proc EXCEPT ![p].pc = x] PROVE proc'[q] = proc[q]
      BY <2>1, <2>3
    <2>4. ASSUME NEW x, NEW y, \/ proc' = [proc EXCEPT ![p].pc = x, ![p].from = y]
                               \/ proc' = [proc EXCEPT ![p].pc = x, ![p].cmd = y]
                               \/ proc' = [proc EXCEPT ![p].pc = x, ![p].node = y]
                               \/ proc' = [proc EXCEPT ![p].pc = x, ![p].node.state = y]
          PROVE proc'[q] = proc[q]
      BY <2>1, <2>4
    <2>5. CASE Stale(p) \/ Bisect(p) \/ Add(p) \/ Propose(p) \/ Reaffirm(p) \/ AgentReaffirm(p) \/ Accept(p) \/ Reject(p)
      <3>1. \E r : proc' = [proc EXCEPT ![p] = r]
        BY <2>5 DEF Command, Stale, Bisect, Add, Propose, Reaffirm, AgentReaffirm, Accept, Reject
      <3> QED BY <2>2, <3>1
    <2>6. CASE WriteProposal(p) \/ ClearProposal(p) \/ Crash(p)
      BY <2>2, <2>6 DEF Done, WriteProposal, ClearProposal, Crash
    <2>7. ASSUME NEW n, AfterScan(p, n) PROVE proc'[q] = proc[q]
      BY <2>2, <2>7 DEF AfterScan
    <2>8. Done(p) => proc'[q] = proc[q]
      BY <2>2 DEF Done
    <2>9. CASE List(p) \/ Tell(p) \/ Save(p)
      BY <2>4, <2>8, <2>9 DEF List, Tell, Save
    <2>10. CASE Read(p)
      BY <2>4, <2>7, <2>8, <2>10 DEF Read
    <2>11. CASE Anew(p)
      BY <2>4, <2>8, <2>11 DEF Anew
    <2>12. CASE Put(p)
      <3>1. AfterScan(p, proc[p].node) \/ Go(p, "side") \/ Go(p, "clear") \/ Done(p)
        <4>1. proc[p].pc = "put" /\ At(proc[p])
          BY <2>12, ProcIs DEF Put
        <4> QED BY <2>12, <4>1 DEF Put, At, Scans
      <3> QED BY <2>3, <2>7, <2>8, <3>1 DEF Go
    <2> QED BY <1>2, <2>5, <2>6, <2>9, <2>10, <2>11, <2>12 DEF ProcSteps
  <1> QED BY <1>1, <1>2

LEMMA FreshInit == Init => FreshOK
  <1> SUFFICES ASSUME Init, NEW p \in Procs PROVE UpToDate(p)
    BY DEF FreshOK
  <1>1. proc[p].pc = "idle"
    BY IdleIs DEF Init
  <1> QED BY <1>1 DEF UpToDate, FreshData, FreshState, FreshStatus

LEMMA StepLogged ==
  ASSUME Shape, Next
  PROVE  Logged
  <1>1. LogOK /\ LogOK'
    BY ShapeStep DEF Shape, TreeOK
  <1>2. CASE \E p \in Procs : ProcSteps(p)
    BY <1>1, <1>2, ProcShape DEF Logged
  <1>3. CASE \E b \in Branches, ch \in Changes : Grow(b, ch)
    BY <1>1, <1>3, GrowKeeps DEF Logged
  <1>4. CASE FastForward \/ \E p \in Procs : Promote(p)
    <2>1. head \in Branches
      BY DEF Shape, RefsOK
    <2> QED BY <1>3, <1>4, <2>1 DEF FastForward, Promote
  <1>5. CASE CreateBranch \/ Switch
    BY <1>1, <1>5 DEF CreateBranch, Switch, Logged
  <1> QED BY <1>2, <1>4, <1>5 DEF Next, Steps, ProcSteps

LEMMA FreshStep ==
  ASSUME Shape, FreshOK, [Next]_vars
  PROVE  FreshOK'
  <1>1. CASE UNCHANGED vars
    <2>1. UNCHANGED <<log, node, proc, late>> /\ LogOK /\ LogOK'
      BY <1>1 DEF vars, Shape, TreeOK, LogOK
    <2> SUFFICES ASSUME NEW p \in Procs PROVE UpToDate(p)'
      BY DEF FreshOK
    <2>2. UpToDate(p)
      BY DEF FreshOK
    <2>3. PICK r : r = proc[p] /\ r = proc'[p]
      BY <2>1
    <2>4. FreshData(r) => FreshData(r)'
      <3>1. PICK d, e, c : d = node.data /\ d = node'.data /\ e = r.node.data /\ c = r.tip
        BY <2>1
      <3>2. r.cmd \in Scans => c \in 0 .. Len(log)
        <4>1. Holds(r)
          BY <2>3, ProcIs
        <4> QED BY <3>1, <4>1, TipOK DEF Holds, Scans
      <3>3. r.cmd \in Scans => Hits(d, c)' = Hits(d, c)
        BY <2>1, <3>2, CompleteKept
      <3>4. r.cmd \in Scans /\ Grown(d, e, c) => Grown(d, e, c)'
        BY <3>3 DEF Grown
      <3> QED BY <3>1, <3>4 DEF FreshData
    <2> QED BY <2>1, <2>2, <2>3, <2>4 DEF UpToDate, FreshState, FreshStatus
  <1>2. CASE Next
    <2>1. Watch /\ Logged
      BY <1>2, StepLogged DEF Next
    <2>2. ASSUME NEW p \in Procs, proc'[p] = proc[p] PROVE UpToDate(p)'
      BY <2>1, <2>2, OthersFresh DEF FreshOK
    <2>3. CASE \E p \in Procs : ProcSteps(p)
      <3>1. PICK p \in Procs : ProcSteps(p)
        BY <2>3
      <3>2. UpToDate(p)'
        BY <2>1, <3>1, MoverFresh DEF FreshOK
      <3>3. ASSUME NEW q \in Procs, q # p PROVE UpToDate(q)'
        BY <2>2, <3>1, <3>3, OthersStay
      <3> QED BY <3>2, <3>3 DEF FreshOK
    <2>4. CASE \E p \in Procs : Promote(p)
      <3>1. PICK p \in Procs : Promote(p)
        BY <2>4
      <3>2. UpToDate(p)'
        BY <3>1, PromoteTurns, VacuousFresh
      <3>3. ASSUME NEW q \in Procs, q # p PROVE UpToDate(q)'
        BY <2>2, <3>1, <3>3, OthersStay
      <3> QED BY <3>2, <3>3 DEF FreshOK
    <2>5. CASE FastForward \/ CreateBranch \/ Switch
      <3>1. proc' = proc
        BY <2>5 DEF FastForward, CreateBranch, Switch
      <3> QED BY <2>2, <3>1 DEF FreshOK
    <2> QED BY <1>2, <2>3, <2>4, <2>5 DEF Next, Steps, ProcSteps
  <1> QED BY <1>1, <1>2


(* The two parts so far.                                                   *)
Steady == Shape /\ FreshOK
LEMMA FreshAlways == Spec => []Steady
  <1>1. Init => Steady
    BY ShapeInit, FreshInit DEF Steady
  <1>2. Steady /\ [Next]_vars => Steady'
    BY ShapeStep, FreshStep DEF Steady
  <1> QED BY <1>1, <1>2, PTL DEF Spec

-----------------------------------------------------------------------------
(* What others did is kept.                                                *)
LEMMA HistoryIs ==
  ASSUME NEW d, Sound(d)
  PROVE  d.history \in Seq(Verdict) /\ d.history \in Seq(ToSet(d.history)) /\ d.status \in Status
  <1>1. d.history \in Seq(Verdict) /\ d.status \in Status
    BY DEF Sound, Belief, Verdict
  <1>2. DOMAIN d.history = 1 .. Len(d.history)
    BY <1>1
  <1>3. \A i \in 1 .. Len(d.history) : d.history[i] \in ToSet(d.history)
    BY <1>2 DEF ToSet
  <1> QED BY <1>1, <1>2, <1>3

LEMMA Prefixed ==
  ASSUME NEW d, Sound(d), NEW e, Sound(e), NEW H, Longer(d.history, e.history, H)
  PROVE  /\ IsPrefix(d.history, e.history) /\ ToSet(d.history) \subseteq ToSet(e.history)
         /\ ToSet(e.history) \subseteq ToSet(d.history) \cup H
  BY HistoryIs, LongerIn

LEMMA PrefixSelf ==
  ASSUME NEW d, Sound(d)
  PROVE  IsPrefix(d.history, d.history)
  BY HistoryIs, LongerSelf, Prefixed

(* What Put makes of the node, by a process that is not late.              *)
LEMMA PutGrows ==
  ASSUME Shape, FreshOK, Watch, ~crossed', NEW p \in Procs, Put(p), node' # node
  PROVE  /\ node' = proc[p].node /\ Sound(node'.data) /\ proc'[p] # proc[p]
         /\ proc[p].cmd \in Scans => Grown(node.data, node'.data, proc[p].tip) /\ node'.state = node.state
         /\ proc[p].cmd = "reaffirm" => /\ node'.data.anchor = proc[p].tip /\ node'.state = node.state
                                        /\ Longer(node.data.history, node'.data.history, {Entry(proc[p].tip, "reaffirmed")})
         /\ proc[p].cmd = "accept" => node'.data = node.data
         /\ proc[p].cmd = "propose" => node'.state = "proposed"
  <1>1. node' = proc[p].node /\ proc[p].pc = "put" /\ Sound(node'.data)
    BY PutIs, ProcIs
  <1>2. proc'[p] # proc[p]
    <2>1. \A n : AfterScan(p, n) => proc'[p] # proc[p]
      <3>1. ASSUME NEW n, AfterScan(p, n) PROVE proc'[p].pc # "put"
        <4>1. CASE proc[p].cmd \in {"promote", "stale"}
          BY <3>1, <4>1, ProcIs DEF AfterScan, ProcType
        <4>2. CASE proc[p].cmd \notin {"promote", "stale"}
          <5>1. proc'[p] = Idle
            BY <3>1, <4>2, ProcIs DEF AfterScan
          <5> QED BY <5>1, IdleIs
        <4> QED BY <4>1, <4>2
      <3> QED BY <1>1, <3>1
    <2>2. ASSUME NEW pc, pc # "put", NEW cmd, NEW t, NEW from, NEW n, Turns(p, pc, cmd, t, from, n) PROVE proc'[p] # proc[p]
      BY <1>1, <2>2 DEF Turns, Moves
    <2> QED BY <2>1, <2>2, PutIs
  <1>3. <<p, "data">> \notin late /\ <<p, "state">> \notin late
    BY <1>1, <1>2, Uncrossed DEF Shape
  <1>4. FreshData(proc[p]) /\ FreshState(proc[p]) /\ Holds(proc[p])
    BY <1>3, ProcIs DEF FreshOK, UpToDate
  <1> QED BY <1>1, <1>2, <1>4 DEF FreshData, FreshState, Holds

LEMMA JudgeKeeps ==
  ASSUME Shape, NEW p \in Procs, Accept(p) \/ Reject(p)
  PROVE  /\ node'.data = node.data /\ proc'[p] # proc[p] /\ told' = told /\ proc'[p].pc # "tell" /\ settled' = settled
         /\ node'.state # node.state => node'.state = "archived" \/ proc'[p].cmd = "accept"
  <1>1. node \in Node /\ told' = told /\ proc[p].pc = "idle" /\ settled' = settled
    BY DEF Accept, Reject, Command, ghost, Shape, StoredOK
  <1>2. \A s : WithState(s).data = node.data /\ (s \in {"active", "archived"} => WithState(s).state = s)
    BY <1>1 DEF WithState, Node
  <1>3. ASSUME NEW cmd, NEW n, NEW pc, Turns(p, pc, cmd, 0, "active", n), pc \in {"clear", "put"}
        PROVE proc'[p].pc = pc /\ proc'[p].cmd = cmd /\ proc'[p] # proc[p]
    BY <1>1, <1>3 DEF Turns, Moves
  <1>4. ASSUME NEW n \in Node, Turns(p, "put", "accept", 0, "active", n), node' = node
        PROVE  proc'[p].pc # "tell" /\ proc'[p] # proc[p]
    BY <1>3, <1>4
  <1>5. ASSUME NEW cmd \in {"accept", "reject"}, Turns(p, "clear", cmd, 0, "active", Absent),
               NEW s \in {"active", "archived"}, node' = WithState(s), cmd = "reject" => s = "archived"
        PROVE  /\ node'.data = node.data /\ proc'[p] # proc[p] /\ proc'[p].pc # "tell"
               /\ node'.state # node.state => node'.state = "archived" \/ proc'[p].cmd = "accept"
    BY <1>2, <1>3, <1>5
  <1> QED BY <1>1, <1>4, <1>5, JudgeTurns

LEMMA NodeStays ==
  ASSUME Shape, Next
  PROVE  \/ node' = node /\ told' = told
         \/ \E p \in Procs : Put(p) \/ Accept(p) \/ Reject(p) \/ Tell(p)
  <1>1. CASE FastForward \/ CreateBranch \/ Switch
    BY <1>1 DEF FastForward, CreateBranch, Switch, Grow, graph, ghost
  <1>2. ASSUME NEW p \in Procs, Promote(p) PROVE node' = node /\ told' = told
    BY <1>2 DEF Promote, Grow, graph, ghost
  <1>3. ASSUME NEW p \in Procs, ProcSteps(p) PROVE (node' = node /\ told' = told) \/ Put(p) \/ Accept(p) \/ Reject(p) \/ Tell(p)
    BY <1>3 DEF ProcSteps, graph, ghost, Stale, Bisect, List, Read, Add, Propose, Reaffirm,
           AgentReaffirm, Anew, Save, WriteProposal, ClearProposal, Crash
  <1> QED BY <1>1, <1>2, <1>3 DEF Next, Steps, ProcSteps

Keeps ==
  /\ node.state \in {"proposed", "archived"} /\ node'.state = "active"
     => \E p \in Procs : proc'[p] # proc[p] /\ {proc[p].cmd, proc'[p].cmd} \cap {"add", "accept"} # {}
  /\ (\E p \in Procs : proc'[p] # proc[p] /\ proc[p].cmd \notin {"add", "propose"})
     => IsPrefix(node.data.history, node'.data.history)

LEMMA KeepsStep ==
  ASSUME Shape, FreshOK, Next, ~crossed'
  PROVE  Keeps
  <1>1. Sound(node.data) /\ IsPrefix(node.data.history, node.data.history)
    BY PrefixSelf DEF Shape, StoredOK
  <1>2. CASE node' = node
    BY <1>1, <1>2 DEF Keeps
  <1>3. ASSUME NEW p \in Procs, Put(p), node' # node PROVE Keeps
    <2>1. Watch
      BY DEF Next
    <2>2. ProcSteps(p)
      BY <1>3 DEF ProcSteps
    <2>3. proc[p].cmd \in Scans \cup {"add", "propose", "reaffirm", "accept"} /\ Sound(node'.data) /\ proc'[p] # proc[p]
      BY <1>3, <2>1, PutIs, PutGrows
    <2>4. CASE proc[p].cmd \in Scans
      <3>1. Longer(node.data.history, node'.data.history, Hits(node.data, proc[p].tip)) /\ node'.state = node.state
        BY <1>3, <2>1, <2>4, PutGrows DEF Grown
      <3>2. IsPrefix(node.data.history, node'.data.history)
        BY <1>1, <2>3, <3>1, Prefixed
      <3> QED BY <3>1, <3>2 DEF Keeps
    <2>5. CASE proc[p].cmd = "reaffirm"
      <3>1. Longer(node.data.history, node'.data.history, {Entry(proc[p].tip, "reaffirmed")}) /\ node'.state = node.state
        BY <1>3, <2>1, <2>5, PutGrows
      <3>2. IsPrefix(node.data.history, node'.data.history)
        BY <1>1, <2>3, <3>1, Prefixed
      <3> QED BY <3>1, <3>2 DEF Keeps
    <2>6. CASE proc[p].cmd = "accept"
      <3>1. node'.data = node.data
        BY <1>3, <2>1, <2>6, PutGrows
      <3> QED BY <1>1, <2>3, <2>6, <3>1 DEF Keeps
    <2>7. CASE proc[p].cmd \in {"add", "propose"}
      <3>1. \A q \in Procs : proc'[q] # proc[q] => q = p
        BY <2>2, OthersStay
      <3>2. proc[p].cmd = "propose" => node'.state = "proposed"
        BY <1>3, <2>1, PutGrows
      <3> QED BY <2>3, <2>7, <3>1, <3>2 DEF Keeps
    <2> QED BY <2>3, <2>4, <2>5, <2>6, <2>7
  <1>4. ASSUME NEW p \in Procs, Accept(p) \/ Reject(p) PROVE Keeps
    <2>1. /\ node'.data = node.data /\ proc'[p] # proc[p]
          /\ node'.state # node.state => node'.state = "archived" \/ proc'[p].cmd = "accept"
      BY <1>4, JudgeKeeps
    <2> QED BY <1>1, <2>1 DEF Keeps
  <1>5. ASSUME NEW p \in Procs, Tell(p) PROVE node' = node
    BY <1>5 DEF Tell, graph
  <1> QED BY <1>2, <1>3, <1>4, <1>5, NodeStays

(* A scan, a reaffirmation, an acceptance or a rejection keeps what others *)
(* did to the node while it ran: an agent's proposal, or what a person has *)
(* archived, becomes active only by an acceptance or a new recording, and  *)
(* the history of verdicts is only ever added to (save_belief, accept and  *)
(* reject of graphex), for every number of processes and of changesets.    *)
THEOREM BeliefsOthersKept == Spec => OthersKept
  <1>1. Steady /\ [Next]_vars => [~crossed' => Keeps]_vars
    BY KeepsStep DEF Steady
  <1>2. Spec => [][~crossed' => Keeps]_vars
    BY <1>1, FreshAlways, PTL DEF Spec
  <1> QED BY <1>2 DEF OthersKept, Keeps

-----------------------------------------------------------------------------
(* One event a transition.                                                 *)
LEMMA TellerStays ==
  ASSUME Shape, Watch, NEW p \in Procs, proc'[p] = proc[p], Teller(p)'
  PROVE  Teller(p) /\ node'.data = node.data
  <1>1. proc[p].pc = "tell" /\ proc'[p].pc = "tell" /\ proc'[p].from # node'.data.status
        /\ <<p, "data">> \notin late' /\ <<p, "status">> \notin late'
    BY DEF Teller
  <1>2. proc[p].cmd \in {"promote", "stale"}
    BY <1>1, ProcIs DEF At
  <1>3. "data" \in GoesBy(proc'[p]) /\ "status" \in GoesBy(proc'[p])
    BY <1>1, <1>2 DEF GoesBy
  <1>4. <<p, "data">> \notin late /\ <<p, "status">> \notin late /\ Part(node')["data"] = Part(node)["data"]
    BY <1>1, <1>3, NotLate
  <1>5. node'.data = node.data
    BY <1>4 DEF Part
  <1> QED BY <1>1, <1>4, <1>5 DEF Teller

(* A process comes to tell with the status it has compared with, which is  *)
(* the one the node had, unless it is late.                                *)
LEMMA TellerEnters ==
  ASSUME Shape, FreshOK, Watch, NEW p \in Procs, proc[p].pc \in {"read", "put"}, NEW n \in Node, AfterScan(p, n), Teller(p)'
  PROVE  node'.data.status # node.data.status
  <1>1. proc'[p].pc = "tell" /\ proc'[p].from # node'.data.status /\ <<p, "status">> \notin late'
    BY DEF Teller
  <1>2. PICK r \in ProcType : /\ Moves(p, r) /\ r.from = proc[p].from /\ r.cmd = proc[p].cmd
                              /\ r.pc = "tell" /\ proc[p].cmd \in {"promote", "stale"}
    <2>1. ~Turns(p, "idle", "none", 0, "active", Absent)
      BY <1>1 DEF Turns, Moves
    <2> QED BY <2>1, AfterTurns DEF Turns
  <1>3. proc'[p] = r
    BY <1>2 DEF Moves
  <1>4. "status" \in GoesBy(proc'[p])
    BY <1>2, <1>3 DEF GoesBy
  <1>5. <<p, "status">> \notin late
    BY <1>1, <1>4, NotLate
  <1>6. proc[p].from = node.data.status
    BY <1>2, <1>5 DEF FreshOK, UpToDate, FreshStatus
  <1> QED BY <1>1, <1>2, <1>3, <1>6

LEMMA NotTell ==
  ASSUME NEW p \in Procs, NEW pc, pc # "tell", NEW cmd, NEW t, NEW from, NEW n, Turns(p, pc, cmd, t, from, n)
  PROVE  ~Teller(p)'
  BY DEF Turns, Moves, Teller

(* Whoever is about to tell was about to, or has just changed the status.  *)
LEMMA TellersLeft ==
  ASSUME Shape, FreshOK, Next, NEW p \in Procs, Teller(p)'
  PROVE  (Teller(p) /\ proc'[p] = proc[p] /\ node'.data = node.data)
         \/ (Put(p) /\ proc[p].cmd \in Scans /\ node'.data.status # node.data.status)
  <1>0. Watch
    BY DEF Next
  <1>1. CASE proc'[p] = proc[p]
    BY <1>0, <1>1, TellerStays
  <1>2. CASE proc'[p] # proc[p]
    <2>1. ASSUME Promote(p) PROVE FALSE
      BY <2>1, PromoteTurns, NotTell
    <2>2. ProcSteps(p)
      <3>1. ~(FastForward \/ CreateBranch \/ Switch)
        BY <1>2 DEF FastForward, CreateBranch, Switch
      <3>2. ASSUME NEW q \in Procs, ProcSteps(q) \/ Promote(q) PROVE q = p
        BY <1>2, <3>2, OthersStay
      <3> QED BY <2>1, <3>1, <3>2 DEF Next, Steps, ProcSteps
    <2>3. ASSUME Stale(p) \/ Bisect(p) \/ Reaffirm(p) \/ AgentReaffirm(p) PROVE FALSE
      BY <2>3, CommandTurns, NotTell
    <2>4. ASSUME Add(p) \/ Propose(p) PROVE FALSE
      BY <2>4, AddTurns, NotTell
    <2>5. ASSUME List(p) PROVE FALSE
      BY <2>5, ListTurns, NotTell
    <2>6. ASSUME Read(p) PROVE FALSE
      <3>1. node' = node /\ proc[p].pc = "read" /\ node \in Node
        BY <2>6 DEF Read, graph, Shape, StoredOK
      <3>2. ~AfterScan(p, node)
        BY <1>0, <3>1, TellerEnters
      <3> QED BY <2>6, <3>2, ReadTurns, NotTell
    <2>7. ASSUME Tell(p) PROVE FALSE
      BY <2>7, TellTurns, NotTell
    <2>8. ASSUME Anew(p) PROVE FALSE
      BY <2>8, AnewTurns, NotTell
    <2>9. ASSUME Save(p) PROVE FALSE
      BY <2>9, StoreTurns, NotTell
    <2>10. CASE Put(p)
      <3>1. AfterScan(p, proc[p].node) /\ proc[p].cmd \in Scans
        BY <2>10, PutIs, NotTell
      <3>2. proc[p].pc \in {"read", "put"} /\ proc[p].node \in Node
        BY <2>10, PutIs, ProcIs
      <3>3. node'.data.status # node.data.status
        BY <1>0, <3>1, <3>2, TellerEnters
      <3> QED BY <2>10, <3>1, <3>3
    <2>11. ASSUME Accept(p) \/ Reject(p) PROVE FALSE
      BY <2>11, JudgeTurns, NotTell
    <2>12. ASSUME WriteProposal(p) \/ ClearProposal(p) \/ Crash(p) PROVE FALSE
      <3>1. Done(p)
        BY <2>12 DEF WriteProposal, ClearProposal, Crash
      <3> QED BY <3>1, DoneTurns, NotTell
    <2> QED BY <2>2, <2>3, <2>4, <2>5, <2>6, <2>7, <2>8, <2>9, <2>10, <2>11, <2>12 DEF ProcSteps
  <1> QED BY <1>1, <1>2

(* A step that tells nothing and leaves the status alone.                  *)
LEMMA ToldQuiet ==
  ASSUME Shape, FreshOK, Next, ToldOK, ~crossed, told' = told, node'.data.status = node.data.status
  PROVE  ToldOK'
  <1>1. \A p \in Procs : Teller(p)' => Teller(p)
    BY TellersLeft
  <1>2. \A p, q \in Procs : Teller(p)' /\ Teller(q)' => p = q
    BY <1>1 DEF ToldOK
  <1>3. \A p \in Procs : Teller(p)' /\ node'.data.status \in {"stale", "invalidated"} => told'[node'.data.status] = 0
    BY <1>1 DEF ToldOK
  <1> QED BY <1>2, <1>3 DEF ToldOK

LEMMA ToldByTell ==
  ASSUME Shape, FreshOK, Next, ToldOK, ~crossed', NEW p \in Procs, Tell(p)
  PROVE  ToldOK'
  <1> DEFINE st == node.data.status
             to == proc[p].node.data.status
  <1>1. /\ node' = node /\ proc[p].pc = "tell"
        /\ told' = IF to # proc[p].from /\ to \in DOMAIN told THEN [told EXCEPT ![to] = told[to] + 1] ELSE told
    BY DEF Tell, graph
  <1>2. Watch /\ told \in [{"stale", "invalidated"} -> Nat] /\ ~crossed
    BY DEF Next, Watch, Shape, RuledOK
  <1>3. CASE told' = told
    BY <1>1, <1>2, <1>3, ToldQuiet
  <1>4. CASE told' # told
    <2>1. proc'[p] # proc[p] /\ ~Teller(p)'
      <3>1. \A pc, cmd, t, from, n : pc # "tell" /\ Turns(p, pc, cmd, t, from, n) => proc'[p] # proc[p] /\ ~Teller(p)'
        BY <1>1 DEF Turns, Moves, Teller
      <3> QED BY <3>1, TellTurns
    <2>2. <<p, "data">> \notin late /\ <<p, "status">> \notin late
      BY <1>1, <1>2, <1>4, <2>1, Uncrossed DEF Shape
    <2>3. proc[p].node.data = node.data
      BY <1>1, <2>2 DEF FreshOK, UpToDate, FreshData
    <2>4. to = st /\ to # proc[p].from /\ st \in {"stale", "invalidated"} /\ Teller(p)
      BY <1>1, <1>2, <1>4, <2>2, <2>3 DEF Teller
    <2>5. told[st] = 0
      BY <1>2, <2>4 DEF ToldOK
    <2>6. told'[st] = 1 /\ \A k \in {"stale", "invalidated"} : k # st => told'[k] = told[k]
      BY <1>1, <1>2, <2>4, <2>5
    <2>7. \A q \in Procs : ~Teller(q)'
      <3>1. ASSUME NEW q \in Procs, Teller(q)' PROVE FALSE
        <4>1. Teller(q)
          BY <1>1, <3>1, TellersLeft
        <4>2. q = p
          BY <1>2, <2>4, <4>1 DEF ToldOK
        <4> QED BY <2>1, <3>1, <4>2
      <3> QED BY <3>1
    <2>8. (\A k \in {"stale", "invalidated"} : told'[k] <= 1) /\ node'.data.status = st
      BY <1>1, <1>2, <2>6 DEF ToldOK
    <2>9. /\ told'["stale"] = 1 => node'.data.status \in {"stale", "invalidated"}
          /\ told'["invalidated"] = 1 => node'.data.status = "invalidated"
      BY <1>2, <2>4, <2>6, <2>8 DEF ToldOK
    <2> QED BY <2>7, <2>8, <2>9 DEF ToldOK
  <1> QED BY <1>3, <1>4

LEMMA ToldByPut ==
  ASSUME Shape, FreshOK, Next, ToldOK, ~crossed', NEW p \in Procs, Put(p)
  PROVE  ToldOK'
  <1>1. Watch /\ told \in [{"stale", "invalidated"} -> Nat] /\ ~crossed
    BY DEF Next, Watch, Shape, RuledOK
  <1>2. CASE proc[p].cmd \in {"add", "propose", "reaffirm"}
    <2>1. told' = [k \in DOMAIN told |-> 0]
      BY <1>2, PutIs DEF Scans
    <2>2. \A k \in {"stale", "invalidated"} : told'[k] = 0
      BY <1>1, <2>1
    <2>3. \A q \in Procs : Teller(q)' => Teller(q)
      <3>1. ASSUME NEW q \in Procs, Put(q), proc[q].cmd \in Scans PROVE FALSE
        <4>1. proc[q].pc = "put" /\ proc[p].pc = "put" /\ ProcSteps(p) /\ ProcSteps(q)
          BY <3>1 DEF Put, ProcSteps
        <4>2. p # q
          BY <1>2, <3>1 DEF Scans
        <4>3. proc'[q] = proc[q]
          BY <4>1, <4>2, OthersStay
        <4>4. proc'[q].pc # "put"
          <5>1. AfterScan(q, proc[q].node) /\ proc[q].node \in Node
            BY <3>1, PutIs, ProcIs DEF Scans
          <5>2. \A pc, cmd, t, from, n : pc # "put" /\ Turns(q, pc, cmd, t, from, n) => proc'[q].pc # "put"
            BY DEF Turns, Moves
          <5> QED BY <5>1, <5>2, AfterTurns
        <4> QED BY <4>1, <4>3, <4>4
      <3> QED BY <3>1, TellersLeft
    <2>4. \A q, r \in Procs : Teller(q)' /\ Teller(r)' => q = r
      BY <1>1, <2>3 DEF ToldOK
    <2> QED BY <2>2, <2>4 DEF ToldOK
  <1>3. CASE node'.data.status = node.data.status /\ told' = told
    BY <1>1, <1>3, ToldQuiet
  <1>4. CASE proc[p].cmd \in Scans /\ node'.data.status # node.data.status
    <2>1. told' = told
      BY <1>4, PutIs DEF Scans
    <2> DEFINE st == node.data.status
               to == node'.data.status
    <2>2. Goes(st, to)
      BY <1>1, <1>4, PutGrows DEF Grown
    <2>3. ASSUME NEW q \in Procs, Teller(q)' PROVE Put(q)
      BY <1>4, <2>3, TellersLeft
    <2>4. ASSUME NEW q \in Procs, Put(q) PROVE q = p
      <3>1. ProcSteps(p) /\ ProcSteps(q)
        BY <2>4 DEF ProcSteps
      <3>2. proc'[p] # proc[p]
        BY <1>1, <1>4, PutGrows
      <3> QED BY <3>1, <3>2, OthersStay
    <2>5. \A q, r \in Procs : Teller(q)' /\ Teller(r)' => q = r
      BY <2>3, <2>4
    <2>6. to \in {"stale", "invalidated"} => told'[to] = 0
      BY <1>1, <1>4, <2>1, <2>2 DEF ToldOK, Goes
    <2>7. /\ told'["stale"] = 1 => to \in {"stale", "invalidated"}
          /\ told'["invalidated"] = 1 => to = "invalidated"
      BY <1>1, <2>1, <2>2 DEF ToldOK, Goes
    <2>8. \A k \in {"stale", "invalidated"} : told'[k] <= 1
      BY <1>1, <2>1 DEF ToldOK
    <2> QED BY <2>5, <2>6, <2>7, <2>8 DEF ToldOK
  <1>5. CASE proc[p].cmd = "accept"
    <2>1. told' = told /\ node'.data.status = node.data.status
      BY <1>1, <1>5, PutIs, PutGrows DEF Scans
    <2> QED BY <1>3, <2>1
  <1>6. proc[p].cmd \in Scans => told' = told
    BY PutIs DEF Scans
  <1>7. proc[p].cmd \in Scans \cup {"add", "propose", "reaffirm", "accept"}
    BY PutIs
  <1> QED BY <1>2, <1>3, <1>4, <1>5, <1>6, <1>7

LEMMA ToldStep ==
  ASSUME Shape, FreshOK, ToldOK, [Next]_vars
  PROVE  ToldOK'
  <1>1. CASE UNCHANGED vars
    BY <1>1 DEF vars, ToldOK, Teller
  <1>2. CASE Next /\ crossed'
    BY <1>2 DEF ToldOK
  <1>3. CASE Next /\ ~crossed'
    <2>1. ~crossed
      BY <1>3 DEF Next, Watch
    <2>2. CASE node' = node /\ told' = told
      BY <1>3, <2>1, <2>2, ToldQuiet
    <2>3. ASSUME NEW p \in Procs, Accept(p) \/ Reject(p) PROVE ToldOK'
      BY <1>3, <2>1, <2>3, JudgeKeeps, ToldQuiet
    <2> QED BY <1>3, <2>2, <2>3, NodeStays, ToldByPut, ToldByTell
  <1> QED BY <1>1, <1>2, <1>3

LEMMA ToldInit == Init => ToldOK
  <1> SUFFICES ASSUME Init PROVE ToldOK
    OBVIOUS
  <1>1. \A k \in {"stale", "invalidated"} : told[k] = 0
    BY DEF Init
  <1>2. \A p \in Procs : ~Teller(p)
    BY IdleIs DEF Init, Teller
  <1> QED BY <1>1, <1>2 DEF ToldOK

LEMMA ToldAlways == Spec => [](Shape /\ FreshOK /\ ToldOK)
  <1>1. Init => Shape /\ FreshOK /\ ToldOK
    BY ShapeInit, FreshInit, ToldInit
  <1>2. Shape /\ FreshOK /\ ToldOK /\ [Next]_vars => (Shape /\ FreshOK /\ ToldOK)'
    BY ShapeStep, FreshStep, ToldStep
  <1> QED BY <1>1, <1>2, PTL DEF Spec

(* Every state of the belief, its processes and its log keeps its types,   *)
(* and no scan reports a verdict a second time between two anchorings      *)
(* ("never for a rescan that changes nothing", scan_beliefs), whatever     *)
(* scans, reaffirmations and judgements run beside each other.             *)
THEOREM BeliefsSound == Spec => []BeliefInv
  <1>1. Shape /\ FreshOK /\ ToldOK => BeliefInv
    <2> SUFFICES ASSUME Shape, ToldOK PROVE BeliefInv
      OBVIOUS
    <2>1. ToldOnce
      BY DEF Shape, RuledOK, ToldOK, ToldOnce
    <2> QED BY <2>1, ShapeTyped DEF BeliefInv
  <1> QED BY <1>1, ToldAlways, PTL

-----------------------------------------------------------------------------
(* What a scan has ruled on stays ruled.                                   *)
Settles(d, c) == d.anchor \in Ancestors(c) => Hits(d, c) \subseteq ToSet(d.history)

(* A complete scan of c settles the anchor and what follows it up to c.    *)
LEMMA ScanSettles ==
  ASSUME LogOK, NEW d, Sound(d), NEW c \in 0 .. Len(log), Hits(d, c) \subseteq ToSet(d.history),
         NEW x \in {d.anchor} \cup On(d.anchor, c), x \in 0 .. Len(log)
  PROVE  Settles(d, x)
  <1>1. d.span \in Nat \X Nat
    BY DEF Sound, Belief
  <1>2. CASE x = d.anchor
    <2>1. Hits(d, x) = {}
      BY <1>1, <1>2, HitsEq
    <2> QED BY <2>1 DEF Settles
  <1>3. CASE x \in On(d.anchor, c)
    <2>1. Hits(d, x) \subseteq Hits(d, c)
      BY <1>1, <1>3, HitsWhere DEF HitsAt
    <2> QED BY <2>1 DEF Settles
  <1> QED BY <1>2, <1>3

(* A scan that goes on from d says nothing new of what d has settled.      *)
LEMMA NothingNew ==
  ASSUME LogOK, NEW d, Sound(d), NEW t \in 0 .. Len(log), d.anchor \in Ancestors(t),
         NEW c \in 0 .. Len(log), Settles(d, c), NEW h \in Hits(d, t), h \notin ToSet(d.history)
  PROVE  h.cs \notin Ancestors(c)
  <1> SUFFICES ASSUME h.cs \in Ancestors(c) PROVE FALSE
    OBVIOUS
  <1>1. d.span \in Nat \X Nat
    BY DEF Sound, Belief
  <1>2. h.cs \in On(d.anchor, t) /\ h \in Hits(d, h.cs)
    BY <1>1, HitsWhere DEF HitsAt
  <1>3. d.anchor \in Ancestors(h.cs) /\ h.cs # d.anchor
    BY <1>2, Between
  <1>4. d.anchor \in Ancestors(c)
    BY <1>3, AncestorsClosed
  <1>5. h.cs \in On(d.anchor, c)
    BY <1>3, <1>4, Between
  <1>6. h \in Hits(d, c)
    BY <1>1, <1>2, <1>5, HitsWhere DEF HitsAt
  <1> QED BY <1>4, <1>6 DEF Settles

(* The answer for c depends on the verdicts of the ancestors of c.         *)
Unseen(H, d, c) == \A h \in H \ ToSet(d.history) : h.cs \notin Ancestors(c)

LEMMA SameAnswer ==
  ASSUME LogOK, NEW d, Sound(d), NEW e, Sound(e), NEW H, Longer(d.history, e.history, H), NEW c \in 1 .. Len(log),
         Unseen(H, d, c),
         e.anchor = d.anchor \/ e.anchor \notin Ancestors(c)
  PROVE  StatusAt(e, c) = StatusAt(d, c)
  <1> DEFINE C == Ancestors(c)
  <1>0. 0 \notin C
    BY AncestorsOlder
  <1> HIDE DEF C
  <1>1. d.history \in Seq(Verdict) /\ e.history \in Seq(Verdict)
    BY HistoryIs
  <1>2. /\ SeenFrom(e.history, C) = SeenFrom(d.history, C)
        /\ (\E x \in ToSet(e.history) : x.cs \in C) <=> (\E x \in ToSet(d.history) : x.cs \in C)
    BY <1>1, SeenLonger DEF C, Unseen
  <1>3. d.anchor \in C => \E x \in ToSet(d.history) : x.cs \in C
    <2> SUFFICES ASSUME d.anchor \in C PROVE \E x \in ToSet(d.history) : x.cs \in C
      OBVIOUS
    <2>1. PICK i \in 1 .. Len(d.history) : d.history[i].cs = d.anchor
      BY <1>0 DEF Sound
    <2>2. d.history[i] \in ToSet(d.history)
      BY <1>1, <2>1 DEF ToSet
    <2> QED BY <2>1, <2>2
  <1>4. AnchoredWithin(e, C) <=> AnchoredWithin(d, C)
    BY <1>2, <1>3 DEF AnchoredWithin, C
  <1> QED BY <1>2, <1>4 DEF StatusAt, C

LEMMA SameSelf ==
  ASSUME NEW d, NEW e, d = e, NEW c
  PROVE  StatusAt(e, c) = StatusAt(d, c)
  OBVIOUS

LEMMA SettleIs ==
  ASSUME NEW d, NEW c, Settle(d, c)
  PROVE  settled' = settled \cup {d.anchor} \cup On(d.anchor, c)
  BY DEF Settle, On

SettledBy(d) == \A c \in settled : Settles(d, c)

LEMMA SettledIs == SettledOK <=> (~crossed => SettledBy(node.data))
  BY DEF SettledOK, SettledBy, Settles

(* The answers for what is settled, over a write.                          *)
Answers == \A c \in settled \cap settled' : StatusAt(node'.data, c) = StatusAt(node.data, c)

LEMMA PutSettles ==
  ASSUME Shape, FreshOK, SettledOK, Next, ~crossed', NEW p \in Procs, Put(p)
  PROVE  SettledOK' /\ Answers
  <1>1. Watch /\ ~crossed /\ LogOK /\ log' = log /\ settled \subseteq 1 .. Len(log) /\ Sound(node.data)
    BY PutIs DEF Next, Watch, Shape, TreeOK, RuledOK, StoredOK
  <1>2. SettledBy(node.data) /\ settled' \subseteq 1 .. Len(log)
    <2>1. SettledBy(node.data)
      BY <1>1, SettledIs
    <2>2. settled' \subseteq 1 .. Len(log')
      BY ShapeStep DEF Shape, RuledOK
    <2> QED BY <1>1, <2>1, <2>2
  <1>3. \A d : \A c \in 1 .. Len(log) : Settles(d, c)' <=> Settles(d, c)
    <2>1. LogOK'
      BY ShapeStep DEF Shape, TreeOK
    <2>2. ASSUME NEW d, NEW c \in 1 .. Len(log) PROVE Ancestors(c)' = Ancestors(c) /\ Hits(d, c)' = Hits(d, c)
      BY <1>1, <2>1, CompleteKept
    <2> QED BY <2>2 DEF Settles
  <1>4. ASSUME \A c \in settled' : Settles(node'.data, c) PROVE SettledOK'
    <2>1. PICK d : d = node'.data
      OBVIOUS
    <2>2. \A c \in settled' : Settles(d, c)'
      BY <1>2, <1>3, <1>4, <2>1
    <2>3. SettledBy(node.data)'
      BY <2>1, <2>2 DEF SettledBy
    <2>4. (SettledOK <=> (~crossed => SettledBy(node.data)))'
      BY SettledIs, PTL
    <2> QED BY <2>3, <2>4
  <1>5. CASE proc[p].cmd \in Scans
    <2> DEFINE t == proc[p].tip
    <2>1. node' = proc[p].node /\ Settle(node'.data, t) /\ Sound(node'.data)
      BY <1>5, PutIs, ProcIs DEF Scans
    <2>2. t \in 0 .. Len(log) /\ Complete(node'.data, t)
      <3>1. Holds(proc[p]) /\ proc[p].pc = "put"
        BY PutIs, ProcIs
      <3> QED BY <1>5, <2>1, <3>1, TipOK DEF Holds, Scans
    <2> HIDE DEF t
    <2>3. settled' = settled \cup {node'.data.anchor} \cup On(node'.data.anchor, t)
      BY <2>1, SettleIs
    <2>4. ASSUME NEW x \in settled', x \notin settled PROVE Settles(node'.data, x)
      <3>1. x \in {node'.data.anchor} \cup On(node'.data.anchor, t) /\ x \in 0 .. Len(log)
        BY <1>2, <2>3, <2>4
      <3> QED BY <1>1, <2>1, <2>2, <3>1, ScanSettles DEF Complete
    <2>5. CASE node' = node
      <3>1. \A x \in settled' : Settles(node'.data, x)
        BY <1>2, <2>4, <2>5 DEF SettledBy
      <3> QED BY <1>4, <2>5, <3>1 DEF Answers
    <2>6. CASE node' # node
      <3>1. PICK d, e : d = node.data /\ e = node'.data
        OBVIOUS
      <3>2. Grown(d, e, t) /\ Sound(d) /\ Sound(e)
        BY <1>1, <1>5, <2>1, <2>6, <3>1, PutGrows DEF t
      <3>3. ToSet(d.history) \subseteq ToSet(e.history) /\ e.anchor = d.anchor /\ Longer(d.history, e.history, Hits(d, t))
        BY <3>2, Prefixed DEF Grown
      <3>4. \A c : Hits(e, c) = Hits(d, c)
        BY <3>2 DEF Grown, Hits, Scan
      <3>5. \A x \in settled : Settles(e, x)
        BY <1>2, <3>1, <3>3, <3>4 DEF SettledBy, Settles
      <3>6. \A x \in settled' : Settles(e, x)
        BY <2>4, <3>1, <3>5
      <3>7. ASSUME NEW c \in settled PROVE StatusAt(e, c) = StatusAt(d, c)
        <4>1. Settles(d, c) /\ c \in 1 .. Len(log) /\ c \in 0 .. Len(log)
          BY <1>1, <1>2, <3>1, <3>7 DEF SettledBy
        <4>2. d.anchor \in Ancestors(t)
          BY <2>2, <3>1, <3>3 DEF Complete
        <4>3. Unseen(Hits(d, t), d, c)
          BY <1>1, <2>2, <3>2, <4>1, <4>2, NothingNew DEF Unseen
        <4> QED BY <1>1, <3>2, <3>3, <4>1, <4>3, SameAnswer
      <3> QED BY <1>4, <3>1, <3>6, <3>7 DEF Answers
    <2> QED BY <2>5, <2>6
  <1>6. CASE proc[p].cmd = "reaffirm"
    <2> DEFINE t == proc[p].tip
    <2>1. settled' = {x \in settled : t \notin Ancestors(x)}
      BY <1>6, PutIs DEF Scans
    <2>2. CASE node' = node
      <3>1. \A x \in settled' : Settles(node'.data, x)
        BY <1>2, <2>1, <2>2 DEF SettledBy
      <3> QED BY <1>4, <2>2, <3>1 DEF Answers
    <2>3. CASE node' # node
      <3>1. PICK d, e : d = node.data /\ e = node'.data
        OBVIOUS
      <3>2. e.anchor = t /\ Longer(d.history, e.history, {Entry(t, "reaffirmed")}) /\ Sound(d) /\ Sound(e)
        BY <1>1, <1>6, <2>3, <3>1, PutGrows
      <3>3. \A x \in settled' : Settles(e, x)
        BY <2>1, <3>2 DEF Settles
      <3>4. ASSUME NEW c \in settled \cap settled' PROVE StatusAt(e, c) = StatusAt(d, c)
        <4>1. t \notin Ancestors(c) /\ c \in 1 .. Len(log)
          BY <1>1, <2>1, <3>4
        <4>2. Unseen({Entry(t, "reaffirmed")}, d, c)
          BY <4>1 DEF Entry, Unseen
        <4> QED BY <1>1, <3>2, <4>1, <4>2, SameAnswer
      <3> QED BY <1>4, <3>1, <3>3, <3>4 DEF Answers
    <2> QED BY <2>2, <2>3
  <1>7. CASE proc[p].cmd = "accept"
    <2>1. node'.data = node.data /\ settled' = settled
      BY <1>1, <1>7, PutIs, PutGrows DEF Scans
    <2>2. \A x \in settled' : Settles(node'.data, x)
      BY <1>2, <2>1 DEF SettledBy
    <2> QED BY <1>4, <2>1, <2>2 DEF Answers
  <1>8. CASE proc[p].cmd \in {"add", "propose"}
    <2>1. settled' = {}
      BY <1>8, PutIs DEF Scans
    <2> QED BY <1>4, <2>1 DEF Answers
  <1>9. proc[p].cmd \in Scans \cup {"add", "propose", "reaffirm", "accept"}
    BY PutIs
  <1> QED BY <1>5, <1>6, <1>7, <1>8, <1>9

(* A step that leaves the payload: the log may grow, and a scan that finds *)
(* nothing new may settle more.                                            *)
LEMMA SameSettles ==
  ASSUME Shape, Logged, SettledBy(node.data), node'.data = node.data,
         \A x \in settled' \ settled : x \in 0 .. Len(log) /\ Settles(node.data, x)
  PROVE  SettledOK'
  <1>1. settled \subseteq 1 .. Len(log) /\ Len(log) \in Nat
    BY TipOK DEF Shape, RuledOK
  <1>2. PICK d : d = node.data /\ d = node'.data
    OBVIOUS
  <1>3. \A x \in settled' : Settles(d, x)'
    <2> TAKE x \in settled'
    <2>1. x \in 0 .. Len(log) /\ Settles(d, x)
      BY <1>1, <1>2 DEF SettledBy
    <2>2. Ancestors(x)' = Ancestors(x) /\ Hits(d, x)' = Hits(d, x)
      BY <2>1, CompleteKept DEF Logged
    <2> QED BY <2>1, <2>2 DEF Settles
  <1>4. SettledBy(node.data)'
    BY <1>2, <1>3 DEF SettledBy
  <1>5. (SettledOK <=> (~crossed => SettledBy(node.data)))'
    BY SettledIs, PTL
  <1> QED BY <1>4, <1>5

LEMMA ReadSettles ==
  ASSUME Shape, Logged, SettledBy(node.data), NEW p \in Procs, Read(p)
  PROVE  SettledOK'
  <1>1. node' = node /\ Sound(node.data) /\ LogOK /\ log' = log
    BY DEF Read, graph, Shape, StoredOK, TreeOK
  <1>2. CASE settled' = settled
    BY <1>1, <1>2, SameSettles
  <1>3. CASE Ruled(node.data, proc[p].tip) = node.data /\ Settle(node.data, proc[p].tip)
    <2> DEFINE t == proc[p].tip
    <2>1. t \in 0 .. Len(log)
      <3>1. Holds(proc[p]) /\ At(proc[p]) /\ proc[p].pc = "read"
        BY ProcIs DEF Read
      <3> QED BY <3>1, TipOK DEF Holds, At, Scans
    <2>2. Hits(node.data, t) \subseteq ToSet(node.data.history)
      <3>1. PICK d, c : d = node.data /\ c = t
        OBVIOUS
      <3>2. Hits(d, c) \subseteq ToSet(Ruled(d, c).history)
        BY <1>1, <2>1, <3>1, RuledGrows
      <3> QED BY <1>3, <3>1, <3>2
    <2> HIDE DEF t
    <2>3. settled' = settled \cup {node.data.anchor} \cup On(node.data.anchor, t)
      BY <1>3, SettleIs DEF t
    <2>4. settled' \subseteq 1 .. Len(log)
      <3>1. ProcSteps(p)
        BY DEF ProcSteps
      <3>2. RuledOK'
        BY <3>1, ProcShape
      <3> QED BY <1>1, <3>2 DEF RuledOK
    <2>5. ASSUME NEW x \in settled' \ settled PROVE x \in 0 .. Len(log) /\ Settles(node.data, x)
      <3>1. x \in {node.data.anchor} \cup On(node.data.anchor, t) /\ x \in 0 .. Len(log)
        BY <2>3, <2>4, <2>5
      <3> QED BY <1>1, <2>1, <2>2, <3>1, ScanSettles
    <2> QED BY <1>1, <2>5, SameSettles
  <1> QED BY <1>2, <1>3, ReadTurns

LEMMA SettledMoves ==
  ASSUME Shape, Next
  PROVE  \/ node' = node /\ settled' = settled
         \/ \E p \in Procs : Put(p) \/ Accept(p) \/ Reject(p) \/ Read(p)
  <1>1. CASE FastForward \/ CreateBranch \/ Switch
    BY <1>1 DEF FastForward, CreateBranch, Switch, Grow, graph, ghost
  <1>2. ASSUME NEW p \in Procs, Promote(p) PROVE node' = node /\ settled' = settled
    BY <1>2 DEF Promote, Grow, graph, ghost
  <1>3. ASSUME NEW p \in Procs, ProcSteps(p)
        PROVE  (node' = node /\ settled' = settled) \/ Put(p) \/ Accept(p) \/ Reject(p) \/ Read(p)
    BY <1>3 DEF ProcSteps, graph, ghost, Stale, Bisect, List, Tell, Add, Propose, Reaffirm,
           AgentReaffirm, Anew, Save, WriteProposal, ClearProposal, Crash
  <1> QED BY <1>1, <1>2, <1>3 DEF Next, Steps, ProcSteps

LEMMA SettledStep ==
  ASSUME Shape, FreshOK, SettledOK, [Next]_vars
  PROVE  SettledOK'
  <1>1. CASE UNCHANGED vars
    <2>1. UNCHANGED <<log, node, settled, crossed>> /\ Logged
      BY <1>1 DEF vars, Shape, TreeOK, LogOK, Logged
    <2>2. CASE crossed
      BY <2>1, <2>2 DEF SettledOK
    <2>3. CASE SettledBy(node.data)
      BY <2>1, <2>3, SameSettles
    <2> QED BY <2>2, <2>3, SettledIs
  <1>2. CASE Next /\ crossed'
    BY <1>2 DEF SettledOK
  <1>3. CASE Next /\ ~crossed'
    <2>1. Logged /\ SettledBy(node.data)
      BY <1>3, StepLogged, SettledIs DEF Next, Watch
    <2>2. CASE node' = node /\ settled' = settled
      BY <2>1, <2>2, SameSettles
    <2>3. ASSUME NEW p \in Procs, Accept(p) \/ Reject(p) PROVE SettledOK'
      BY <2>1, <2>3, JudgeKeeps, SameSettles
    <2> QED BY <1>3, <2>1, <2>2, <2>3, SettledMoves, PutSettles, ReadSettles
  <1> QED BY <1>1, <1>2, <1>3

LEMMA AnswersStep ==
  ASSUME Shape, FreshOK, SettledOK, Next, ~crossed', node' # node
  PROVE  Answers
  <1>1. ASSUME NEW p \in Procs, Put(p) PROVE Answers
    BY <1>1, PutSettles
  <1>2. ASSUME NEW p \in Procs, Accept(p) \/ Reject(p) PROVE Answers
    BY <1>2, JudgeKeeps DEF Answers
  <1>3. ASSUME NEW p \in Procs, Read(p) PROVE FALSE
    BY <1>3 DEF Read, graph
  <1> QED BY <1>1, <1>2, <1>3, SettledMoves

(* What `belief at` answers for a changeset that a scan has ruled on does  *)
(* not change with what later scans, on this branch or another, write, nor *)
(* with an acceptance or a reaffirmation after it (status_at): for every   *)
(* forest of changesets and every interleaving of the commands.            *)
THEOREM BeliefsPastIsSettled == Spec => PastIsSettled
  <1>1. Init => Shape /\ FreshOK /\ SettledOK
    BY ShapeInit, FreshInit DEF Init, SettledOK
  <1>2. Shape /\ FreshOK /\ SettledOK /\ [Next]_vars => (Shape /\ FreshOK /\ SettledOK)'
    BY ShapeStep, FreshStep, SettledStep
  <1>3. Shape /\ FreshOK /\ SettledOK /\ [Next]_vars => [node' # node /\ ~crossed' => Answers]_vars
    BY AnswersStep
  <1>4. Spec => [][node' # node /\ ~crossed' => Answers]_vars
    BY <1>1, <1>2, <1>3, PTL DEF Spec
  <1> QED BY <1>4 DEF PastIsSettled, Answers
=============================================================================
