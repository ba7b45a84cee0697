----------------------------- MODULE Sync_proof -----------------------------
(***************************************************************************)
(* For any number of replicas, relays, sessions and lost connections: the  *)
(* refs of a replica resolve, but through tips sent without their history. *)
(* The objects of a push are applied before its refs, and what a session   *)
(* has been told that a replica holds stays there; so a tip that is about  *)
(* to be written has its history among the objects held and those still to *)
(* be written.  Histories are a recursive function of the graph: what they *)
(* are is proved by taking the least changeset for which it would not hold.*)
(***************************************************************************)
EXTENDS Sync, WellFoundedInduction, TLAPS

(* Every set of naturals has a least element.                              *)
LEMMA NatMin ==
  ASSUME NEW T \in SUBSET Nat, T # {}
  PROVE  \E m \in T : \A k \in T : m <= k
  <1> DEFINE R == OpToRel(<, Nat)
  <1>1. PICK m \in T : \A k \in T : <<k, m>> \notin R
    <2>1. IsWellFoundedOn(R, Nat)   BY NatLessThanWellFounded
    <2> HIDE DEF R
    <2>2. QED                       BY <2>1, WFMin
  <1>2. ASSUME NEW k \in T, k < m PROVE FALSE
    <2>1. <<k, m>> \in R            BY <1>2 DEF OpToRel
    <2>2. QED                       BY <2>1, <1>1
  <1>3. QED                         BY <1>2

(* Parents are older than their children.                                  *)
Older(g, n) == \A d \in 1..n : g[d] \subseteq 1 .. d - 1

(* The union of the histories of some changesets.                          *)
Up(f, S) == UNION {f[p] : p \in S}

(* f gives the histories in the first n changesets of a graph.             *)
Histories(f, g, n) == f = [d \in 1..n |-> {d} \cup UNION {f[p] : p \in g[d]}]

LEMMA HistoriesGrow ==
  ASSUME NEW n \in Nat, NEW g, Older(g, n + 1), NEW f, Histories(f, g, n)
  PROVE  \E h : Histories(h, g, n + 1)
  <1> DEFINE h == [d \in 1 .. n + 1 |->
                     IF d = n + 1 THEN {d} \cup UNION {f[p] : p \in g[d]} ELSE f[d]]
  <1>1. ASSUME NEW d \in 1 .. n + 1
        PROVE  h[d] = {d} \cup UNION {h[p] : p \in g[d]}
    <2>1. g[d] \subseteq 1 .. d - 1
      BY DEF Older
    <2>2. \A p \in g[d] : h[p] = f[p]
      BY <2>1
    <2>3. {h[p] : p \in g[d]} = {f[p] : p \in g[d]}
      BY <2>2
    <2>4. CASE d = n + 1
      BY <2>3, <2>4
    <2>5. CASE d # n + 1
      <3>1. d \in 1..n
        BY <2>5
      <3>2. f[d] = {d} \cup UNION {f[p] : p \in g[d]}
        BY <3>1 DEF Histories
      <3>3. h[d] = f[d]
        BY <2>5
      <3>4. QED
        BY <3>2, <3>3, <2>3
    <2>6. QED
      BY <2>4, <2>5
  <1> HIDE DEF h
  <1>2. h = [d \in 1 .. n + 1 |-> {d} \cup UNION {h[p] : p \in g[d]}]
    <2>1. h = [d \in 1 .. n + 1 |-> h[d]]
      BY DEF h
    <2>2. QED
      BY <2>1, <1>1
  <1>3. QED
    BY <1>2 DEF Histories

LEMMA HistoriesExist ==
  ASSUME NEW n \in Nat, NEW g, Older(g, n)
  PROVE  \E f : Histories(f, g, n)
  <1> DEFINE Bad == {m \in 0..n : ~ \E f : Histories(f, g, m)}
  <1>1. ASSUME Bad # {} PROVE FALSE
    <2>1. PICK m \in Bad : \A k \in Bad : m <= k
      <3>1. Bad \in SUBSET Nat
        OBVIOUS
      <3> HIDE DEF Bad
      <3>2. QED
        BY <3>1, <1>1, NatMin
    <2>2. m # 0
      <3>1. Histories([d \in 1..0 |-> {}], g, 0)
        BY DEF Histories
      <3>2. QED
        BY <3>1
    <2>3. PICK f : Histories(f, g, m - 1)
      <3>1. m - 1 \in 0..n /\ ~(m <= m - 1)
        BY <2>2
      <3>2. m - 1 \notin Bad
        BY <3>1, <2>1
      <3>3. QED
        BY <3>1, <3>2
    <2>4. Older(g, (m - 1) + 1) /\ m - 1 \in Nat /\ (m - 1) + 1 = m
      BY <2>2 DEF Older
    <2>5. \E h : Histories(h, g, m)
      BY <2>3, <2>4, HistoriesGrow
    <2>6. QED
      BY <2>5
  <1>2. n \notin Bad
    BY <1>1
  <1>3. QED
    BY <1>2

Hist(g, n) == CHOOSE f : Histories(f, g, n)

(* The history of a changeset: itself and the histories of its parents,    *)
(* none of them younger.                                                   *)
LEMMA HistUnfolds ==
  ASSUME NEW n \in Nat, NEW g, Older(g, n)
  PROVE  /\ DOMAIN Hist(g, n) = 1..n
         /\ \A c \in 1..n : Hist(g, n)[c] = {c} \cup Up(Hist(g, n), g[c])
  <1>1. Histories(Hist(g, n), g, n)
    BY HistoriesExist DEF Hist
  <1> HIDE DEF Hist
  <1>2. QED
    BY <1>1 DEF Histories, Up

LEMMA HistBelow ==
  ASSUME NEW n \in Nat, NEW g, Older(g, n), NEW c \in 1..n
  PROVE  Hist(g, n)[c] \subseteq 1..c
  <1> DEFINE A == Hist(g, n)
             Bad == {d \in 1..n : ~(A[d] \subseteq 1..d)}
  <1>1. \A d \in 1..n : A[d] = {d} \cup Up(A, g[d])
    BY HistUnfolds
  <1> HIDE DEF A
  <1>2. ASSUME Bad # {} PROVE FALSE
    <2>1. Bad \in SUBSET Nat
      OBVIOUS
    <2>2. PICK d \in Bad : \A k \in Bad : d <= k
      <3> HIDE DEF Bad
      <3>1. QED
        BY <1>2, <2>1, NatMin
    <2>3. ASSUME NEW p \in g[d] PROVE A[p] \subseteq 1..d
      <3>1. p \in 1 .. d - 1
        BY DEF Older
      <3>2. p \notin Bad
        BY <3>1, <2>2
      <3>3. A[p] \subseteq 1..p
        BY <3>1, <3>2
      <3>4. QED
        BY <3>1, <3>3
    <2>4. A[d] \subseteq 1..d
      BY <2>3, <1>1 DEF Up
    <2>5. QED
      BY <2>4
  <1>3. c \notin Bad
    BY <1>2
  <1>4. QED
    BY <1>3 DEF A

(* A new changeset leaves the histories of the others as they are.         *)
LEMMA HistKept ==
  ASSUME NEW n \in Nat, NEW g, Older(g, n), NEW h, Older(h, n + 1),
         \A d \in 1..n : h[d] = g[d], NEW c \in 1..n
  PROVE  Hist(h, n + 1)[c] = Hist(g, n)[c]
  <1> DEFINE A == Hist(g, n)
             B == Hist(h, n + 1)
             Bad == {d \in 1..n : B[d] # A[d]}
  <1>1. \A d \in 1..n : A[d] = {d} \cup Up(A, g[d])
    BY HistUnfolds
  <1>2. \A d \in 1..n : B[d] = {d} \cup Up(B, h[d])
    BY HistUnfolds
  <1> HIDE DEF A, B
  <1>3. ASSUME Bad # {} PROVE FALSE
    <2>1. Bad \in SUBSET Nat
      OBVIOUS
    <2>2. PICK d \in Bad : \A k \in Bad : d <= k
      <3> HIDE DEF Bad
      <3>1. QED
        BY <1>3, <2>1, NatMin
    <2>3. ASSUME NEW p \in g[d] PROVE B[p] = A[p]
      <3>1. p \in 1 .. d - 1
        BY DEF Older
      <3>2. p \notin Bad
        BY <3>1, <2>2
      <3>3. QED
        BY <3>1, <3>2
    <2>4. {B[p] : p \in h[d]} = {A[p] : p \in g[d]}
      BY <2>3
    <2>5. B[d] = A[d]
      BY <2>4, <1>1, <1>2 DEF Up
    <2>6. QED
      BY <2>5
  <1>4. c \notin Bad
    BY <1>3
  <1>5. QED
    BY <1>4 DEF A, B

LEMMA AncestorsAre == Ancestors = Hist(cs, Len(cs))
  BY DEF Ancestors, Hist, Histories

LEMMA AncestorsAreNext == Ancestors' = Hist(cs', Len(cs'))
  BY DEF Ancestors, Hist, Histories
-----------------------------------------------------------------------------
(* The inductive invariant.  A is the function from the changesets to      *)
(* their histories, held a set of changesets, h those of `short`, and N    *)
(* the names that refs may have by now.                                    *)
SessionFields == {"pc", "from", "to", "dir", "bare", "theirs", "ours", "sent", "push", "todo",
                  "name", "target", "read", "disturbed", "goal"}
CommandFields == {"pc", "id", "read", "fork", "theirs"}
Names == Seq(Replica \cup 1..Len(sess))

Resolved(c, A, held, h) == A[c] \subseteq held \/ A[c] \cap h # {}

(* Refs that resolve among the changesets held.                            *)
RefsOK(f, A, held, h, N) ==
  /\ DOMAIN f \subseteq N
  /\ \A n \in DOMAIN f : f[n] \in DOMAIN A /\ Resolved(f[n], A, held, h)

CommandOK(c, A, held, h) ==
  /\ DOMAIN c = CommandFields
  /\ c.pc # "idle" => c.id \in held /\ c.id \in DOMAIN A /\ Resolved(c.id, A, held, h)

To(s) == IF s.dir = "push" THEN s.to ELSE s.from

(* What an open session has been told that a replica holds, it holds; and  *)
(* the refs it has been sent resolve once the objects still to be written  *)
(* are.                                                                    *)
SessionOK(s, A, o, h, N) ==
  /\ DOMAIN s = SessionFields
  /\ s.pc # "closed" =>
       /\ s.from \in Replica /\ s.to \in Replica /\ s.dir \in {"push", "pull"}
       /\ s.sent \cup s.theirs \cup s.goal \subseteq DOMAIN A
       /\ s.theirs \subseteq o[To(s)]
       /\ s.dir = "push" => s.ours \subseteq o[s.from]
       /\ s.pc \in {"collect", "list"} => DOMAIN s.push = {}
       /\ s.pc \in {"refs", "write"} => s.sent = {}
       /\ RefsOK(s.push, A, o[To(s)] \cup s.sent, h, N)
       /\ s.todo \subseteq DOMAIN s.push
       /\ s.pc = "write" => s.name \in DOMAIN s.push /\ s.target \in N

Queue(s) == \E S : s \in Seq(S)

GraphOK    == Queue(cs) /\ Len(cs) \in Changeset /\ Older(cs, Len(cs))
BoundsOK   == drops \in 0..MaxDrops /\ short \cup lost \subseteq 1..Len(cs)
ObjectsOK  == objs \in [Replica -> SUBSET (1..Len(cs))]
AllRefsOK  == /\ DOMAIN refs = Replica
              /\ \A r \in Replica : RefsOK(refs[r], Ancestors, objs[r], short, Names)
CommandsOK == /\ DOMAIN cmd = Replica
              /\ \A r \in Replica : CommandOK(cmd[r], Ancestors, objs[r], short)
SessionsOK == /\ Queue(sess)
              /\ \A s \in DOMAIN sess : SessionOK(sess[s], Ancestors, objs, short, Names)

Inv == GraphOK /\ BoundsOK /\ ObjectsOK /\ AllRefsOK /\ CommandsOK /\ SessionsOK
-----------------------------------------------------------------------------
(* What a step adds to: the histories, the objects, the names.             *)
Extends(A, B) == DOMAIN A \subseteq DOMAIN B /\ \A c \in DOMAIN A : B[c] = A[c]

Grows ==
  /\ Extends(Ancestors, Ancestors')
  /\ \A r \in Replica : objs[r] \subseteq objs'[r]
  /\ short \subseteq short'
  /\ Names \subseteq Names'

LEMMA RefsKept ==
  ASSUME NEW f, NEW A, NEW held, NEW h, NEW N, NEW B, NEW held2, NEW h2, NEW N2,
         RefsOK(f, A, held, h, N),
         Extends(A, B), held \subseteq held2, h \subseteq h2, N \subseteq N2
  PROVE  RefsOK(f, B, held2, h2, N2)
  BY DEF RefsOK, Resolved, Extends

LEMMA CommandKept ==
  ASSUME NEW c, NEW A, NEW held, NEW h, NEW B, NEW held2, NEW h2,
         CommandOK(c, A, held, h),
         Extends(A, B), held \subseteq held2, h \subseteq h2
  PROVE  CommandOK(c, B, held2, h2)
  BY DEF CommandOK, Resolved, Extends

LEMMA SessionKept ==
  ASSUME NEW s, NEW A, NEW o, NEW h, NEW N, NEW B, NEW o2, NEW h2, NEW N2,
         SessionOK(s, A, o, h, N),
         Extends(A, B), \A r \in Replica : o[r] \subseteq o2[r], h \subseteq h2, N \subseteq N2
  PROVE  SessionOK(s, B, o2, h2, N2)
  <1>1. CASE s.pc = "closed"
    BY <1>1 DEF SessionOK
  <1>2. CASE s.pc # "closed"
    <2>1. To(s) \in Replica
      BY <1>2 DEF SessionOK, To
    <2>2. o[To(s)] \subseteq o2[To(s)] /\ o[s.from] \subseteq o2[s.from]
      BY <1>2, <2>1 DEF SessionOK
    <2>3. RefsOK(s.push, B, o2[To(s)] \cup s.sent, h2, N2)
      <3>1. RefsOK(s.push, A, o[To(s)] \cup s.sent, h, N)
        BY <1>2 DEF SessionOK
      <3>2. QED
        BY <3>1, <2>2, RefsKept
    <2>4. QED
      BY <1>2, <2>2, <2>3 DEF SessionOK, Extends
  <1>3. QED
    BY <1>1, <1>2

LEMMA SeqsGrow ==
  ASSUME NEW S, NEW T, S \subseteq T
  PROVE  Seq(S) \subseteq Seq(T)
  OBVIOUS

LEMMA HistoriesOf ==
  ASSUME GraphOK
  PROVE  /\ DOMAIN Ancestors = 1..Len(cs)
         /\ \A c \in 1..Len(cs) : /\ Ancestors[c] \subseteq 1..c
                                  /\ c \in Ancestors[c]
  <1>1. Len(cs) \in Nat /\ Older(cs, Len(cs))
    BY BoundsAssumption DEF GraphOK, Changeset
  <1>2. QED
    BY <1>1, AncestorsAre, HistUnfolds, HistBelow

(* A changeset that a command adds to the graph.                           *)
LEMMA GraphAdd ==
  ASSUME GraphOK, NEW parents \in SUBSET (1..Len(cs)),
         Len(cs) + 1 \in Changeset, cs' = Append(cs, parents)
  PROVE  /\ GraphOK' /\ Len(cs') = Len(cs) + 1
         /\ Extends(Ancestors, Ancestors')
         /\ Ancestors'[Len(cs')] = {Len(cs')} \cup Up(Ancestors, parents)
  <1> DEFINE n == Len(cs)
  <1>1. n \in Nat /\ Older(cs, n)
    BY BoundsAssumption DEF GraphOK, Changeset
  <1>2. PICK S : cs \in Seq(S)
    BY DEF GraphOK, Queue
  <1>3. /\ cs' \in Seq(S \cup {parents}) /\ Len(cs') = n + 1
        /\ cs'[n + 1] = parents /\ \A d \in 1..n : cs'[d] = cs[d]
    BY <1>2
  <1> HIDE DEF n
  <1>4. Older(cs', n + 1)
    <2>1. ASSUME NEW d \in 1 .. n + 1 PROVE cs'[d] \subseteq 1 .. d - 1
      <3>1. CASE d = n + 1
        <4>1. d - 1 = n /\ cs'[d] = parents
          BY <1>1, <1>3, <3>1
        <4>2. QED
          BY <4>1 DEF n
      <3>2. CASE d # n + 1
        BY <1>1, <1>3, <3>2 DEF Older
      <3>3. QED
        BY <3>1, <3>2
    <2>2. QED
      BY <2>1 DEF Older
  <1>5. GraphOK'
    BY <1>3, <1>4 DEF GraphOK, Queue, n
  <1>6. Ancestors = Hist(cs, n) /\ Ancestors' = Hist(cs', n + 1)
    BY <1>3, AncestorsAre, AncestorsAreNext DEF n
  <1>7. DOMAIN Ancestors = 1..n /\ DOMAIN Ancestors' = 1 .. n + 1
    BY <1>1, <1>4, <1>6, HistUnfolds
  <1>8. \A c \in 1..n : Ancestors'[c] = Ancestors[c]
    BY <1>1, <1>3, <1>4, <1>6, HistKept
  <1>9. Ancestors'[n + 1] = {n + 1} \cup Up(Ancestors', parents)
    <2>1. n + 1 \in 1 .. n + 1 /\ n + 1 \in Nat
      BY <1>1
    <2>2. Ancestors'[n + 1] = {n + 1} \cup Up(Ancestors', cs'[n + 1])
      BY <2>1, <1>4, <1>6, HistUnfolds
    <2>3. QED
      BY <2>2, <1>3
  <1>10. {Ancestors'[p] : p \in parents} = {Ancestors[p] : p \in parents}
    BY <1>8 DEF n
  <1>11. Up(Ancestors', parents) = Up(Ancestors, parents)
    BY <1>10 DEF Up
  <1>12. QED
    BY <1>11, <1>3, <1>5, <1>7, <1>8, <1>9, <1>10 DEF Extends, n

LEMMA GraphSame ==
  ASSUME Inv, UNCHANGED cs
  PROVE  GraphOK' /\ Ancestors' = Ancestors /\ Extends(Ancestors, Ancestors')
  <1>1. Ancestors' = Ancestors
    BY AncestorsAre, AncestorsAreNext
  <1>2. QED
    BY <1>1 DEF Inv, GraphOK, Extends, Queue

(* What a step does not write stays as good as it was.                     *)
LEMMA Untouched ==
  ASSUME Inv, Grows
  PROVE  /\ \A r \in Replica : RefsOK(refs[r], Ancestors', objs'[r], short', Names')
         /\ \A r \in Replica : CommandOK(cmd[r], Ancestors', objs'[r], short')
         /\ \A s \in DOMAIN sess : SessionOK(sess[s], Ancestors', objs', short', Names')
  <1>1. /\ Extends(Ancestors, Ancestors') /\ short \subseteq short' /\ Names \subseteq Names'
        /\ \A r \in Replica : objs[r] \subseteq objs'[r]
    BY DEF Grows
  <1>2. ASSUME NEW r \in Replica
        PROVE  RefsOK(refs[r], Ancestors', objs'[r], short', Names')
    <2>1. RefsOK(refs[r], Ancestors, objs[r], short, Names)
      BY DEF Inv, AllRefsOK
    <2>2. QED
      BY <1>1, <2>1, RefsKept
  <1>3. ASSUME NEW r \in Replica
        PROVE  CommandOK(cmd[r], Ancestors', objs'[r], short')
    <2>1. CommandOK(cmd[r], Ancestors, objs[r], short)
      BY DEF Inv, CommandsOK
    <2>2. QED
      BY <1>1, <2>1, CommandKept
  <1>4. ASSUME NEW s \in DOMAIN sess
        PROVE  SessionOK(sess[s], Ancestors', objs', short', Names')
    <2>1. SessionOK(sess[s], Ancestors, objs, short, Names)
      BY DEF Inv, SessionsOK
    <2>2. QED
      BY <1>1, <2>1, SessionKept
  <1>5. QED
    BY <1>2, <1>3, <1>4

(* One session makes a step.                                               *)
LEMMA OneSession ==
  ASSUME Inv, NEW s \in DOMAIN sess, NEW rec, Step(s, rec), Grows,
         SessionOK(rec, Ancestors', objs', short', Names')
  PROVE  SessionsOK'
  <1>1. PICK S : sess \in Seq(S)
    BY DEF Inv, SessionsOK, Queue
  <1>2. sess' \in Seq(S \cup {rec}) /\ DOMAIN sess' = DOMAIN sess /\ sess'[s] = rec
        /\ \A t \in DOMAIN sess : t # s => sess'[t] = sess[t]
    BY <1>1 DEF Step
  <1>3. \A t \in DOMAIN sess' : SessionOK(sess'[t], Ancestors', objs', short', Names')
    BY <1>2, Untouched
  <1>4. QED
    BY <1>2, <1>3 DEF SessionsOK, Queue

LEMMA SessionsCounted ==
  ASSUME Inv, NEW r, NEW but
  PROVE  Len(Disturb(sess, r, but)) = Len(sess)
  <1>1. PICK S : sess \in Seq(S)
    BY DEF Inv, SessionsOK, Queue
  <1>2. DOMAIN Disturb(sess, r, but) = 1..Len(sess) /\ Len(sess) \in Nat
    BY <1>1 DEF Disturb
  <1>3. QED
    BY <1>2

LEMMA StepNames ==
  ASSUME Inv, NEW s, NEW rec, Step(s, rec)
  PROVE  Names' = Names
  <1>1. PICK S : sess \in Seq(S)
    BY DEF Inv, SessionsOK, Queue
  <1>2. Len(sess') = Len(sess)
    BY <1>1 DEF Step
  <1>3. QED
    BY <1>2 DEF Names

(* Sessions that notice a write to the refs.                               *)
LEMMA Noticed ==
  ASSUME Inv, NEW r, NEW but, Names' = Names, Grows
  PROVE  /\ Queue(Disturb(sess, r, but))
         /\ Len(Disturb(sess, r, but)) = Len(sess)
         /\ DOMAIN Disturb(sess, r, but) = DOMAIN sess
         /\ \A s \in DOMAIN sess :
              SessionOK(Disturb(sess, r, but)[s], Ancestors', objs', short', Names')
  <1> DEFINE D == Disturb(sess, r, but)
  <1>1. PICK S : sess \in Seq(S)
    BY DEF Inv, SessionsOK, Queue
  <1>2. DOMAIN D = DOMAIN sess /\ DOMAIN sess = 1..Len(sess) /\ Len(sess) \in Nat
    BY <1>1 DEF Disturb
  <1>3. D \in [1..Len(sess) -> {D[s] : s \in DOMAIN sess}]
    BY <1>2 DEF Disturb
  <1>4. D \in Seq({D[s] : s \in DOMAIN sess}) /\ Len(D) = Len(sess)
    <2> HIDE DEF D
    <2>1. QED
      BY <1>2, <1>3
  <1>5. ASSUME NEW s \in DOMAIN sess
        PROVE  SessionOK(D[s], Ancestors', objs', short', Names')
    <2>1. SessionOK(sess[s], Ancestors', objs', short', Names')
      BY Untouched
    <2>2. CASE D[s] = sess[s]
      BY <2>1, <2>2
    <2>3. CASE D[s] = [sess[s] EXCEPT !.disturbed = TRUE]
      BY <2>1, <2>3 DEF SessionOK, SessionFields, To
    <2>4. QED
      BY <2>2, <2>3 DEF Disturb
  <1>6. QED
    BY <1>2, <1>4, <1>5 DEF Queue
-----------------------------------------------------------------------------
(* The commands of a replica.                                              *)

LEMMA StoreKeeps ==
  ASSUME Inv, NEW r \in Replica, NEW parents \in SUBSET (1..Len(cs)), NEW step,
         \A p \in parents : Resolved(p, Ancestors, objs[r], short),
         DOMAIN step = CommandFields, Store(r, parents, step)
  PROVE  Inv'
  <1> DEFINE id == Len(cs) + 1
  <1>1. /\ id \in Changeset /\ cs' = Append(cs, parents)
        /\ objs' = [objs EXCEPT ![r] = @ \cup {id}]
        /\ cmd' = [cmd EXCEPT ![r] = [step EXCEPT !.id = id]]
        /\ UNCHANGED <<refs, sess, drops, short, lost>>
    BY DEF Store
  <1>2. /\ GraphOK' /\ Len(cs') = id /\ Extends(Ancestors, Ancestors')
        /\ Ancestors'[id] = {id} \cup Up(Ancestors, parents)
    BY <1>1, GraphAdd DEF Inv
  <1>3. DOMAIN Ancestors' = 1..id /\ Len(cs) \in Nat
    BY <1>2, HistoriesOf, HistUnfolds, AncestorsAreNext, BoundsAssumption DEF Inv, GraphOK, Changeset
  <1> HIDE DEF id
  <1>4. Names' = Names
    BY <1>1 DEF Names
  <1>5. objs' \in [Replica -> SUBSET (1..id)] /\ \A q \in Replica : objs[q] \subseteq objs'[q]
    BY <1>1, <1>3 DEF Inv, ObjectsOK, id
  <1>6. Grows
    BY <1>1, <1>2, <1>4, <1>5 DEF Grows
  <1>7. Resolved(id, Ancestors', objs'[r], short')
    <2>1. id \in objs'[r]
      BY <1>1 DEF Inv, ObjectsOK
    <2>2. \A p \in parents : Ancestors[p] \subseteq objs'[r] \/ Ancestors[p] \cap short' # {}
      BY <1>1, <1>5 DEF Resolved
    <2>3. QED
      BY <2>1, <2>2, <1>2 DEF Resolved, Up
  <1>8. CommandsOK'
    <2>1. CommandOK(cmd'[r], Ancestors', objs'[r], short')
      <3>1. cmd'[r] = [step EXCEPT !.id = id]
        BY <1>1 DEF Inv, CommandsOK
      <3>2. id \in objs'[r] /\ id \in DOMAIN Ancestors'
        BY <1>1, <1>3 DEF Inv, ObjectsOK, id
      <3>3. QED
        BY <3>1, <3>2, <1>7 DEF CommandOK, CommandFields
    <2>2. \A q \in Replica : q # r => cmd'[q] = cmd[q]
      BY <1>1 DEF Inv, CommandsOK
    <2>3. QED
      BY <2>1, <2>2, <1>1, <1>6, Untouched DEF CommandsOK, Inv
  <1>9. BoundsOK'
    BY <1>1, <1>2, <1>3 DEF Inv, BoundsOK, id
  <1>10. AllRefsOK' /\ SessionsOK'
    BY <1>1, <1>6, Untouched DEF Inv, AllRefsOK, SessionsOK, Queue
  <1>11. QED
    BY <1>2, <1>5, <1>8, <1>9, <1>10 DEF Inv, ObjectsOK

LEMMA ReadsRef ==
  ASSUME Inv, NEW r \in Replica, NEW n, ReadRef(r, n) # None
  PROVE  ReadRef(r, n) \in 1..Len(cs) /\ Resolved(ReadRef(r, n), Ancestors, objs[r], short)
  <1>1. n \in DOMAIN refs[r] /\ ReadRef(r, n) = refs[r][n]
    BY DEF ReadRef
  <1>2. QED
    BY <1>1, HistoriesOf DEF Inv, AllRefsOK, RefsOK

LEMMA BeginPromoteKeeps ==
  ASSUME Inv, NEW r \in Replica, BeginPromote(r)
  PROVE  Inv'
  <1> DEFINE tip == ReadRef(r, Main)
             step == [NoCommand EXCEPT !.pc = "ref", !.read = tip]
  <1>1. Store(r, {tip} \ {None}, step)
    BY DEF BeginPromote
  <1>2. \A p \in {tip} \ {None} : p \in 1..Len(cs) /\ Resolved(p, Ancestors, objs[r], short)
    BY ReadsRef
  <1>3. DOMAIN step = CommandFields
    BY DEF NoCommand, CommandFields
  <1> HIDE DEF tip, step
  <1>4. QED
    BY <1>1, <1>2, <1>3, StoreKeeps

LEMMA BeginMergeKeeps ==
  ASSUME Inv, NEW r \in Replica, NEW fork, BeginMerge(r, fork)
  PROVE  Inv'
  <1> DEFINE ours == ReadRef(r, Main)
             theirs == ReadRef(r, fork)
             step == [NoCommand EXCEPT !.pc = "ref", !.read = ours, !.fork = fork, !.theirs = theirs]
  <1>1. Store(r, {ours, theirs}, step) /\ None \notin {ours, theirs}
    BY DEF BeginMerge
  <1>2. \A p \in {ours, theirs} : p \in 1..Len(cs) /\ Resolved(p, Ancestors, objs[r], short)
    BY <1>1, ReadsRef
  <1>3. DOMAIN step = CommandFields
    BY DEF NoCommand, CommandFields
  <1> HIDE DEF ours, theirs, step
  <1>4. QED
    BY <1>1, <1>2, <1>3, StoreKeeps

(* A ref is written: its tip resolves where it is written.                 *)
LEMMA WithRefKeeps ==
  ASSUME Inv, NEW r \in Replica, NEW n \in Names, NEW tip \in DOMAIN Ancestors,
         Resolved(tip, Ancestors, objs[r], short),
         refs' = WithRef(r, n, tip), UNCHANGED <<cs, objs, short>>, Names' = Names
  PROVE  AllRefsOK'
  <1>1. /\ DOMAIN refs' = Replica
        /\ \A q \in Replica : q # r => refs'[q] = refs[q]
        /\ DOMAIN refs'[r] = DOMAIN refs[r] \cup {n}
        /\ \A m \in DOMAIN refs'[r] : refs'[r][m] = IF m = n THEN tip ELSE refs[r][m]
    BY DEF WithRef, Inv, AllRefsOK
  <1>2. RefsOK(refs'[r], Ancestors, objs[r], short, Names)
    BY <1>1 DEF Inv, AllRefsOK, RefsOK
  <1>3. Ancestors' = Ancestors
    BY GraphSame
  <1>4. AllRefsOK'
    BY <1>1, <1>2, <1>3 DEF Inv, AllRefsOK
  <1>5. QED
    BY <1>4

LEMMA ForgottenKnown ==
  ASSUME Inv, NEW r \in Replica
  PROVE  Forgotten(r) \subseteq 1..Len(cs)
  <1>1. \A m \in DOMAIN refs[r] : refs[r][m] \in 1..Len(cs)
    BY HistoriesOf DEF Inv, AllRefsOK, RefsOK
  <1>2. \A c \in 1..Len(cs) : Ancestors[c] \subseteq 1..Len(cs)
    BY HistoriesOf DEF Inv
  <1>3. QED
    BY <1>1, <1>2 DEF Forgotten, Known, Reach

(* A command or a session writes refs of r, and sessions notice.           *)
LEMMA RefsWritten ==
  ASSUME Inv, NEW r \in Replica, NEW but, AllRefsOK', UNCHANGED <<cs, objs, drops, short>>,
         lost' \subseteq lost \cup Forgotten(r),
         sess' = Disturb(sess, r, but)
  PROVE  Grows /\ GraphOK' /\ BoundsOK' /\ ObjectsOK' /\ SessionsOK'
  <1>1. GraphOK' /\ Ancestors' = Ancestors /\ Extends(Ancestors, Ancestors')
    BY GraphSame
  <1>2. Len(Disturb(sess, r, but)) = Len(sess)
    BY SessionsCounted
  <1>3. Names' = Names
    BY <1>2 DEF Names
  <1>4. Grows
    BY <1>1, <1>3 DEF Grows
  <1>5. SessionsOK'
    BY <1>3, <1>4, Noticed DEF SessionsOK
  <1>6. BoundsOK' /\ ObjectsOK'
    BY ForgottenKnown DEF Inv, BoundsOK, ObjectsOK
  <1>7. QED
    BY <1>1, <1>4, <1>5, <1>6

LEMMA MoveTipKeeps ==
  ASSUME Inv, NEW r \in Replica, MoveTip(r)
  PROVE  Inv'
  <1>1. CommandOK(cmd[r], Ancestors, objs[r], short) /\ cmd[r].pc = "ref"
    BY DEF MoveTip, Inv, CommandsOK
  <1>2. cmd[r].id \in DOMAIN Ancestors /\ Resolved(cmd[r].id, Ancestors, objs[r], short)
    BY <1>1 DEF CommandOK
  <1>3. sess' = Disturb(sess, r, None) /\ UNCHANGED <<cs, objs, drops, short>>
        /\ refs' = WithRef(r, Main, cmd[r].id) /\ lost' \subseteq lost \cup Forgotten(r)
    BY DEF MoveTip
  <1>4. Names' = Names
    BY <1>3, SessionsCounted DEF Names
  <1>5. AllRefsOK'
    <2>1. Main \in Names
      BY DEF Main, Names
    <2>2. QED
      BY <2>1, <1>2, <1>3, <1>4, WithRefKeeps
  <1>6. Grows /\ GraphOK' /\ BoundsOK' /\ ObjectsOK' /\ SessionsOK'
    BY <1>3, <1>5, RefsWritten
  <1>7. CommandsOK'
    <2>1. cmd' = [cmd EXCEPT ![r] = IF cmd[r].fork = Main THEN NoCommand
                                    ELSE [cmd[r] EXCEPT !.pc = "delete"]]
      BY DEF MoveTip
    <2>2. CommandOK(cmd[r], Ancestors', objs'[r], short')
      BY <1>6, Untouched
    <2>3. CommandOK(cmd'[r], Ancestors', objs'[r], short')
      BY <2>1, <2>2, <1>1 DEF CommandOK, CommandFields, NoCommand, Inv, CommandsOK
    <2>4. \A q \in Replica : q # r => cmd'[q] = cmd[q]
      BY <2>1 DEF Inv, CommandsOK
    <2>5. QED
      BY <2>1, <2>3, <2>4, <1>6, Untouched DEF CommandsOK, Inv
  <1>8. QED
    BY <1>5, <1>6, <1>7 DEF Inv

LEMMA DeleteForkKeeps ==
  ASSUME Inv, NEW r \in Replica, DeleteFork(r)
  PROVE  Inv'
  <1>1. /\ refs' = [refs EXCEPT ![r] = [n \in DOMAIN refs[r] \ {cmd[r].fork} |-> refs[r][n]]]
        /\ sess' = Disturb(sess, r, None) /\ UNCHANGED <<cs, objs, drops, short>>
        /\ cmd' = [cmd EXCEPT ![r] = NoCommand] /\ lost' \subseteq lost \cup Forgotten(r)
    BY DEF DeleteFork
  <1>2. Names' = Names
    BY <1>1, SessionsCounted DEF Names
  <1>3. AllRefsOK'
    <2>1. Ancestors' = Ancestors
      BY <1>1, GraphSame
    <2>2. RefsOK(refs'[r], Ancestors, objs[r], short, Names)
      BY <1>1 DEF Inv, AllRefsOK, RefsOK
    <2>3. QED
      BY <1>1, <1>2, <2>1, <2>2 DEF Inv, AllRefsOK
  <1>4. Grows /\ GraphOK' /\ BoundsOK' /\ ObjectsOK' /\ SessionsOK'
    BY <1>1, <1>3, RefsWritten
  <1>5. CommandsOK'
    <2>1. CommandOK(NoCommand, Ancestors', objs'[r], short')
      BY DEF CommandOK, CommandFields, NoCommand
    <2>2. QED
      BY <2>1, <1>1, <1>4, Untouched DEF CommandsOK, Inv
  <1>6. QED
    BY <1>3, <1>4, <1>5 DEF Inv
-----------------------------------------------------------------------------
(* The steps of a session that write no refs.                              *)

LEMMA SessionStep ==
  ASSUME Inv, NEW s \in Open, NEW rec, Step(s, rec), UNCHANGED <<cs, refs, cmd, lost>>,
         ObjectsOK', \A r \in Replica : objs[r] \subseteq objs'[r],
         drops' \in 0..MaxDrops, short \subseteq short', short' \subseteq 1..Len(cs),
         SessionOK(rec, Ancestors, objs', short', Names)
  PROVE  Inv'
  <1>1. GraphOK' /\ Ancestors' = Ancestors /\ Extends(Ancestors, Ancestors')
    BY GraphSame
  <1>2. Names' = Names
    BY StepNames
  <1>3. Grows
    BY <1>1, <1>2 DEF Grows
  <1>4. SessionsOK'
    BY <1>1, <1>2, <1>3, OneSession DEF Open
  <1>5. AllRefsOK' /\ CommandsOK'
    BY <1>3, Untouched DEF Inv, AllRefsOK, CommandsOK
  <1>6. BoundsOK'
    BY DEF Inv, BoundsOK
  <1>7. QED
    BY <1>1, <1>4, <1>5, <1>6 DEF Inv

(* What is known of an open session.                                       *)
LEMMA OpenSession ==
  ASSUME Inv, NEW s \in Open
  PROVE  /\ s \in DOMAIN sess /\ sess[s].pc # "closed"
         /\ SessionOK(sess[s], Ancestors, objs, short, Names)
         /\ Receiver(s) = To(sess[s]) /\ Receiver(s) \in Replica /\ Sender(s) \in Replica
         /\ sess[s].from \in Replica /\ sess[s].to \in Replica
         /\ DOMAIN Ancestors = 1..Len(cs)
  BY HistoriesOf DEF Open, Inv, SessionsOK, SessionOK, Receiver, Sender, To

LEMMA CollectKeeps ==
  ASSUME Inv, NEW s \in Open, Collect(s)
  PROVE  Inv'
  <1> DEFINE old == sess[s]
             read == IF old.bare THEN {} ELSE objs[old.from] \ old.theirs
             rec == [old EXCEPT !.pc = "list", !.sent = read]
  <1>1. Step(s, rec) /\ old.pc = "collect" /\ UNCHANGED <<cs, objs, refs, cmd, drops, short, lost>>
    BY DEF Collect
  <1>2. SessionOK(old, Ancestors, objs, short, Names) /\ old.from \in Replica
        /\ DOMAIN Ancestors = 1..Len(cs)
    BY OpenSession
  <1>3. read \subseteq 1..Len(cs)
    BY <1>2 DEF Inv, ObjectsOK
  <1> HIDE DEF old, read
  <1>4. SessionOK(rec, Ancestors, objs, short, Names)
    BY <1>1, <1>2, <1>3 DEF SessionOK, SessionFields, RefsOK, To
  <1> HIDE DEF rec
  <1>5. QED
    BY <1>1, <1>4, SessionStep DEF Inv, ObjectsOK, BoundsOK

LEMMA ListRefsKeeps ==
  ASSUME Inv, NEW s \in Open, ListRefs(s)
  PROVE  Inv'
  <1> DEFINE old == sess[s]
             push == refs[Sender(s)]
             brought == old.theirs \cup old.sent
             rec == [old EXCEPT !.pc = AfterObjects(old.sent), !.push = push, !.todo = DOMAIN push]
             bare == {push[n] : n \in {m \in DOMAIN push : ~(Ancestors[push[m]] \subseteq brought)}}
  <1>1. /\ Step(s, rec) /\ old.pc = "list" /\ UNCHANGED <<cs, objs, refs, cmd, drops, lost>>
        /\ short' = short \cup bare
    BY DEF ListRefs
  <1>2. SessionOK(old, Ancestors, objs, short, Names) /\ To(old) \in Replica
        /\ DOMAIN Ancestors = 1..Len(cs) /\ old.pc # "closed"
    BY OpenSession
  <1>3. RefsOK(push, Ancestors, objs[Sender(s)], short, Names)
    BY OpenSession DEF Inv, AllRefsOK
  <1>4. brought \subseteq objs[To(old)] \cup old.sent
    BY <1>2 DEF SessionOK
  <1>5. RefsOK(push, Ancestors, objs[To(old)] \cup old.sent, short', Names)
    <2>1. ASSUME NEW n \in DOMAIN push
          PROVE  /\ push[n] \in DOMAIN Ancestors
                 /\ Resolved(push[n], Ancestors, objs[To(old)] \cup old.sent, short')
      <3>1. push[n] \in 1..Len(cs) /\ push[n] \in Ancestors[push[n]]
        BY <1>2, <1>3, HistoriesOf DEF RefsOK, Inv
      <3> HIDE DEF push, brought
      <3>2. CASE Ancestors[push[n]] \subseteq brought
        BY <1>2, <1>4, <3>1, <3>2 DEF Resolved
      <3>3. CASE ~(Ancestors[push[n]] \subseteq brought)
        BY <1>1, <1>2, <3>1, <3>3 DEF Resolved
      <3>4. QED
        BY <3>2, <3>3
    <2>2. QED
      BY <2>1, <1>3 DEF RefsOK
  <1>6. bare \subseteq 1..Len(cs)
    BY <1>2, <1>3 DEF RefsOK
  <1> HIDE DEF old, push, bare
  <1>7. SessionOK(rec, Ancestors, objs, short', Names)
    BY <1>1, <1>2, <1>3, <1>5 DEF SessionOK, SessionFields, RefsOK, To, AfterObjects
  <1> HIDE DEF rec
  <1>8. QED
    BY <1>1, <1>6, <1>7, SessionStep DEF Inv, ObjectsOK, BoundsOK

LEMMA WriteObjectKeeps ==
  ASSUME Inv, NEW s \in Open, WriteObject(s)
  PROVE  Inv'
  <1> DEFINE old == sess[s]
  <1>1. PICK c \in old.sent :
          /\ objs' = WriteRaw(Receiver(s), c)
          /\ Step(s, [old EXCEPT !.sent = old.sent \ {c}, !.pc = AfterObjects(old.sent \ {c})])
    BY DEF WriteObject
  <1> DEFINE rec == [old EXCEPT !.sent = old.sent \ {c}, !.pc = AfterObjects(old.sent \ {c})]
  <1>2. SessionOK(old, Ancestors, objs, short, Names) /\ Receiver(s) = To(old)
        /\ Receiver(s) \in Replica
        /\ DOMAIN Ancestors = 1..Len(cs) /\ old.pc # "closed"
    BY OpenSession
  <1>3. c \in 1..Len(cs) /\ UNCHANGED <<cs, refs, cmd, drops, short, lost>> /\ old.pc = "objects"
    BY <1>1, <1>2 DEF SessionOK, WriteObject
  <1>4. /\ objs' \in [Replica -> SUBSET (1..Len(cs))]
        /\ \A r \in Replica : objs[r] \subseteq objs'[r]
        /\ objs'[To(old)] = objs[To(old)] \cup {c}
    BY <1>1, <1>2, <1>3 DEF WriteRaw, Inv, ObjectsOK
  <1> HIDE DEF old
  <1>5. SessionOK(old, Ancestors, objs', short, Names)
    BY <1>2, <1>4, SessionKept DEF Extends
  <1>6. RefsOK(old.push, Ancestors, objs'[To(old)] \cup (old.sent \ {c}), short, Names)
    <2>1. objs'[To(old)] \cup (old.sent \ {c}) = objs'[To(old)] \cup old.sent
      BY <1>4
    <2>2. QED
      BY <2>1, <1>5, <1>2 DEF SessionOK
  <1>7. SessionOK(rec, Ancestors, objs', short, Names)
    <2>1. To(rec) = To(old) /\ rec.push = old.push /\ rec.sent = old.sent \ {c}
      BY <1>5 DEF SessionOK, SessionFields, To
    <2>2. QED
      BY <2>1, <1>3, <1>5, <1>6 DEF SessionOK, SessionFields, AfterObjects
  <1> HIDE DEF rec
  <1>8. QED
    BY <1>1, <1>3, <1>4, <1>7, SessionStep DEF Inv, ObjectsOK, BoundsOK, rec

LEMMA ForkNameOK ==
  ASSUME Inv, NEW s \in Open, NEW n \in Names
  PROVE  ForkName(s, n) \in Names
  <1>1. sess[s].to \in Replica /\ s \in DOMAIN sess
    BY OpenSession
  <1>2. s \in 1..Len(sess)
    BY <1>1 DEF Inv, SessionsOK, Queue
  <1>3. QED
    BY <1>1, <1>2 DEF ForkName, Names

LEMMA ReadLocalKeeps ==
  ASSUME Inv, NEW s \in Open, ReadLocal(s)
  PROVE  Inv'
  <1> DEFINE old == sess[s]
             rest(n) == [old EXCEPT !.todo = old.todo \ {n}]
             write(n, target) == [rest(n) EXCEPT !.pc = "write", !.name = n, !.target = target,
                                                 !.read = ReadRef(Receiver(s), n)]
  <1>1. /\ old.pc = "refs" /\ UNCHANGED <<cs, objs, refs, cmd, drops, short, lost>>
        /\ \E n \in old.todo : \/ Step(s, rest(n))
                               \/ Step(s, write(n, n))
                               \/ Step(s, write(n, ForkName(s, n)))
    BY DEF ReadLocal
  <1>2. SessionOK(old, Ancestors, objs, short, Names)
    BY OpenSession
  <1>3. PICK n \in old.todo : \/ Step(s, rest(n))
                              \/ Step(s, write(n, n))
                              \/ Step(s, write(n, ForkName(s, n)))
    BY <1>1
  <1>4. n \in DOMAIN old.push /\ n \in Names
    BY <1>1, <1>2 DEF SessionOK, RefsOK
  <1>5. ForkName(s, n) \in Names
    BY <1>4, ForkNameOK
  <1> HIDE DEF old
  <1>6. SessionOK(rest(n), Ancestors, objs, short, Names)
    BY <1>1, <1>2 DEF SessionOK, SessionFields, To
  <1>7. ASSUME NEW target \in Names
        PROVE  SessionOK(write(n, target), Ancestors, objs, short, Names)
    BY <1>1, <1>2, <1>4 DEF SessionOK, SessionFields, To
  <1> HIDE DEF rest, write
  <1>8. \E rec : Step(s, rec) /\ SessionOK(rec, Ancestors, objs, short, Names)
    BY <1>3, <1>4, <1>5, <1>6, <1>7
  <1>9. QED
    BY <1>1, <1>8, SessionStep DEF Inv, ObjectsOK, BoundsOK

LEMMA TurnKeeps ==
  ASSUME Inv, NEW s \in Open, Turn(s)
  PROVE  Inv'
  <1> DEFINE old == sess[s]
             turned == [old EXCEPT !.pc = "list", !.dir = "pull", !.theirs = old.ours,
                                   !.sent = objs[old.to] \ old.ours, !.ours = {}, !.push = <<>>]
  <1>1. /\ old.pc = "refs" /\ old.todo = {} /\ UNCHANGED <<cs, objs, refs, cmd, drops, short, lost>>
        /\ Step(s, IF old.dir = "pull" THEN Closed ELSE turned)
    BY DEF Turn
  <1>2. SessionOK(old, Ancestors, objs, short, Names) /\ old.from \in Replica /\ old.to \in Replica
        /\ DOMAIN Ancestors = 1..Len(cs)
    BY OpenSession
  <1> HIDE DEF old
  <1>3. SessionOK(Closed, Ancestors, objs, short, Names)
    BY DEF SessionOK, SessionFields, Closed
  <1>4. CASE old.dir = "pull"
    BY <1>1, <1>3, <1>4, SessionStep DEF Inv, ObjectsOK, BoundsOK
  <1>5. CASE old.dir # "pull"
    <2>1. Step(s, turned)
      BY <1>1, <1>5
    <2>2. old.ours \subseteq objs[old.from] /\ objs[old.to] \subseteq 1..Len(cs)
          /\ objs[old.from] \subseteq 1..Len(cs)
      BY <1>1, <1>2, <1>5 DEF SessionOK, Inv, ObjectsOK
    <2>3. SessionOK(turned, Ancestors, objs, short, Names)
      BY <1>1, <1>2, <2>2 DEF SessionOK, SessionFields, To, RefsOK
    <2> HIDE DEF turned
    <2>4. QED
      BY <1>1, <2>1, <2>3, SessionStep DEF Inv, ObjectsOK, BoundsOK
  <1>6. QED
    BY <1>4, <1>5

LEMMA DropKeeps ==
  ASSUME Inv, NEW s \in Open, Drop(s)
  PROVE  Inv'
  <1>1. /\ Step(s, Closed) /\ drops' = drops + 1 /\ drops < MaxDrops
        /\ UNCHANGED <<cs, objs, refs, cmd, short, lost>>
    BY DEF Drop
  <1>2. drops' \in 0..MaxDrops
    BY <1>1, BoundsAssumption DEF Inv, BoundsOK
  <1>3. SessionOK(Closed, Ancestors, objs, short, Names)
    BY DEF SessionOK, SessionFields, Closed
  <1>4. QED
    BY <1>1, <1>2, <1>3, SessionStep DEF Inv, ObjectsOK, BoundsOK

(* The tip that is written resolves, since all objects of the push are.    *)
LEMMA WriteRefKeeps ==
  ASSUME Inv, NEW s \in Open, WriteRef(s)
  PROVE  Inv'
  <1> DEFINE old == sess[s]
             r == Receiver(s)
             tip == old.push[old.name]
             done == [old EXCEPT !.pc = "refs", !.name = Main, !.target = Main, !.read = None]
  <1>1. SessionOK(old, Ancestors, objs, short, Names) /\ r = To(old) /\ r \in Replica
        /\ s \in DOMAIN sess
    BY OpenSession
  <1>2. /\ old.pc = "write" /\ UNCHANGED <<cs, objs, cmd, drops, short>>
        /\ refs' = WithRef(r, old.target, tip) /\ lost' \subseteq lost \cup Forgotten(r)
        /\ sess' = [Disturb(sess, r, s) EXCEPT ![s] =
                     [@ EXCEPT !.pc = "refs", !.name = Main, !.target = Main, !.read = None]]
    BY DEF WriteRef
  <1>3. tip \in DOMAIN Ancestors /\ Resolved(tip, Ancestors, objs[r], short) /\ old.target \in Names
    BY <1>1, <1>2 DEF SessionOK, RefsOK, Resolved
  <1> DEFINE D == Disturb(sess, r, s)
  <1>4. D[s] = old /\ DOMAIN D = DOMAIN sess
    BY <1>1 DEF Disturb
  <1>5. sess' = [D EXCEPT ![s] = done]
    BY <1>1, <1>2, <1>4
  <1> HIDE DEF old, r, tip, D, done
  <1>6. Len(sess') = Len(sess) /\ DOMAIN sess' = DOMAIN sess
    <2>1. Len(D) = Len(sess)
      BY SessionsCounted DEF D, Inv
    <2>2. PICK S : sess \in Seq(S)
      BY DEF Inv, SessionsOK, Queue
    <2>3. DOMAIN sess = 1..Len(sess) /\ Len(sess) \in Nat
      BY <2>2
    <2>5. DOMAIN sess' = DOMAIN D
      BY <1>5
    <2>4. QED
      BY <2>2, <2>3, <2>5, <1>4
  <1>7. Names' = Names
    BY <1>6 DEF Names
  <1>8. AllRefsOK'
    BY <1>1, <1>2, <1>3, <1>7, WithRefKeeps
  <1>9. GraphOK' /\ Ancestors' = Ancestors /\ Extends(Ancestors, Ancestors')
    BY <1>2, GraphSame
  <1>10. Grows
    BY <1>2, <1>7, <1>9 DEF Grows
  <1>11. SessionsOK'
    <2>1. Queue(D) /\ \A t \in DOMAIN sess : SessionOK(D[t], Ancestors', objs', short', Names')
      BY <1>7, <1>10, Noticed DEF D
    <2>2. Queue(sess')
      <3>1. PICK S : D \in Seq(S)
        BY <2>1 DEF Queue
      <3>2. [D EXCEPT ![s] = done] \in Seq(S \cup {done})
        BY <3>1, <1>1, <1>4
      <3>3. QED
        BY <3>2, <1>5 DEF Queue
    <2>3. SessionOK(done, Ancestors', objs', short', Names')
      <3>1. SessionOK(old, Ancestors', objs', short', Names')
        BY <2>1, <1>1, <1>4
      <3>2. QED
        BY <3>1, <1>2 DEF SessionOK, SessionFields, To, done
    <2>4. \A t \in DOMAIN sess' : sess'[t] = IF t = s THEN done ELSE D[t]
      BY <1>4, <1>5, <1>6
    <2>5. QED
      BY <2>1, <2>2, <2>3, <2>4, <1>6 DEF SessionsOK
  <1>12. CommandsOK'
    BY <1>2, <1>10, Untouched DEF CommandsOK, Inv
  <1>13. BoundsOK' /\ ObjectsOK'
    BY <1>1, <1>2, ForgottenKnown DEF Inv, BoundsOK, ObjectsOK
  <1>14. QED
    BY <1>8, <1>9, <1>11, <1>12, <1>13 DEF Inv

LEMMA ConnectKeeps ==
  ASSUME Inv, NEW i \in Replica, NEW r \in Replica, Connect(i, r)
  PROVE  Inv'
  <1> DEFINE known == Known(i) \cup Known(r)
             rec(bare) == [Closed EXCEPT !.pc = "collect", !.from = i, !.to = r, !.bare = bare,
                                         !.theirs = objs[r], !.ours = IF bare THEN {} ELSE objs[i],
                                         !.goal = known]
  <1>1. PICK bare \in BOOLEAN : sess' = Append(sess, rec(bare))
    BY DEF Connect
  <1>2. UNCHANGED <<cs, objs, refs, cmd, drops, short, lost>>
    BY DEF Connect
  <1>3. DOMAIN Ancestors = 1..Len(cs) /\ objs[r] \subseteq 1..Len(cs) /\ objs[i] \subseteq 1..Len(cs)
    BY HistoriesOf DEF Inv, ObjectsOK
  <1>4. known \subseteq 1..Len(cs)
    <2>1. \A q \in Replica : \A m \in DOMAIN refs[q] : refs[q][m] \in 1..Len(cs)
      BY <1>3 DEF Inv, AllRefsOK, RefsOK
    <2>2. \A c \in 1..Len(cs) : Ancestors[c] \subseteq 1..Len(cs)
      BY HistoriesOf DEF Inv
    <2>3. QED
      BY <2>1, <2>2 DEF Known, Reach
  <1> HIDE DEF known
  <1>5. SessionOK(rec(bare), Ancestors, objs, short, Names)
    <2> DEFINE s == rec(bare)
    <2>1. /\ DOMAIN s = SessionFields /\ s.pc = "collect" /\ s.from = i /\ s.to = r /\ s.dir = "push"
          /\ s.theirs = objs[r] /\ s.sent = {} /\ s.goal = known /\ s.push = <<>> /\ s.todo = {}
      BY DEF SessionFields, Closed
    <2>2. s.ours \subseteq objs[i]
      BY DEF Closed
    <2> HIDE DEF s
    <2>3. DOMAIN s.push = {} /\ To(s) = r
      BY <2>1 DEF To
    <2>4. RefsOK(s.push, Ancestors, objs[To(s)] \cup s.sent, short, Names)
      BY <2>3 DEF RefsOK
    <2>5. SessionOK(s, Ancestors, objs, short, Names)
      BY <2>1, <2>2, <2>3, <2>4, <1>3, <1>4 DEF SessionOK
    <2>6. QED
      BY <2>5 DEF s
  <1> HIDE DEF rec
  <1>6. PICK S : sess \in Seq(S)
    BY DEF Inv, SessionsOK, Queue
  <1>7. /\ sess' \in Seq(S \cup {rec(bare)}) /\ Len(sess') = Len(sess) + 1 /\ Len(sess) \in Nat
        /\ DOMAIN sess' = DOMAIN sess \cup {Len(sess')} /\ sess'[Len(sess')] = rec(bare)
        /\ \A s \in DOMAIN sess : sess'[s] = sess[s]
    BY <1>1, <1>6
  <1>8. Names \subseteq Names'
    <2>1. Replica \cup 1..Len(sess) \subseteq Replica \cup 1..Len(sess')
      BY <1>7
    <2>2. QED
      BY <2>1, SeqsGrow DEF Names
  <1>9. GraphOK' /\ Ancestors' = Ancestors /\ Extends(Ancestors, Ancestors')
    BY <1>2, GraphSame
  <1>10. Grows
    BY <1>2, <1>8, <1>9 DEF Grows
  <1>11. SessionsOK'
    <2>1. SessionOK(rec(bare), Ancestors', objs', short', Names')
      BY <1>2, <1>5, <1>8, <1>9, SessionKept
    <2>2. QED
      BY <1>7, <1>10, <2>1, Untouched DEF SessionsOK, Queue
  <1>12. AllRefsOK' /\ CommandsOK'
    BY <1>2, <1>10, Untouched DEF Inv, AllRefsOK, CommandsOK
  <1>13. BoundsOK' /\ ObjectsOK'
    BY <1>2 DEF Inv, BoundsOK, ObjectsOK
  <1>14. QED
    BY <1>9, <1>11, <1>12, <1>13 DEF Inv
-----------------------------------------------------------------------------
LEMMA InitInv == Init => Inv
  <1> SUFFICES ASSUME Init PROVE Inv
    OBVIOUS
  <1>1. cs = <<{}>> /\ Len(cs) = 1 /\ cs[1] = {} /\ cs \in Seq({{}})
    BY DEF Init
  <1>2. GraphOK
    <2>1. Older(cs, Len(cs))
      <3>1. \A d \in 1 .. Len(cs) : d = 1
        BY <1>1
      <3>2. QED
        BY <3>1, <1>1 DEF Older
    <2>2. Queue(cs)
      BY <1>1 DEF Queue
    <2>3. QED
      BY <2>1, <2>2, <1>1, BoundsAssumption DEF GraphOK, Changeset
  <1>3. DOMAIN Ancestors = {1} /\ Ancestors[1] \subseteq {1}
    BY <1>1, <1>2, HistoriesOf
  <1>4. sess = <<>> /\ Queue(sess) /\ DOMAIN sess = {}
    BY DEF Init, Queue
  <1>5. Main \in Names
    BY DEF Names, Main
  <1>6. ObjectsOK /\ BoundsOK
    BY <1>1, BoundsAssumption DEF Init, ObjectsOK, BoundsOK
  <1>7. AllRefsOK
    <2>1. ASSUME NEW r \in Replica PROVE RefsOK(refs[r], Ancestors, objs[r], short, Names)
      <3>1. CASE r \in Cloned
        BY <1>3, <1>5, <3>1 DEF Init, RefsOK, Resolved
      <3>2. CASE r \notin Cloned
        BY <3>2 DEF Init, RefsOK
      <3>3. QED
        BY <3>1, <3>2
    <2>2. QED
      BY <2>1 DEF Init, AllRefsOK
  <1>8. CommandsOK
    BY DEF Init, CommandsOK, CommandOK, CommandFields, NoCommand
  <1>9. SessionsOK
    BY <1>4 DEF SessionsOK
  <1>10. QED
    BY <1>2, <1>6, <1>7, <1>8, <1>9 DEF Inv

LEMMA NextInv == Inv /\ [Next]_vars => Inv'
  <1> SUFFICES ASSUME Inv, [Next]_vars PROVE Inv'
    OBVIOUS
  <1>1. CASE UNCHANGED vars
    <2>1. GraphOK' /\ Ancestors' = Ancestors
      BY <1>1, GraphSame DEF vars
    <2>2. QED
      BY <1>1, <2>1 DEF vars, Inv, BoundsOK, ObjectsOK, AllRefsOK, CommandsOK, SessionsOK, Queue, Names
  <1>2. ASSUME NEW r \in Replica, BeginPromote(r) PROVE Inv'
    BY <1>2, BeginPromoteKeeps
  <1>3. ASSUME NEW r \in Replica, NEW fork, BeginMerge(r, fork) PROVE Inv'
    BY <1>3, BeginMergeKeeps
  <1>4. ASSUME NEW r \in Replica, MoveTip(r) PROVE Inv'
    BY <1>4, MoveTipKeeps
  <1>5. ASSUME NEW r \in Replica, DeleteFork(r) PROVE Inv'
    BY <1>5, DeleteForkKeeps
  <1>6. ASSUME NEW i \in Replica, NEW r \in Replica, Connect(i, r) PROVE Inv'
    BY <1>6, ConnectKeeps
  <1>7. ASSUME NEW s \in Open, Collect(s) PROVE Inv'
    BY <1>7, CollectKeeps
  <1>8. ASSUME NEW s \in Open, ListRefs(s) PROVE Inv'
    BY <1>8, ListRefsKeeps
  <1>9. ASSUME NEW s \in Open, WriteObject(s) PROVE Inv'
    BY <1>9, WriteObjectKeeps
  <1>10. ASSUME NEW s \in Open, ReadLocal(s) PROVE Inv'
    BY <1>10, ReadLocalKeeps
  <1>11. ASSUME NEW s \in Open, WriteRef(s) PROVE Inv'
    BY <1>11, WriteRefKeeps
  <1>12. ASSUME NEW s \in Open, Turn(s) PROVE Inv'
    BY <1>12, TurnKeeps
  <1>13. ASSUME NEW s \in Open, Drop(s) PROVE Inv'
    BY <1>13, DropKeeps
  <1>14. QED
    BY <1>1, <1>2, <1>3, <1>4, <1>5, <1>6, <1>7, <1>8, <1>9, <1>10, <1>11, <1>12, <1>13 DEF Next

LEMMA InvImplies == Inv => SyncInv
  <1> SUFFICES ASSUME Inv PROVE SyncInv
    OBVIOUS
  <1>1. DOMAIN Ancestors = 1..Len(cs)
    BY HistoriesOf DEF Inv
  <1>2. /\ Len(cs) \in Changeset /\ \A c \in DOMAIN cs : cs[c] \subseteq 1 .. c - 1
        /\ objs \in [Replica -> SUBSET (1..Len(cs))]
        /\ drops \in 0..MaxDrops /\ short \cup lost \subseteq 1..Len(cs)
    BY DEF Inv, GraphOK, BoundsOK, ObjectsOK, Older, Queue
  <1>3. ASSUME NEW r \in Replica, NEW n \in DOMAIN refs[r]
        PROVE  /\ n \in Seq(Replica \cup 1..Len(sess)) /\ refs[r][n] \in 1..Len(cs)
               /\ Ancestors[refs[r][n]] \subseteq objs[r] \/ Ancestors[refs[r][n]] \cap short # {}
    BY <1>1 DEF Inv, AllRefsOK, RefsOK, Resolved, Names
  <1>4. \A r \in Replica : cmd[r].pc # "idle" => cmd[r].id \in objs[r]
    BY DEF Inv, CommandsOK, CommandOK
  <1>5. \A s \in Open : sess[s].sent \cup sess[s].theirs \cup sess[s].goal \subseteq 1..Len(cs)
    BY <1>1 DEF Inv, SessionsOK, SessionOK, Open
  <1>6. TypeOK
    BY <1>2, <1>3, <1>4, <1>5 DEF TypeOK
  <1>7. RefsResolve
    BY <1>3 DEF RefsResolve
  <1>8. QED
    BY <1>6, <1>7 DEF SyncInv

(* However many replicas promote, merge, sync and lose connections at the  *)
(* same time, a ref leads only to changesets that its replica holds, but   *)
(* through a tip that a peer sent without its history.                     *)
THEOREM SyncSafe == Spec => []SyncInv
  <1>1. Inv /\ [Next]_vars => Inv'
    BY NextInv
  <1>2. QED
    BY InitInv, <1>1, InvImplies, PTL DEF Spec
=============================================================================
