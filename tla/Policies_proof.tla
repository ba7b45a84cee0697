--------------------------- MODULE Policies_proof ---------------------------
(***************************************************************************)
(* For any number of replicas, policy files and processes: a promotion or  *)
(* a sync that its check lets through has not looked at anything that one  *)
(* policy file ruled out all along.  The invariant follows each verdict    *)
(* through the loading: what has been ruled out since the directory was    *)
(* listed is ruled out by the file now, and the file is still to be read   *)
(* or was read in a version that rules it out.  Two further facts: what is *)
(* told or decided is the judgement of a tree by the files it names, and   *)
(* only a replica's own commands let pass what its files ruled out.        *)
(***************************************************************************)
EXTENDS Policies, TLAPS, SequenceTheorems

USE PolicyAssumption, ReplicaAssumption, BoundsAssumption

Changeset == [tree : Tree, parent : Nat, agent : BOOLEAN]
Waiting == {"make", "session", "pull", "answer"}

RuledOutAllAlong(q) ==
  \A h \in proc[q].held :
    /\ <<h[2], h[3]>> \in RuledOut(pol[Home[q]][h[1]])
    /\ \/ h[1] \in proc[q].todo
       \/ /\ proc[q].read[h[1]] \in Text
          /\ Blocks(RulesOf[proc[q].read[h[1]]], h[2], h[3])

LetThrough(q) == \A h \in proc[q].held : <<h[2], h[3]>> \notin proc[q].seen

FollowsRules(q) ==
  /\ proc[q].pc = "load" => RuledOutAllAlong(q)
  /\ proc[q].pc \in Waiting => LetThrough(q)

Verdicts == \A q \in Proc : FollowsRules(q)

Inv == TypeOK /\ Verdicts
-----------------------------------------------------------------------------
(* Type correctness.                                                       *)

LEMMA IdleType == Idle \in Command
  BY DEF Idle, Command, Tree, NoFiles

(* A command keeps its type whatever a step records in it.                 *)
LEMMA CommandTypes ==
  ASSUME NEW v \in Command
  PROVE  /\ \A todo \in SUBSET Name, read \in [Name -> Text \cup {Absent}] :
              [v EXCEPT !.todo = todo, !.read = read] \in Command
         /\ \A seen \in SUBSET (Path \X Content), pc \in {"refused", "make", "session"} :
              [v EXCEPT !.seen = seen, !.pc = pc] \in Command
         /\ \A peers \in SUBSET Replica :
              [v EXCEPT !.pc = "session", !.peers = peers] \in Command
         /\ \A sent \in SUBSET Content, pc \in {"pull", "session"} :
              [v EXCEPT !.pc = pc, !.sent = sent] \in Command
         /\ [v EXCEPT !.pc = "answer"] \in Command
  BY ZenonT(60) DEF Command

LEMMA SeenType == \A t \in Tree : Seen(t) \subseteq Path \X Content
  BY DEF Seen, Files, Tree

LEMMA TipsType ==
  ASSUME TypeOK, NEW r \in Replica, NEW k \in Tips(r)
  PROVE  k \in 1..Len(cs) /\ cs[k].tree \in Tree
  <1>1. Len(cs) \in Nat /\ \A j \in 1..Len(cs) : cs[j] \in Changeset
    BY LenProperties, ElementOfSeq DEF TypeOK, Changeset
  <1>2. main[r] \in 0..Len(cs) /\ forks[r] \subseteq 1..Len(cs)
    BY DEF TypeOK
  <1>3. k \in 1..Len(cs)
    BY <1>1, <1>2 DEF Tips
  <1>4. QED
    BY <1>1, <1>3 DEF Changeset

LEMMA LookedType ==
  ASSUME TypeOK, NEW p \in Proc
  PROVE  Looked(p) \subseteq Path \X Content
  <1>1. proc[p].tree \in Tree
    BY DEF TypeOK, Command
  <1>2. \A k \in Tips(Home[p]) : k \in 1..Len(cs) /\ cs[k].tree \in Tree
    BY TipsType DEF TypeOK
  <1>3. QED
    BY <1>1, <1>2, SeenType DEF Looked

LEMMA SnapshotType ==
  ASSUME TypeOK, NEW r \in Replica, Snapshot(r)
  PROVE  blobs' \in [Replica -> SUBSET Content]
  <1>1. \A x \in Seen(wd[r]) : x[2] \in Content
    BY SeenType DEF TypeOK
  <1>2. QED
    BY <1>1 DEF TypeOK, Snapshot

LEMMA TellType ==
  ASSUME TypeOK, NEW r \in Replica, NEW t \in Tree, NEW faults \in BOOLEAN, Tell(r, t, faults)
  PROVE  told' \in [Replica -> [tree : Tree, files : [Name -> File],
                                blocks : BOOLEAN, faults : BOOLEAN]]
  BY DEF TypeOK, Tell, Blocked

LEMMA WriteFileType ==
  ASSUME TypeOK, NEW r \in Replica, NEW n \in Name, NEW f \in File,
         NEW procs \in [Proc -> Command], WriteFile(r, n, f, procs),
         \A p \in Proc : procs[p].pc = "fill" => procs[p].text \in Text
  PROVE  /\ pol' \in [Replica -> [Name -> File]] /\ proc' \in [Proc -> Command]
         /\ \A p \in Proc : proc'[p].pc = "fill" => proc'[p].text \in Text
  <1>1. pol' \in [Replica -> [Name -> File]]
    BY DEF TypeOK, WriteFile
  <1>2. ASSUME NEW p \in Proc
        PROVE  /\ proc'[p] \in Command
               /\ proc'[p].pc = "fill" => proc'[p].text \in Text
    <2> DEFINE kept == {h \in procs[p].held : h[1] = n => <<h[2], h[3]>> \in RuledOut(f)}
    <2>1. proc'[p] \in {procs[p], [procs[p] EXCEPT !.held = kept]}
      BY DEF WriteFile
    <2>2. procs[p] \in Command /\ kept \subseteq procs[p].held
      OBVIOUS
    <2>3. [procs[p] EXCEPT !.held = kept] \in Command
      BY <2>2 DEF Command
    <2>4. [procs[p] EXCEPT !.held = kept].text = procs[p].text
          /\ [procs[p] EXCEPT !.held = kept].pc = procs[p].pc
      BY <2>2 DEF Command
    <2>5. QED
      BY <2>1, <2>2, <2>3, <2>4
  <1>3. proc' \in [Proc -> Command]
    BY <1>2 DEF WriteFile
  <1>4. QED
    BY <1>1, <1>2, <1>3

LEMMA ListType ==
  ASSUME TypeOK, NEW p \in Proc, NEW cmd \in {"promote", "sync", "serve"},
         NEW peers \in SUBSET Replica, List(p, cmd, peers)
  PROVE  /\ proc' \in [Proc -> Command]
         /\ \A q \in Proc : proc'[q].pc = "fill" => proc'[q].text \in Text
  <1> DEFINE
        r == Home[p]
        new == [Idle EXCEPT !.pc = "load", !.cmd = cmd, !.tree = wd[r], !.peers = peers,
                 !.todo = {n \in Name : pol[r][n] # Absent},
                 !.held = {h \in Name \X Path \X Content :
                             <<h[2], h[3]>> \in RuledOut(pol[r][h[1]])}]
  <1>1. new \in Command /\ new.pc = "load"
    BY IdleType DEF TypeOK, Command
  <1>2. proc' = [proc EXCEPT ![p] = new]
    BY DEF List, Becomes
  <1>3. QED
    BY <1>1, <1>2 DEF TypeOK

LEMMA CommitType ==
  ASSUME TypeOK, NEW r \in Replica, NEW agent \in BOOLEAN, Commit(r, agent)
  PROVE  /\ blobs' \in [Replica -> SUBSET Content]
         /\ cs' \in Seq(Changeset)
         /\ \A k \in 1..Len(cs') : cs'[k].parent < k
         /\ main' \in [Replica -> 0..Len(cs')]
         /\ Len(cs') = Len(cs) + 1
  <1> DEFINE new == [tree |-> wd[r], parent |-> main[r], agent |-> agent]
  <1>1. new \in Changeset
    BY DEF TypeOK, Changeset
  <1>2. cs \in Seq(Changeset) /\ cs' = Append(cs, new)
    BY DEF TypeOK, Commit, Changeset
  <1>3. /\ cs' \in Seq(Changeset) /\ Len(cs') = Len(cs) + 1
        /\ \A k \in 1..Len(cs) : cs'[k] = cs[k]
        /\ cs'[Len(cs) + 1] = new
    BY <1>1, <1>2, AppendProperties
  <1>4. \A k \in 1..Len(cs') : cs'[k].parent < k
    <2>1. \A k \in 1..Len(cs) : cs[k].parent < k
      BY DEF TypeOK
    <2>2. new.parent < Len(cs) + 1
      BY <1>2 DEF TypeOK
    <2>3. QED
      BY <1>2, <1>3, <2>1, <2>2
  <1>5. main' \in [Replica -> 0..Len(cs')]
    BY <1>2, <1>3 DEF TypeOK, Commit
  <1>6. QED
    BY <1>3, <1>4, <1>5, SnapshotType DEF Commit

LEMMA TransferType ==
  ASSUME TypeOK, NEW x \in Replica, NEW y \in Replica, Transfer(x, y, Received(x, y))
  PROVE  /\ blobs' \in [Replica -> SUBSET Content]
         /\ main' \in [Replica -> 0..Len(cs)]
         /\ forks' \in [Replica -> SUBSET (1..Len(cs))]
         /\ pol' \in [Replica -> [Name -> File]]
  <1>1. blobs' \in [Replica -> SUBSET Content]
    BY DEF TypeOK, Transfer
  <1>2. main' \in [Replica -> 0..Len(cs)]
    BY DEF TypeOK, Transfer
  <1>3. forks' \in [Replica -> SUBSET (1..Len(cs))]
    <2>1. {main[x]} \ {0} \subseteq 1..Len(cs)
      BY DEF TypeOK
    <2>2. forks[x] \subseteq 1..Len(cs) /\ forks[y] \subseteq 1..Len(cs)
      BY DEF TypeOK
    <2>3. QED
      BY <2>1, <2>2 DEF TypeOK, Transfer
  <1>4. Received(x, y) \in [Name -> File]
    BY DEF TypeOK, Received
  <1>5. QED
    BY <1>1, <1>2, <1>3, <1>4 DEF TypeOK, Transfer

LEMMA TypeStep ==
  ASSUME TypeOK, [Next]_vars
  PROVE  TypeOK'
  <1> USE DEF TypeOK
  <1>1. ASSUME NEW r \in Worked, NEW q \in Path, NEW c \in Content \cup {Gone}, Edit(r, q, c)
        PROVE  TypeOK'
    BY <1>1 DEF Edit, Tree
  <1>2. ASSUME NEW r \in Worked, Capture(r)
        PROVE  TypeOK'
    <2>1. r \in Replica /\ wd[r] \in Tree
      OBVIOUS
    <2>2. blobs' \in [Replica -> SUBSET Content]
      BY <1>2, <2>1, SnapshotType DEF Capture
    <2>3. told' \in [Replica -> [tree : Tree, files : [Name -> File],
                                 blocks : BOOLEAN, faults : BOOLEAN]]
      BY <1>2, <2>1, TellType DEF Capture
    <2>4. QED
      BY <1>2, <2>2, <2>3 DEF Capture
  <1>3. ASSUME NEW r \in Worked, NEW k \in Tips(r) \cup {0}, Check(r, k)
        PROVE  TypeOK'
    <2>1. r \in Replica /\ wd[r] \in Tree /\ (k # 0 => cs[k].tree \in Tree)
      BY TipsType
    <2>2. blobs' \in [Replica -> SUBSET Content]
      BY <1>3, <2>1, SnapshotType DEF Check
    <2>3. told' \in [Replica -> [tree : Tree, files : [Name -> File],
                                 blocks : BOOLEAN, faults : BOOLEAN]]
      <3>1. CASE k = 0
        BY <1>3, <3>1, <2>1, TellType DEF Check
      <3>2. CASE k # 0
        <4> DEFINE broken == ChangesetHits(Loaded(pol[r]), cs[k].agent, Files(cs[k].tree), FALSE)
        <4>1. Tell(r, cs[k].tree, broken # {})
          BY <1>3, <3>2 DEF Check
        <4>2. QED
          BY <3>2, <4>1, <2>1, TellType
      <3>3. QED
        BY <3>1, <3>2
    <2>4. QED
      BY <1>3, <2>2, <2>3 DEF Check
  <1>4. ASSUME NEW r \in Agents, Propose(r)
        PROVE  TypeOK'
    <2>1. r \in Replica /\ Commit(r, TRUE)
      BY <1>4 DEF Propose
    <2>2. /\ blobs' \in [Replica -> SUBSET Content] /\ cs' \in Seq(Changeset)
          /\ \A k \in 1..Len(cs') : cs'[k].parent < k
          /\ main' \in [Replica -> 0..Len(cs')] /\ Len(cs') = Len(cs) + 1
      BY <2>1, CommitType
    <2>3. forks \in [Replica -> SUBSET (1..Len(cs'))]
      BY <2>2, LenProperties DEF Changeset
    <2>4. QED
      BY <1>4, <2>2, <2>3 DEF Propose, Changeset, bounds
  <1>5. ASSUME NEW p \in Proc, NEW t \in Text, Truncate(p, t)
        PROVE  TypeOK'
    <2> DEFINE procs == [proc EXCEPT ![p] = [Idle EXCEPT !.pc = "fill", !.cmd = "add", !.text = t]]
    <2>1. /\ procs \in [Proc -> Command]
          /\ \A q \in Proc : procs[q].pc = "fill" => procs[q].text \in Text
      BY IdleType DEF Command
    <2>2. Home[p] \in Replica /\ NameOf[t] \in Name /\ Torn \in File
      BY DEF File
    <2>3. WriteFile(Home[p], NameOf[t], Torn, procs)
      BY <1>5 DEF Truncate
    <2>4. /\ pol' \in [Replica -> [Name -> File]] /\ proc' \in [Proc -> Command]
          /\ \A q \in Proc : proc'[q].pc = "fill" => proc'[q].text \in Text
      <3> HIDE DEF procs
      <3>1. QED
        BY <2>1, <2>2, <2>3, WriteFileType
    <2>5. QED
      BY <1>5, <2>4 DEF Truncate, Begins
  <1>6. ASSUME NEW p \in Proc, Fill(p)
        PROVE  TypeOK'
    <2> DEFINE procs == [proc EXCEPT ![p] = Idle]
    <2>1. /\ procs \in [Proc -> Command]
          /\ \A q \in Proc : procs[q].pc = "fill" => procs[q].text \in Text
      BY IdleType DEF Idle
    <2>2. /\ Home[p] \in Replica /\ proc[p].text \in Text
          /\ NameOf[proc[p].text] \in Name /\ proc[p].text \in File
      BY <1>6 DEF File, Fill
    <2>3. WriteFile(Home[p], NameOf[proc[p].text], proc[p].text, procs)
      BY <1>6 DEF Fill
    <2>4. /\ pol' \in [Replica -> [Name -> File]] /\ proc' \in [Proc -> Command]
          /\ \A q \in Proc : proc'[q].pc = "fill" => proc'[q].text \in Text
      <3> HIDE DEF procs
      <3>1. QED
        BY <2>1, <2>2, <2>3, WriteFileType
    <2>5. QED
      BY <1>6, <2>4 DEF Fill, bounds
  <1>7. ASSUME NEW p \in Proc, Die(p)
        PROVE  TypeOK'
    BY <1>7, IdleType DEF Die, Becomes, Idle
  <1>8. ASSUME NEW p \in Proc, NEW n \in Name, Remove(p, n)
        PROVE  TypeOK'
    <2> DEFINE procs == [proc EXCEPT ![p] = Idle]
    <2>1. /\ procs \in [Proc -> Command]
          /\ \A q \in Proc : procs[q].pc = "fill" => procs[q].text \in Text
      BY IdleType DEF Idle
    <2>2. Home[p] \in Replica /\ Absent \in File
      BY DEF File
    <2>3. WriteFile(Home[p], n, Absent, procs)
      BY <1>8 DEF Remove
    <2>4. /\ pol' \in [Replica -> [Name -> File]] /\ proc' \in [Proc -> Command]
          /\ \A q \in Proc : proc'[q].pc = "fill" => proc'[q].text \in Text
      <3> HIDE DEF procs
      <3>1. QED
        BY <2>1, <2>2, <2>3, WriteFileType
    <2>5. QED
      BY <1>8, <2>4 DEF Remove, Begins
  <1>9. ASSUME NEW p \in Proc, NEW n \in Name, Read(p, n)
        PROVE  TypeOK'
    <2>1. ASSUME pol[Home[p]][n] \in Readable
          PROVE  [proc[p] EXCEPT !.todo = @ \ {n}, !.read[n] = pol[Home[p]][n]] \in Command
      <3> DEFINE f == pol[Home[p]][n]
      <3>1. proc[p] \in Command /\ f \in Text
        BY <2>1 DEF Readable
      <3>2. [proc[p].read EXCEPT ![n] = f] \in [Name -> Text \cup {Absent}]
            /\ proc[p].todo \ {n} \in SUBSET Name
        BY <3>1 DEF Command
      <3>3. [proc[p] EXCEPT !.todo = @ \ {n}, !.read[n] = f]
            = [proc[p] EXCEPT !.todo = @ \ {n}, !.read = [proc[p].read EXCEPT ![n] = f]]
        BY <3>1 DEF Command
      <3>4. QED
        BY <3>1, <3>2, <3>3, CommandTypes
    <2>2. proc' \in [Proc -> Command]
      BY <1>9, <2>1, IdleType DEF Read, Becomes
    <2>3. \A q \in Proc : proc'[q].pc = "fill" => proc'[q].text \in Text
      BY <1>9 DEF Read, Becomes, Idle, Command
    <2>4. QED
      BY <1>9, <2>2, <2>3 DEF Read, bounds
  <1>10. ASSUME NEW p \in Proc, BeginPromote(p)
         PROVE  TypeOK'
    <2>1. List(p, "promote", {})
      BY <1>10 DEF BeginPromote
    <2>2. blobs' \in [Replica -> SUBSET Content]
      BY <1>10, SnapshotType DEF BeginPromote
    <2>3. /\ proc' \in [Proc -> Command]
          /\ \A q \in Proc : proc'[q].pc = "fill" => proc'[q].text \in Text
      BY <2>1, ListType
    <2>4. QED
      BY <2>1, <2>2, <2>3 DEF List, Begins
  <1>11. ASSUME NEW p \in Proc, BeginServe(p)
         PROVE  TypeOK'
    <2>1. List(p, "serve", {}) /\ UNCHANGED blobs
      BY <1>11 DEF BeginServe
    <2>2. /\ proc' \in [Proc -> Command]
          /\ \A q \in Proc : proc'[q].pc = "fill" => proc'[q].text \in Text
      BY <2>1, ListType
    <2>3. QED
      BY <2>1, <2>2 DEF List, Begins
  <1>12. ASSUME NEW p \in Proc, NEW peers \in SUBSET (Replica \ {Home[p]}), BeginSync(p, peers)
         PROVE  TypeOK'
    <2>1. List(p, "sync", peers) /\ UNCHANGED blobs
      BY <1>12 DEF BeginSync
    <2>2. peers \in SUBSET Replica
      OBVIOUS
    <2>3. /\ proc' \in [Proc -> Command]
          /\ \A q \in Proc : proc'[q].pc = "fill" => proc'[q].text \in Text
      BY <2>1, <2>2, ListType
    <2>4. QED
      BY <2>1, <2>3 DEF List, Begins
  <1>13. ASSUME NEW p \in Proc, Judge(p)
         PROVE  TypeOK'
    <2>1. ASSUME NEW pc \in {"refused", "make", "session"}
          PROVE  [proc[p] EXCEPT !.seen = Looked(p), !.pc = pc] \in Command
      BY <2>1, LookedType, CommandTypes
    <2>2. /\ proc' \in [Proc -> Command]
          /\ \A q \in Proc : proc'[q].pc = "fill" => proc'[q].text \in Text
      BY <1>13, <2>1, ZenonT(60) DEF Judge, Becomes, Command
    <2>3. QED
      BY <1>13, <2>2 DEF Judge, bounds
  <1>14. ASSUME NEW p \in Proc, Make(p)
         PROVE  TypeOK'
    <2>1. Home[p] \in Replica /\ Commit(Home[p], FALSE)
      BY <1>14 DEF Make
    <2>2. /\ blobs' \in [Replica -> SUBSET Content] /\ cs' \in Seq(Changeset)
          /\ \A k \in 1..Len(cs') : cs'[k].parent < k
          /\ main' \in [Replica -> 0..Len(cs')] /\ Len(cs') = Len(cs) + 1
      BY <2>1, CommitType
    <2>3. forks \in [Replica -> SUBSET (1..Len(cs'))]
      BY <2>2, LenProperties DEF Changeset
    <2>4. /\ proc' \in [Proc -> Command]
          /\ \A q \in Proc : proc'[q].pc = "fill" => proc'[q].text \in Text
      BY <1>14, IdleType DEF Make, Becomes, Idle
    <2>5. QED
      BY <1>14, <2>2, <2>3, <2>4 DEF Make, Changeset, bounds
  <1>15. ASSUME NEW p \in Proc, NEW s \in Proc, Push(p, s)
         PROVE  TypeOK'
    <2>1. Transfer(Home[p], Home[s], Received(Home[p], Home[s]))
      BY <1>15 DEF Push
    <2>2. /\ proc' \in [Proc -> Command]
          /\ \A q \in Proc : proc'[q].pc = "fill" => proc'[q].text \in Text
      <3> DEFINE sent == proc[p].sent \cup (blobs[Home[p]] \ blobs[Home[s]])
                 one  == [proc[p] EXCEPT !.pc = "pull", !.sent = sent]
                 two  == [proc[s] EXCEPT !.pc = "answer"]
      <3>1. proc[p] \in Command /\ proc[s] \in Command /\ p # s /\ sent \in SUBSET Content
        BY <1>15 DEF Push, Command
      <3>2. one \in Command /\ two \in Command
        BY <3>1, CommandTypes
      <3>3. proc' = [proc EXCEPT ![p] = one, ![s] = two]
        BY <1>15, <3>1 DEF Push
      <3>4. one.pc = "pull" /\ two.pc = "answer"
        BY <3>1 DEF Command
      <3> HIDE DEF one, two
      <3>5. QED
        BY <3>2, <3>3, <3>4
    <2>3. QED
      BY <2>1, <2>2, TransferType DEF Transfer, bounds
  <1>16. ASSUME NEW p \in Proc, NEW s \in Proc, Pull(p, s)
         PROVE  TypeOK'
    <2>1. Transfer(Home[s], Home[p], Received(Home[s], Home[p]))
      BY <1>16 DEF Pull
    <2>2. p # s
      BY <1>16 DEF Pull
    <2>3. /\ proc' \in [Proc -> Command]
          /\ \A q \in Proc : proc'[q].pc = "fill" => proc'[q].text \in Text
      <3> DEFINE sent == proc[s].sent \cup (blobs[Home[s]] \ blobs[Home[p]])
                 rest == [proc[p] EXCEPT !.pc = "session", !.peers = @ \ {Home[s]}]
                 one  == NextPeer(proc[p], Home[s])
                 two  == [proc[s] EXCEPT !.pc = "session", !.sent = sent]
      <3>1. /\ proc[p] \in Command /\ proc[s] \in Command /\ sent \in SUBSET Content
            /\ proc[p].peers \ {Home[s]} \in SUBSET Replica
        BY DEF Command
      <3>2. rest \in Command /\ two \in Command
        BY <3>1, CommandTypes
      <3>3. rest.pc = "session" /\ two.pc = "session" /\ Idle.pc = "idle"
        BY <3>1 DEF Command, Idle
      <3>4. one \in Command /\ one.pc # "fill"
        BY <3>2, <3>3, IdleType DEF NextPeer
      <3>5. proc' = [proc EXCEPT ![p] = one, ![s] = two]
        BY <1>16, <2>2 DEF Pull
      <3> HIDE DEF one, two
      <3>6. QED
        BY <3>2, <3>3, <3>4, <3>5
    <2>4. QED
      BY <2>1, <2>3, TransferType DEF Transfer, bounds
  <1>17. CASE UNCHANGED vars
    BY <1>17 DEF vars, bounds
  <1>18. QED
    BY <1>1, <1>2, <1>3, <1>4, <1>5, <1>6, <1>7, <1>8, <1>9, <1>10, <1>11, <1>12, <1>13,
       <1>14, <1>15, <1>16, <1>17 DEF Next

(* Every state has the type TypeOK gives it.                               *)
THEOREM PolicyTypeOK == Spec => []TypeOK
  <1>1. Init => TypeOK
    <2>1. SUFFICES ASSUME Init PROVE TypeOK
      OBVIOUS
    <2>2. Nothing \in [tree : Tree, files : [Name -> File], blocks : BOOLEAN, faults : BOOLEAN]
      BY DEF Nothing, Tree, NoFiles, File
    <2>3. FirstPolicies \in [Replica -> [Name -> File]]
      BY DEF File
    <2>4. cs \in Seq([tree : Tree, parent : Nat, agent : BOOLEAN]) /\ Len(cs) = 0
      BY <2>1, EmptySeq DEF Init
    <2>5. \A p \in Proc : proc[p].pc # "fill"
      BY <2>1 DEF Init, Idle
    <2>6. QED
      BY <2>1, <2>2, <2>3, <2>4, <2>5, IdleType DEF Init, TypeOK
  <1>2. QED
    BY <1>1, TypeStep, PTL DEF Spec
-----------------------------------------------------------------------------
(* The verdicts.                                                           *)

LEMMA NothingRuledOut == RuledOut(Absent) = {}
  BY DEF RuledOut

(* What a readable file rules out, its rules block.                        *)
LEMMA ReadableRules ==
  ASSUME NEW f \in Readable, NEW x \in RuledOut(f)
  PROVE  f \in Text /\ Blocks(RulesOf[f], x[1], x[2])
  <1>1. f \in Text /\ f # Absent
    BY DEF Readable
  <1>2. QED
    BY <1>1 DEF RuledOut

(* A rule of one file is a rule of all files together.                     *)
LEMMA OneFileBlocks ==
  ASSUME NEW files \in [Name -> Text \cup {Absent}], NEW n \in Name, files[n] \in Text,
         NEW seen, NEW x \in seen, Blocks(RulesOf[files[n]], x[1], x[2])
  PROVE  Blocked(Loaded(files), seen)
  <1>1. RulesOf[files[n]] \subseteq Loaded(files)
    BY DEF Loaded
  <1>2. \A rules : \A q, c : ContentHits(rules, q, c) =
          {r \in rules : r.kind = "pattern" /\ (r.scope = {} \/ q \in r.scope) /\ c \in r.hits}
    BY DEF ContentHits
  <1>3. Blocks(Loaded(files), x[1], x[2])
    BY <1>1, <1>2 DEF Blocks
  <1>4. QED
    BY <1>3 DEF Blocked

(* The writing of a file leaves every verdict a true one.                  *)
LEMMA WriteFileVerdicts ==
  ASSUME Inv, NEW r \in Replica, NEW n \in Name, NEW f \in File,
         NEW procs \in [Proc -> Command], WriteFile(r, n, f, procs),
         NEW p \in Proc, \A q \in Proc \ {p} : procs[q] = proc[q],
         procs[p].pc \in {"idle", "fill"}
  PROVE  Verdicts'
  <1> SUFFICES ASSUME NEW q \in Proc PROVE FollowsRules(q)'
    BY DEF Verdicts
  <1> DEFINE kept == {h \in procs[q].held : h[1] = n => <<h[2], h[3]>> \in RuledOut(f)}
  <1>1. CASE q = p
    <2>1. procs[q].pc \notin {"load"} \cup Waiting
      BY <1>1 DEF Waiting
    <2>2. proc'[q] = procs[q]
      BY <2>1 DEF WriteFile
    <2>3. QED
      BY <2>1, <2>2 DEF FollowsRules
  <1>2. CASE q # p /\ ~(Home[q] = r /\ proc[q].pc = "load")
    <2>1. proc'[q] = proc[q]
      BY <1>2 DEF WriteFile
    <2>2. proc[q].pc = "load" => pol'[Home[q]] = pol[Home[q]]
      BY <1>2 DEF WriteFile, Inv, TypeOK
    <2>3. FollowsRules(q)
      BY DEF Inv, Verdicts
    <2>4. QED
      BY <2>1, <2>2, <2>3 DEF FollowsRules, RuledOutAllAlong, LetThrough
  <1>3. CASE q # p /\ Home[q] = r /\ proc[q].pc = "load"
    <2>1. proc[q] \in Command /\ proc'[q] = [proc[q] EXCEPT !.held = kept] /\ procs[q] = proc[q]
      BY <1>3 DEF WriteFile, Inv, TypeOK
    <2>2. /\ proc'[q].held = kept /\ proc'[q].todo = proc[q].todo
          /\ proc'[q].read = proc[q].read /\ proc'[q].pc = "load"
      BY <1>3, <2>1 DEF Command
    <2>3. RuledOutAllAlong(q)
      BY <1>3 DEF Inv, Verdicts, FollowsRules
    <2>4. ASSUME NEW h \in kept
          PROVE  <<h[2], h[3]>> \in RuledOut(pol'[Home[q]][h[1]])
      <3>1. h \in proc[q].held /\ <<h[2], h[3]>> \in RuledOut(pol[r][h[1]])
        BY <1>3, <2>1, <2>3 DEF RuledOutAllAlong
      <3>2. h[1] \in Name
        BY <3>1, <2>1 DEF Command
      <3>3. pol'[r][h[1]] = IF h[1] = n THEN f ELSE pol[r][h[1]]
        BY <3>2 DEF WriteFile, Inv, TypeOK
      <3>4. QED
        BY <1>3, <2>4, <3>1, <3>3
    <2>5. RuledOutAllAlong(q)'
      BY <2>1, <2>2, <2>3, <2>4 DEF RuledOutAllAlong
    <2>6. QED
      BY <2>2, <2>5 DEF FollowsRules, Waiting
  <1>4. QED
    BY <1>1, <1>2, <1>3

(* A session changes no policy file that rules anything out.               *)
LEMMA TransferVerdicts ==
  ASSUME Inv, NEW x \in Replica, NEW y \in Replica, Transfer(x, y, Received(x, y)),
         NEW q \in Proc, proc[q].pc = "load"
  PROVE  \A h \in proc[q].held : pol'[Home[q]][h[1]] = pol[Home[q]][h[1]]
  <1> SUFFICES ASSUME NEW h \in proc[q].held
               PROVE  pol'[Home[q]][h[1]] = pol[Home[q]][h[1]]
    OBVIOUS
  <1>1. <<h[2], h[3]>> \in RuledOut(pol[Home[q]][h[1]])
    BY DEF Inv, Verdicts, FollowsRules, RuledOutAllAlong
  <1>2. pol[Home[q]][h[1]] # Absent
    BY <1>1, NothingRuledOut
  <1>3. h[1] \in Name /\ Home[q] \in Replica
    BY DEF Inv, TypeOK, Command
  <1>4. QED
    BY <1>2, <1>3 DEF Transfer, Received, Inv, TypeOK

(* A process other than those of a session keeps its verdict.              *)
LEMMA OthersVerdicts ==
  ASSUME Inv, NEW q \in Proc, proc'[q] = proc[q],
         proc[q].pc = "load" =>
           \A h \in proc[q].held : pol'[Home[q]][h[1]] = pol[Home[q]][h[1]]
  PROVE  FollowsRules(q)'
  BY DEF Inv, Verdicts, FollowsRules, RuledOutAllAlong, LetThrough

LEMMA ListVerdicts ==
  ASSUME Inv, NEW p \in Proc, NEW cmd, NEW peers, List(p, cmd, peers)
  PROVE  Verdicts'
  <1> DEFINE r == Home[p]
             held == {h \in Name \X Path \X Content :
                        <<h[2], h[3]>> \in RuledOut(pol[r][h[1]])}
             todo == {n \in Name : pol[r][n] # Absent}
             new == [Idle EXCEPT !.pc = "load", !.cmd = cmd, !.tree = wd[r], !.peers = peers,
                      !.todo = todo, !.held = held]
  <1>1. proc' = [proc EXCEPT ![p] = new] /\ pol' = pol
    BY DEF List, Becomes
  <1>2. new.pc = "load" /\ new.held = held /\ new.todo = todo
    BY DEF Idle
  <1>3. \A h \in held : h[1] \in todo
    BY NothingRuledOut
  <1>4. FollowsRules(p)'
    <2>1. proc'[p].pc = "load" /\ proc'[p].held = held /\ proc'[p].todo = todo
      BY <1>1, <1>2 DEF Inv, TypeOK
    <2>2. QED
      BY <1>1, <1>3, <2>1 DEF FollowsRules, RuledOutAllAlong, Waiting
  <1> HIDE DEF new
  <1>5. \A q \in Proc \ {p} : proc'[q] = proc[q]
    BY <1>1 DEF Inv, TypeOK
  <1>6. \A q \in Proc \ {p} : FollowsRules(q)'
    BY <1>1, <1>5, OthersVerdicts
  <1>7. QED
    BY <1>4, <1>6 DEF Verdicts

LEMMA ReadVerdicts ==
  ASSUME Inv, NEW p \in Proc, NEW n \in Name, Read(p, n)
  PROVE  Verdicts'
  <1> DEFINE f == pol[Home[p]][n]
             new == [proc[p] EXCEPT !.todo = @ \ {n}, !.read[n] = f]
  <1>1. pol' = pol /\ \A q \in Proc \ {p} : proc'[q] = proc[q]
    BY DEF Read, Becomes, Inv, TypeOK
  <1>2. FollowsRules(p)'
    <2>1. CASE f \notin Readable
      <3>1. proc'[p] = Idle
        BY <2>1 DEF Read, Becomes, Inv, TypeOK
      <3>2. QED
        BY <3>1 DEF FollowsRules, Idle, Waiting
    <2>2. CASE f \in Readable
      <3>1. proc[p] \in Command /\ proc'[p] = new
        BY <2>2 DEF Read, Becomes, Inv, TypeOK
      <3>2. /\ new.pc = "load" /\ new.held = proc[p].held /\ new.todo = proc[p].todo \ {n}
            /\ new.read = [proc[p].read EXCEPT ![n] = f]
        BY <3>1 DEF Command, Read
      <3>3. RuledOutAllAlong(p)
        BY DEF Inv, Verdicts, FollowsRules, Read
      <3>4. ASSUME NEW h \in proc[p].held
            PROVE  \/ h[1] \in new.todo
                   \/ new.read[h[1]] \in Text /\ Blocks(RulesOf[new.read[h[1]]], h[2], h[3])
        <4>1. h[1] \in Name /\ proc[p].read \in [Name -> Text \cup {Absent}]
          BY <3>1 DEF Command
        <4>2. CASE h[1] = n
          <5>1. <<h[2], h[3]>> \in RuledOut(f)
            BY <3>3, <4>2 DEF RuledOutAllAlong
          <5>2. f \in Text /\ Blocks(RulesOf[f], h[2], h[3])
            BY <2>2, <5>1, ReadableRules
          <5>3. QED
            BY <3>2, <4>1, <4>2, <5>2
        <4>3. CASE h[1] # n
          <5>1. new.read[h[1]] = proc[p].read[h[1]]
            BY <3>2, <4>1, <4>3
          <5>2. h[1] \in proc[p].todo => h[1] \in new.todo
            BY <3>2, <4>3
          <5> HIDE DEF new
          <5>3. QED
            BY <3>3, <5>1, <5>2 DEF RuledOutAllAlong
        <4>4. QED
          BY <4>2, <4>3
      <3>5. RuledOutAllAlong(p)'
        <4> HIDE DEF new
        <4>1. QED
          BY <1>1, <3>1, <3>2, <3>3, <3>4 DEF RuledOutAllAlong
      <3>6. proc'[p].pc = "load"
        BY <3>1, <3>2
      <3>7. QED
        BY <3>5, <3>6 DEF FollowsRules, Waiting
    <2>3. QED
      BY <2>1, <2>2
  <1>3. \A q \in Proc \ {p} : FollowsRules(q)'
    BY <1>1, OthersVerdicts
  <1>4. QED
    BY <1>2, <1>3 DEF Verdicts

LEMMA JudgeVerdicts ==
  ASSUME Inv, NEW p \in Proc, Judge(p)
  PROVE  Verdicts'
  <1> DEFINE blocked == Blocked(Loaded(proc[p].read), Looked(p))
             pc == IF blocked THEN "refused" ELSE IF proc[p].cmd = "promote" THEN "make" ELSE "session"
             new == [proc[p] EXCEPT !.seen = Looked(p), !.pc = pc]
  <1>1. pol' = pol /\ (\A q \in Proc \ {p} : proc'[q] = proc[q]) /\ proc'[p] = new
    BY DEF Judge, Becomes, Inv, TypeOK
  <1>2. proc[p] \in Command
    BY DEF Inv, TypeOK
  <1>3. new.held = proc[p].held /\ new.seen = Looked(p) /\ new.pc = pc
    BY <1>2 DEF Command
  <1>4. ASSUME pc # "refused", NEW h \in proc[p].held
        PROVE  <<h[2], h[3]>> \notin Looked(p)
    <2>1. h[1] \in Name /\ proc[p].read \in [Name -> Text \cup {Absent}]
      BY <1>2 DEF Command
    <2>2. proc[p].read[h[1]] \in Text /\ Blocks(RulesOf[proc[p].read[h[1]]], h[2], h[3])
      BY DEF Inv, Verdicts, FollowsRules, RuledOutAllAlong, Judge
    <2>3. ~blocked
      BY <1>4
    <2>4. QED
      BY <2>1, <2>2, <2>3, OneFileBlocks
  <1>5. pc # "load" /\ (pc \in Waiting => pc # "refused")
    BY DEF Waiting
  <1>6. FollowsRules(p)'
    <2> HIDE DEF new, pc
    <2>1. QED
      BY <1>1, <1>3, <1>4, <1>5 DEF FollowsRules, LetThrough
  <1>7. \A q \in Proc \ {p} : FollowsRules(q)'
    BY <1>1, OthersVerdicts
  <1>8. QED
    BY <1>6, <1>7 DEF Verdicts

(* The two partners of a session keep what they have looked at.            *)
LEMMA SessionVerdicts ==
  ASSUME Inv, NEW x \in Replica, NEW y \in Replica, Transfer(x, y, Received(x, y)),
         NEW p \in Proc, NEW s \in Proc,
         proc[p].pc \in Waiting, proc[s].pc \in Waiting,
         \A q \in Proc \ {p, s} : proc'[q] = proc[q],
         \A q \in {p, s} : /\ proc'[q].pc \in Waiting \cup {"idle"}
                           /\ proc'[q].pc \in Waiting =>
                                proc'[q].held = proc[q].held /\ proc'[q].seen = proc[q].seen
  PROVE  Verdicts'
  <1>1. ASSUME NEW q \in {p, s} PROVE FollowsRules(q)'
    <2>1. LetThrough(q)
      BY DEF Inv, Verdicts, FollowsRules
    <2>2. proc'[q].pc # "load"
      BY DEF Waiting
    <2>3. proc'[q].pc \in Waiting => LetThrough(q)'
      BY <2>1 DEF LetThrough, Waiting
    <2>4. QED
      BY <2>2, <2>3 DEF FollowsRules
  <1>2. \A q \in Proc \ {p, s} : FollowsRules(q)'
    BY TransferVerdicts, OthersVerdicts
  <1>3. QED
    BY <1>1, <1>2 DEF Verdicts

LEMMA VerdictsStep ==
  ASSUME Inv, [Next]_vars
  PROVE  Verdicts'
  <1>1. ASSUME UNCHANGED <<pol, proc>>
        PROVE  Verdicts'
    BY <1>1, OthersVerdicts DEF Verdicts
  <1>2. ASSUME NEW p \in Proc, proc' = [proc EXCEPT ![p] = Idle], UNCHANGED pol
        PROVE  Verdicts'
    <2>1. FollowsRules(p)'
      BY <1>2 DEF FollowsRules, Idle, Waiting, Inv, TypeOK
    <2>2. \A q \in Proc \ {p} : FollowsRules(q)'
      BY <1>2, OthersVerdicts
    <2>3. QED
      BY <2>1, <2>2 DEF Verdicts
  <1>3. ASSUME NEW p \in Proc, NEW n \in Name, NEW f \in File,
               NEW c \in Command, c.pc \in {"idle", "fill"},
               WriteFile(Home[p], n, f, [proc EXCEPT ![p] = c])
        PROVE  Verdicts'
    <2> DEFINE procs == [proc EXCEPT ![p] = c]
    <2>1. /\ procs \in [Proc -> Command] /\ procs[p] = c
          /\ \A q \in Proc \ {p} : procs[q] = proc[q]
      BY DEF Inv, TypeOK
    <2>2. Home[p] \in Replica /\ WriteFile(Home[p], n, f, procs)
      BY <1>3
    <2> HIDE DEF procs
    <2>3. QED
      BY <1>3, <2>1, <2>2, WriteFileVerdicts
  <1>4. ASSUME NEW p \in Proc, NEW t \in Text, Truncate(p, t)
        PROVE  Verdicts'
    <2> DEFINE c == [Idle EXCEPT !.pc = "fill", !.cmd = "add", !.text = t]
    <2>1. c \in Command /\ c.pc = "fill"
      BY IdleType DEF Command
    <2>2. NameOf[t] \in Name /\ Torn \in File
      BY DEF File
    <2>3. WriteFile(Home[p], NameOf[t], Torn, [proc EXCEPT ![p] = c])
      BY <1>4 DEF Truncate
    <2> HIDE DEF c
    <2>4. QED
      BY <1>3, <2>1, <2>2, <2>3
  <1>5. ASSUME NEW p \in Proc, Fill(p)
        PROVE  Verdicts'
    <2>1. proc[p].text \in Text /\ proc[p].text \in File /\ NameOf[proc[p].text] \in Name
      BY <1>5 DEF Fill, Inv, TypeOK, File
    <2>2. Idle \in Command /\ Idle.pc = "idle"
      BY IdleType DEF Idle
    <2>3. QED
      BY <1>3, <1>5, <2>1, <2>2 DEF Fill
  <1>6. ASSUME NEW p \in Proc, NEW n \in Name, Remove(p, n)
        PROVE  Verdicts'
    <2>1. Absent \in File
      BY DEF File
    <2>2. Idle \in Command /\ Idle.pc = "idle"
      BY IdleType DEF Idle
    <2>3. QED
      BY <1>3, <1>6, <2>1, <2>2 DEF Remove
  <1>7. ASSUME NEW p \in Proc, NEW s \in Proc, Push(p, s)
        PROVE  Verdicts'
    <2>1. /\ Transfer(Home[p], Home[s], Received(Home[p], Home[s]))
          /\ proc[p].pc = "session" /\ proc[s].pc = "session" /\ p # s
          /\ proc[p] \in Command /\ proc[s] \in Command
      BY <1>7 DEF Push, Inv, TypeOK
    <2>2. /\ \A q \in Proc \ {p, s} : proc'[q] = proc[q]
          /\ proc'[p].pc = "pull" /\ proc'[p].held = proc[p].held /\ proc'[p].seen = proc[p].seen
          /\ proc'[s].pc = "answer" /\ proc'[s].held = proc[s].held /\ proc'[s].seen = proc[s].seen
      BY <1>7, <2>1 DEF Push, Inv, TypeOK, Command
    <2>3. QED
      BY <2>1, <2>2, SessionVerdicts DEF Waiting
  <1>8. ASSUME NEW p \in Proc, NEW s \in Proc, Pull(p, s)
        PROVE  Verdicts'
    <2> DEFINE sent == proc[s].sent \cup (blobs[Home[s]] \ blobs[Home[p]])
               one  == NextPeer(proc[p], Home[s])
               two  == [proc[s] EXCEPT !.pc = "session", !.sent = sent]
    <2>1. /\ Transfer(Home[s], Home[p], Received(Home[s], Home[p]))
          /\ proc[p].pc = "pull" /\ proc[s].pc = "answer" /\ p # s
          /\ proc[p] \in Command /\ proc[s] \in Command
      BY <1>8 DEF Pull, Inv, TypeOK
    <2>2. one.pc = "idle" \/ (one.pc = "session" /\ one.held = proc[p].held /\ one.seen = proc[p].seen)
      BY <2>1 DEF NextPeer, Command, Idle
    <2>3. two.pc = "session" /\ two.held = proc[s].held /\ two.seen = proc[s].seen
      BY <2>1 DEF Command
    <2>4. proc' = [proc EXCEPT ![p] = one, ![s] = two]
      BY <1>8, <2>1 DEF Pull, Inv, TypeOK
    <2> HIDE DEF one, two
    <2>5. proc'[p] = one /\ proc'[s] = two /\ \A q \in Proc \ {p, s} : proc'[q] = proc[q]
      BY <2>1, <2>4 DEF Inv, TypeOK
    <2>6. QED
      BY <2>1, <2>2, <2>3, <2>5, SessionVerdicts DEF Waiting
  <1>9. ASSUME NEW p \in Proc, Die(p) \/ Make(p)
        PROVE  Verdicts'
    BY <1>2, <1>9 DEF Die, Make, Becomes
  <1>10. ASSUME NEW p \in Proc,
                \/ BeginPromote(p) \/ BeginServe(p)
                \/ \E peers \in SUBSET (Replica \ {Home[p]}) : BeginSync(p, peers)
         PROVE  Verdicts'
    BY <1>10, ListVerdicts DEF BeginPromote, BeginServe, BeginSync
  <1>11. ASSUME NEW r \in Replica,
                \/ \E q \in Path, c \in Content \cup {Gone} : Edit(r, q, c)
                \/ Capture(r) \/ Propose(r)
                \/ \E k \in Tips(r) \cup {0} : Check(r, k)
         PROVE  Verdicts'
    BY <1>1, <1>11 DEF Edit, Capture, Propose, Check
  <1>12. CASE UNCHANGED vars
    BY <1>1, <1>12 DEF vars
  <1>13. QED
    BY <1>4, <1>5, <1>6, <1>7, <1>8, <1>9, <1>10, <1>11, <1>12,
       ReadVerdicts, JudgeVerdicts DEF Next

(* What a check lets pass, no policy file ruled out all along, however     *)
(* files are written, removed and received between the listing of the      *)
(* directory and the verdict.                                              *)
THEOREM PolicyPassedIsClean == Spec => []PassedIsClean
  <1>1. Init => Verdicts
    BY DEF Init, Idle, Verdicts, FollowsRules, Waiting
  <1>2. TypeOK /\ Verdicts /\ [Next]_vars => Verdicts'
    BY VerdictsStep DEF Inv
  <1>3. Verdicts => PassedIsClean
    BY DEF Verdicts, FollowsRules, LetThrough, Waiting, PassedIsClean
  <1>4. QED
    BY <1>1, <1>2, <1>3, PolicyTypeOK, PTL DEF Spec
-----------------------------------------------------------------------------
(* What a capture or `gpp policy check` has said, and what a promotion     *)
(* decides: both judge a tree by all rules of the files they have read.    *)

Judged(files, tree) == Blocked(Loaded(files), Seen(tree))

ToldRight(t) ==
  /\ t.blocks <=> Judged(t.files, t.tree)
  /\ t.blocks => t.faults

DecidedRight(c) ==
  c.cmd = "promote" =>
    /\ c.pc = "make" => ~Judged(c.read, c.tree)
    /\ c.pc = "refused" => Judged(c.read, c.tree)

Judgements ==
  /\ \A r \in Replica : ToldRight(told[r])
  /\ \A q \in Proc : DecidedRight(proc[q])

LEMMA NothingTold == ToldRight(Nothing)
  <1>1. Nothing.blocks = FALSE /\ Nothing.faults = FALSE /\ Seen(Nothing.tree) = {}
    BY DEF Nothing, NoFiles, Seen, Files
  <1>2. ~Judged(Nothing.files, Nothing.tree)
    BY <1>1 DEF Judged, Blocked
  <1>3. QED
    BY <1>1, <1>2 DEF ToldRight

(* What blocks is a hit, so it is among the faults.                        *)
LEMMA BlockedIsFault ==
  ASSUME NEW rules, NEW seen, Blocked(rules, seen)
  PROVE  \E x \in seen : ContentHits(rules, x[1], x[2]) # {}
  BY DEF Blocked, Blocks

LEMMA TellRight ==
  ASSUME Inv, Judgements, NEW r \in Replica, NEW t \in Tree, NEW faults \in BOOLEAN,
         Tell(r, t, faults)
  PROVE  \A s \in Replica : ToldRight(told'[s])
  <1> DEFINE rules == Loaded(pol[r])
             say == [tree |-> t, files |-> pol[r], blocks |-> Blocked(rules, Seen(t)),
                     faults |-> faults \/ \E x \in Seen(t) : ContentHits(rules, x[1], x[2]) # {}]
  <1>1. told' = [told EXCEPT ![r] = say]
    BY DEF Tell
  <1>2. /\ say.tree = t /\ say.files = pol[r]
        /\ say.blocks = Blocked(rules, Seen(t))
        /\ say.faults = (faults \/ \E x \in Seen(t) : ContentHits(rules, x[1], x[2]) # {})
    OBVIOUS
  <1>3. say.blocks <=> Judged(say.files, say.tree)
    BY <1>2 DEF Judged
  <1>4. say.blocks => say.faults
    BY <1>2, BlockedIsFault
  <1> HIDE DEF say
  <1>5. ToldRight(say)
    BY <1>3, <1>4 DEF ToldRight
  <1>6. QED
    BY <1>1, <1>5 DEF Judgements, Inv, TypeOK

(* Writing a file changes what a check under way holds, and no decision.   *)
LEMMA WriteFileDecisions ==
  ASSUME Inv, Judgements, NEW p \in Proc, NEW r \in Replica, NEW n, NEW f,
         NEW c \in Command, c.pc \in {"idle", "fill"},
         WriteFile(r, n, f, [proc EXCEPT ![p] = c])
  PROVE  \A q \in Proc : DecidedRight(proc'[q])
  <1> SUFFICES ASSUME NEW q \in Proc
               PROVE  DecidedRight(proc'[q])
    OBVIOUS
  <1> DEFINE procs == [proc EXCEPT ![p] = c]
             kept == {h \in procs[q].held : h[1] = n => <<h[2], h[3]>> \in RuledOut(f)}
  <1>1. procs[q] \in Command /\ DecidedRight(procs[q])
    BY DEF Inv, TypeOK, Judgements, DecidedRight
  <1>2. proc'[q] = IF Home[q] = r /\ procs[q].pc = "load"
                   THEN [procs[q] EXCEPT !.held = kept] ELSE procs[q]
    BY DEF WriteFile
  <1> HIDE DEF kept, procs
  <1>3. CASE Home[q] = r /\ procs[q].pc = "load"
    BY <1>1, <1>2, <1>3 DEF Command, DecidedRight
  <1>4. CASE ~(Home[q] = r /\ procs[q].pc = "load")
    BY <1>1, <1>2, <1>4
  <1>5. QED
    BY <1>3, <1>4

LEMMA JudgementsStep ==
  ASSUME Inv, Judgements, [Next]_vars
  PROVE  Judgements'
  <1>1. ASSUME UNCHANGED <<told, proc>>
        PROVE  Judgements'
    BY <1>1 DEF Judgements
  <1>2. ASSUME NEW p \in Proc, NEW c, proc' = [proc EXCEPT ![p] = c], UNCHANGED told,
               DecidedRight(c)
        PROVE  Judgements'
    BY <1>2 DEF Judgements, Inv, TypeOK
  <1>3. DecidedRight(Idle) /\ Idle \in Command /\ Idle.pc = "idle"
    BY IdleType DEF DecidedRight, Idle
  <1>4. ASSUME NEW r \in Replica, \E q \in Path, c \in Content \cup {Gone} : Edit(r, q, c)
        PROVE  Judgements'
    BY <1>1, <1>4 DEF Edit
  <1>5. ASSUME NEW r \in Replica, Capture(r)
        PROVE  Judgements'
    <2>1. wd[r] \in Tree /\ UNCHANGED proc
      BY <1>5 DEF Capture, Inv, TypeOK
    <2>2. CASE UNCHANGED told
      BY <1>1, <2>1, <2>2
    <2>3. CASE Tell(r, wd[r], FALSE)
      BY <2>1, <2>3, TellRight DEF Judgements
    <2>4. QED
      BY <1>5, <2>2, <2>3 DEF Capture
  <1>6. ASSUME NEW r \in Replica, NEW k \in Tips(r) \cup {0}, Check(r, k)
        PROVE  Judgements'
    <2>1. PICK t \in Tree, faults \in BOOLEAN : Tell(r, t, faults)
      <3>1. CASE k = 0
        <4>1. wd[r] \in Tree
          BY DEF Inv, TypeOK
        <4>2. QED
          BY <1>6, <3>1, <4>1 DEF Check
      <3>2. CASE k # 0
        <4>1. cs[k].tree \in Tree
          BY <3>2, TipsType DEF Inv
        <4>2. QED
          BY <1>6, <3>2, <4>1 DEF Check
      <3>3. QED
        BY <3>1, <3>2
    <2>2. UNCHANGED proc
      BY <1>6 DEF Check
    <2>3. QED
      BY <2>1, <2>2, TellRight DEF Judgements
  <1>7. ASSUME NEW r \in Replica, Propose(r)
        PROVE  Judgements'
    BY <1>1, <1>7 DEF Propose
  <1>8. ASSUME NEW p \in Proc, NEW t \in Text, Truncate(p, t)
        PROVE  Judgements'
    <2> DEFINE c == [Idle EXCEPT !.pc = "fill", !.cmd = "add", !.text = t]
    <2>1. c \in Command /\ c.pc = "fill"
      BY IdleType DEF Command
    <2>2. WriteFile(Home[p], NameOf[t], Torn, [proc EXCEPT ![p] = c]) /\ UNCHANGED told
      BY <1>8 DEF Truncate
    <2> HIDE DEF c
    <2>3. QED
      BY <2>1, <2>2, WriteFileDecisions DEF Judgements
  <1>9. ASSUME NEW p \in Proc, Fill(p) \/ \E n \in Name : Remove(p, n)
        PROVE  Judgements'
    <2>1. PICK n, f : WriteFile(Home[p], n, f, [proc EXCEPT ![p] = Idle])
      BY <1>9 DEF Fill, Remove
    <2>2. UNCHANGED told
      BY <1>9 DEF Fill, Remove
    <2>3. QED
      BY <1>3, <2>1, <2>2, WriteFileDecisions DEF Judgements
  <1>10. ASSUME NEW p \in Proc, Die(p) \/ Make(p)
         PROVE  Judgements'
    BY <1>2, <1>3, <1>10 DEF Die, Make, Becomes
  <1>11. ASSUME NEW p \in Proc, NEW cmd, NEW peers, List(p, cmd, peers)
         PROVE  Judgements'
    <2>1. PICK tree, todo, held :
            proc' = [proc EXCEPT ![p] = [Idle EXCEPT !.pc = "load", !.cmd = cmd, !.tree = tree,
                       !.peers = peers, !.todo = todo, !.held = held]]
      BY <1>11 DEF List, Becomes
    <2> DEFINE c == [Idle EXCEPT !.pc = "load", !.cmd = cmd, !.tree = tree,
                       !.peers = peers, !.todo = todo, !.held = held]
    <2>2. c.pc = "load"
      BY DEF Idle
    <2>3. proc' = [proc EXCEPT ![p] = c] /\ UNCHANGED told
      BY <1>11, <2>1 DEF List
    <2> HIDE DEF c
    <2>4. QED
      BY <1>2, <2>2, <2>3 DEF DecidedRight
  <1>12. ASSUME NEW p \in Proc, NEW n \in Name, Read(p, n)
         PROVE  Judgements'
    <2> DEFINE f == pol[Home[p]][n]
               c == [proc[p] EXCEPT !.todo = @ \ {n}, !.read[n] = f]
    <2>1. c.pc = "load"
      BY <1>12 DEF Read, Inv, TypeOK, Command
    <2>2. UNCHANGED told /\ proc' = [proc EXCEPT ![p] = IF f \notin Readable THEN Idle ELSE c]
      BY <1>12 DEF Read, Becomes
    <2> HIDE DEF c
    <2>3. QED
      BY <1>2, <1>3, <2>1, <2>2 DEF DecidedRight
  <1>13. ASSUME NEW p \in Proc, Judge(p)
         PROVE  Judgements'
    <2> DEFINE blocked == Blocked(Loaded(proc[p].read), Looked(p))
               pc == IF blocked THEN "refused"
                     ELSE IF proc[p].cmd = "promote" THEN "make" ELSE "session"
               c == [proc[p] EXCEPT !.seen = Looked(p), !.pc = pc]
    <2>1. proc' = [proc EXCEPT ![p] = c] /\ UNCHANGED told
      BY <1>13 DEF Judge, Becomes
    <2>2. c.pc = pc /\ c.cmd = proc[p].cmd /\ c.read = proc[p].read /\ c.tree = proc[p].tree
      BY DEF Inv, TypeOK, Command
    <2>3. proc[p].cmd = "promote" => Looked(p) = Seen(proc[p].tree)
      BY DEF Looked
    <2>4. /\ pc = "make" => ~blocked
          /\ pc = "refused" => blocked
      OBVIOUS
    <2> HIDE DEF c, pc
    <2>5. DecidedRight(c)
      BY <2>2, <2>3, <2>4 DEF DecidedRight, Judged
    <2>6. QED
      BY <1>2, <2>1, <2>5
  <1>14. ASSUME NEW p \in Proc, NEW s \in Proc, Push(p, s)
         PROVE  Judgements'
    <2>1. /\ proc[p].pc = "session" /\ proc[s].pc = "session" /\ p # s
          /\ proc[p] \in Command /\ proc[s] \in Command /\ UNCHANGED told
      BY <1>14 DEF Push, Inv, TypeOK, Transfer
    <2>2. /\ \A q \in Proc \ {p, s} : proc'[q] = proc[q]
          /\ proc'[p].pc = "pull" /\ proc'[s].pc = "answer"
      BY <1>14, <2>1 DEF Push, Inv, TypeOK, Command
    <2>3. \A q \in Proc : DecidedRight(proc'[q])
      BY <2>2 DEF DecidedRight, Judgements
    <2>4. QED
      BY <2>1, <2>3 DEF Judgements
  <1>15. ASSUME NEW p \in Proc, NEW s \in Proc, Pull(p, s)
         PROVE  Judgements'
    <2> DEFINE sent == proc[s].sent \cup (blobs[Home[s]] \ blobs[Home[p]])
               one  == NextPeer(proc[p], Home[s])
               two  == [proc[s] EXCEPT !.pc = "session", !.sent = sent]
    <2>1. /\ proc[p].pc = "pull" /\ proc[s].pc = "answer" /\ p # s
          /\ proc[p] \in Command /\ proc[s] \in Command /\ UNCHANGED told
      BY <1>15 DEF Pull, Inv, TypeOK, Transfer
    <2>2. one.pc \in {"idle", "session"} /\ two.pc = "session"
      BY <2>1 DEF NextPeer, Command, Idle
    <2>3. proc' = [proc EXCEPT ![p] = one, ![s] = two]
      BY <1>15, <2>1 DEF Pull, Inv, TypeOK
    <2> HIDE DEF one, two
    <2>4. proc'[p] = one /\ proc'[s] = two /\ \A q \in Proc \ {p, s} : proc'[q] = proc[q]
      BY <2>1, <2>3 DEF Inv, TypeOK
    <2>5. \A q \in Proc : DecidedRight(proc'[q])
      BY <2>2, <2>4 DEF DecidedRight, Judgements
    <2>6. QED
      BY <2>1, <2>5 DEF Judgements
  <1>16. CASE UNCHANGED vars
    BY <1>1, <1>16 DEF vars
  <1>17. QED
    BY <1>4, <1>5, <1>6, <1>7, <1>8, <1>9, <1>10, <1>11, <1>12, <1>13, <1>14, <1>15, <1>16
       DEF Next, BeginPromote, BeginServe, BeginSync

(* A capture and `gpp policy check` warn of exactly what `gpp promote`     *)
(* will refuse, if it finds the tree and the policies they found.          *)
THEOREM PolicyToldTrue == Spec => []ToldTrue
  <1>1. Init => Judgements
    BY NothingTold DEF Init, Idle, Judgements, DecidedRight
  <1>2. TypeOK /\ Verdicts /\ Judgements /\ [Next]_vars => Judgements'
    BY JudgementsStep DEF Inv
  <1>3. Init => Verdicts
    BY DEF Init, Idle, Verdicts, FollowsRules, Waiting
  <1>4. TypeOK /\ Verdicts /\ [Next]_vars => Verdicts'
    BY VerdictsStep DEF Inv
  <1>5. Judgements => ToldTrue
    BY DEF Judgements, ToldRight, DecidedRight, ToldTrue
  <1>6. QED
    BY <1>1, <1>2, <1>3, <1>4, <1>5, PolicyTypeOK, PTL DEF Spec
-----------------------------------------------------------------------------
(* What a step does to the policies of a replica.                          *)

LEMMA FileLoosened ==
  ASSUME TypeOK, commands \in Nat, Next, NEW r \in Replica, NEW n \in Name,
         ~(RuledOut(pol[r][n]) \subseteq RuledOut(pol'[r][n]))
  PROVE  \/ commands' # commands
         \/ \E p \in Proc : Home[p] = r /\ proc[p].pc = "fill" /\ proc'[p] # proc[p]
  <1>1. pol'[r][n] # pol[r][n]
    OBVIOUS
  <1>2. ASSUME NEW x \in Replica, NEW y \in Replica, Transfer(x, y, Received(x, y))
        PROVE  FALSE
    <2>1. pol'[r][n] = pol[r][n] \/ pol[r][n] = Absent
      BY <1>2 DEF Transfer, Received, TypeOK
    <2>2. QED
      BY <1>1, <2>1, NothingRuledOut
  <1>3. ASSUME NEW p \in Proc, NEW cmd, Begins(p, cmd)
        PROVE  commands' # commands
    BY <1>3 DEF Begins
  <1>4. ASSUME NEW p \in Proc, Fill(p)
        PROVE  Home[p] = r /\ proc[p].pc = "fill" /\ proc'[p] # proc[p]
    <2>1. proc[p].pc = "fill" /\ pol' = [pol EXCEPT ![Home[p]][NameOf[proc[p].text]] = proc[p].text]
      BY <1>4 DEF Fill, WriteFile
    <2>2. Home[p] = r
      BY <1>1, <2>1 DEF TypeOK
    <2>3. proc'[p] = Idle
      BY <1>4 DEF Fill, WriteFile, Idle, TypeOK
    <2>4. QED
      BY <2>1, <2>2, <2>3 DEF Idle
  <1>5. /\ \A x \in Replica : /\ \A q \in Path, c \in Content \cup {Gone} : ~Edit(x, q, c)
                           /\ ~Capture(x) /\ ~Propose(x)
                           /\ \A k \in Tips(x) \cup {0} : ~Check(x, k)
        /\ \A p \in Proc : ~Die(p) /\ ~Judge(p) /\ ~Make(p) /\ \A m \in Name : ~Read(p, m)
    BY <1>1 DEF Edit, Capture, Check, Propose, Read, Judge, Make, Die
  <1>6. ASSUME NEW p \in Proc,
               \/ \E t \in Text : Truncate(p, t)
               \/ \E m \in Name : Remove(p, m)
               \/ BeginPromote(p) \/ BeginServe(p)
               \/ \E peers \in SUBSET (Replica \ {Home[p]}) : BeginSync(p, peers)
        PROVE  commands' # commands
    BY <1>3, <1>6 DEF Truncate, Remove, BeginPromote, BeginServe, BeginSync, List
  <1>7. \A p, s \in Proc : ~Push(p, s) /\ ~Pull(p, s)
    <2>1. \A p \in Proc : Home[p] \in Replica
      OBVIOUS
    <2>2. QED
      BY <1>2, <2>1 DEF Push, Pull
  <1>8. CASE \E p \in Proc : Fill(p)
    BY <1>4, <1>8
  <1>9. CASE ~\E p \in Proc : Fill(p)
    BY <1>5, <1>6, <1>7, <1>9 DEF Next
  <1>10. QED
    BY <1>8, <1>9

(* A sync lifts no rule: only the `policy add` and `policy remove` of the  *)
(* replica's own user make its files rule out less.                        *)
THEOREM PolicySyncOnlyTightens == Spec => SyncOnlyTightens
  <1>1. Init => commands \in Nat
    BY DEF Init
  <1>2. commands \in Nat /\ [Next]_vars => (commands \in Nat)'
    <2>1. ASSUME NEW p \in Proc, NEW cmd, Begins(p, cmd)
          PROVE  commands' = commands + 1
      BY <2>1 DEF Begins
    <2>2. ASSUME Next
          PROVE  commands' = commands \/ commands' = commands + 1
      <3>1. \A r \in Replica :
              /\ \A q \in Path, c \in Content \cup {Gone} : Edit(r, q, c) => UNCHANGED commands
              /\ Capture(r) => UNCHANGED commands
              /\ \A k \in Tips(r) \cup {0} : Check(r, k) => UNCHANGED commands
              /\ Propose(r) => UNCHANGED commands
        BY DEF Edit, Capture, Propose, Check, bounds
      <3>2. \A p \in Proc :
              /\ Fill(p) \/ Die(p) \/ Judge(p) \/ Make(p) => UNCHANGED commands
              /\ \A n \in Name : Read(p, n) => UNCHANGED commands
              /\ \A s \in Proc : Push(p, s) \/ Pull(p, s) => UNCHANGED commands
        <4>1. \A p \in Proc : Fill(p) \/ Die(p) \/ Judge(p) \/ Make(p) => UNCHANGED commands
          BY DEF Fill, Die, Judge, Make, bounds
        <4>2. \A p \in Proc, n \in Name : Read(p, n) => UNCHANGED commands
          BY DEF Read, bounds
        <4>3. \A p \in Proc, s \in Proc : Push(p, s) \/ Pull(p, s) => UNCHANGED commands
          BY DEF Push, Pull, Transfer, bounds
        <4>4. QED
          BY <4>1, <4>2, <4>3
      <3>3. \A p \in Proc :
              /\ \A t \in Text : Truncate(p, t) => commands' = commands + 1
              /\ \A n \in Name : Remove(p, n) => commands' = commands + 1
              /\ BeginPromote(p) \/ BeginServe(p) => commands' = commands + 1
              /\ \A peers \in SUBSET (Replica \ {Home[p]}) :
                   BeginSync(p, peers) => commands' = commands + 1
        BY <2>1 DEF Truncate, Remove, List, BeginPromote, BeginServe, BeginSync
      <3>4. QED
        BY <2>2, <3>1, <3>2, <3>3 DEF Next
    <2>3. QED
      BY <2>2 DEF vars, bounds
  <1>3. TypeOK /\ commands \in Nat /\ [Next]_vars
        => [\A r \in Replica, n \in Name :
              \/ commands' # commands
              \/ \E p \in Proc : Home[p] = r /\ proc[p].pc = "fill" /\ proc'[p] # proc[p]
              \/ RuledOut(pol[r][n]) \subseteq RuledOut(pol'[r][n])]_vars
    <2>1. TypeOK /\ commands \in Nat /\ Next
          => \A r \in Replica, n \in Name :
               \/ commands' # commands
               \/ \E p \in Proc : Home[p] = r /\ proc[p].pc = "fill" /\ proc'[p] # proc[p]
               \/ RuledOut(pol[r][n]) \subseteq RuledOut(pol'[r][n])
      BY FileLoosened, ZenonT(60)
    <2>2. QED
      BY <2>1, ZenonT(60)
  <1>4. QED
    BY <1>1, <1>2, <1>3, PolicyTypeOK, PTL DEF Spec, SyncOnlyTightens
=============================================================================
