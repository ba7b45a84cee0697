--------------------------- MODULE History_proof ----------------------------
(***************************************************************************)
(* Facts about promotion for any number of processes, branches, contents   *)
(* and any interleaving of their steps, edits and crashes: no ref, parent  *)
(* or promoted_to dangles; at rest and with no process killed, no ref file *)
(* is empty; `gpp promote` puts blocked content in a changeset, and a      *)
(* changeset holds content no entry recorded, only when an edit raced it;  *)
(* and what an entry was promoted to stays within reach of the branches.   *)
(***************************************************************************)
EXTENDS History, SequenceTheorems, TLAPS

USE ContentAssumption, BranchAssumption, ProcessAssumption, BoundsAssumption

-----------------------------------------------------------------------------
(* Type correctness.                                                       *)

LEMMA IdleType ==
  /\ Idle \in Command
  /\ \A s \in {"capture", "clear"}, b \in Branch :
       /\ [Idle EXCEPT !.pc = s] \in Command
       /\ [Idle EXCEPT !.pc = s, !.branch = b] \in Command
  /\ \A b \in Branch, t \in Nat : WriteLater(b, t) \in Command
  BY DEF Idle, Command, WriteLater

(* The states a command goes through have the type of one.                 *)
LEMMA CommandTypes ==
  ASSUME NEW c \in Command
  PROVE  /\ [c EXCEPT !.raced = TRUE] \in Command
         /\ [c EXCEPT !.linked = FALSE] \in Command
         /\ [c EXCEPT !.pc = "select"] \in Command
         /\ \A ids \in SUBSET (Nat \ {0}) :
              [c EXCEPT !.pc = "snapshot", !.ids = ids, !.todo = ids] \in Command
         /\ \A t \in Content : [c EXCEPT !.pc = "head", !.tree = t] \in Command
         /\ \A b \in Branch : [c EXCEPT !.pc = "tip", !.branch = b] \in Command
         /\ \A n \in Nat : [c EXCEPT !.pc = "write", !.parent = n] \in Command
         /\ \A n \in Nat : [c EXCEPT !.pc = "fill", !.old = n, !.linked = TRUE] \in Command
         /\ [c EXCEPT !.pc = "point"] \in Command
         /\ \A rest \in SUBSET (Nat \ {0}), s \in {"truncate", "mark"} :
              [c EXCEPT !.todo = rest, !.pc = s] \in Command
  BY DEF Command

(* A process's step replaces its own state only.                           *)
LEMMA Becoming ==
  ASSUME proc \in [Proc -> Command], NEW p \in Proc, NEW c \in Command, Becomes(p, c)
  PROVE  /\ proc' \in [Proc -> Command]
         /\ proc'[p] = c
         /\ \A q \in Proc : q # p => proc'[q] = proc[q]
  BY DEF Becomes

LEMMA WroteType ==
  ASSUME NEW c \in Command, Len(cs) \in Nat
  PROVE  /\ Wrote(c) \in Command /\ Wrote(c).pc = "mark" /\ Wrote(c).made = Len(cs) + 1
         /\ Wrote(c).parent = c.parent /\ Wrote(c).ids = c.ids /\ Wrote(c).todo = c.todo
  <1>1. Len(cs) + 1 \in Nat
    OBVIOUS
  <1>2. QED
    BY <1>1 DEF Wrote, Command

LEMMA RecordedType ==
  ASSUME TypeOK
  PROVE  /\ Captured \in Content
         /\ Recorded \in Seq(Entry)
         /\ Len(Recorded) >= Len(entry)
         /\ \A e \in 1..Len(entry) : e \in 1..Len(Recorded) /\ Recorded[e] = entry[e]
         /\ \A e \in 1..Len(Recorded) :
              e \in 1..Len(entry) \/ Recorded[e] = [content |-> wd, promoted |-> 0]
         /\ wd # Captured => Len(Recorded) > 0 /\ Recorded[Len(Recorded)].content = wd
         /\ wd = Captured => Recorded = entry
  <1>1. Captured \in Content
    <2>1. CASE entry = << >>
      BY <2>1 DEF Captured
    <2>2. CASE entry # << >>
      <3>1. Len(entry) \in 1..Len(entry)
        BY <2>2, EmptySeq DEF TypeOK
      <3>2. entry[Len(entry)] \in Entry
        BY <3>1, ElementOfSeq DEF TypeOK
      <3>3. QED
        BY <2>2, <3>2 DEF Captured, Entry
    <2>3. QED
      BY <2>1, <2>2
  <1> DEFINE new == [content |-> wd, promoted |-> 0]
  <1>2. new \in Entry
    BY DEF TypeOK, Entry
  <1>3. entry \in Seq(Entry) /\ Len(entry) \in Nat
    BY DEF TypeOK
  <1>4. /\ Append(entry, new) \in Seq(Entry)
        /\ Len(Append(entry, new)) = Len(entry) + 1
        /\ \A i \in 1..Len(entry) : Append(entry, new)[i] = entry[i]
        /\ Append(entry, new)[Len(entry) + 1] = new
    BY <1>2, <1>3, AppendProperties
  <1>5. CASE wd = Captured
    BY <1>1, <1>3, <1>5 DEF Recorded
  <1>6. CASE wd # Captured
    <2>1. Recorded = Append(entry, new)
      BY <1>6 DEF Recorded
    <2>2. new.content = wd
      OBVIOUS
    <2> HIDE DEF new
    <2>3. \A e \in 1..(Len(entry) + 1) : e \in 1..Len(entry) \/ e = Len(entry) + 1
      BY <1>3
    <2>4. Recorded \in Seq(Entry) /\ Len(Recorded) = Len(entry) + 1 /\ Len(Recorded) > 0
      BY <1>3, <1>4, <2>1
    <2>5. \A e \in 1..Len(entry) : e \in 1..Len(Recorded) /\ Recorded[e] = entry[e]
      BY <1>3, <1>4, <2>1
    <2>6. \A e \in 1..Len(Recorded) : e \in 1..Len(entry) \/ Recorded[e] = new
      BY <1>4, <2>1, <2>3
    <2>7. Recorded[Len(Recorded)].content = wd
      BY <1>4, <2>1, <2>2
    <2>8. QED
      BY <1>1, <1>3, <1>6, <2>4, <2>5, <2>6, <2>7 DEF new
  <1>7. QED
    BY <1>5, <1>6

LEMMA InitTypeOK == Init => TypeOK
  <1> SUFFICES ASSUME Init PROVE TypeOK
    OBVIOUS
  <1>1. entry \in Seq(Entry) /\ cs \in Seq(Changeset)
    BY EmptySeq DEF Init
  <1>2. proc \in [Proc -> Command]
    BY IdleType DEF Init
  <1>3. QED
    BY <1>1, <1>2 DEF Init, TypeOK

LEMMA StepTypeOK ==
  ASSUME TypeOK, [Next]_vars
  PROVE  TypeOK'
  <1>0. /\ proc \in [Proc -> Command] /\ wd \in Content /\ tip \in [Branch -> Nat]
        /\ entry \in Seq(Entry) /\ cs \in Seq(Changeset) /\ Len(cs) \in Nat
        /\ \A p \in Proc : proc[p] \in Command
    BY DEF TypeOK
  (* Most steps of a process change nothing but its own state.             *)
  <1>1. ASSUME NEW p \in Proc, NEW c \in Command, Becomes(p, c),
               UNCHANGED <<wd, entry, cs, refs, ghosts, edits, crashes>>,
               commands' \in Nat
        PROVE  TypeOK'
    <2>1. proc' \in [Proc -> Command]
      BY <1>0, <1>1, Becoming
    <2>2. QED
      BY <1>1, <2>1 DEF TypeOK, refs, ghosts
  <1>2. ASSUME NEW c \in Content, Edit(c)
        PROVE  TypeOK'
    <2>1. proc' \in [Proc -> Command]
      BY <1>0, <1>2, CommandTypes DEF Edit
    <2>2. QED
      BY <1>2, <2>1 DEF Edit, TypeOK, refs, ghosts
  <1>3. CASE CaptureElsewhere
    BY <1>3, RecordedType DEF CaptureElsewhere, TypeOK, refs, ghosts, bounds
  <1>4. ASSUME NEW p \in Proc, Gate(p) \/ Propose(p)
        PROVE  TypeOK'
    <2>1. [Idle EXCEPT !.pc = "capture"] \in Command
      BY IdleType
    <2>2. QED
      BY <1>1, <1>4, <2>1 DEF Gate, Propose, bounds, TypeOK
  <1>5. ASSUME NEW p \in Proc, Capture(p)
        PROVE  TypeOK'
    <2>1. proc' \in [Proc -> Command]
      BY <1>0, <1>5, CommandTypes, Becoming DEF Capture
    <2>2. QED
      BY <1>5, <2>1, RecordedType DEF Capture, TypeOK, refs, ghosts, bounds
  <1>6. ASSUME NEW p \in Proc, NEW lo, NEW hi, Select(p, lo, hi)
        PROVE  TypeOK'
    <2> DEFINE ids == Unpromoted(lo, hi)
    <2>1. ids \in SUBSET (Nat \ {0})
      BY <1>0 DEF Unpromoted
    <2>2. /\ Idle \in Command
          /\ [proc[p] EXCEPT !.pc = "snapshot", !.ids = ids, !.todo = ids] \in Command
      BY <1>0, <2>1, IdleType, CommandTypes
    <2> HIDE DEF ids
    <2>3. QED
      BY <1>1, <1>6, <2>2 DEF Select, ids, bounds, TypeOK
  <1>7. ASSUME NEW p \in Proc, Snapshot(p)
        PROVE  TypeOK'
    BY <1>0, <1>1, <1>7, CommandTypes DEF Snapshot, bounds, TypeOK
  <1>8. ASSUME NEW p \in Proc, ReadHead(p)
        PROVE  TypeOK'
    <2>1. head # NoBranch => [proc[p] EXCEPT !.pc = "tip", !.branch = head] \in Command
      BY <1>0, CommandTypes DEF TypeOK
    <2>2. QED
      BY <1>1, <1>8, <2>1, IdleType DEF ReadHead, bounds, TypeOK
  <1>9. ASSUME NEW p \in Proc, ReadTip(p)
        PROVE  TypeOK'
    <2>1. tip[proc[p].branch] \in Nat
      BY <1>0 DEF Command
    <2>2. QED
      BY <1>0, <1>1, <1>9, <2>1, CommandTypes DEF ReadTip, bounds, TypeOK
  <1>10. ASSUME NEW p \in Proc, NEW lo \in 1..Len(entry), NEW hi \in 1..Len(entry),
                WriteChangeset(p, lo, hi)
         PROVE  TypeOK'
    <2> DEFINE new ==
          [parents |-> {proc[p].parent} \ {0}, tree |-> proc[p].tree,
           first |-> lo, last |-> hi, by |-> p, raced |-> proc[p].raced]
    <2>1. proc[p].parent \in Nat /\ proc[p].tree \in Content /\ proc[p].raced \in BOOLEAN
      BY <1>0 DEF Command
    <2>2. new \in Changeset
      BY <2>1 DEF Changeset
    <2> HIDE DEF new
    <2>3. cs' \in Seq(Changeset)
      BY <1>0, <1>10, <2>2, AppendProperties DEF WriteChangeset, new
    <2>4. proc' \in [Proc -> Command]
      <3>1. Wrote(proc[p]) \in Command
        BY <1>0, WroteType
      <3>2. QED
        BY <1>0, <1>10, <3>1, Becoming DEF WriteChangeset
    <2>5. QED
      BY <1>10, <2>3, <2>4 DEF WriteChangeset, TypeOK, refs, ghosts, bounds
  <1>11. ASSUME NEW p \in Proc, NEW e \in 1..Len(entry), Mark(p, e)
         PROVE  TypeOK'
    <2>1. proc[p].made \in Nat /\ proc[p].todo \ {e} \in SUBSET (Nat \ {0})
      BY <1>0 DEF Command
    <2>2. entry' \in Seq(Entry)
      <3>1. entry[e] \in Entry
        BY <1>0, ElementOfSeq
      <3>2. [entry[e] EXCEPT !.promoted = proc[p].made] \in Entry
        BY <2>1, <3>1 DEF Entry
      <3>3. entry' = [entry EXCEPT ![e] = [entry[e] EXCEPT !.promoted = proc[p].made]]
        BY <1>11 DEF Mark
      <3>4. QED
        BY <1>0, <3>2, <3>3
    <2> DEFINE c == [proc[p] EXCEPT !.todo = proc[p].todo \ {e},
                       !.pc = IF proc[p].todo \ {e} = {} THEN "truncate" ELSE "mark"]
    <2>3. c \in Command
      BY <1>0, <2>1, CommandTypes
    <2>4. Becomes(p, c)
      BY <1>11 DEF Mark
    <2> HIDE DEF c
    <2>5. proc' \in [Proc -> Command]
      BY <1>0, <2>3, <2>4, Becoming
    <2>6. QED
      BY <1>11, <2>2, <2>5 DEF Mark, TypeOK, refs, ghosts, bounds
  <1>12. ASSUME NEW p \in Proc, Truncate(p)
         PROVE  TypeOK'
    <2>1. proc[p].branch \in Branch
      BY <1>0 DEF Command
    <2>2. tip[proc[p].branch] \in Nat
      BY <1>0, <2>1
    <2>3. proc' \in [Proc -> Command]
      BY <1>0, <1>12, <2>2, CommandTypes, Becoming DEF Truncate
    <2>4. files' \subseteq Branch /\ tip' \in [Branch -> Nat]
      BY <1>12, <2>1, <2>2 DEF Truncate, TypeOK
    <2>5. discarded' \subseteq Nat /\ lost' \subseteq Nat
      BY <1>12, <2>2 DEF Truncate, TypeOK
    <2>6. UNCHANGED <<wd, entry, cs, head, bounds>>
      BY <1>12 DEF Truncate
    <2>7. QED
      BY <2>3, <2>4, <2>5, <2>6 DEF TypeOK, bounds
  <1>13. ASSUME NEW p \in Proc, Fill(p)
         PROVE  TypeOK'
    <2>1. proc[p].branch \in Branch /\ proc[p].made \in Nat
      BY <1>0 DEF Command
    <2>2. proc' \in [Proc -> Command]
      BY <1>0, <1>13, IdleType, Becoming DEF Fill
    <2>3. tip' \in [Branch -> Nat] /\ lost' \subseteq Nat
      <3>1. tip[proc[p].branch] \in Nat
        BY <1>0, <2>1
      <3>2. QED
        BY <1>0, <1>13, <2>1, <3>1 DEF Fill, TypeOK
    <2>4. UNCHANGED <<wd, entry, cs, files, head, discarded, bounds>>
      BY <1>13 DEF Fill
    <2>5. QED
      BY <2>2, <2>3, <2>4 DEF TypeOK, bounds
  <1>14. ASSUME NEW p \in Proc, NEW b \in Branch, Create(p, b) \/ Explore(p, b)
         PROVE  TypeOK'
    <2>1. HeadTip \in Nat
      BY DEF HeadTip, TypeOK
    <2>2. WriteLater(b, HeadTip) \in Command
      BY <2>1, IdleType
    <2>3. commands' \in Nat
      BY <1>14 DEF Create, Explore, Starts, TypeOK
    <2>4. QED
      BY <1>1, <1>14, <2>2, <2>3 DEF Create, Explore
  <1>15. ASSUME NEW p \in Proc, NEW b \in Branch, Delete(p, b)
         PROVE  TypeOK'
    <2>1. proc' \in [Proc -> Command]
      BY <1>0, <1>15, CommandTypes DEF Delete
    <2>2. \A q \in Proc : proc[q].made \in Nat /\ proc[q].old \in Nat
      BY <1>0 DEF Command
    <2>3. discarded' \subseteq Nat
      BY <1>15, <2>2 DEF Delete, TypeOK
    <2>4. files' \subseteq Branch /\ tip' \in [Branch -> Nat] /\ commands' \in Nat
      BY <1>0, <1>15 DEF Delete, Starts, TypeOK
    <2>5. UNCHANGED <<wd, entry, cs, head, lost, edits, crashes>>
      BY <1>15 DEF Delete
    <2>6. QED
      BY <2>1, <2>3, <2>4, <2>5 DEF TypeOK
  <1>16. ASSUME NEW p \in Proc, NEW b \in Branch, Switch(p, b)
         PROVE  TypeOK'
    <2>1. [Idle EXCEPT !.pc = "clear", !.branch = b] \in Command
      BY IdleType
    <2>2. commands' \in Nat
      BY <1>16 DEF Switch, Starts, TypeOK
    <2>3. QED
      BY <1>1, <1>16, <2>1, <2>2 DEF Switch
  <1>17. ASSUME NEW p \in Proc, ClearHead(p) \/ PointHead(p)
         PROVE  TypeOK'
    <2>1. proc[p].branch \in Branch
      BY <1>0 DEF Command
    <2>2. proc' \in [Proc -> Command]
      BY <1>0, <1>17, CommandTypes, IdleType, Becoming DEF ClearHead, PointHead
    <2>3. QED
      BY <1>17, <2>1, <2>2 DEF ClearHead, PointHead, TypeOK, ghosts, bounds
  <1>18. ASSUME NEW p \in Proc, Crash(p)
         PROVE  TypeOK'
    <2>1. LostWith(proc[p]) \subseteq Nat
      BY <1>0 DEF LostWith, Command
    <2>2. proc' \in [Proc -> Command]
      BY <1>0, <1>18, IdleType, Becoming DEF Crash
    <2>3. lost' \subseteq Nat /\ crashes' \in Nat
      <3>1. lost' = lost \cup LostWith(proc[p]) /\ crashes' = crashes + 1
        BY <1>18 DEF Crash
      <3>2. lost \subseteq Nat /\ crashes \in Nat
        BY DEF TypeOK
      <3>3. crashes' \in Nat
        BY <3>1, <3>2
      <3> DEFINE gone == LostWith(proc[p])
      <3>4. gone \subseteq Nat /\ lost' = lost \cup gone
        BY <2>1, <3>1
      <3> HIDE DEF gone
      <3>5. lost' \subseteq Nat
        BY <3>2, <3>4
      <3>6. QED
        BY <3>3, <3>5
    <2>4. UNCHANGED <<wd, entry, cs, files, tip, head, discarded, edits, commands>>
      BY <1>18 DEF Crash, refs
    <2>5. QED
      BY <2>2, <2>3, <2>4 DEF TypeOK
  <1>19. CASE UNCHANGED vars
    BY <1>19 DEF vars, TypeOK, refs, ghosts, bounds
  <1>20. QED
    BY <1>2, <1>3, <1>4, <1>5, <1>6, <1>7, <1>8, <1>9, <1>10, <1>11, <1>12, <1>13, <1>14,
       <1>15, <1>16, <1>17, <1>18, <1>19 DEF Next, Promote, BranchCommand

(* Every reachable state is well typed, whatever the constants.            *)
THEOREM HistoryTypeCorrect == Spec => []TypeOK
  BY InitTypeOK, StepTypeOK, PTL DEF Spec

-----------------------------------------------------------------------------
(* No dangling names.  A command only ever holds stored changesets and      *)
(* existing entries, and the entries it has still to mark lie in the range *)
(* of the changeset it made.  C is the changesets, n the last entry.       *)

Holds(c, C, n) ==
  /\ c.parent \in 0..Len(C) /\ c.made \in 0..Len(C)
  /\ c.ids \subseteq 1..n /\ c.todo \subseteq c.ids
  /\ c.pc \in {"mark", "truncate", "fill"} => c.made # 0
  /\ c.pc = "mark" => \A e \in c.todo : C[c.made].first <= e /\ e <= C[c.made].last

ClosedInv == StoreClosed /\ \A p \in Proc : Holds(proc[p], cs, Len(entry))

(* Changesets and entries are only added, and a promoted entry stays so.   *)
LEMMA HoldsMore ==
  ASSUME NEW c \in Command, NEW C \in Seq(Changeset), NEW D \in Seq(Changeset),
         NEW n \in Nat, NEW m \in Nat, n <= m, Len(C) <= Len(D),
         \A k \in 1..Len(C) : D[k] = C[k], Holds(c, C, n)
  PROVE  Holds(c, D, m)
  <1>1. c.made # 0 => D[c.made] = C[c.made]
    BY DEF Holds
  <1>2. c.ids \subseteq 1..m
    BY DEF Holds
  <1>3. c.parent \in 0..Len(D) /\ c.made \in 0..Len(D)
    BY DEF Holds
  <1>4. QED
    BY <1>1, <1>2, <1>3 DEF Holds

(* The steps that leave a command its entries and its changeset.           *)
LEMMA HoldsNext ==
  ASSUME NEW c \in Command, NEW C \in Seq(Changeset), NEW n \in Nat, Holds(c, C, n)
  PROVE  /\ Holds([c EXCEPT !.pc = "select"], C, n)
         /\ \A ids \in SUBSET (1..n) :
              Holds([c EXCEPT !.pc = "snapshot", !.ids = ids, !.todo = ids], C, n)
         /\ \A t \in Content : Holds([c EXCEPT !.pc = "head", !.tree = t], C, n)
         /\ \A b \in Branch : Holds([c EXCEPT !.pc = "tip", !.branch = b], C, n)
         /\ \A k \in 0..Len(C) : Holds([c EXCEPT !.pc = "write", !.parent = k], C, n)
         /\ \A k \in Nat : c.made # 0 =>
              Holds([c EXCEPT !.pc = "fill", !.old = k, !.linked = TRUE], C, n)
         /\ Holds([c EXCEPT !.pc = "point"], C, n)
         /\ Holds([c EXCEPT !.raced = TRUE], C, n)
         /\ Holds([c EXCEPT !.linked = FALSE], C, n)
  <1>1. \A d \in Command :
          /\ d.parent \in 0..Len(C) /\ d.made = c.made
          /\ d.ids \subseteq 1..n /\ d.todo \subseteq d.ids
          /\ d.pc # "mark" /\ (d.pc \in {"truncate", "fill"} => c.made # 0)
          => Holds(d, C, n)
    BY DEF Holds
  <1>2. /\ c.parent \in 0..Len(C) /\ c.ids \subseteq 1..n /\ c.todo \subseteq c.ids
    BY DEF Holds
  <1> DEFINE d1 == [c EXCEPT !.pc = "select"]
             d2(ids) == [c EXCEPT !.pc = "snapshot", !.ids = ids, !.todo = ids]
             d3(t) == [c EXCEPT !.pc = "head", !.tree = t]
             d4(b) == [c EXCEPT !.pc = "tip", !.branch = b]
             d5(k) == [c EXCEPT !.pc = "write", !.parent = k]
             d6(k) == [c EXCEPT !.pc = "fill", !.old = k, !.linked = TRUE]
             d7 == [c EXCEPT !.pc = "point"]
  <1>3. Holds(d1, C, n)
    BY <1>1, <1>2 DEF Command
  <1>4. ASSUME NEW ids \in SUBSET (1..n) PROVE Holds(d2(ids), C, n)
    <2>1. ids \in SUBSET (Nat \ {0})
      OBVIOUS
    <2>2. /\ d2(ids) \in Command /\ d2(ids).parent = c.parent /\ d2(ids).made = c.made
          /\ d2(ids).ids = ids /\ d2(ids).todo = ids /\ d2(ids).pc = "snapshot"
      BY <2>1 DEF Command
    <2> HIDE DEF d2
    <2>3. QED
      BY <1>1, <1>2, <2>2
  <1>5. ASSUME NEW t \in Content PROVE Holds(d3(t), C, n)
    BY <1>1, <1>2 DEF Command
  <1>6. ASSUME NEW b \in Branch PROVE Holds(d4(b), C, n)
    BY <1>1, <1>2 DEF Command
  <1>7. ASSUME NEW k \in 0..Len(C) PROVE Holds(d5(k), C, n)
    <2>0. k \in Nat
      OBVIOUS
    <2>1. /\ d5(k) \in Command /\ d5(k).parent = k /\ d5(k).made = c.made
          /\ d5(k).ids = c.ids /\ d5(k).todo = c.todo /\ d5(k).pc = "write"
      BY <2>0 DEF Command
    <2> HIDE DEF d5
    <2>2. QED
      BY <1>1, <1>2, <2>1
  <1>8. ASSUME NEW k \in Nat, c.made # 0 PROVE Holds(d6(k), C, n)
    <2>1. /\ d6(k) \in Command /\ d6(k).parent = c.parent /\ d6(k).made = c.made
          /\ d6(k).ids = c.ids /\ d6(k).todo = c.todo /\ d6(k).pc = "fill"
      BY DEF Command
    <2> HIDE DEF d6
    <2>2. QED
      BY <1>1, <1>2, <1>8, <2>1
  <1>9. Holds(d7, C, n)
    BY <1>1, <1>2 DEF Command
  <1>10. Holds([c EXCEPT !.raced = TRUE], C, n) /\ Holds([c EXCEPT !.linked = FALSE], C, n)
    BY DEF Holds, Command
  <1>11. QED
    BY <1>3, <1>4, <1>5, <1>6, <1>7, <1>8, <1>9, <1>10

LEMMA IdleHolds ==
  ASSUME NEW C \in Seq(Changeset), NEW n \in Nat
  PROVE  /\ Holds(Idle, C, n)
         /\ Holds([Idle EXCEPT !.pc = "capture"], C, n)
         /\ \A b \in Branch : Holds([Idle EXCEPT !.pc = "clear", !.branch = b], C, n)
         /\ \A b \in Branch, t \in 1..Len(C) : Holds(WriteLater(b, t), C, n)
  BY DEF Holds, Idle, WriteLater

(* A step of p that changes nothing but its own state.                     *)
LEMMA OwnStep ==
  ASSUME TypeOK, ClosedInv, NEW p \in Proc, NEW c \in Command, Becomes(p, c),
         Holds(c, cs, Len(entry)), UNCHANGED <<cs, entry, tip>>
  PROVE  ClosedInv'
  <1>1. StoreClosed'
    BY DEF ClosedInv, StoreClosed
  <1>2. ASSUME NEW q \in Proc
        PROVE  Holds(proc'[q], cs', Len(entry'))
    BY Becoming DEF TypeOK, ClosedInv
  <1>3. QED
    BY <1>1, <1>2 DEF ClosedInv

LEMMA InitClosed == Init => ClosedInv
  <1> SUFFICES ASSUME Init PROVE ClosedInv
    OBVIOUS
  <1>1. cs \in Seq(Changeset) /\ Len(cs) = 0 /\ Len(entry) = 0
    BY EmptySeq DEF Init
  <1>2. StoreClosed
    BY <1>1 DEF Init, StoreClosed
  <1>3. QED
    BY <1>1, <1>2, IdleHolds DEF Init, ClosedInv

LEMMA StepClosed ==
  ASSUME TypeOK, ClosedInv, [Next]_vars
  PROVE  ClosedInv'
  <1>0. /\ proc \in [Proc -> Command] /\ tip \in [Branch -> Nat]
        /\ entry \in Seq(Entry) /\ cs \in Seq(Changeset)
        /\ Len(cs) \in Nat /\ Len(entry) \in Nat
        /\ \A p \in Proc : proc[p] \in Command /\ Holds(proc[p], cs, Len(entry))
        /\ \A b \in Branch : tip[b] \in 0..Len(cs)
    BY DEF TypeOK, ClosedInv, StoreClosed
  <1>1. ASSUME NEW c \in Content, Edit(c)
        PROVE  ClosedInv'
    <2>1. \A p \in Proc : Holds(proc'[p], cs, Len(entry))
      BY <1>0, <1>1, HoldsNext DEF Edit
    <2>2. cs' = cs /\ entry' = entry /\ tip' = tip
      BY <1>1 DEF Edit, refs
    <2>3. QED
      BY <2>1, <2>2 DEF ClosedInv, StoreClosed
  (* The entries of a capture are unpromoted.                               *)
  <1>2. ASSUME entry' = Recorded, cs' = cs, tip' = tip
        PROVE  StoreClosed' /\ Len(entry') \in Nat /\ Len(entry) <= Len(entry')
    <2>1. Len(entry') \in Nat /\ Len(entry) <= Len(entry')
      BY <1>0, <1>2, RecordedType
    <2>2. ASSUME NEW e \in 1..Len(entry'), entry'[e].promoted # 0
          PROVE  e \in 1..Len(entry) /\ entry'[e] = entry[e]
      <3>1. [content |-> wd, promoted |-> 0].promoted = 0
        OBVIOUS
      <3>2. QED
        BY <1>2, <2>2, <3>1, RecordedType
    <2>3. QED
      BY <1>2, <2>1, <2>2 DEF ClosedInv, StoreClosed
  <1>3. CASE CaptureElsewhere
    <2>1. ASSUME NEW q \in Proc
          PROVE  Holds(proc'[q], cs', Len(entry'))
      BY <1>0, <1>2, <1>3, HoldsMore DEF CaptureElsewhere, refs
    <2>2. QED
      BY <1>2, <1>3, <2>1 DEF CaptureElsewhere, ClosedInv, refs
  <1>4. ASSUME NEW p \in Proc, Capture(p)
        PROVE  ClosedInv'
    <2> DEFINE c == [proc[p] EXCEPT !.pc = "select"]
    <2>1. c \in Command /\ Holds(c, cs, Len(entry))
      BY <1>0, CommandTypes, HoldsNext
    <2>2. Becomes(p, c) /\ entry' = Recorded /\ cs' = cs /\ tip' = tip
      BY <1>4 DEF Capture, refs
    <2> HIDE DEF c
    <2>3. \A q \in Proc : proc'[q] = IF q = p THEN c ELSE proc[q]
      BY <1>0, <2>1, <2>2, Becoming
    <2>4. ASSUME NEW q \in Proc
          PROVE  Holds(proc'[q], cs', Len(entry'))
      BY <1>0, <1>2, <2>1, <2>2, <2>3, HoldsMore
    <2>5. QED
      BY <1>2, <2>2, <2>4 DEF ClosedInv
  <1>5. ASSUME NEW p \in Proc, Gate(p) \/ Propose(p)
        PROVE  ClosedInv'
    <2>1. /\ [Idle EXCEPT !.pc = "capture"] \in Command
          /\ Holds([Idle EXCEPT !.pc = "capture"], cs, Len(entry))
      BY <1>0, IdleType, IdleHolds
    <2>2. QED
      BY <1>5, <2>1, OwnStep DEF Gate, Propose, refs
  <1>6. ASSUME NEW p \in Proc, NEW lo, NEW hi, Select(p, lo, hi)
        PROVE  ClosedInv'
    <2> DEFINE ids == Unpromoted(lo, hi)
    <2>1. ids \in SUBSET (Nat \ {0}) /\ ids \subseteq 1..Len(entry)
      BY <1>0 DEF Unpromoted
    <2> DEFINE c == [proc[p] EXCEPT !.pc = "snapshot", !.ids = ids, !.todo = ids]
    <2> HIDE DEF ids
    <2>2. c \in Command /\ Holds(c, cs, Len(entry))
      BY <1>0, <2>1, CommandTypes, HoldsNext
    <2>3. Idle \in Command /\ Holds(Idle, cs, Len(entry))
      BY <1>0, IdleType, IdleHolds
    <2> HIDE DEF c
    <2>4. (Becomes(p, Idle) \/ Becomes(p, c)) /\ UNCHANGED <<cs, entry, tip>>
      BY <1>6 DEF Select, refs, c, ids
    <2>5. QED
      BY <2>2, <2>3, <2>4, OwnStep
  <1>7. ASSUME NEW p \in Proc, Snapshot(p)
        PROVE  ClosedInv'
    <2> DEFINE c == [proc[p] EXCEPT !.pc = "head", !.tree = wd]
    <2>1. c \in Command /\ Holds(c, cs, Len(entry))
      BY <1>0, CommandTypes, HoldsNext DEF TypeOK
    <2> HIDE DEF c
    <2>2. QED
      BY <1>7, <2>1, OwnStep DEF Snapshot, refs, c
  <1>8. ASSUME NEW p \in Proc, ReadHead(p)
        PROVE  ClosedInv'
    <2> DEFINE c == [proc[p] EXCEPT !.pc = "tip", !.branch = head]
    <2>1. head # NoBranch => c \in Command /\ Holds(c, cs, Len(entry))
      BY <1>0, CommandTypes, HoldsNext DEF TypeOK
    <2>2. Idle \in Command /\ Holds(Idle, cs, Len(entry))
      BY <1>0, IdleType, IdleHolds
    <2> HIDE DEF c
    <2>3. /\ Becomes(p, Idle) \/ (head # NoBranch /\ Becomes(p, c))
          /\ UNCHANGED <<cs, entry, tip>>
      BY <1>8 DEF ReadHead, refs, c
    <2>4. QED
      BY <2>1, <2>2, <2>3, OwnStep
  <1>9. ASSUME NEW p \in Proc, ReadTip(p)
        PROVE  ClosedInv'
    <2> DEFINE t == tip[proc[p].branch]
               c == [proc[p] EXCEPT !.pc = "write", !.parent = t]
    <2>1. t \in 0..Len(cs) /\ t \in Nat
      BY <1>0 DEF Command
    <2> HIDE DEF t
    <2>2. c \in Command /\ Holds(c, cs, Len(entry))
      BY <1>0, <2>1, CommandTypes, HoldsNext
    <2> HIDE DEF c
    <2>3. QED
      BY <1>9, <2>2, OwnStep DEF ReadTip, refs, c, t
  <1>10. ASSUME NEW p \in Proc, NEW lo \in 1..Len(entry), NEW hi \in 1..Len(entry),
                WriteChangeset(p, lo, hi)
         PROVE  ClosedInv'
    <2> DEFINE new ==
          [parents |-> {proc[p].parent} \ {0}, tree |-> proc[p].tree,
           first |-> lo, last |-> hi, by |-> p, raced |-> proc[p].raced]
               D == Append(cs, new)
               c == Wrote(proc[p])
    <2>1. proc[p].parent \in 0..Len(cs) /\ proc[p].tree \in Content /\ proc[p].raced \in BOOLEAN
      BY <1>0 DEF Command, Holds
    <2>2. /\ new \in Changeset /\ new.parents \subseteq 1..Len(cs)
          /\ new.first = lo /\ new.last = hi
      BY <2>1 DEF Changeset
    <2> HIDE DEF new
    <2>3. /\ D \in Seq(Changeset) /\ Len(D) = Len(cs) + 1 /\ D[Len(cs) + 1] = new
          /\ \A k \in 1..Len(cs) : D[k] = cs[k]
      BY <1>0, <2>2, AppendProperties
    <2>4. cs' = D /\ entry' = entry /\ tip' = tip /\ Becomes(p, c)
      BY <1>10 DEF WriteChangeset, refs, new
    <2> HIDE DEF D
    <2>5. \A e \in proc[p].todo : lo <= e /\ e <= hi
      BY <1>0, <1>10 DEF WriteChangeset, IsFirst, IsLast, Holds
    <2>6. c \in Command
      BY <1>0, WroteType
    <2>7. Holds(c, D, Len(entry))
      <3>0. Holds(proc[p], D, Len(entry))
        BY <1>0, <2>3, HoldsMore
      <3>1. /\ c.parent = proc[p].parent /\ c.made = Len(D) /\ c.ids = proc[p].ids
            /\ c.todo = proc[p].todo /\ c.pc = "mark"
        BY <1>0, <2>3, WroteType
      <3>2. Len(D) \in Nat /\ Len(D) # 0 /\ D[Len(D)].first = lo /\ D[Len(D)].last = hi
        BY <1>0, <2>2, <2>3
      <3> HIDE DEF c
      <3>3. QED
        BY <2>5, <3>0, <3>1, <3>2 DEF Holds
    <2> HIDE DEF c
    <2>8. \A q \in Proc : proc'[q] = IF q = p THEN c ELSE proc[q]
      BY <1>0, <2>4, <2>6, Becoming
    <2>9. ASSUME NEW q \in Proc
          PROVE  Holds(proc'[q], cs', Len(entry'))
      <3>1. Len(entry) \in Nat /\ Len(entry) <= Len(entry) /\ Len(cs) <= Len(D)
        BY <1>0, <2>3
      <3>2. Holds(proc[q], D, Len(entry))
        BY <1>0, <2>3, <3>1, HoldsMore
      <3>3. QED
        BY <2>4, <2>7, <2>8, <3>2
    <2>10. StoreClosed'
      <3>1. \A b \in Branch : tip'[b] \in 0..Len(cs')
        BY <1>0, <2>3, <2>4
      <3>2. \A k \in 1..Len(cs') : cs'[k].parents \subseteq 1..(k - 1)
        <4>1. \A k \in 1..Len(cs) : cs[k].parents \subseteq 1..(k - 1)
          BY DEF ClosedInv, StoreClosed
        <4>2. \A k \in 1..Len(D) : k \in 1..Len(cs) \/ k = Len(cs) + 1
          BY <1>0, <2>3
        <4>3. (Len(cs) + 1) - 1 = Len(cs)
          BY <1>0
        <4>4. QED
          BY <2>2, <2>3, <2>4, <4>1, <4>2, <4>3
      <3>3. \A e \in 1..Len(entry') : entry'[e].promoted # 0 =>
              /\ entry'[e].promoted \in 1..Len(cs')
              /\ cs'[entry'[e].promoted].first <= e /\ e <= cs'[entry'[e].promoted].last
        <4>1. \A e \in 1..Len(entry) : entry[e].promoted # 0 =>
                /\ entry[e].promoted \in 1..Len(cs)
                /\ cs[entry[e].promoted].first <= e /\ e <= cs[entry[e].promoted].last
          BY DEF ClosedInv, StoreClosed
        <4>2. \A k \in 1..Len(cs) : k \in 1..Len(D)
          BY <1>0, <2>3
        <4>3. QED
          BY <2>3, <2>4, <4>1, <4>2
      <3>4. QED
        BY <3>1, <3>2, <3>3 DEF StoreClosed
    <2>11. QED
      BY <2>9, <2>10 DEF ClosedInv
  <1>11. ASSUME NEW p \in Proc, NEW e \in 1..Len(entry), Mark(p, e)
         PROVE  ClosedInv'
    <2> DEFINE k == proc[p].made
               rest == proc[p].todo \ {e}
               c == [proc[p] EXCEPT !.todo = rest,
                                    !.pc = IF rest = {} THEN "truncate" ELSE "mark"]
    <2>1. /\ k \in 1..Len(cs) /\ cs[k].first <= e /\ e <= cs[k].last
          /\ rest \in SUBSET (Nat \ {0}) /\ rest \subseteq proc[p].ids
      BY <1>0, <1>11 DEF Mark, IsFirst, Holds, Command
    <2>2. c \in Command /\ Holds(c, cs, Len(entry))
      <3>1. c \in Command
        BY <1>0, <2>1, CommandTypes
      <3>2. /\ c.parent = proc[p].parent /\ c.made = proc[p].made /\ c.ids = proc[p].ids
            /\ c.todo = rest /\ c.pc \in {"truncate", "mark"}
        BY <1>0 DEF Command
      <3>3. proc[p].pc = "mark"
        BY <1>11 DEF Mark
      <3> HIDE DEF c
      <3>4. QED
        BY <1>0, <2>1, <3>1, <3>2, <3>3 DEF Holds
    <2>3. /\ entry' = [entry EXCEPT ![e].promoted = k] /\ cs' = cs /\ tip' = tip
          /\ Becomes(p, c)
      BY <1>11 DEF Mark, refs
    <2> HIDE DEF c
    <2>4. \A q \in Proc : proc'[q] = IF q = p THEN c ELSE proc[q]
      BY <1>0, <2>2, <2>3, Becoming
    <2>5. Len(entry') = Len(entry)
      BY <1>0, <2>3
    <2>6. ASSUME NEW q \in Proc
          PROVE  Holds(proc'[q], cs', Len(entry'))
      BY <1>0, <2>2, <2>3, <2>4, <2>5
    <2>7. StoreClosed'
      <3>1. \A f \in 1..Len(entry) :
              entry'[f].promoted = IF f = e THEN k ELSE entry[f].promoted
        <4>1. \A f \in 1..Len(entry) : entry[f] \in Entry
          BY <1>0, ElementOfSeq
        <4> HIDE DEF k
        <4>2. QED
          BY <1>0, <2>3, <4>1 DEF Entry
      <3> HIDE DEF k
      <3>2. QED
        BY <2>1, <2>3, <2>5, <3>1 DEF ClosedInv, StoreClosed
    <2>8. QED
      BY <2>6, <2>7 DEF ClosedInv
  (* The refs: what a ref is given is a stored changeset.                   *)
  <1>12. ASSUME NEW p \in Proc, NEW c \in Command, Becomes(p, c),
                Holds(c, cs, Len(entry)), cs' = cs, entry' = entry,
                \A b \in Branch : tip'[b] \in 0..Len(cs)
         PROVE  ClosedInv'
    <2>1. StoreClosed'
      BY <1>12 DEF ClosedInv, StoreClosed
    <2>2. ASSUME NEW q \in Proc
          PROVE  Holds(proc'[q], cs', Len(entry'))
      BY <1>0, <1>12, Becoming
    <2>3. QED
      BY <2>1, <2>2 DEF ClosedInv
  <1>13. ASSUME NEW p \in Proc, Truncate(p)
         PROVE  ClosedInv'
    <2> DEFINE t == tip[proc[p].branch]
               c == [proc[p] EXCEPT !.pc = "fill", !.old = t, !.linked = TRUE]
    <2>1. t \in Nat
      BY <1>0 DEF Command
    <2> HIDE DEF t
    <2>2. c \in Command /\ Holds(c, cs, Len(entry))
      <3>1. proc[p].made # 0
        BY <1>0, <1>13 DEF Holds, Truncate
      <3>2. QED
        BY <1>0, <2>1, <3>1, CommandTypes, HoldsNext
    <2>3. /\ Becomes(p, c) /\ cs' = cs /\ entry' = entry
          /\ tip' = [tip EXCEPT ![proc[p].branch] = 0]
      BY <1>13 DEF Truncate, t
    <2>4. \A b \in Branch : tip'[b] \in 0..Len(cs)
      BY <1>0, <2>3
    <2> HIDE DEF c
    <2>5. QED
      BY <1>12, <2>2, <2>3, <2>4
  <1>14. ASSUME NEW p \in Proc, Fill(p)
         PROVE  ClosedInv'
    <2>1. proc[p].made \in 0..Len(cs)
      BY <1>0 DEF Holds
    <2>2. \A b \in Branch : tip'[b] \in 0..Len(cs)
      BY <1>0, <1>14, <2>1 DEF Fill
    <2>3. QED
      BY <1>0, <1>12, <1>14, <2>2, IdleType, IdleHolds DEF Fill
  <1>15. ASSUME NEW p \in Proc, NEW b \in Branch, Create(p, b) \/ Explore(p, b)
         PROVE  ClosedInv'
    <2>1. HeadTip \in 1..Len(cs)
      BY <1>0, <1>15 DEF Create, Explore, HeadTip, TypeOK
    <2> DEFINE t == HeadTip
    <2>2. WriteLater(b, HeadTip) \in Command /\ Holds(WriteLater(b, HeadTip), cs, Len(entry))
      <3>1. t \in 1..Len(cs) /\ t \in Nat
        BY <1>0, <2>1
      <3> HIDE DEF t
      <3>2. WriteLater(b, t) \in Command /\ Holds(WriteLater(b, t), cs, Len(entry))
        BY <1>0, <3>1, IdleType, IdleHolds
      <3>3. QED
        BY <3>2 DEF t
    <2>3. QED
      BY <1>15, <2>2, OwnStep DEF Create, Explore, refs
  <1>16. ASSUME NEW p \in Proc, NEW b \in Branch, Delete(p, b)
         PROVE  ClosedInv'
    <2>1. \A q \in Proc : Holds(proc'[q], cs, Len(entry))
      BY <1>0, <1>16, HoldsNext DEF Delete
    <2>2. \A a \in Branch : tip'[a] \in 0..Len(cs)
      BY <1>0, <1>16 DEF Delete
    <2>3. cs' = cs /\ entry' = entry
      BY <1>16 DEF Delete
    <2>4. QED
      BY <2>1, <2>2, <2>3 DEF ClosedInv, StoreClosed
  <1>17. ASSUME NEW p \in Proc, NEW b \in Branch, Switch(p, b)
         PROVE  ClosedInv'
    <2>1. /\ [Idle EXCEPT !.pc = "clear", !.branch = b] \in Command
          /\ Holds([Idle EXCEPT !.pc = "clear", !.branch = b], cs, Len(entry))
      BY <1>0, IdleType, IdleHolds
    <2>2. QED
      BY <1>17, <2>1, OwnStep DEF Switch, refs
  <1>18. ASSUME NEW p \in Proc, ClearHead(p)
         PROVE  ClosedInv'
    <2> DEFINE c == [proc[p] EXCEPT !.pc = "point"]
    <2>1. c \in Command /\ Holds(c, cs, Len(entry))
      BY <1>0, CommandTypes, HoldsNext
    <2> HIDE DEF c
    <2>2. QED
      BY <1>18, <2>1, OwnStep DEF ClearHead, c
  <1>19. ASSUME NEW p \in Proc, PointHead(p) \/ Crash(p)
         PROVE  ClosedInv'
    <2>1. Idle \in Command /\ Holds(Idle, cs, Len(entry))
      BY <1>0, IdleType, IdleHolds
    <2>2. Becomes(p, Idle) /\ UNCHANGED <<cs, entry, tip>>
      BY <1>19 DEF PointHead, Crash, refs
    <2>3. QED
      BY <2>1, <2>2, OwnStep
  <1>20. CASE UNCHANGED vars
    BY <1>20 DEF vars, refs, ClosedInv, StoreClosed
  <1>21. QED
    BY <1>1, <1>3, <1>4, <1>5, <1>6, <1>7, <1>8, <1>9, <1>10, <1>11, <1>13, <1>14, <1>15,
       <1>16, <1>17, <1>18, <1>19, <1>20 DEF Next, Promote, BranchCommand

(* Every tip, parent and promoted_to is a stored changeset whose range      *)
(* covers what names it, whatever processes interleave or die.             *)
THEOREM HistoryStoreClosed == Spec => []StoreClosed
  <1>1. ClosedInv => StoreClosed
    BY DEF ClosedInv
  <1>2. QED
    BY <1>1, InitTypeOK, StepTypeOK, InitClosed, StepClosed, PTL DEF Spec

-----------------------------------------------------------------------------
(* Refs at rest.  While no process has been killed, an empty HEAD or ref    *)
(* file has a process about to fill it.                                    *)

Fills(c, b) == c.pc = "fill" /\ c.linked /\ c.branch = b

WholeInv ==
  crashes = 0 =>
    /\ head = NoBranch => \E p \in Proc : proc[p].pc = "point"
    /\ \A b \in files : tip[b] = 0 => \E p \in Proc : Fills(proc[p], b)

LEMMA StepWhole ==
  ASSUME TypeOK, ClosedInv, WholeInv, [Next]_vars
  PROVE  WholeInv'
  <1>0. /\ proc \in [Proc -> Command] /\ tip \in [Branch -> Nat] /\ files \subseteq Branch
        /\ crashes \in Nat
        /\ \A p \in Proc : proc[p] \in Command
        /\ \A p \in Proc : proc[p].pc \in {"truncate", "fill"} => proc[p].made # 0
    BY DEF TypeOK, ClosedInv, Holds, Command
  (* The steps of a process that is not about to fill a file.              *)
  <1>1. ASSUME NEW p \in Proc, proc[p].pc \notin {"fill", "point"},
               \A q \in Proc : q # p => proc'[q] = proc[q],
               UNCHANGED <<refs, crashes>>
        PROVE  WholeInv'
    BY <1>1 DEF WholeInv, Fills, refs
  <1>2. ASSUME NEW p \in Proc, NEW c, Becomes(p, c)
        PROVE  /\ \A q \in Proc : q # p => proc'[q] = proc[q]
               /\ proc'[p] = c
    BY <1>0, <1>2 DEF Becomes
  <1>3. ASSUME NEW c \in Content, Edit(c)
        PROVE  WholeInv'
    <2>1. \A p \in Proc : /\ proc'[p].pc = proc[p].pc /\ proc'[p].branch = proc[p].branch
                          /\ proc'[p].linked = proc[p].linked
      BY <1>0, <1>3 DEF Edit, Command
    <2>2. UNCHANGED <<refs, crashes>>
      BY <1>3 DEF Edit
    <2>3. QED
      BY <2>1, <2>2 DEF WholeInv, Fills, refs
  <1>4. CASE CaptureElsewhere
    BY <1>4 DEF CaptureElsewhere, WholeInv, refs, bounds
  <1>5. ASSUME NEW p \in Proc, Gate(p) \/ Propose(p) \/ Capture(p) \/ Snapshot(p)
        PROVE  WholeInv'
    BY <1>1, <1>2, <1>5 DEF Gate, Propose, Capture, Snapshot, bounds
  <1>6. ASSUME NEW p \in Proc, NEW lo, NEW hi, Select(p, lo, hi) \/ WriteChangeset(p, lo, hi)
        PROVE  WholeInv'
    BY <1>1, <1>2, <1>6 DEF Select, WriteChangeset, bounds
  <1>7. ASSUME NEW p \in Proc, ReadHead(p) \/ ReadTip(p)
        PROVE  WholeInv'
    BY <1>1, <1>2, <1>7 DEF ReadHead, ReadTip, bounds
  <1>8. ASSUME NEW p \in Proc, NEW e, Mark(p, e)
        PROVE  WholeInv'
    BY <1>1, <1>2, <1>8 DEF Mark, bounds
  <1>9. ASSUME NEW p \in Proc, NEW b \in Branch, Create(p, b) \/ Explore(p, b) \/ Switch(p, b)
        PROVE  WholeInv'
    BY <1>1, <1>2, <1>9 DEF Create, Explore, Switch, Starts
  <1>10. ASSUME NEW p \in Proc, Truncate(p)
         PROVE  WholeInv'
    <2> DEFINE b == proc[p].branch
               c == [proc[p] EXCEPT !.pc = "fill", !.old = tip[b], !.linked = TRUE]
    <2>1. /\ Becomes(p, c) /\ proc[p].pc = "truncate" /\ b \in Branch
          /\ files' = files \cup {b} /\ tip' = [tip EXCEPT ![b] = 0]
          /\ head' = head /\ crashes' = crashes
      BY <1>0, <1>10 DEF Truncate, bounds, Command
    <2>2. Fills(c, b)
      BY <1>0 DEF Fills, Command
    <2> HIDE DEF b, c
    <2>3. QED
      BY <1>0, <1>2, <2>1, <2>2 DEF WholeInv, Fills
  <1>11. ASSUME NEW p \in Proc, Fill(p)
         PROVE  WholeInv'
    <2> DEFINE b == proc[p].branch
    <2>1. /\ Becomes(p, Idle) /\ proc[p].pc = "fill" /\ proc[p].made # 0
          /\ tip' = IF proc[p].linked THEN [tip EXCEPT ![b] = proc[p].made] ELSE tip
          /\ files' = files /\ head' = head /\ crashes' = crashes
      BY <1>0, <1>11 DEF Fill, bounds
    <2>2. \A a \in files : tip'[a] = 0 => tip[a] = 0 /\ ~ Fills(proc[p], a)
      BY <1>0, <2>1 DEF Fills
    <2>3. QED
      BY <1>0, <1>2, <2>1, <2>2 DEF WholeInv
  <1>12. ASSUME NEW p \in Proc, NEW b \in Branch, Delete(p, b)
         PROVE  WholeInv'
    <2>1. /\ files' = files \ {b} /\ tip' = [tip EXCEPT ![b] = 0]
          /\ head' = head /\ crashes' = crashes
      BY <1>12 DEF Delete
    <2>2. \A q \in Proc : proc'[q].pc = proc[q].pc
      BY <1>0, <1>12 DEF Delete, Command
    <2>3. \A q \in Proc, a \in Branch : a # b /\ Fills(proc[q], a) => Fills(proc'[q], a)
      BY <1>0, <1>12 DEF Delete, Fills
    <2>4. QED
      BY <1>0, <2>1, <2>2, <2>3 DEF WholeInv
  <1>13. ASSUME NEW p \in Proc, ClearHead(p)
         PROVE  WholeInv'
    <2> DEFINE c == [proc[p] EXCEPT !.pc = "point"]
    <2>1. /\ Becomes(p, c) /\ proc[p].pc = "clear"
          /\ files' = files /\ tip' = tip /\ crashes' = crashes
      BY <1>13 DEF ClearHead, bounds
    <2>2. c.pc = "point"
      BY <1>0 DEF Command
    <2> HIDE DEF c
    <2>3. QED
      BY <1>2, <2>1, <2>2 DEF WholeInv, Fills
  <1>14. ASSUME NEW p \in Proc, PointHead(p)
         PROVE  WholeInv'
    <2>1. proc[p].branch # NoBranch
      BY <1>0 DEF Command
    <2>2. QED
      BY <1>2, <1>14, <2>1 DEF PointHead, WholeInv, Fills, bounds
  <1>15. ASSUME NEW p \in Proc, Crash(p)
         PROVE  WholeInv'
    <2>1. crashes' = crashes + 1
      BY <1>15 DEF Crash
    <2>2. crashes' # 0
      BY <1>0, <2>1
    <2>3. QED
      BY <2>2 DEF WholeInv
  <1>16. CASE UNCHANGED vars
    BY <1>16 DEF vars, refs, bounds, WholeInv
  <1>17. QED
    BY <1>3, <1>4, <1>5, <1>6, <1>7, <1>8, <1>9, <1>10, <1>11, <1>12, <1>13, <1>14,
       <1>15, <1>16 DEF Next, Promote, BranchCommand

(* Once every command has ended and none was killed, HEAD names a branch    *)
(* and every ref file holds a changeset, however writers of one file       *)
(* overlapped and whoever deleted it meanwhile.                            *)
THEOREM HistoryRefsWhole == Spec => []RefsWhole
  <1>1. Init => WholeInv
    BY DEF Init, WholeInv
  <1>2. TypeOK /\ WholeInv => RefsWhole
    BY DEF TypeOK, WholeInv, RefsWhole, Quiet, Fills
  <1>3. QED
    BY <1>1, <1>2, InitTypeOK, StepTypeOK, InitClosed, StepClosed, StepWhole, PTL DEF Spec

-----------------------------------------------------------------------------
(* What a changeset holds.  Unless an edit raced it, a promotion that has   *)
(* not taken its snapshot sees the content it checked and captured, and    *)
(* one that has, holds it.  w is the working directory.                    *)

Checked(c, w) ==
  /\ c.pc \in {"capture", "select", "snapshot"} /\ ~ c.raced => w \notin Blocked
  /\ c.pc \in {"head", "tip", "write"} /\ ~ c.raced => c.tree \notin Blocked

GateInv == GatedTree /\ \A p \in Cli : Checked(proc[p], wd)

LEMMA StepGate ==
  ASSUME TypeOK, GateInv, [Next]_vars
  PROVE  GateInv'
  <1>0. /\ proc \in [Proc -> Command] /\ wd \in Content
        /\ cs \in Seq(Changeset) /\ Len(cs) \in Nat
        /\ \A p \in Proc : proc[p] \in Command
        /\ \A p \in Cli : p \in Proc /\ Checked(proc[p], wd)
    BY DEF TypeOK, GateInv, Proc
  (* A step that stores no changeset and leaves the working directory.     *)
  <1>1. ASSUME NEW p \in Proc, NEW c, Becomes(p, c), p \in Cli => Checked(c, wd),
               wd' = wd, cs' = cs
        PROVE  GateInv'
    BY <1>0, <1>1 DEF Becomes, GateInv, GatedTree
  <1>2. Checked(Idle, wd)
    BY DEF Checked, Idle
  <1>3. ASSUME NEW x \in Content, Edit(x)
        PROVE  GateInv'
    <2>1. \A p \in Cli : Checked(proc'[p], wd')
      BY <1>0, <1>3 DEF Edit, Checked, Command
    <2>2. QED
      BY <1>3, <2>1 DEF Edit, GateInv, GatedTree
  <1>4. CASE CaptureElsewhere
    BY <1>4 DEF CaptureElsewhere, GateInv, GatedTree
  <1>5. ASSUME NEW p \in Proc, Gate(p)
        PROVE  GateInv'
    <2>1. Checked([Idle EXCEPT !.pc = "capture"], wd)
      BY <1>5 DEF Gate, PassesPolicy, Checked, Idle
    <2>2. QED
      BY <1>1, <1>5, <2>1 DEF Gate
  <1>6. ASSUME NEW p \in Proc, Propose(p)
        PROVE  GateInv'
    BY <1>1, <1>6 DEF Propose
  <1>7. ASSUME NEW p \in Proc, Capture(p)
        PROVE  GateInv'
    <2>1. p \in Cli => Checked([proc[p] EXCEPT !.pc = "select"], wd)
      BY <1>0, <1>7 DEF Capture, Checked, Command
    <2>2. QED
      BY <1>1, <1>7, <2>1 DEF Capture
  <1>8. ASSUME NEW p \in Proc, NEW lo, NEW hi, Select(p, lo, hi)
        PROVE  GateInv'
    <2> DEFINE ids == Unpromoted(lo, hi)
               c == [proc[p] EXCEPT !.pc = "snapshot", !.ids = ids, !.todo = ids]
    <2> HIDE DEF ids
    <2>1. c.pc = "snapshot" /\ c.raced = proc[p].raced /\ proc[p].pc = "select"
      BY <1>0, <1>8 DEF Select, Command
    <2>2. (Becomes(p, Idle) \/ Becomes(p, c)) /\ wd' = wd /\ cs' = cs
      BY <1>8 DEF Select, ids
    <2> HIDE DEF c
    <2>3. p \in Cli => Checked(c, wd)
      BY <1>0, <2>1 DEF Checked
    <2>4. QED
      BY <1>1, <1>2, <2>2, <2>3
  <1>9. ASSUME NEW p \in Proc, Snapshot(p)
        PROVE  GateInv'
    <2>1. p \in Cli => Checked([proc[p] EXCEPT !.pc = "head", !.tree = wd], wd)
      BY <1>0, <1>9 DEF Snapshot, Checked, Command
    <2>2. QED
      BY <1>1, <1>9, <2>1 DEF Snapshot
  <1>10. ASSUME NEW p \in Proc, ReadHead(p)
         PROVE  GateInv'
    <2>1. p \in Cli => Checked([proc[p] EXCEPT !.pc = "tip", !.branch = head], wd)
      BY <1>0, <1>10 DEF ReadHead, Checked, Command
    <2>2. QED
      BY <1>1, <1>2, <1>10, <2>1 DEF ReadHead
  <1>11. ASSUME NEW p \in Proc, ReadTip(p)
         PROVE  GateInv'
    <2> DEFINE t == tip[proc[p].branch]
    <2>1. p \in Cli => Checked([proc[p] EXCEPT !.pc = "write", !.parent = t], wd)
      BY <1>0, <1>11 DEF ReadTip, Checked, Command
    <2>2. QED
      BY <1>1, <1>11, <2>1 DEF ReadTip
  <1>12. ASSUME NEW p \in Proc, NEW lo \in 1..Len(entry), NEW hi \in 1..Len(entry),
                WriteChangeset(p, lo, hi)
         PROVE  GateInv'
    <2> DEFINE new ==
          [parents |-> {proc[p].parent} \ {0}, tree |-> proc[p].tree,
           first |-> lo, last |-> hi, by |-> p, raced |-> proc[p].raced]
               c == Wrote(proc[p])
    <2>1. new \in Changeset
      <3>1. /\ proc[p].parent \in Nat /\ proc[p].tree \in Content
            /\ proc[p].raced \in BOOLEAN /\ lo \in Nat /\ hi \in Nat
        BY <1>0 DEF Command
      <3>2. QED
        BY <3>1 DEF Changeset
    <2>2. new.by = p /\ new.tree = proc[p].tree /\ new.raced = proc[p].raced
      OBVIOUS
    <2>3. /\ Becomes(p, c) /\ cs' = Append(cs, new) /\ wd' = wd /\ proc[p].pc = "write"
      BY <1>12 DEF WriteChangeset
    <2>4. p \in Cli => Checked(c, wd)
      BY <1>0, WroteType DEF Checked
    <2> HIDE DEF new, c
    <2>5. /\ Len(cs') = Len(cs) + 1 /\ cs'[Len(cs) + 1] = new
          /\ \A k \in 1..Len(cs) : cs'[k] = cs[k]
      BY <1>0, <2>1, <2>3, AppendProperties
    <2>6. p \in Cli /\ proc[p].tree \in Blocked => proc[p].raced
      BY <1>0, <2>3 DEF Checked
    <2>7. GatedTree'
      <3>1. \A k \in 1..Len(cs') : k \in 1..Len(cs) \/ k = Len(cs) + 1
        BY <1>0, <2>5
      <3>2. QED
        BY <2>2, <2>5, <2>6, <3>1 DEF GateInv, GatedTree
    <2>8. \A q \in Cli : Checked(proc'[q], wd')
      BY <1>0, <2>3, <2>4 DEF Becomes
    <2>9. QED
      BY <2>7, <2>8 DEF GateInv
  <1>13. ASSUME NEW p \in Proc, NEW e, Mark(p, e)
         PROVE  GateInv'
    <2> DEFINE rest == proc[p].todo \ {e}
               step == IF rest = {} THEN "truncate" ELSE "mark"
               c == [proc[p] EXCEPT !.todo = rest, !.pc = step]
    <2>1. c.pc \in {"truncate", "mark"}
      BY <1>0 DEF Command
    <2>2. Becomes(p, c) /\ wd' = wd /\ cs' = cs
      BY <1>13 DEF Mark
    <2> HIDE DEF c
    <2>3. Checked(c, wd)
      BY <2>1 DEF Checked
    <2>4. QED
      BY <1>1, <2>2, <2>3
  <1>14. ASSUME NEW p \in Proc, Truncate(p)
         PROVE  GateInv'
    <2> DEFINE t == tip[proc[p].branch]
               c == [proc[p] EXCEPT !.pc = "fill", !.old = t, !.linked = TRUE]
    <2>1. c.pc = "fill"
      BY <1>0 DEF Command
    <2>2. Becomes(p, c) /\ wd' = wd /\ cs' = cs
      BY <1>14 DEF Truncate
    <2> HIDE DEF c
    <2>3. Checked(c, wd)
      BY <2>1 DEF Checked
    <2>4. QED
      BY <1>1, <2>2, <2>3
  <1>15. ASSUME NEW p \in Proc, Fill(p) \/ PointHead(p) \/ Crash(p)
         PROVE  GateInv'
    BY <1>1, <1>2, <1>15 DEF Fill, PointHead, Crash
  <1>16. ASSUME NEW p \in Proc, NEW b \in Branch, Create(p, b) \/ Explore(p, b) \/ Switch(p, b)
         PROVE  GateInv'
    <2>1. /\ Checked(WriteLater(b, HeadTip), wd)
          /\ Checked([Idle EXCEPT !.pc = "clear", !.branch = b], wd)
      BY DEF Checked, WriteLater, Idle
    <2>2. QED
      BY <1>1, <1>16, <2>1 DEF Create, Explore, Switch
  <1>17. ASSUME NEW p \in Proc, NEW b \in Branch, Delete(p, b)
         PROVE  GateInv'
    <2>1. \A q \in Cli : Checked(proc'[q], wd)
      BY <1>0, <1>17 DEF Delete, Checked, Command
    <2>2. QED
      BY <1>17, <2>1 DEF Delete, GateInv, GatedTree
  <1>18. ASSUME NEW p \in Proc, ClearHead(p)
         PROVE  GateInv'
    <2>1. Checked([proc[p] EXCEPT !.pc = "point"], wd)
      BY <1>0 DEF Checked, Command
    <2>2. QED
      BY <1>1, <1>18, <2>1 DEF ClearHead
  <1>19. CASE UNCHANGED vars
    BY <1>19 DEF vars, GateInv, GatedTree
  <1>20. QED
    BY <1>3, <1>4, <1>5, <1>6, <1>7, <1>8, <1>9, <1>10, <1>11, <1>12, <1>13, <1>14,
       <1>15, <1>16, <1>17, <1>18, <1>19 DEF Next, Promote, BranchCommand

(* Blocked content gets past the gate of `gpp promote` only with an edit    *)
(* between the check and the snapshot.                                     *)
THEOREM HistoryGatedTree == Spec => []GatedTree
  <1>1. Init => GateInv
    <2> SUFFICES ASSUME Init PROVE GateInv
      OBVIOUS
    <2>1. cs = << >> /\ \A p \in Cli : proc[p] = Idle
      BY DEF Init, Proc
    <2>2. QED
      BY <2>1 DEF GateInv, GatedTree, Checked, Idle
  <1>2. GateInv => GatedTree
    BY DEF GateInv
  <1>3. QED
    BY <1>1, <1>2, InitTypeOK, StepTypeOK, StepGate, PTL DEF Spec
-----------------------------------------------------------------------------
(* What a changeset holds was captured.  Unless an edit raced it, what a    *)
(* promotion sees before its snapshot is in the timeline (or there is      *)
(* nothing in it and nothing to capture), and so is its snapshot later.    *)

In(E, content) == \E e \in 1..Len(E) : E[e].content = content

Seen(c, w, E) ==
  /\ c.pc = "select" /\ ~ c.raced => In(E, w) \/ (E = << >> /\ w = Start)
  /\ c.pc = "snapshot" /\ ~ c.raced => In(E, w)
  /\ c.pc \in {"head", "tip", "write"} /\ ~ c.raced => In(E, c.tree)

SeenInv == TreeCaptured /\ \A p \in Proc : Seen(proc[p], wd, entry)

LEMMA SeenElsewhere ==
  ASSUME NEW c, NEW w, NEW E,
         c.pc \notin {"select", "snapshot", "head", "tip", "write"}
  PROVE  Seen(c, w, E)
  BY DEF Seen

(* A capture leaves what was recorded, and records the working directory.  *)
LEMMA CaptureRecords ==
  ASSUME TypeOK
  PROVE  /\ \A x : In(entry, x) => In(Recorded, x)
         /\ In(Recorded, wd) \/ (Recorded = << >> /\ wd = Start)
         /\ \A c : Seen(c, wd, entry) => Seen(c, wd, Recorded)
  <1>1. \A x : In(entry, x) => In(Recorded, x)
    BY RecordedType DEF In
  <1>2. In(Recorded, wd) \/ (Recorded = << >> /\ wd = Start)
    <2>1. CASE wd # Captured
      <3>1. Len(Recorded) \in 1..Len(Recorded) /\ Recorded[Len(Recorded)].content = wd
        BY <2>1, RecordedType, LenProperties
      <3>2. QED
        BY <3>1 DEF In
    <2>2. CASE wd = Captured /\ entry = << >>
      BY <2>2, RecordedType DEF Captured
    <2>3. CASE wd = Captured /\ entry # << >>
      <3>1. Len(entry) \in 1..Len(entry) /\ entry[Len(entry)].content = wd /\ Recorded = entry
        BY <2>3, RecordedType, EmptySeq DEF TypeOK, Captured
      <3>2. QED
        BY <3>1 DEF In
    <2>4. QED
      BY <2>1, <2>2, <2>3
  <1>3. QED
    BY <1>1, <1>2 DEF Seen

LEMMA StepSeen ==
  ASSUME TypeOK, SeenInv, [Next]_vars
  PROVE  SeenInv'
  <1>0. /\ proc \in [Proc -> Command] /\ wd \in Content /\ entry \in Seq(Entry)
        /\ cs \in Seq(Changeset) /\ Len(cs) \in Nat
        /\ \A p \in Proc : proc[p] \in Command /\ Seen(proc[p], wd, entry)
    BY DEF TypeOK, SeenInv
  (* A step that stores no changeset, edits nothing and captures nothing.  *)
  <1>1. ASSUME NEW p \in Proc, NEW c, Becomes(p, c), Seen(c, wd, entry),
               wd' = wd, cs' = cs, entry' = entry
        PROVE  SeenInv'
    <2>1. \A q \in Proc : Seen(proc'[q], wd', entry')
      BY <1>0, <1>1 DEF Becomes
    <2>2. QED
      BY <1>1, <2>1 DEF SeenInv, TreeCaptured
  <1>2. Seen(Idle, wd, entry)
    BY SeenElsewhere DEF Idle
  <1>3. ASSUME NEW x \in Content, Edit(x)
        PROVE  SeenInv'
    <2>1. \A p \in Proc : Seen(proc'[p], wd', entry')
      BY <1>0, <1>3 DEF Edit, Seen, Command
    <2>2. QED
      BY <1>3, <2>1 DEF Edit, SeenInv, TreeCaptured
  <1>4. ASSUME entry' = Recorded, cs' = cs, wd' = wd
        PROVE  TreeCaptured'
    <2>1. \A k \in 1..Len(cs) : cs[k].raced \/ In(entry, cs[k].tree)
      BY DEF SeenInv, TreeCaptured, In
    <2>2. \A k \in 1..Len(cs) : cs[k].raced \/ In(entry', cs[k].tree)
      BY <1>4, <2>1, CaptureRecords
    <2>3. QED
      BY <1>4, <2>2 DEF TreeCaptured, In
  <1>5. CASE CaptureElsewhere
    <2>1. entry' = Recorded /\ cs' = cs /\ wd' = wd /\ proc' = proc
      BY <1>5 DEF CaptureElsewhere
    <2>2. \A p \in Proc : Seen(proc[p], wd, Recorded)
      BY <1>0, CaptureRecords
    <2>3. QED
      BY <1>4, <2>1, <2>2 DEF SeenInv
  <1>6. ASSUME NEW p \in Proc, Gate(p) \/ Propose(p)
        PROVE  SeenInv'
    <2>1. Seen([Idle EXCEPT !.pc = "capture"], wd, entry)
      BY SeenElsewhere DEF Idle
    <2>2. QED
      BY <1>1, <1>6, <2>1 DEF Gate, Propose
  <1>7. ASSUME NEW p \in Proc, Capture(p)
        PROVE  SeenInv'
    <2> DEFINE c == [proc[p] EXCEPT !.pc = "select"]
    <2>1. c.pc = "select" /\ entry' = Recorded /\ cs' = cs /\ wd' = wd /\ Becomes(p, c)
      BY <1>0, <1>7 DEF Capture, Command
    <2> HIDE DEF c
    <2>2. Seen(c, wd, Recorded)
      BY <2>1, CaptureRecords DEF Seen
    <2>3. \A q \in Proc : Seen(proc[q], wd, Recorded)
      BY <1>0, CaptureRecords
    <2>4. \A q \in Proc : Seen(proc'[q], wd, Recorded)
      BY <1>0, <2>1, <2>2, <2>3 DEF Becomes
    <2>5. QED
      BY <1>4, <2>1, <2>4 DEF SeenInv
  <1>8. ASSUME NEW p \in Proc, NEW lo, NEW hi, Select(p, lo, hi)
        PROVE  SeenInv'
    <2> DEFINE ids == Unpromoted(lo, hi)
               c == [proc[p] EXCEPT !.pc = "snapshot", !.ids = ids, !.todo = ids]
    <2>1. ids # {} => entry # << >>
      BY <1>0, EmptySeq DEF Unpromoted
    <2> HIDE DEF ids
    <2>2. c.pc = "snapshot" /\ c.raced = proc[p].raced /\ proc[p].pc = "select"
      BY <1>0, <1>8 DEF Select, Command
    <2>3. /\ Becomes(p, Idle) \/ (Becomes(p, c) /\ ids # {})
          /\ wd' = wd /\ cs' = cs /\ entry' = entry
      BY <1>8 DEF Select, ids
    <2> HIDE DEF c
    <2>4. ids # {} => Seen(c, wd, entry)
      BY <1>0, <2>1, <2>2 DEF Seen
    <2>5. QED
      BY <1>1, <1>2, <2>3, <2>4
  <1>9. ASSUME NEW p \in Proc, Snapshot(p)
        PROVE  SeenInv'
    <2> DEFINE c == [proc[p] EXCEPT !.pc = "head", !.tree = wd]
    <2>1. /\ c.pc = "head" /\ c.tree = wd /\ c.raced = proc[p].raced /\ proc[p].pc = "snapshot"
          /\ Becomes(p, c) /\ wd' = wd /\ cs' = cs /\ entry' = entry
      BY <1>0, <1>9 DEF Snapshot, Command
    <2> HIDE DEF c
    <2>2. Seen(c, wd, entry)
      BY <1>0, <2>1 DEF Seen
    <2>3. QED
      BY <1>1, <2>1, <2>2
  <1>10. ASSUME NEW p \in Proc, ReadHead(p) \/ ReadTip(p)
         PROVE  SeenInv'
    <2> DEFINE c == [proc[p] EXCEPT !.pc = "tip", !.branch = head]
               d == [proc[p] EXCEPT !.pc = "write", !.parent = tip[proc[p].branch]]
    <2>1. /\ c.pc = "tip" /\ c.tree = proc[p].tree /\ c.raced = proc[p].raced
          /\ d.pc = "write" /\ d.tree = proc[p].tree /\ d.raced = proc[p].raced
      BY <1>0 DEF Command
    <2>2. /\ Becomes(p, Idle) \/ Becomes(p, c) \/ Becomes(p, d)
          /\ wd' = wd /\ cs' = cs /\ entry' = entry /\ proc[p].pc \in {"head", "tip"}
      BY <1>10 DEF ReadHead, ReadTip
    <2> HIDE DEF c, d
    <2>3. Seen(c, wd, entry) /\ Seen(d, wd, entry)
      BY <1>0, <2>1, <2>2 DEF Seen
    <2>4. QED
      BY <1>1, <1>2, <2>2, <2>3
  <1>11. ASSUME NEW p \in Proc, NEW lo \in 1..Len(entry), NEW hi \in 1..Len(entry),
                WriteChangeset(p, lo, hi)
         PROVE  SeenInv'
    <2> DEFINE new ==
          [parents |-> {proc[p].parent} \ {0}, tree |-> proc[p].tree,
           first |-> lo, last |-> hi, by |-> p, raced |-> proc[p].raced]
               c == Wrote(proc[p])
    <2>1. new \in Changeset
      <3>1. /\ proc[p].parent \in Nat /\ proc[p].tree \in Content
            /\ proc[p].raced \in BOOLEAN /\ lo \in Nat /\ hi \in Nat
        BY <1>0 DEF Command
      <3>2. QED
        BY <3>1 DEF Changeset
    <2>2. new.tree = proc[p].tree /\ new.raced = proc[p].raced
      OBVIOUS
    <2>3. /\ Becomes(p, c) /\ cs' = Append(cs, new) /\ wd' = wd /\ entry' = entry
          /\ proc[p].pc = "write"
      BY <1>11 DEF WriteChangeset
    <2>4. Seen(c, wd, entry)
      BY <1>0, WroteType, SeenElsewhere
    <2> HIDE DEF new, c
    <2>5. /\ Len(cs') = Len(cs) + 1 /\ cs'[Len(cs) + 1] = new
          /\ \A k \in 1..Len(cs) : cs'[k] = cs[k]
      BY <1>0, <2>1, <2>3, AppendProperties
    <2>6. proc[p].raced \/ In(entry, proc[p].tree)
      BY <1>0, <2>3 DEF Seen
    <2>7. TreeCaptured'
      <3>1. \A k \in 1..Len(cs') : k \in 1..Len(cs) \/ k = Len(cs) + 1
        BY <1>0, <2>5
      <3>2. \A k \in 1..Len(cs') : cs'[k].raced \/ In(entry, cs'[k].tree)
        BY <2>2, <2>5, <2>6, <3>1 DEF SeenInv, TreeCaptured, In
      <3>3. QED
        BY <2>3, <3>2 DEF TreeCaptured, In
    <2>8. \A q \in Proc : Seen(proc'[q], wd', entry')
      BY <1>0, <2>3, <2>4 DEF Becomes
    <2>9. QED
      BY <2>7, <2>8 DEF SeenInv
  <1>12. ASSUME NEW p \in Proc, NEW e \in 1..Len(entry), Mark(p, e)
         PROVE  SeenInv'
    <2> DEFINE rest == proc[p].todo \ {e}
               step == IF rest = {} THEN "truncate" ELSE "mark"
               c == [proc[p] EXCEPT !.todo = rest, !.pc = step]
    <2>1. c.pc \in {"truncate", "mark"}
      BY <1>0 DEF Command
    <2>2. Becomes(p, c) /\ wd' = wd /\ cs' = cs
      BY <1>12 DEF Mark
    <2>3. /\ Len(entry') = Len(entry) /\ (entry = << >> => entry' = << >>)
          /\ \A f \in 1..Len(entry) : entry'[f].content = entry[f].content
      <3>1. entry' = [entry EXCEPT ![e].promoted = proc[p].made]
        BY <1>12 DEF Mark
      <3>2. /\ DOMAIN entry' = 1..Len(entry) /\ Len(entry) \in Nat
            /\ \A f \in 1..Len(entry) : entry[f] \in Entry
        BY <1>0, <3>1, ElementOfSeq, LenProperties
      <3>3. \A f \in 1..Len(entry) : entry'[f].content = entry[f].content
        BY <3>1, <3>2 DEF Entry
      <3>4. entry' \in Seq(Entry)
        BY <1>12, StepTypeOK DEF TypeOK
      <3>5. Len(entry') = Len(entry)
        BY <3>2, <3>4, LenProperties
      <3>6. QED
        BY <3>3, <3>4, <3>5, EmptySeq, <1>0
    <2>4. \A x : In(entry', x) <=> In(entry, x)
      BY <2>3 DEF In
    <2> HIDE DEF c
    <2>5. \A q \in Proc : Seen(proc[q], wd, entry')
      BY <1>0, <2>3, <2>4 DEF Seen
    <2>6. Seen(c, wd, entry')
      BY <2>1, SeenElsewhere
    <2>7. \A q \in Proc : Seen(proc'[q], wd', entry')
      BY <1>0, <2>2, <2>5, <2>6 DEF Becomes
    <2>8. TreeCaptured'
      BY <2>2, <2>4 DEF SeenInv, TreeCaptured, In
    <2>9. QED
      BY <2>7, <2>8 DEF SeenInv
  <1>13. ASSUME NEW p \in Proc, Truncate(p) \/ ClearHead(p)
         PROVE  SeenInv'
    <2> DEFINE c == [proc[p] EXCEPT !.pc = "fill", !.old = tip[proc[p].branch], !.linked = TRUE]
               d == [proc[p] EXCEPT !.pc = "point"]
    <2>1. c.pc = "fill" /\ d.pc = "point"
      BY <1>0 DEF Command
    <2>2. (Becomes(p, c) \/ Becomes(p, d)) /\ wd' = wd /\ cs' = cs /\ entry' = entry
      BY <1>13 DEF Truncate, ClearHead
    <2> HIDE DEF c, d
    <2>3. Seen(c, wd, entry) /\ Seen(d, wd, entry)
      BY <2>1, SeenElsewhere
    <2>4. QED
      BY <1>1, <2>2, <2>3
  <1>14. ASSUME NEW p \in Proc, Fill(p) \/ PointHead(p) \/ Crash(p)
         PROVE  SeenInv'
    BY <1>1, <1>2, <1>14 DEF Fill, PointHead, Crash
  <1>15. ASSUME NEW p \in Proc, NEW b \in Branch, Create(p, b) \/ Explore(p, b) \/ Switch(p, b)
         PROVE  SeenInv'
    <2>1. /\ Seen(WriteLater(b, HeadTip), wd, entry)
          /\ Seen([Idle EXCEPT !.pc = "clear", !.branch = b], wd, entry)
      BY SeenElsewhere DEF WriteLater, Idle
    <2>2. QED
      BY <1>1, <1>15, <2>1 DEF Create, Explore, Switch
  <1>16. ASSUME NEW p \in Proc, NEW b \in Branch, Delete(p, b)
         PROVE  SeenInv'
    <2>1. \A q \in Proc : Seen(proc'[q], wd, entry)
      BY <1>0, <1>16 DEF Delete, Seen, Command
    <2>2. QED
      BY <1>16, <2>1 DEF Delete, SeenInv, TreeCaptured
  <1>17. CASE UNCHANGED vars
    BY <1>17 DEF vars, SeenInv, TreeCaptured
  <1>18. QED
    BY <1>3, <1>5, <1>6, <1>7, <1>8, <1>9, <1>10, <1>11, <1>12, <1>13, <1>14, <1>15,
       <1>16, <1>17 DEF Next, Promote, BranchCommand

(* What a promotion of anybody stores, some entry of the timeline recorded, *)
(* but where an edit came between its capture and its snapshot.            *)
THEOREM HistoryTreeCaptured == Spec => []TreeCaptured
  <1>1. Init => SeenInv
    <2> SUFFICES ASSUME Init PROVE SeenInv
      OBVIOUS
    <2>1. cs = << >> /\ \A p \in Proc : proc[p] = Idle
      BY DEF Init
    <2>2. \A p \in Proc : Seen(proc[p], wd, entry)
      BY <2>1, SeenElsewhere DEF Idle
    <2>3. QED
      BY <2>1, <2>2 DEF SeenInv, TreeCaptured
  <1>2. SeenInv => TreeCaptured
    BY DEF SeenInv
  <1>3. QED
    BY <1>1, <1>2, InitTypeOK, StepTypeOK, StepSeen, PTL DEF Spec

-----------------------------------------------------------------------------
(* What is promoted stays within reach.  A promotion that has begun to mark *)
(* entries keeps its changeset in hand until its ref is written: Carried.  *)
(* The tip it truncates is the parent of that changeset, or counts as lost.*)

Carried(c) ==
  IF Promoting(c) /\ (c.pc \in {"mark", "truncate"} \/ (c.pc = "fill" /\ c.linked)) THEN {c.made} ELSE {}

Handed(c, C, F) ==
  /\ c.pc \in {"snapshot", "head", "tip", "write", "mark"} => Promoting(c)
  /\ c.pc \in {"mark", "truncate", "fill"} /\ Promoting(c) => {c.parent} \ {0} \subseteq C[c.made].parents
  /\ c.pc = "fill" /\ c.linked => c.branch \in F

Roots == Tips \cup discarded \cup lost \cup UNION {Carried(proc[p]) : p \in Proc}

ReachInv ==
  /\ \A p \in Proc : Handed(proc[p], cs, files)
  /\ \A e \in 1..Len(entry) : entry[e].promoted # 0 => entry[e].promoted \in History(Roots)

(* Reached in C from S, as History has it in cs.                           *)
Reached(C, S) ==
  {k \in 1..Len(C) : \A D \in SUBSET (1..Len(C)) :
     (S \cap (1..Len(C)) \subseteq D /\ \A j \in D : C[j].parents \subseteq D) => k \in D}

LEMMA RootReached ==
  ASSUME NEW C, NEW S, NEW k \in S \cap (1..Len(C))
  PROVE  k \in Reached(C, S)
  BY DEF Reached

(* Changesets are only added; a root given up is the parent of another.    *)
LEMMA StillReached ==
  ASSUME NEW C \in Seq(Changeset), NEW D \in Seq(Changeset), Len(C) <= Len(D),
         \A k \in 1..Len(C) : D[k] = C[k] /\ C[k].parents \subseteq 1..(k - 1),
         NEW S, NEW T,
         \A s \in S : s \in T \/ \E t \in T \cap (1..Len(D)) : s \in D[t].parents
  PROVE  Reached(C, S) \subseteq Reached(D, T)
  <1> SUFFICES ASSUME NEW k \in Reached(C, S) PROVE k \in Reached(D, T)
    OBVIOUS
  <1>1. Len(C) \in Nat /\ Len(D) \in Nat /\ k \in 1..Len(C) /\ k \in 1..Len(D)
    BY DEF Reached
  <1> SUFFICES ASSUME NEW E \in SUBSET (1..Len(D)),
                      T \cap (1..Len(D)) \subseteq E, \A j \in E : D[j].parents \subseteq E
               PROVE  k \in E
    BY <1>1 DEF Reached
  <1> DEFINE B == E \cap (1..Len(C))
  <1>2. ASSUME NEW j \in B PROVE C[j].parents \subseteq B
    <2>1. j \in 1..Len(C) /\ D[j] = C[j] /\ C[j].parents \subseteq 1..(j - 1) /\ D[j].parents \subseteq E
      OBVIOUS
    <2>2. 1..(j - 1) \subseteq 1..Len(C)
      BY <1>1, <2>1
    <2> QED BY <2>1, <2>2
  <1>3. S \cap (1..Len(C)) \subseteq B
    <2>1. ASSUME NEW s \in S \cap (1..Len(C)) PROVE s \in E
      <3>1. s \in 1..Len(D)
        BY <1>1
      <3> QED BY <3>1
    <2> QED BY <2>1
  <1>4. B \in SUBSET (1..Len(C))
    OBVIOUS
  <1>5. k \in B
    <2> HIDE DEF B
    <2> QED BY <1>2, <1>3, <1>4 DEF Reached
  <1> QED BY <1>1, <1>5
(* Roots are kept, or are parents of what is: what was within reach is.    *)
LEMMA EntriesReached ==
  ASSUME TypeOK, TypeOK', ClosedInv, ClosedInv', ReachInv,
         Len(cs) <= Len(cs'), \A k \in 1..Len(cs) : cs'[k] = cs[k],
         \A r \in Roots : r \in Roots' \/ \E t \in Roots' \cap (1..Len(cs')) : r \in cs'[t].parents,
         NEW e \in 1..Len(entry'), entry'[e].promoted # 0,
         \/ e \in 1..Len(entry) /\ entry'[e].promoted = entry[e].promoted
         \/ entry'[e].promoted \in Roots'
  PROVE  entry'[e].promoted \in History(Roots)'
  <1>1. cs \in Seq(Changeset) /\ cs' \in Seq(Changeset)
    BY DEF TypeOK
  <1>2. /\ \A k \in 1..Len(cs) : cs[k].parents \subseteq 1..(k - 1)
        /\ entry'[e].promoted \in 1..Len(cs')
    BY DEF ClosedInv, StoreClosed
  <1>3. History(Roots) = Reached(cs, Roots) /\ History(Roots)' = Reached(cs', Roots')
    BY DEF History, Reached
  <1>4. Reached(cs, Roots) \subseteq Reached(cs', Roots')
    <2> DEFINE S == Roots
               T == Roots'
    <2>1. \A r \in S : r \in T \/ \E t \in T \cap (1..Len(cs')) : r \in cs'[t].parents
      OBVIOUS
    <2> HIDE DEF S, T
    <2>2. Reached(cs, S) \subseteq Reached(cs', T)
      BY <1>1, <1>2, <2>1, StillReached
    <2> QED BY <2>2 DEF S, T
  <1>5. CASE e \in 1..Len(entry) /\ entry'[e].promoted = entry[e].promoted
    BY <1>3, <1>4, <1>5 DEF ReachInv
  <1>6. CASE entry'[e].promoted \in Roots'
    BY <1>2, <1>3, <1>6, RootReached
  <1> QED BY <1>5, <1>6

(* A step of p that rewrites no ref.                                       *)
LEMMA InHandReached ==
  ASSUME TypeOK, TypeOK', ClosedInv, ClosedInv', ReachInv, NEW p \in Proc, NEW c \in Command, Becomes(p, c),
         UNCHANGED <<files, tip>>, discarded \subseteq discarded', lost \subseteq lost',
         Len(cs) <= Len(cs'), \A k \in 1..Len(cs) : cs'[k] = cs[k],
         Carried(proc[p]) \subseteq Carried(c) \cup lost',
         Handed(c, cs', files),
         \A e \in 1..Len(entry') : entry'[e].promoted # 0 =>
            \/ e \in 1..Len(entry) /\ entry'[e].promoted = entry[e].promoted
            \/ entry'[e].promoted \in Carried(c)
  PROVE  ReachInv'
  <1>1. proc'[p] = c /\ \A q \in Proc : q # p => proc'[q] = proc[q]
    BY Becoming DEF TypeOK
  <1>2. Roots \subseteq Roots'
    <2>1. Tips' = Tips
      BY DEF Tips
    <2>2. \A q \in Proc : Carried(proc[q]) \subseteq Carried(proc'[q]) \cup lost'
      BY <1>1
    <2> QED BY <2>1, <2>2 DEF Roots
  <1>3. Carried(c) \subseteq Roots'
    BY <1>1 DEF Roots
  <1>4. ASSUME NEW q \in Proc PROVE Handed(proc'[q], cs', files')
    <2>1. CASE q = p
      BY <1>1, <2>1
    <2>2. CASE q # p
      <3>1. Handed(proc[q], cs, files) /\ Holds(proc[q], cs, Len(entry)) /\ proc'[q] = proc[q]
        BY <1>1, <2>2 DEF ReachInv, ClosedInv
      <3>2. proc[q].pc \in {"mark", "truncate", "fill"} => cs'[proc[q].made] = cs[proc[q].made]
        BY <3>1 DEF Holds, TypeOK
      <3> QED BY <3>1, <3>2 DEF Handed
    <2> QED BY <2>1, <2>2
  <1>5. ASSUME NEW e \in 1..Len(entry'), entry'[e].promoted # 0
        PROVE  entry'[e].promoted \in History(Roots)'
    BY <1>2, <1>3, <1>5, EntriesReached
  <1> QED BY <1>4, <1>5 DEF ReachInv
LEMMA StepReach ==
  ASSUME TypeOK, TypeOK', ClosedInv, ClosedInv', ReachInv, [Next]_vars
  PROVE  ReachInv'
  <1>0. /\ proc \in [Proc -> Command] /\ tip \in [Branch -> Nat] /\ files \subseteq Branch
        /\ Len(cs) \in Nat /\ Len(entry) \in Nat /\ cs \in Seq(Changeset) /\ entry \in Seq(Entry)
        /\ \A p \in Proc : /\ proc[p] \in Command /\ Handed(proc[p], cs, files)
                           /\ Holds(proc[p], cs, Len(entry))
        /\ \A p \in Proc : proc'[p] \in Command
    BY DEF TypeOK, ClosedInv, ReachInv
  (* The steps that leave changesets, entries and refs alone.              *)
  <1>1. ASSUME NEW p \in Proc, NEW c \in Command, Becomes(p, c), UNCHANGED <<entry, cs, refs, ghosts>>,
               proc[p].pc \notin {"mark", "truncate", "fill"},
               Promoting(c) => c.pc \notin {"mark", "truncate", "fill"},
               c.pc \in {"snapshot", "head", "tip", "write", "mark"} => Promoting(c), c.pc # "fill"
        PROVE  ReachInv'
    <2>1. Carried(proc[p]) = {} /\ Handed(c, cs', files)
      BY <1>1 DEF Carried, Handed
    <2> QED BY <1>1, <2>1, InHandReached DEF refs, ghosts
  <1>2. ASSUME NEW c \in Content, Edit(c)
        PROVE  ReachInv'
    <2>1. ASSUME NEW q \in Proc
          PROVE  Carried(proc'[q]) = Carried(proc[q]) /\ Handed(proc'[q], cs, files)
      <3>1. proc'[q] = proc[q] \/ proc'[q] = [proc[q] EXCEPT !.raced = TRUE]
        BY <1>0, <1>2 DEF Edit
      <3>2. /\ proc'[q].pc = proc[q].pc /\ proc'[q].ids = proc[q].ids /\ proc'[q].made = proc[q].made
            /\ proc'[q].linked = proc[q].linked /\ proc'[q].parent = proc[q].parent
            /\ proc'[q].branch = proc[q].branch
        BY <1>0, <3>1 DEF Command
      <3> QED BY <1>0, <3>2 DEF Carried, Handed, Promoting
    <2>2. UNCHANGED <<cs, entry, files, tip, discarded, lost>>
      BY <1>2 DEF Edit, refs, ghosts
    <2>3. Roots' = Roots
      BY <2>1, <2>2 DEF Roots, Tips
    <2>4. ASSUME NEW e \in 1..Len(entry'), entry'[e].promoted # 0
          PROVE  entry'[e].promoted \in History(Roots)'
      BY <1>0, <2>2, <2>3, <2>4, EntriesReached
    <2> QED BY <2>1, <2>2, <2>4 DEF ReachInv
  <1>3. ASSUME entry' = Recorded
        PROVE  \A e \in 1..Len(entry') : entry'[e].promoted # 0 =>
                 e \in 1..Len(entry) /\ entry'[e].promoted = entry[e].promoted
    <2>1. [content |-> wd, promoted |-> 0].promoted = 0
      OBVIOUS
    <2> QED BY <1>3, <2>1, RecordedType
  <1>4. CASE CaptureElsewhere
    <2>1. UNCHANGED <<cs, files, tip, proc, discarded, lost>> /\ entry' = Recorded
      BY <1>4 DEF CaptureElsewhere, refs, ghosts
    <2>2. Roots' = Roots
      BY <2>1 DEF Roots, Tips
    <2>3. ASSUME NEW e \in 1..Len(entry'), entry'[e].promoted # 0
          PROVE  entry'[e].promoted \in History(Roots)'
      BY <1>0, <1>3, <2>1, <2>2, <2>3, EntriesReached
    <2> QED BY <1>0, <2>1, <2>3 DEF ReachInv
  <1>5. ASSUME NEW p \in Proc, Capture(p)
        PROVE  ReachInv'
    <2> DEFINE c == [proc[p] EXCEPT !.pc = "select"]
    <2>1. c \in Command
      BY <1>0, CommandTypes
    <2>3. c.pc = "select" /\ proc[p].pc = "capture"
      BY <1>0, <1>5 DEF Capture, Command
    <2>2. Becomes(p, c) /\ entry' = Recorded /\ UNCHANGED <<cs, files, tip, discarded, lost>>
      BY <1>5 DEF Capture, refs, ghosts
    <2> HIDE DEF c
    <2>4. Carried(proc[p]) = {} /\ Handed(c, cs, files)
      BY <2>3 DEF Carried, Handed
    <2> QED BY <1>0, <1>3, <2>1, <2>2, <2>4, InHandReached
  <1>6. ASSUME NEW p \in Proc, Gate(p) \/ Propose(p)
        PROVE  ReachInv'
    <2>1. [Idle EXCEPT !.pc = "capture"] \in Command /\ [Idle EXCEPT !.pc = "capture"].pc = "capture"
      BY IdleType DEF Idle
    <2> QED BY <1>1, <1>6, <2>1 DEF Gate, Propose
  <1>7. Idle \in Command /\ Idle.pc = "idle"
    BY IdleType DEF Idle
  <1>8. ASSUME NEW p \in Proc, NEW lo, NEW hi, Select(p, lo, hi)
        PROVE  ReachInv'
    <2> DEFINE ids == Unpromoted(lo, hi)
               c == [proc[p] EXCEPT !.pc = "snapshot", !.ids = ids, !.todo = ids]
    <2>1. ids \in SUBSET (Nat \ {0})
      BY <1>0 DEF Unpromoted
    <2>2. c \in Command /\ c.pc = "snapshot" /\ c.ids = ids
      <3> HIDE DEF ids
      <3>1. c \in Command
        BY <1>0, <2>1, CommandTypes
      <3> QED BY <1>0, <3>1 DEF Command
    <2>3. proc[p].pc = "select" /\ Becomes(p, IF ids = {} THEN Idle ELSE c) /\ UNCHANGED <<entry, cs, refs, ghosts>>
      BY <1>8 DEF Select
    <2> HIDE DEF ids, c
    <2>4. CASE ids = {}
      BY <1>1, <1>7, <2>3, <2>4
    <2>5. CASE ids # {}
      BY <1>1, <2>2, <2>3, <2>5 DEF Promoting
    <2> QED BY <2>4, <2>5
  <1>9. ASSUME NEW p \in Proc, Snapshot(p)
        PROVE  ReachInv'
    <2> DEFINE c == [proc[p] EXCEPT !.pc = "head", !.tree = wd]
    <2>1. c \in Command /\ c.pc = "head" /\ c.ids = proc[p].ids
      <3>1. c \in Command
        BY <1>0, CommandTypes DEF TypeOK
      <3> QED BY <1>0, <3>1 DEF Command
    <2>2. proc[p].pc = "snapshot" /\ Becomes(p, c) /\ UNCHANGED <<entry, cs, refs, ghosts>>
      BY <1>9 DEF Snapshot
    <2>3. Promoting(c)
      BY <1>0, <2>1, <2>2 DEF Handed, Promoting
    <2> HIDE DEF c
    <2> QED BY <1>1, <2>1, <2>2, <2>3
  <1>10. ASSUME NEW p \in Proc, ReadHead(p)
         PROVE  ReachInv'
    <2> DEFINE c == [proc[p] EXCEPT !.pc = "tip", !.branch = head]
    <2>1. head # NoBranch => c \in Command /\ c.pc = "tip" /\ c.ids = proc[p].ids
      <3>1. head # NoBranch => c \in Command
        BY <1>0, CommandTypes DEF TypeOK
      <3> QED BY <1>0, <3>1 DEF Command
    <2>2. /\ proc[p].pc = "head" /\ UNCHANGED <<entry, cs, refs, ghosts>>
          /\ Becomes(p, Idle) \/ (head # NoBranch /\ Becomes(p, c))
      BY <1>10 DEF ReadHead
    <2>3. head # NoBranch => Promoting(c)
      BY <1>0, <2>1, <2>2 DEF Handed, Promoting
    <2> HIDE DEF c
    <2> QED BY <1>1, <1>7, <2>1, <2>2, <2>3
  <1>11. ASSUME NEW p \in Proc, ReadTip(p)
         PROVE  ReachInv'
    <2> DEFINE t == tip[proc[p].branch]
               c == [proc[p] EXCEPT !.pc = "write", !.parent = t]
    <2>1. t \in Nat
      BY <1>0 DEF Command
    <2>2. c \in Command /\ c.pc = "write" /\ c.ids = proc[p].ids
      <3> HIDE DEF t
      <3>1. c \in Command
        BY <1>0, <2>1, CommandTypes
      <3> QED BY <1>0, <3>1 DEF Command
    <2>3. proc[p].pc = "tip" /\ Becomes(p, c) /\ UNCHANGED <<entry, cs, refs, ghosts>>
      BY <1>11 DEF ReadTip
    <2>4. Promoting(c)
      BY <1>0, <2>2, <2>3 DEF Handed, Promoting
    <2> HIDE DEF c
    <2> QED BY <1>1, <2>2, <2>3, <2>4
  <1>12. ASSUME NEW p \in Proc, NEW lo \in 1..Len(entry), NEW hi \in 1..Len(entry),
                WriteChangeset(p, lo, hi)
         PROVE  ReachInv'
    <2> DEFINE new ==
          [parents |-> {proc[p].parent} \ {0}, tree |-> proc[p].tree,
           first |-> lo, last |-> hi, by |-> p, raced |-> proc[p].raced]
               c == Wrote(proc[p])
    <2>1. proc[p].parent \in Nat /\ proc[p].tree \in Content /\ proc[p].raced \in BOOLEAN
      BY <1>0 DEF Command
    <2>2. new \in Changeset /\ new.parents = {proc[p].parent} \ {0}
      BY <1>0, <2>1 DEF Changeset
    <2>3. /\ proc[p].pc = "write" /\ Becomes(p, c) /\ cs' = Append(cs, new)
          /\ UNCHANGED <<entry, files, tip, discarded, lost>>
      BY <1>12 DEF WriteChangeset, refs, ghosts
    <2> HIDE DEF new
    <2>4. /\ Len(cs') = Len(cs) + 1 /\ cs'[Len(cs) + 1] = new
          /\ \A k \in 1..Len(cs) : cs'[k] = cs[k]
      BY <1>0, <2>2, <2>3, AppendProperties
    <2>5. /\ c \in Command /\ c.pc = "mark" /\ c.made = Len(cs) + 1 /\ c.parent = proc[p].parent
          /\ c.ids = proc[p].ids
      BY <1>0, WroteType
    <2> HIDE DEF c
    <2>6. Handed(c, cs', files)
      BY <1>0, <2>2, <2>3, <2>4, <2>5 DEF Handed, Promoting
    <2>7. Carried(proc[p]) = {}
      BY <2>3 DEF Carried
    <2> QED BY <1>0, <2>3, <2>4, <2>5, <2>6, <2>7, InHandReached
  <1>13. ASSUME NEW p \in Proc, NEW e \in 1..Len(entry), Mark(p, e)
         PROVE  ReachInv'
    <2> DEFINE k == proc[p].made
               rest == proc[p].todo \ {e}
               c == [proc[p] EXCEPT !.todo = rest,
                                    !.pc = IF rest = {} THEN "truncate" ELSE "mark"]
    <2>1. rest \in SUBSET (Nat \ {0})
      BY <1>0 DEF Command
    <2>2. c \in Command
      BY <1>0, <2>1, CommandTypes
    <2>3. /\ c.parent = proc[p].parent /\ c.made = k /\ c.ids = proc[p].ids
          /\ c.pc \in {"truncate", "mark"}
      BY <1>0 DEF Command
    <2>4. /\ proc[p].pc = "mark" /\ entry' = [entry EXCEPT ![e].promoted = k] /\ Becomes(p, c)
          /\ UNCHANGED <<cs, files, tip, discarded, lost>>
      BY <1>13 DEF Mark, refs, ghosts
    <2> HIDE DEF c
    <2>5. /\ Len(entry') = Len(entry)
          /\ \A f \in 1..Len(entry) : entry'[f].promoted = IF f = e THEN k ELSE entry[f].promoted
      <3>1. \A f \in 1..Len(entry) : entry[f] \in Entry
        BY <1>0, ElementOfSeq
      <3> HIDE DEF k
      <3> QED BY <1>0, <2>4, <3>1 DEF Entry
    <2>6. Promoting(proc[p]) /\ Promoting(c)
      BY <1>0, <2>3, <2>4 DEF Handed, Promoting
    <2>7. Carried(c) = {k} /\ Carried(proc[p]) = {k} /\ Handed(c, cs, files)
      BY <1>0, <2>3, <2>4, <2>6 DEF Carried, Handed
    <2> HIDE DEF k
    <2> QED BY <1>0, <2>2, <2>4, <2>5, <2>7, InHandReached
  (* The steps that write refs.                                            *)
  <1>14. ASSUME UNCHANGED <<cs, entry>>, \A q \in Proc : Handed(proc'[q], cs, files'),
                \A r \in Roots : r \in Roots' \/ \E t \in Roots' \cap (1..Len(cs)) : r \in cs[t].parents
         PROVE  ReachInv'
    <2>1. ASSUME NEW e \in 1..Len(entry'), entry'[e].promoted # 0
          PROVE  entry'[e].promoted \in History(Roots)'
      BY <1>0, <1>14, <2>1, EntriesReached
    <2> QED BY <1>14, <2>1 DEF ReachInv
  <1>15. ASSUME NEW p \in Proc, Truncate(p)
         PROVE  ReachInv'
    <2> DEFINE b == proc[p].branch
               t == tip[b]
               c == [proc[p] EXCEPT !.pc = "fill", !.old = t, !.linked = TRUE]
    <2>1. b \in Branch /\ t \in Nat
      BY <1>0 DEF Command
    <2>2. /\ proc[p].pc = "truncate" /\ files' = files \cup {b} /\ tip' = [tip EXCEPT ![b] = 0]
          /\ Becomes(p, c) /\ UNCHANGED <<cs, entry>>
          /\ discarded \subseteq discarded' /\ lost \subseteq lost'
          /\ Promoting(proc[p]) => {t} \ {0, proc[p].parent} \subseteq lost'
          /\ ~Promoting(proc[p]) => {t} \ {0} \subseteq discarded'
      BY <1>15 DEF Truncate
    <2>3. c \in Command
      <3> HIDE DEF t
      <3> QED BY <1>0, <2>1, CommandTypes
    <2>4. /\ c.pc = "fill" /\ c.linked /\ c.branch = b /\ c.made = proc[p].made /\ c.ids = proc[p].ids
          /\ c.parent = proc[p].parent
      BY <1>0 DEF Command
    <2> HIDE DEF c, t
    <2>5. proc'[p] = c /\ \A q \in Proc : q # p => proc'[q] = proc[q]
      BY <1>0, <2>2, <2>3, Becoming
    <2>6. Carried(c) = Carried(proc[p]) /\ (Promoting(proc[p]) => Carried(c) = {proc[p].made})
      BY <2>2, <2>4 DEF Carried, Promoting
    <2>7. \A q \in Proc : Carried(proc[q]) \subseteq Carried(proc'[q])
      BY <2>5, <2>6
    <2>8. \A q \in Proc : Carried(proc'[q]) \subseteq Roots'
      BY DEF Roots
    <2>9. ASSUME NEW q \in Proc PROVE Handed(proc'[q], cs, files')
      <3>1. CASE q = p
        BY <1>0, <2>2, <2>4, <2>5, <3>1 DEF Handed, Promoting
      <3>2. CASE q # p
        BY <1>0, <2>2, <2>5, <3>2 DEF Handed
      <3> QED BY <3>1, <3>2
    <2>10. proc[p].made \in 1..Len(cs)
      BY <1>0, <2>2 DEF Holds
    <2>11. ASSUME NEW r \in Tips
           PROVE  r \in Roots' \/ \E k \in Roots' \cap (1..Len(cs)) : r \in cs[k].parents
      <3>1. PICK a \in files : r = tip[a] /\ r # 0
        BY DEF Tips
      <3>2. CASE a # b
        <4>1. r \in Tips'
          BY <1>0, <2>2, <3>1, <3>2 DEF Tips
        <4> QED BY <4>1 DEF Roots
      <3>3. CASE a = b /\ ~(Promoting(proc[p]) /\ r = proc[p].parent)
        <4>1. r \in lost' \cup discarded'
          BY <2>2, <3>1, <3>3 DEF t
        <4> QED BY <4>1 DEF Roots
      <3>4. CASE Promoting(proc[p]) /\ r = proc[p].parent
        <4>1. proc[p].made \in Roots'
          BY <2>5, <2>6, <2>8, <3>4
        <4>2. r \in cs[proc[p].made].parents
          BY <1>0, <2>2, <3>1, <3>4 DEF Handed
        <4> QED BY <2>10, <4>1, <4>2
      <3> QED BY <3>2, <3>3, <3>4
    <2>12. \A r \in Roots : r \in Roots' \/ \E k \in Roots' \cap (1..Len(cs)) : r \in cs[k].parents
      <3>1. discarded' \cup lost' \subseteq Roots'
        BY DEF Roots
      <3>2. \A r \in Roots : r \in Tips \/ r \in discarded \/ r \in lost \/ \E q \in Proc : r \in Carried(proc[q])
        BY DEF Roots
      <3> QED BY <2>2, <2>7, <2>8, <2>11, <3>1, <3>2
    <2> QED BY <1>14, <2>2, <2>9, <2>12
  <1>16. ASSUME NEW p \in Proc, Fill(p)
         PROVE  ReachInv'
    <2> DEFINE b == proc[p].branch
               made == proc[p].made
    <2>1. /\ proc[p].pc = "fill" /\ Becomes(p, Idle) /\ UNCHANGED <<cs, entry, files>> /\ discarded' = discarded
          /\ proc[p].linked => /\ tip' = [tip EXCEPT ![b] = made]
                               /\ lost' = lost \cup ({tip[b]} \ {0, made})
          /\ ~proc[p].linked => tip' = tip /\ lost' = lost
      BY <1>16 DEF Fill
    <2>2. b \in Branch /\ made # 0
      BY <1>0, <2>1 DEF Command, Holds
    <2>3. proc'[p] = Idle /\ \A q \in Proc : q # p => proc'[q] = proc[q]
      BY <1>0, <1>7, <2>1, Becoming
    <2>4. \A q \in Proc : Handed(proc'[q], cs, files')
      BY <1>0, <1>7, <2>1, <2>3 DEF Handed
    <2>5. lost \subseteq lost' /\ lost' \cup discarded \cup Tips' \subseteq Roots'
      BY <2>1 DEF Roots
    <2>6. \A q \in Proc : q # p => Carried(proc[q]) \subseteq Roots'
      BY <2>3 DEF Roots
    <2>7. ASSUME NEW r \in Carried(proc[p]) PROVE r \in Tips'
      <3>1. proc[p].linked /\ r = made
        BY <2>1, <2>7 DEF Carried
      <3>2. b \in files /\ tip'[b] = made
        BY <1>0, <2>1, <2>2, <3>1 DEF Handed
      <3> QED BY <2>1, <2>2, <3>1, <3>2 DEF Tips
    <2>8. ASSUME NEW r \in Tips PROVE r \in Tips' \cup lost'
      <3>1. PICK a \in files : r = tip[a] /\ r # 0
        BY DEF Tips
      <3>2. CASE a # b \/ ~proc[p].linked
        BY <1>0, <2>1, <3>1, <3>2 DEF Tips
      <3>3. CASE a = b /\ proc[p].linked
        BY <1>0, <2>1, <2>2, <3>1, <3>3 DEF Tips
      <3> QED BY <3>2, <3>3
    <2>9. Roots \subseteq Roots'
      <3>1. \A r \in Roots : r \in Tips \/ r \in discarded \/ r \in lost \/ \E q \in Proc : r \in Carried(proc[q])
        BY DEF Roots
      <3> QED BY <2>5, <2>6, <2>7, <2>8, <3>1
    <2> QED BY <1>14, <2>1, <2>4, <2>9
  <1>17. ASSUME NEW p \in Proc, NEW b \in Branch, Create(p, b) \/ Explore(p, b)
         PROVE  ReachInv'
    <2>1. HeadTip \in Nat
      BY <1>0, <1>17 DEF Create, Explore, HeadTip, TypeOK
    <2> DEFINE c == WriteLater(b, HeadTip)
    <2>2. c \in Command
      <3>1. \A t \in Nat : WriteLater(b, t) \in Command
        BY IdleType
      <3> QED BY <2>1, <3>1
    <2>3. c.pc = "truncate" /\ ~Promoting(c)
      BY DEF WriteLater, Idle, Promoting
    <2>4. proc[p].pc = "idle" /\ Becomes(p, c) /\ UNCHANGED <<entry, cs, refs, ghosts>>
      BY <1>17 DEF Create, Explore, Starts
    <2> HIDE DEF c
    <2> QED BY <1>1, <2>2, <2>3, <2>4
  <1>18. ASSUME NEW p \in Proc, NEW b \in Branch, Switch(p, b)
         PROVE  ReachInv'
    <2>1. [Idle EXCEPT !.pc = "clear", !.branch = b] \in Command /\ [Idle EXCEPT !.pc = "clear", !.branch = b].pc = "clear"
      BY IdleType DEF Idle
    <2> QED BY <1>1, <1>18, <2>1 DEF Switch, Starts
  <1>19. ASSUME NEW p \in Proc, NEW b \in Branch, Delete(p, b)
         PROVE  ReachInv'
    <2> DEFINE Open(q) == proc[q].pc = "fill" /\ proc[q].linked /\ proc[q].branch = b
    <2>1. /\ files' = files \ {b} /\ tip' = [tip EXCEPT ![b] = 0] /\ lost' = lost
          /\ UNCHANGED <<cs, entry>> /\ discarded \subseteq discarded' /\ {tip[b]} \ {0} \subseteq discarded'
          /\ \A q \in Proc : Open(q) => {proc[q].made} \ {0} \subseteq discarded'
          /\ \A q \in Proc : proc'[q] = IF Open(q) THEN [proc[q] EXCEPT !.linked = FALSE] ELSE proc[q]
      BY <1>19 DEF Delete
    <2>2. lost' \cup discarded' \cup Tips' \subseteq Roots'
      BY DEF Roots
    <2>3. ASSUME NEW q \in Proc
          PROVE  Handed(proc'[q], cs, files') /\ Carried(proc[q]) \subseteq Roots'
      <3>1. CASE Open(q)
        <4> DEFINE c == [proc[q] EXCEPT !.linked = FALSE]
        <4>1. /\ c.pc = "fill" /\ ~c.linked /\ c.ids = proc[q].ids /\ c.parent = proc[q].parent
              /\ c.made = proc[q].made
          BY <1>0, <3>1 DEF Command
        <4>2. proc'[q] = c
          BY <2>1, <3>1
        <4> HIDE DEF c
        <4>3. Handed(c, cs, files')
          BY <1>0, <3>1, <4>1 DEF Handed, Promoting
        <4>4. proc[q].made # 0
          BY <1>0, <3>1 DEF Holds
        <4>5. Carried(proc[q]) \subseteq discarded'
          BY <2>1, <3>1, <4>4 DEF Carried
        <4> QED BY <2>2, <4>2, <4>3, <4>5
      <3>2. CASE ~Open(q)
        <4>1. proc'[q] = proc[q]
          BY <2>1, <3>2
        <4>2. Handed(proc[q], cs, files')
          BY <1>0, <2>1, <3>2 DEF Handed
        <4> QED BY <4>1, <4>2 DEF Roots
      <3> QED BY <3>1, <3>2
    <2>4. ASSUME NEW r \in Tips PROVE r \in Roots'
      <3>1. PICK a \in files : r = tip[a] /\ r # 0
        BY DEF Tips
      <3>2. CASE a # b
        <4>1. r \in Tips'
          BY <1>0, <2>1, <3>1, <3>2 DEF Tips
        <4> QED BY <2>2, <4>1
      <3>3. CASE a = b
        BY <2>1, <2>2, <3>1, <3>3
      <3> QED BY <3>2, <3>3
    <2>5. Roots \subseteq Roots'
      <3>1. \A r \in Roots : r \in Tips \/ r \in discarded \/ r \in lost \/ \E q \in Proc : r \in Carried(proc[q])
        BY DEF Roots
      <3> QED BY <2>1, <2>2, <2>3, <2>4, <3>1
    <2> QED BY <1>14, <2>1, <2>3, <2>5
  <1>20. ASSUME NEW p \in Proc, ClearHead(p) \/ PointHead(p) \/ Crash(p)
         PROVE  ReachInv'
    <2>1. UNCHANGED <<cs, entry, files, tip>> /\ discarded' = discarded /\ lost \subseteq lost'
      BY <1>20 DEF ClearHead, PointHead, Crash, refs, ghosts
    <2>2. Carried(proc[p]) \subseteq lost'
      <3>1. CASE ClearHead(p) \/ PointHead(p)
        BY <3>1 DEF ClearHead, PointHead, Carried
      <3>2. CASE Crash(p)
        <4>1. LostWith(proc[p]) \subseteq lost'
          BY <3>2 DEF Crash
        <4>2. proc[p].pc = "fill" => proc[p].made # 0
          BY <1>0 DEF Holds
        <4>3. Carried(proc[p]) \subseteq LostWith(proc[p])
          BY <4>2 DEF Carried, LostWith, Promoting
        <4> QED BY <4>1, <4>3
      <3> QED BY <1>20, <3>1, <3>2
    <2>3. \E c \in Command : Becomes(p, c) /\ c.pc \in {"idle", "point"}
      <3>1. CASE ClearHead(p)
        <4> DEFINE c == [proc[p] EXCEPT !.pc = "point"]
        <4>1. c \in Command
          BY <1>0, CommandTypes
        <4>2. c.pc = "point"
          BY <1>0 DEF Command
        <4> QED BY <3>1, <4>1, <4>2 DEF ClearHead
      <3>2. CASE PointHead(p) \/ Crash(p)
        BY <1>7, <3>2 DEF PointHead, Crash
      <3> QED BY <1>20, <3>1, <3>2
    <2>4. PICK c \in Command : Becomes(p, c) /\ c.pc \in {"idle", "point"}
      BY <2>3
    <2>5. Handed(c, cs', files)
      BY <2>4 DEF Handed
    <2> QED BY <1>0, <2>1, <2>2, <2>4, <2>5, InHandReached
  <1>21. CASE UNCHANGED vars
    BY <1>21 DEF vars, refs, ghosts, ReachInv, Roots, Tips, History
  <1> QED
    BY <1>2, <1>4, <1>5, <1>6, <1>8, <1>9, <1>10, <1>11, <1>12, <1>13, <1>15, <1>16, <1>17,
       <1>18, <1>19, <1>20, <1>21 DEF Next, Promote, BranchCommand

(* With no command running, the changeset an entry was promoted to is       *)
(* reached from a branch, or from a tip a user dropped, a process that died *)
(* took with it, or an overlapping write overwrote: no order of promotions, *)
(* branch commands and deaths takes it away otherwise.                     *)
THEOREM HistoryPromotedReachable == Spec => []PromotedReachable
  <1>1. Init => ReachInv
    BY EmptySeq DEF Init, ReachInv, Handed, Idle
  <1>2. ReachInv => PromotedReachable
    <2> SUFFICES ASSUME ReachInv, Quiet PROVE Roots = Tips \cup discarded \cup lost
      BY DEF PromotedReachable, ReachInv
    <2>1. \A p \in Proc : Carried(proc[p]) = {}
      BY DEF Quiet, Carried
    <2> QED BY <2>1 DEF Roots
  <1> QED
    BY <1>1, <1>2, InitTypeOK, StepTypeOK, InitClosed, StepClosed, StepReach, PTL DEF Spec
=============================================================================
