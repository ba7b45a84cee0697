--------------------------- MODULE Timeline_proof ---------------------------
(***************************************************************************)
(* Four facts about the capture engine for any number of capturers, paths *)
(* and contents, whatever the order of edits, captures, prunes and         *)
(* crashes: no blob the timeline refers to is missing from the object      *)
(* store; when every write gives a file a new mtime, the fast path never   *)
(* hides an edit; as long as every capture ends with its entry, every row  *)
(* has been recorded; and when, besides, the watcher alone captures, the   *)
(* changes to a path follow on from one another.                           *)
(***************************************************************************)
EXTENDS Timeline, TLAPS

USE GoneAssumption, SizeOfAssumption, WatcherAssumption, CoarseMtimeAssumption,
    BoundsAssumption

-----------------------------------------------------------------------------
(* Type correctness.                                                       *)

LEMMA AtType == \A step \in {"idle", "down", "watching", "list"} : At(step) \in Capture
  BY DEF At, Capture, Blob, Row, NoRow

LEMMA RestType == \A c \in Capturer : Rest(c) \in Capture /\ Dead(c) \in Capture
  BY AtType DEF Rest, Dead

(* The states a capture goes through have the type of one.                 *)
LEMMA CaptureTypes ==
  ASSUME NEW v \in Capture, NEW p \in Path
  PROVE  /\ \A found \in SUBSET Path : Listed(v, found) \in Capture
         /\ Skipped(v, p) \in Capture
         /\ \A new \in Blob : WithChange(v, p, new) \in Capture
         /\ \A new \in Blob : Compared(v, new) \in Capture
         /\ Upserted(v) \in Capture
         /\ Swept(v, p) \in Capture
         /\ \A t \in Nat : [v EXCEPT !.pc = "parent", !.time = t] \in Capture
         /\ \A m \in Nat : [v EXCEPT !.pc = "insert", !.parent = m] \in Capture
  <1>1. ASSUME NEW new \in Blob
        PROVE  WithChange(v, p, new) \in Capture
    <2>1. [path |-> p, old |-> v.base[p].blob, new |-> new] \in Change
      BY DEF Capture, Row, Change
    <2>2. QED
      BY <2>1 DEF WithChange, Capture
  <1>2. Swept(v, p) \in Capture
    <2> DEFINE u == WithChange(v, p, Gone)
    <2>1. u \in Capture
      BY <1>1 DEF Blob
    <2>2. [u.base EXCEPT ![p] = NoRow] \in [Path -> Row]
      BY <2>1 DEF Capture, Row, NoRow, Blob
    <2>3. QED
      BY <2>1, <2>2 DEF Swept, Capture
  <1>3. \A found \in SUBSET Path : Listed(v, found) \in Capture
    BY DEF Listed, Capture
  <1>4. Skipped(v, p) \in Capture
    BY DEF Skipped, Capture
  <1>5. \A new \in Blob : Compared(v, new) \in Capture
    BY DEF Compared, Capture
  <1>6. Upserted(v) \in Capture
    BY DEF Upserted, Capture, Blob
  <1>7. \A t \in Nat : [v EXCEPT !.pc = "parent", !.time = t] \in Capture
    BY DEF Capture
  <1>8. \A m \in Nat : [v EXCEPT !.pc = "insert", !.parent = m] \in Capture
    BY DEF Capture
  <1>9. QED
    BY <1>1, <1>2, <1>3, <1>4, <1>5, <1>6, <1>7, <1>8

LEMMA OpenedType ==
  ASSUME TypeOK, NEW v \in Capture, NEW p \in Path, content[p] # Gone
  PROVE  Opened(v, p) \in Capture
  <1>1. SizeOf[content[p]] \in Nat /\ mtime[p] \in Nat
    BY DEF TypeOK, Blob
  <1>2. QED
    BY <1>1 DEF Opened, Capture

(* A capturer's step replaces its own state only.                          *)
LEMMA Becoming ==
  ASSUME TypeOK, NEW c \in Capturer, NEW v \in Capture, Becomes(c, v)
  PROVE  /\ cap' \in [Capturer -> Capture]
         /\ cap'[c] = v
         /\ \A d \in Capturer : d # c => cap'[d] = cap[d]
  BY DEF TypeOK, Becomes

LEMMA InitTypeOK == Init => TypeOK
  <1> SUFFICES ASSUME Init PROVE TypeOK
    OBVIOUS
  <1>1. cap \in [Capturer -> Capture]
    BY RestType DEF Init
  <1>2. row \in [Path -> Row]
    BY DEF Init, NoRow, Row, Blob
  <1>3. /\ edits \in 0 .. MaxEdits /\ prunes \in 0 .. MaxPrunes
        /\ crashes \in 0 .. MaxCrashes
    BY DEF Init
  <1>4. /\ content \in [Path -> Blob] /\ mtime \in [Path -> Nat]
        /\ objects \subseteq Content /\ entries \subseteq Entry /\ nextId \in Nat \ {0}
    BY DEF Init
  <1>5. dirty \in BOOLEAN /\ now \in Nat /\ aborted \in BOOLEAN
    BY DEF Init
  <1>6. recorded \subseteq Path \X Blob
    BY DEF Init
  <1>7. QED
    BY <1>1, <1>2, <1>3, <1>4, <1>5, <1>6 DEF TypeOK

LEMMA StepTypeOK ==
  ASSUME TypeOK, [Next]_vars
  PROVE  TypeOK'
  <1>0. cap \in [Capturer -> Capture]
    BY DEF TypeOK
  <1>1. ASSUME NEW p \in Path, NEW c \in Content, Write(p, c)
        PROVE  TypeOK'
    <2>1. edits' \in 0 .. MaxEdits /\ now' \in Nat /\ dirty' \in BOOLEAN
      BY <1>1 DEF TypeOK, Write, Notify
    <2>2. content' \in [Path -> Blob] /\ mtime' \in [Path -> Nat]
      BY <1>1 DEF TypeOK, Write, Blob
    <2>3. QED
      BY <1>1, <2>1, <2>2 DEF TypeOK, Write, db, ghosts
  <1>2. ASSUME NEW p \in Path, Remove(p)
        PROVE  TypeOK'
    BY <1>2 DEF TypeOK, Remove, Notify, Blob, db, bounds, ghosts
  <1>3. CASE WatchStart
    <2>1. Watcher \in Capturer /\ Becomes(Watcher, At("watching"))
      BY <1>3 DEF WatchStart, Capturer, Becomes
    <2>2. cap' \in [Capturer -> Capture]
      BY <2>1, AtType, Becoming
    <2>3. QED
      BY <1>3, <2>2 DEF TypeOK, WatchStart, disk, db, bounds, ghosts
  <1>4. ASSUME NEW c \in Capturer, Load(c)
        PROVE  TypeOK'
    <2> DEFINE v == [At("list") EXCEPT !.base = row]
    <2>1. v \in Capture
      <3>1. At("list") \in Capture /\ row \in [Path -> Row]
        BY AtType DEF TypeOK
      <3>2. QED
        BY <3>1 DEF Capture
    <2>2. Becomes(c, v) /\ dirty' \in BOOLEAN
      BY <1>4 DEF Load, TypeOK
    <2>3. cap' \in [Capturer -> Capture]
      BY <2>1, <2>2, Becoming
    <2>4. QED
      BY <1>4, <2>2, <2>3 DEF TypeOK, Load, disk, db, bounds, ghosts
  <1>5. ASSUME NEW c \in Capturer, List(c)
        PROVE  TypeOK'
    <2>1. cap[c] \in Capture
      BY <1>0
    <2>2. \A found \in SUBSET Path : Listed(cap[c], found) \in Capture
      BY <2>1 DEF Listed, Capture
    <2>3. cap' \in [Capturer -> Capture]
      BY <1>5, <2>2, Becoming DEF List
    <2>4. QED
      BY <1>5, <2>3 DEF TypeOK, List, disk, db, bounds, ghosts
  <1>6. ASSUME NEW c \in Capturer, NEW p \in Path, Stat(c, p)
        PROVE  TypeOK'
    <2>1. cap' \in [Capturer -> Capture]
      BY <1>0, <1>6, CaptureTypes, OpenedType, Becoming DEF Stat
    <2>2. QED
      BY <1>6, <2>1 DEF TypeOK, Stat, disk, db, bounds, ghosts
  <1>7. ASSUME NEW c \in Capturer, NEW p \in Path, Read(c, p)
        PROVE  TypeOK'
    <2>1. content[p] \in Blob /\ content[p] \in Content
      BY <1>7 DEF Read, TypeOK, Blob
    <2>2. Compared(cap[c], content[p]) \in Capture
      BY <1>0, <2>1, CaptureTypes
    <2>3. WithChange(Compared(cap[c], content[p]), p, content[p]) \in Capture
      BY <2>1, <2>2, CaptureTypes
    <2>4. cap' \in [Capturer -> Capture]
      BY <1>7, <2>2, <2>3, Becoming DEF Read
    <2>5. objects' \subseteq Content
      BY <1>7, <2>1 DEF Read, TypeOK
    <2>6. QED
      BY <1>7, <2>4, <2>5 DEF TypeOK, Read, disk, db, bounds, ghosts
  <1>8. ASSUME NEW c \in Capturer, NEW p \in Path, Upsert(c, p)
        PROVE  TypeOK'
    <2>1. cap' \in [Capturer -> Capture]
      BY <1>0, <1>8, CaptureTypes, Becoming DEF Upsert
    <2>2. [blob |-> cap[c].blob, size |-> cap[c].size, mtime |-> cap[c].mtime] \in Row
      BY <1>0 DEF Capture, Row
    <2>3. row' \in [Path -> Row]
      BY <1>8, <2>2 DEF Upsert, TypeOK
    <2>4. QED
      BY <1>8, <2>1, <2>3 DEF TypeOK, Upsert, disk, bounds, ghosts
  <1>9. ASSUME NEW c \in Capturer, NEW p \in Path, Sweep(c, p)
        PROVE  TypeOK'
    <2>1. cap' \in [Capturer -> Capture]
      BY <1>0, <1>9, CaptureTypes, Becoming DEF Sweep
    <2>2. row' \in [Path -> Row]
      BY <1>9 DEF Sweep, TypeOK, NoRow, Row, Blob
    <2>3. QED
      BY <1>9, <2>1, <2>2 DEF TypeOK, Sweep, disk, bounds, ghosts
  <1>10. ASSUME NEW c \in Capturer, NoChange(c)
         PROVE  TypeOK'
    <2>1. cap' \in [Capturer -> Capture]
      BY <1>10, RestType, Becoming DEF NoChange
    <2>2. QED
      BY <1>10, <2>1 DEF TypeOK, NoChange, disk, db, bounds, ghosts
  <1>11. ASSUME NEW c \in Capturer, Stamp(c)
         PROVE  TypeOK'
    <2>1. now + 1 \in Nat
      BY DEF TypeOK
    <2>2. [cap[c] EXCEPT !.pc = "parent", !.time = now + 1] \in Capture
      BY <1>0, <2>1, ZenonT(60) DEF Capture
    <2>3. cap' \in [Capturer -> Capture]
      BY <1>11, <2>2, Becoming DEF Stamp
    <2>4. QED
      BY <1>11, <2>1, <2>3 DEF TypeOK, Stamp, disk, db, bounds, ghosts
  <1>12. ASSUME NEW c \in Capturer, ReadParent(c)
         PROVE  TypeOK'
    <2>1. MaxId \subseteq Nat
      BY DEF TypeOK, MaxId, Ids, Entry
    <2>2. \A m \in MaxId : [cap[c] EXCEPT !.pc = "insert", !.parent = m] \in Capture
      BY <1>0, <2>1, ZenonT(60) DEF Capture
    <2>3. cap' \in [Capturer -> Capture]
      BY <1>12, <2>2, Becoming DEF ReadParent
    <2>4. QED
      BY <1>12, <2>3 DEF TypeOK, ReadParent, disk, db, bounds, ghosts
  <1>13. ASSUME NEW c \in Capturer, Insert(c)
         PROVE  TypeOK'
    <2>1. cap' \in [Capturer -> Capture]
      BY <1>13, RestType, Becoming DEF Insert
    <2>2. /\ cap[c].parent \in Nat /\ cap[c].time \in Nat
          /\ cap[c].changes \subseteq Change
      BY <1>0 DEF Capture
    <2>3. entries' \subseteq Entry /\ nextId' \in Nat \ {0}
      BY <1>13, <2>2 DEF Insert, TypeOK, Entry
    <2>4. recorded' \subseteq Path \X Blob
      BY <1>13, <2>2 DEF Insert, TypeOK, Change
    <2>5. QED
      BY <1>13, <2>1, <2>3, <2>4 DEF TypeOK, Insert, disk, bounds
  <1>14. ASSUME NEW c \in Capturer, Abort(c), crashes' \in 0 .. MaxCrashes
         PROVE  TypeOK'
    <2>1. cap' \in [Capturer -> Capture]
      BY <1>14, RestType, Becoming DEF Abort
    <2>2. QED
      BY <1>14, <2>1 DEF TypeOK, Abort, disk, db
  <1>15. ASSUME NEW cutoff \in Nat, Prune(cutoff) \/ PruneFails(cutoff)
         PROVE  TypeOK'
    <2>1. CASE Prune(cutoff)
      <3>1. entries' \subseteq Entry
        BY <2>1 DEF TypeOK, Prune
      <3>2. prunes' \in 0 .. MaxPrunes
        BY <2>1 DEF TypeOK, Prune
      <3>3. QED
        BY <2>1, <3>1, <3>2 DEF TypeOK, Prune, disk, ghosts
    <2>2. CASE PruneFails(cutoff)
      <3>1. prunes' \in 0 .. MaxPrunes
        BY <2>2 DEF TypeOK, PruneFails
      <3>2. QED
        BY <2>2, <3>1 DEF TypeOK, PruneFails, disk, db, ghosts
    <2>3. QED
      BY <1>15, <2>1, <2>2
  <1>16. CASE UNCHANGED vars
    BY <1>16 DEF TypeOK, vars, disk, db, bounds, ghosts
  <1>17. ASSUME NEW c \in Capturer, Step(c) \/ Crash(c)
         PROVE  TypeOK'
    <2>1. CASE Crash(c)
      BY <1>14, <2>1 DEF Crash, TypeOK
    <2>2. CASE InsertFails(c) \/ \E p \in Path : Vanished(c, p)
      BY <1>14, <2>2 DEF InsertFails, Vanished, TypeOK
    <2>3. QED
      BY <1>4, <1>5, <1>6, <1>7, <1>8, <1>9, <1>10, <1>11, <1>12, <1>13, <1>17, <2>1, <2>2
         DEF Step
  <1>18. \A cutoff \in 1 .. now + 1 : cutoff \in Nat
    BY DEF TypeOK
  <1>19. QED
    BY <1>1, <1>2, <1>3, <1>15, <1>16, <1>17, <1>18 DEF Next, Edit

(* Every variable keeps its type, for all values of the constants.         *)
THEOREM TypeCorrect == Spec => []TypeOK
  BY InitTypeOK, StepTypeOK, PTL DEF Spec
-----------------------------------------------------------------------------
(* Every blob the timeline refers to is stored.                            *)

(* Blobs (and the absence of one) that can be read back.                   *)
Kept == objects \cup {Gone}

(* The blobs a capture carries belong to S.                                *)
Carries(v, S) ==
  /\ v.pc = "upsert" => v.blob \in S
  /\ \A p \in Path : v.base[p].blob \in S
  /\ \A f \in v.changes : f.old \in S /\ f.new \in S

RowsKept    == \A p \in Path : row[p].blob \in Kept
EntriesKept == \A e \in entries : \A f \in e.files : f.old \in Kept /\ f.new \in Kept
CapsKept    == \A c \in Capturer : Carries(cap[c], Kept)
KeptInv     == RowsKept /\ EntriesKept /\ CapsKept

LEMMA CarriesAt == \A step \in {"idle", "down", "watching", "list"} : Carries(At(step), Kept)
  BY DEF Carries, At, NoRow, Kept

(* A capturer replaces its state by one whose blobs are stored, and the    *)
(* store only grows: every capture still carries stored blobs.             *)
LEMMA CapsStayKept ==
  ASSUME TypeOK, CapsKept, objects \subseteq objects',
         NEW c \in Capturer, NEW v, Becomes(c, v), Carries(v, Kept')
  PROVE  CapsKept'
  <1>1. Kept \subseteq Kept'
    BY DEF Kept
  <1>2. \A d \in Capturer : cap'[d] = IF d = c THEN v ELSE cap[d]
    BY DEF Becomes, TypeOK
  <1>3. ASSUME NEW d \in Capturer, d # c
        PROVE  Carries(cap'[d], Kept')
    <2>1. Carries(cap[d], Kept) /\ cap'[d] = cap[d]
      BY <1>2, <1>3 DEF CapsKept
    <2>2. QED
      BY <1>1, <2>1 DEF Carries
  <1>4. QED
    BY <1>2, <1>3 DEF CapsKept

LEMMA InitKept == Init => KeptInv
  <1> SUFFICES ASSUME Init PROVE KeptInv
    OBVIOUS
  <1>1. CapsKept
    BY CarriesAt DEF Init, CapsKept, Dead
  <1>2. QED
    BY <1>1 DEF Init, KeptInv, RowsKept, EntriesKept, Kept, NoRow

LEMMA StepKept ==
  ASSUME TypeOK, KeptInv, [Next]_vars
  PROVE  KeptInv'
  <1> USE DEF KeptInv
  <1>0. cap \in [Capturer -> Capture]
    BY DEF TypeOK
  (* Steps that leave the tables and the object store alone.               *)
  <1>1. ASSUME row' = row, entries' = entries, objects' = objects, CapsKept'
        PROVE  KeptInv'
    BY <1>1 DEF RowsKept, EntriesKept, Kept
  <1>2. CASE Edit
    BY <1>1, <1>2 DEF Edit, Write, Remove, db, CapsKept, Carries, Kept
  <1>3. CASE WatchStart
    <2>1. Watcher \in Capturer /\ Becomes(Watcher, At("watching")) /\ Kept' = Kept
      BY <1>3 DEF WatchStart, Capturer, Becomes, Kept
    <2>2. CapsKept'
      BY <1>3, <2>1, CarriesAt, CapsStayKept DEF WatchStart
    <2>3. QED
      BY <1>1, <1>3, <2>2 DEF WatchStart, db
  <1>4. ASSUME NEW c \in Capturer, Load(c)
        PROVE  KeptInv'
    <2> DEFINE v == [At("list") EXCEPT !.base = row]
    <2>1. Kept' = Kept /\ Becomes(c, v)
      BY <1>4 DEF Load, Kept
    <2>2. Carries(v, Kept)
      BY DEF Carries, At, RowsKept
    <2>3. CapsKept'
      BY <1>4, <2>1, <2>2, CapsStayKept DEF Load
    <2>4. QED
      BY <1>1, <1>4, <2>3 DEF Load, db
  <1>5. ASSUME NEW c \in Capturer, NEW v, Becomes(c, v), Carries(v, Kept),
               row' = row, entries' = entries, objects' = objects
        PROVE  KeptInv'
    <2>1. Kept' = Kept
      BY <1>5 DEF Kept
    <2>2. CapsKept'
      BY <1>5, <2>1, CapsStayKept
    <2>3. QED
      BY <1>1, <1>5, <2>2
  <1>6. ASSUME NEW c \in Capturer, List(c)
        PROVE  KeptInv'
    <2>1. Carries(Listed(cap[c], {p \in Path : content[p] # Gone}), Kept)
      BY <1>0 DEF CapsKept, Carries, Listed, Capture
    <2>2. QED
      BY <1>5, <1>6, <2>1 DEF List, db
  <1>7. ASSUME NEW c \in Capturer, NEW p \in Path, Stat(c, p)
        PROVE  KeptInv'
    <2>1. Carries(Skipped(cap[c], p), Kept) /\ Carries(Opened(cap[c], p), Kept)
      BY <1>0, <1>7 DEF CapsKept, Carries, Skipped, Opened, Capture, Stat
    <2>2. QED
      BY <1>5, <1>7, <2>1 DEF Stat, db
  <1>8. ASSUME NEW c \in Capturer, NEW p \in Path, Read(c, p)
        PROVE  KeptInv'
    <2> DEFINE new == content[p]
               v == Compared(cap[c], new)
    <2>1. /\ objects \subseteq objects'
          /\ Kept \subseteq Kept'
          /\ row' = row /\ entries' = entries
      BY <1>8 DEF Read, db, Kept
    <2>2. cap[c].base[p].blob \in Kept
      BY DEF CapsKept, Carries
    <2>3. new \in Kept'
      BY <1>8, <2>1, <2>2 DEF Read, Kept
    <2>4. Carries(cap[c], Kept')
      BY <2>1 DEF CapsKept, Carries
    <2>5. Carries(v, Kept')
      BY <1>0, <2>3, <2>4 DEF Carries, Compared, Capture
    <2>6. v.base[p].blob \in Kept' /\ v \in Capture
      <3>1. new \in Blob
        BY DEF TypeOK
      <3>2. QED
        BY <1>0, <2>5, <3>1, CaptureTypes DEF Carries
    <2>7. Carries(WithChange(v, p, new), Kept')
      BY <2>3, <2>5, <2>6 DEF Carries, WithChange, Capture
    <2>8. CapsKept'
      BY <1>8, <2>1, <2>5, <2>7, CapsStayKept DEF Read
    <2>9. RowsKept' /\ EntriesKept'
      BY <2>1 DEF RowsKept, EntriesKept
    <2>10. QED
      BY <2>8, <2>9
  <1>9. ASSUME NEW c \in Capturer, NEW p \in Path, Upsert(c, p)
        PROVE  KeptInv'
    <2>1. objects' = objects /\ entries' = entries /\ Kept' = Kept
      BY <1>9 DEF Upsert, Kept
    <2>2. RowsKept'
      BY <1>9, <2>1 DEF Upsert, RowsKept, CapsKept, Carries, TypeOK
    <2>3. Carries(Upserted(cap[c]), Kept)
      BY <1>0 DEF CapsKept, Carries, Upserted, Capture
    <2>4. CapsKept'
      BY <1>9, <2>1, <2>3, CapsStayKept DEF Upsert
    <2>5. QED
      BY <2>1, <2>2, <2>4 DEF EntriesKept
  <1>10. ASSUME NEW c \in Capturer, NEW p \in Path, Sweep(c, p)
         PROVE  KeptInv'
    <2>1. objects' = objects /\ entries' = entries /\ Kept' = Kept
      BY <1>10 DEF Sweep, Kept
    <2>2. RowsKept'
      BY <1>10, <2>1 DEF Sweep, RowsKept, Kept, NoRow, TypeOK
    <2>3. Carries(WithChange(cap[c], p, Gone), Kept)
      BY <1>0 DEF CapsKept, Carries, WithChange, Capture, Kept
    <2>4. WithChange(cap[c], p, Gone) \in Capture
      BY <1>0, CaptureTypes DEF Blob
    <2>5. Carries(Swept(cap[c], p), Kept)
      BY <2>3, <2>4 DEF Carries, Swept, Capture, Kept, NoRow
    <2>6. CapsKept'
      BY <1>10, <2>1, <2>5, CapsStayKept DEF Sweep
    <2>7. QED
      BY <2>1, <2>2, <2>6 DEF EntriesKept
  <1>11. ASSUME NEW c \in Capturer
         PROVE  Carries(Rest(c), Kept) /\ Carries(Dead(c), Kept)
    BY CarriesAt DEF Rest, Dead
  <1>12. ASSUME NEW c \in Capturer, NoChange(c)
         PROVE  KeptInv'
    BY <1>5, <1>11, <1>12 DEF NoChange, db
  <1>13. ASSUME NEW c \in Capturer, Stamp(c)
         PROVE  KeptInv'
    <2>1. Carries([cap[c] EXCEPT !.pc = "parent", !.time = now + 1], Kept)
      BY <1>0 DEF CapsKept, Carries, Capture
    <2>2. QED
      BY <1>5, <1>13, <2>1 DEF Stamp, db
  <1>14. ASSUME NEW c \in Capturer, ReadParent(c)
         PROVE  KeptInv'
    <2>1. \A m : Carries([cap[c] EXCEPT !.pc = "insert", !.parent = m], Kept)
      BY <1>0 DEF CapsKept, Carries, Capture
    <2>2. QED
      BY <1>5, <1>14, <2>1 DEF ReadParent, db
  <1>15. ASSUME NEW c \in Capturer, Insert(c)
         PROVE  KeptInv'
    <2>1. row' = row /\ objects' = objects /\ Kept' = Kept
      BY <1>15 DEF Insert, Kept
    <2>2. EntriesKept'
      BY <1>15, <2>1 DEF Insert, EntriesKept, CapsKept, Carries
    <2>3. CapsKept'
      BY <1>11, <1>15, <2>1, CapsStayKept DEF Insert
    <2>4. QED
      BY <2>1, <2>2, <2>3 DEF RowsKept
  <1>16. ASSUME NEW c \in Capturer, Abort(c)
         PROVE  KeptInv'
    BY <1>5, <1>11, <1>16 DEF Abort, db
  <1>17. ASSUME NEW cutoff, Prune(cutoff) \/ PruneFails(cutoff)
         PROVE  KeptInv'
    BY <1>17 DEF Prune, PruneFails, db, RowsKept, EntriesKept, CapsKept, Carries, Kept
  <1>18. CASE UNCHANGED vars
    BY <1>1, <1>18 DEF vars, db, CapsKept, Carries, Kept
  <1>19. QED
    BY <1>2, <1>3, <1>4, <1>6, <1>7, <1>8, <1>9, <1>10, <1>12, <1>13, <1>14, <1>15,
       <1>16, <1>17, <1>18
       DEF Next, Step, Vanished, InsertFails, Crash

(* Whatever edits, captures, crashes and prunes do, the object store holds *)
(* every blob a row or an entry of the timeline names (scan.rs writes the  *)
(* blob before the row and before the entry).                              *)
THEOREM TimelineBlobsKept == Spec => []BlobsKept
  <1>1. KeptInv => BlobsKept
    BY DEF KeptInv, RowsKept, EntriesKept, Kept, BlobsKept
  <1>2. QED
    BY <1>1, InitTypeOK, StepTypeOK, InitKept, StepKept, PTL DEF Spec
-----------------------------------------------------------------------------
(* The fast path never hides an edit, when each write has its own mtime.   *)

(* No capture, row or file carries an mtime from the future.               *)
ClockInv ==
  /\ \A p \in Path : mtime[p] <= now /\ row[p].mtime <= now
  /\ \A c \in Capturer : cap[c].mtime <= now

(* The row a capture is about to write tells the truth about the file it   *)
(* was made from, as long as that file keeps its size and mtime.           *)
Truthful(v) ==
  v.pc = "upsert" =>
    \A p \in v.path :
      (content[p] # Gone /\ v.size = SizeOf[content[p]] /\ v.mtime = mtime[p])
         => v.blob = content[p]

CapsTruthful == \A c \in Capturer : Truthful(cap[c])

SoundInv == ClockInv /\ CapsTruthful /\ FastPathSound

LEMMA AtSound ==
  \A step \in {"idle", "down", "watching", "list"} : Truthful(At(step)) /\ At(step).mtime = 0
  BY DEF Truthful, At

LEMMA InitSound == Init => SoundInv
  <1> SUFFICES ASSUME Init PROVE SoundInv
    OBVIOUS
  <1>1. \A c \in Capturer : Truthful(cap[c]) /\ cap[c].mtime = 0
    BY AtSound DEF Init, Dead
  <1>2. FastPathSound
    BY DEF Init, FastPathSound, Unchanged, NoRow
  <1>3. ClockInv
    BY <1>1 DEF Init, ClockInv, NoRow
  <1>4. QED
    BY <1>1, <1>2, <1>3 DEF SoundInv, CapsTruthful

(* A capturer takes a new state without touching disk or rows.             *)
LEMMA CapsStaySound ==
  ASSUME TypeOK, SoundInv, content' = content, mtime' = mtime, row' = row,
         now' \in Nat, now <= now',
         NEW c \in Capturer, NEW v \in Capture, Becomes(c, v),
         Truthful(v), v.mtime <= now
  PROVE  SoundInv'
  <1>1. \A d \in Capturer : cap'[d] = IF d = c THEN v ELSE cap[d]
    BY DEF Becomes, TypeOK
  <1>2. CapsTruthful'
    BY <1>1 DEF SoundInv, CapsTruthful, Truthful
  <1>3. FastPathSound'
    BY DEF SoundInv, FastPathSound, Unchanged
  <1>4. \A d \in Capturer : cap'[d].mtime <= now /\ cap'[d].mtime \in Nat
    BY <1>1 DEF SoundInv, ClockInv, TypeOK, Capture
  <1>5. /\ now \in Nat
        /\ \A p \in Path : mtime[p] \in Nat /\ row[p].mtime \in Nat
    BY DEF TypeOK, Row
  <1>6. ClockInv'
    BY <1>4, <1>5 DEF SoundInv, ClockInv
  <1>7. QED
    BY <1>2, <1>3, <1>6 DEF SoundInv

LEMMA StepSound ==
  ASSUME CoarseMtime = FALSE, TypeOK, SoundInv, [Next]_vars
  PROVE  SoundInv'
  <1>0. /\ cap \in [Capturer -> Capture]
        /\ now \in Nat
        /\ \A p \in Path : mtime[p] \in Nat /\ row[p].mtime \in Nat
        /\ \A c \in Capturer : cap[c].mtime \in Nat
    BY DEF TypeOK, Row, Capture
  <1>1. ASSUME NEW p \in Path, NEW x \in Content, Write(p, x)
        PROVE  SoundInv'
    <2>1. /\ now' = now + 1 /\ mtime' = [mtime EXCEPT ![p] = now + 1]
          /\ content' = [content EXCEPT ![p] = x]
          /\ cap' = cap /\ row' = row
      BY <1>1 DEF Write, db
    <2>2. ClockInv'
      BY <1>0, <2>1 DEF SoundInv, ClockInv, TypeOK
    <2>3. \A c \in Capturer : cap[c].mtime # now + 1
      BY <1>0 DEF SoundInv, ClockInv
    <2>4. \A q \in Path : row[q].mtime # now + 1
      BY <1>0 DEF SoundInv, ClockInv
    <2>5. \A c \in Capturer : cap[c].path \subseteq Path
      BY <1>0 DEF Capture
    <2>6. CapsTruthful'
      BY <2>1, <2>3, <2>5 DEF SoundInv, CapsTruthful, Truthful, TypeOK
    <2>7. FastPathSound'
      BY <2>1, <2>4 DEF SoundInv, FastPathSound, Unchanged, TypeOK
    <2>8. QED
      BY <2>2, <2>6, <2>7 DEF SoundInv
  <1>2. ASSUME NEW p \in Path, Remove(p)
        PROVE  SoundInv'
    <2>1. /\ now' = now /\ mtime' = mtime /\ cap' = cap /\ row' = row
          /\ content' = [content EXCEPT ![p] = Gone]
      BY <1>2 DEF Remove, db
    <2>2. \A c \in Capturer : cap[c].path \subseteq Path
      BY <1>0 DEF Capture
    <2>3. QED
      BY <2>1, <2>2
         DEF SoundInv, ClockInv, CapsTruthful, Truthful, FastPathSound, Unchanged, TypeOK
  <1>3. ASSUME NEW c \in Capturer, NEW v \in Capture, Becomes(c, v), v.pc # "upsert",
               v.mtime <= now, content' = content, mtime' = mtime, row' = row,
               now' \in Nat, now <= now'
        PROVE  SoundInv'
    BY <1>3, CapsStaySound DEF Truthful
  <1>4. CASE WatchStart
    <2> DEFINE v == At("watching")
    <2>1. Watcher \in Capturer /\ Becomes(Watcher, v)
      BY <1>4 DEF WatchStart, Capturer, Becomes
    <2>2. v \in Capture /\ v.pc # "upsert" /\ v.mtime <= now
      BY <1>0, AtType DEF At
    <2>3. QED
      BY <1>0, <1>3, <1>4, <2>1, <2>2 DEF WatchStart, disk, db
  <1>5. ASSUME NEW c \in Capturer, Load(c)
        PROVE  SoundInv'
    <2> DEFINE v == [At("list") EXCEPT !.base = row]
    <2>1. v \in Capture
      <3>1. At("list") \in Capture /\ row \in [Path -> Row]
        BY AtType DEF TypeOK
      <3>2. QED
        BY <3>1 DEF Capture
    <2>2. v.pc # "upsert" /\ v.mtime <= now
      BY <1>0 DEF At
    <2>3. /\ Becomes(c, v) /\ content' = content /\ mtime' = mtime /\ row' = row
          /\ now' = now
      BY <1>5 DEF Load, disk, db
    <2> HIDE DEF v
    <2>4. QED
      BY <1>0, <1>3, <2>1, <2>2, <2>3
  <1>6. ASSUME NEW c \in Capturer, List(c)
        PROVE  SoundInv'
    <2> DEFINE v == Listed(cap[c], {p \in Path : content[p] # Gone})
    <2>1. v \in Capture /\ v.pc = "walk" /\ v.mtime = cap[c].mtime
      BY <1>0, ZenonT(60) DEF Listed, Capture
    <2>2. QED
      BY <1>0, <1>3, <1>6, <2>1 DEF List, disk, db, SoundInv, ClockInv
  <1>7. ASSUME NEW c \in Capturer, NEW p \in Path, Stat(c, p)
        PROVE  SoundInv'
    <2>1. Skipped(cap[c], p) \in Capture /\ Opened(cap[c], p) \in Capture
      BY <1>0, <1>7, CaptureTypes, OpenedType DEF Stat
    <2>2. /\ Skipped(cap[c], p).pc = "walk" /\ Skipped(cap[c], p).mtime = cap[c].mtime
          /\ Opened(cap[c], p).pc = "read" /\ Opened(cap[c], p).mtime = mtime[p]
      BY <1>0, <1>7 DEF Skipped, Opened, Capture, Stat
    <2>3. cap[c].mtime <= now /\ mtime[p] <= now
      BY DEF SoundInv, ClockInv
    <2>4. QED
      BY <1>0, <1>3, <1>7, <2>1, <2>2, <2>3 DEF Stat, disk, db
  <1>8. ASSUME NEW c \in Capturer, NEW p \in Path, Read(c, p)
        PROVE  SoundInv'
    <2> DEFINE new == content[p]
               u == Compared(cap[c], new)
               w == WithChange(u, p, new)
    <2>1. new \in Blob
      BY DEF TypeOK
    <2>2. u \in Capture
      BY <1>0, <2>1, CaptureTypes
    <2>3. w \in Capture
      BY <2>1, <2>2, CaptureTypes
    <2>4. cap[c].path = {p}
      BY <1>0, <1>8 DEF Read, Capture
    <2>5. u.path = {p} /\ u.blob = new /\ u.mtime = cap[c].mtime
      BY <1>0, <2>4 DEF Compared, Capture
    <2>6. w.path = {p} /\ w.blob = new /\ w.mtime = cap[c].mtime
      BY <2>2, <2>5 DEF WithChange, Capture
    <2>7. /\ Truthful(u) /\ u.mtime <= now
          /\ Truthful(w) /\ w.mtime <= now
      BY <2>5, <2>6 DEF Truthful, SoundInv, ClockInv
    <2>8. QED
      BY <1>0, <1>8, <2>2, <2>3, <2>7, CapsStaySound DEF Read, disk, db
  <1>9. ASSUME NEW c \in Capturer, NEW p \in Path, Upsert(c, p)
        PROVE  SoundInv'
    <2> DEFINE v == Upserted(cap[c])
    <2>1. /\ content' = content /\ mtime' = mtime /\ now' = now
          /\ row' = [row EXCEPT ![p] = [blob |-> cap[c].blob, size |-> cap[c].size,
                                        mtime |-> cap[c].mtime]]
          /\ Becomes(c, v)
      BY <1>9 DEF Upsert, disk
    <2>2. v.pc = "walk" /\ v.mtime = 0
      BY <1>0 DEF Upserted, Capture
    <2>3. \A d \in Capturer : cap'[d] = IF d = c THEN v ELSE cap[d]
      BY <1>0, <2>1 DEF Becomes
    <2>4. ClockInv'
      BY <1>0, <2>1, <2>2, <2>3 DEF SoundInv, ClockInv, TypeOK
    <2>5. CapsTruthful'
      BY <2>1, <2>2, <2>3 DEF SoundInv, CapsTruthful, Truthful
    <2>6. Truthful(cap[c]) /\ cap[c].pc = "upsert" /\ p \in cap[c].path
      BY <1>9 DEF SoundInv, CapsTruthful, Upsert
    <2>7. FastPathSound'
      BY <2>1, <2>6 DEF SoundInv, FastPathSound, Unchanged, Truthful, TypeOK
    <2>8. QED
      BY <2>4, <2>5, <2>7 DEF SoundInv
  <1>10. ASSUME NEW c \in Capturer, NEW p \in Path, Sweep(c, p)
         PROVE  SoundInv'
    <2> DEFINE v == Swept(cap[c], p)
    <2>1. /\ content' = content /\ mtime' = mtime /\ now' = now
          /\ row' = [row EXCEPT ![p] = NoRow]
          /\ Becomes(c, v)
      BY <1>10 DEF Sweep, disk
    <2>2. v.pc = "walk" /\ v.mtime = cap[c].mtime
      <3>1. WithChange(cap[c], p, Gone) \in Capture
        BY <1>0, CaptureTypes DEF Blob
      <3>2. /\ WithChange(cap[c], p, Gone).pc = "walk"
            /\ WithChange(cap[c], p, Gone).mtime = cap[c].mtime
        BY <1>0, <1>10 DEF WithChange, Capture, Sweep
      <3>3. QED
        BY <3>1, <3>2 DEF Swept, Capture
    <2>3. \A d \in Capturer : cap'[d] = IF d = c THEN v ELSE cap[d]
      BY <1>0, <2>1 DEF Becomes
    <2>4. ClockInv'
      BY <1>0, <2>1, <2>2, <2>3 DEF SoundInv, ClockInv, TypeOK, NoRow
    <2>5. CapsTruthful'
      BY <2>1, <2>2, <2>3 DEF SoundInv, CapsTruthful, Truthful
    <2>6. FastPathSound'
      BY <2>1 DEF SoundInv, FastPathSound, Unchanged, NoRow, TypeOK
    <2>7. QED
      BY <2>4, <2>5, <2>6 DEF SoundInv
  <1>11. ASSUME NEW c \in Capturer
         PROVE  /\ Rest(c) \in Capture /\ Rest(c).pc # "upsert" /\ Rest(c).mtime <= now
                /\ Dead(c) \in Capture /\ Dead(c).pc # "upsert" /\ Dead(c).mtime <= now
    <2>1. \A step \in {"idle", "down", "watching"} :
             At(step).pc # "upsert" /\ At(step).mtime <= now
      BY <1>0 DEF At
    <2>2. QED
      BY <2>1, RestType DEF Rest, Dead
  <1>12. ASSUME NEW c \in Capturer, NoChange(c)
         PROVE  SoundInv'
    BY <1>0, <1>3, <1>11, <1>12 DEF NoChange, disk, db
  <1>13. ASSUME NEW c \in Capturer, Stamp(c)
         PROVE  SoundInv'
    <2> DEFINE v == [cap[c] EXCEPT !.pc = "parent", !.time = now + 1]
    <2>1. now + 1 \in Nat /\ now <= now + 1 /\ cap[c] \in Capture /\ cap[c].mtime <= now
      BY <1>0 DEF SoundInv, ClockInv
    <2>2. v \in Capture
      BY <2>1 DEF Capture
    <2>3. v.pc = "parent" /\ v.mtime = cap[c].mtime
      BY <2>1 DEF Capture
    <2>4. /\ Becomes(c, v) /\ content' = content /\ mtime' = mtime /\ row' = row
          /\ now' = now + 1
      BY <1>13 DEF Stamp, disk, db
    <2>5. v.pc # "upsert" /\ v.mtime <= now
      BY <2>1, <2>3
    <2> HIDE DEF v
    <2>6. QED
      BY <1>3, <2>1, <2>2, <2>4, <2>5
  <1>14. ASSUME NEW c \in Capturer, ReadParent(c)
         PROVE  SoundInv'
    <2>1. MaxId \subseteq Nat
      BY DEF TypeOK, MaxId, Ids, Entry
    <2>2. PICK m \in MaxId : Becomes(c, [cap[c] EXCEPT !.pc = "insert", !.parent = m])
      BY <1>14 DEF ReadParent
    <2> DEFINE v == [cap[c] EXCEPT !.pc = "insert", !.parent = m]
    <2>3. m \in Nat /\ cap[c] \in Capture /\ cap[c].mtime <= now
      BY <1>0, <2>1 DEF SoundInv, ClockInv
    <2>4. v \in Capture /\ v.pc # "upsert" /\ v.mtime <= now
      BY <2>3 DEF Capture
    <2>5. /\ Becomes(c, v) /\ content' = content /\ mtime' = mtime /\ row' = row
          /\ now' = now
      BY <1>14, <2>2 DEF ReadParent, disk, db
    <2> HIDE DEF v
    <2>6. QED
      BY <1>0, <1>3, <2>4, <2>5
  <1>15. ASSUME NEW c \in Capturer, Insert(c)
         PROVE  SoundInv'
    BY <1>0, <1>3, <1>11, <1>15 DEF Insert, disk
  <1>16. ASSUME NEW c \in Capturer, Abort(c)
         PROVE  SoundInv'
    BY <1>0, <1>3, <1>11, <1>16 DEF Abort, disk, db
  <1>17. ASSUME NEW cutoff, Prune(cutoff) \/ PruneFails(cutoff)
         PROVE  SoundInv'
    BY <1>17 DEF Prune, PruneFails, disk, db,
       SoundInv, ClockInv, CapsTruthful, Truthful, FastPathSound, Unchanged
  <1>18. CASE UNCHANGED vars
    BY <1>18 DEF vars, disk, db,
       SoundInv, ClockInv, CapsTruthful, Truthful, FastPathSound, Unchanged
  <1>19. QED
    BY <1>1, <1>2, <1>4, <1>5, <1>6, <1>7, <1>8, <1>9, <1>10, <1>12, <1>13, <1>14, <1>15,
       <1>16, <1>17, <1>18
       DEF Next, Edit, Step, Vanished, InsertFails, Crash

(* When every write gives a file a new mtime, a file that has the size and *)
(* the mtime of its row has its content too: skipping it hides no edit,    *)
(* however captures overlap, fail or are killed.                           *)
THEOREM TimelineFastPathSound ==
  ASSUME CoarseMtime = FALSE
  PROVE  Spec => []FastPathSound
  <1>1. TypeOK /\ SoundInv /\ [Next]_vars => SoundInv'
    BY StepSound
  <1>2. SoundInv => FastPathSound
    BY DEF SoundInv
  <1>3. QED
    BY <1>1, <1>2, InitTypeOK, StepTypeOK, InitSound, PTL DEF Spec
-----------------------------------------------------------------------------
(* What is not looked at again has been recorded, or will be: as long as   *)
(* no capture has ended before its entry, whatever a row, a capture's copy *)
(* of the rows or a file it has just compared says is in an entry or among *)
(* the changes of a capture under way.                                     *)

Claims(v) == {<<f.path, f.new>> : f \in v.changes}
Claimed   == recorded \cup UNION {Claims(cap[c]) : c \in Capturer}

Vouched(p, blob, S) == blob # Gone => <<p, blob>> \in S

Vouches(v, S) ==
  /\ \A p \in Path : Vouched(p, v.base[p].blob, S)
  /\ v.pc = "upsert" => \A p \in v.path : Vouched(p, v.blob, S)

RestingEmpty == \A c \in Capturer : Resting(cap[c].pc) => cap[c].changes = {}
RowsVouched  == \A p \in Path : Vouched(p, row[p].blob, Claimed)
CapsVouch    == \A c \in Capturer : Vouches(cap[c], Claimed)
RecordInv    == RestingEmpty /\ (~ aborted => RowsVouched /\ CapsVouch)

LEMMA VouchesMore ==
  ASSUME NEW v, NEW S, NEW T, S \subseteq T, Vouches(v, S)
  PROVE  Vouches(v, T)
  BY DEF Vouches, Vouched

LEMMA AtVouches ==
  ASSUME NEW step \in {"idle", "down", "watching", "list"}, NEW S
  PROVE  Vouches(At(step), S) /\ At(step).changes = {} /\ At(step).pc = step
  BY DEF Vouches, Vouched, At, NoRow

LEMMA RestVouches ==
  ASSUME NEW c \in Capturer, NEW S
  PROVE  /\ Vouches(Rest(c), S) /\ Rest(c).changes = {}
         /\ Vouches(Dead(c), S) /\ Dead(c).changes = {}
  BY AtVouches DEF Rest, Dead

(* A capturer's step that drops no claim but those it records leaves every *)
(* claim standing, so that the others still vouch for what they carry.     *)
LEMMA ClaimsStand ==
  ASSUME TypeOK, RecordInv, recorded \subseteq recorded',
         NEW c \in Capturer, NEW v, Becomes(c, v),
         Claims(cap[c]) \subseteq recorded' \cup Claims(v),
         Resting(v.pc) => v.changes = {}
  PROVE  /\ RestingEmpty'
         /\ Claimed \cup Claims(v) \subseteq Claimed'
         /\ ~ aborted /\ Vouches(v, Claimed \cup Claims(v)) => CapsVouch'
  <1>1. \A d \in Capturer : cap'[d] = IF d = c THEN v ELSE cap[d]
    BY DEF Becomes, TypeOK
  <1>2. RestingEmpty'
    BY <1>1 DEF RecordInv, RestingEmpty
  <1>3. Claims(v) \subseteq Claimed'
    <2>1. Claims(v) = Claims(cap'[c])
      BY <1>1
    <2>2. QED
      BY <2>1 DEF Claimed
  <1>4. Claimed \subseteq Claimed'
    <2> SUFFICES ASSUME NEW x \in Claimed PROVE x \in Claimed'
      OBVIOUS
    <2>1. CASE x \in recorded
      BY <2>1 DEF Claimed
    <2>2. ASSUME NEW d \in Capturer, x \in Claims(cap[d])
          PROVE  x \in Claimed'
      <3>1. CASE d = c
        BY <1>3, <2>2, <3>1 DEF Claimed
      <3>2. CASE d # c
        <4>1. x \in Claims(cap'[d])
          BY <1>1, <2>2, <3>2
        <4>2. QED
          BY <4>1 DEF Claimed
      <3>3. QED
        BY <3>1, <3>2
    <2>3. QED
      BY <2>1, <2>2 DEF Claimed
  <1>5. ASSUME ~ aborted, Vouches(v, Claimed \cup Claims(v))
        PROVE  CapsVouch'
    <2> SUFFICES ASSUME NEW d \in Capturer PROVE Vouches(cap'[d], Claimed')
      BY DEF CapsVouch
    <2>1. CASE d = c
      BY <1>1, <1>3, <1>4, <1>5, <2>1, VouchesMore
    <2>2. CASE d # c
      <3>1. Vouches(cap[d], Claimed)
        BY <1>5 DEF RecordInv, CapsVouch
      <3>2. QED
        BY <1>1, <1>4, <2>2, <3>1, VouchesMore
    <2>3. QED
      BY <2>1, <2>2
  <1>6. QED
    BY <1>2, <1>3, <1>4, <1>5

LEMMA InitRecord == Init => RecordInv
  <1> SUFFICES ASSUME Init PROVE RecordInv
    OBVIOUS
  <1>1. \A c \in Capturer : cap[c].changes = {} /\ Vouches(cap[c], Claimed)
    BY RestVouches DEF Init
  <1>2. RowsVouched
    BY DEF Init, RowsVouched, Vouched, NoRow
  <1>3. QED
    BY <1>1, <1>2 DEF RecordInv, RestingEmpty, CapsVouch

LEMMA StepRecord ==
  ASSUME TypeOK, RecordInv, [Next]_vars
  PROVE  RecordInv'
  <1>0. /\ cap \in [Capturer -> Capture] /\ row \in [Path -> Row]
        /\ \A c \in Capturer : cap[c] \in Capture
    BY DEF TypeOK
  (* A capturer's step that leaves the rows and the entries alone.         *)
  <1>1. ASSUME NEW c \in Capturer, NEW v, Becomes(c, v), row' = row, recorded' = recorded,
               aborted' = aborted, Claims(cap[c]) \subseteq Claims(v),
               Resting(v.pc) => v.changes = {},
               ~ aborted => Vouches(v, Claimed \cup Claims(v))
        PROVE  RecordInv'
    <2>1. /\ RestingEmpty' /\ Claimed \subseteq Claimed'
          /\ ~ aborted => CapsVouch'
      BY <1>1, ClaimsStand
    <2>2. ~ aborted => RowsVouched'
      BY <1>1, <2>1 DEF RecordInv, RowsVouched, Vouched
    <2>3. QED
      BY <1>1, <2>1, <2>2 DEF RecordInv
  <1>2. ASSUME row' = row, cap' = cap, recorded' = recorded, aborted' = aborted
        PROVE  RecordInv'
    BY <1>2 DEF RecordInv, RestingEmpty, RowsVouched, CapsVouch, Claimed
  <1>3. CASE Edit
    BY <1>2, <1>3 DEF Edit, Write, Remove, db, ghosts
  <1>4. CASE WatchStart
    <2>1. Watcher \in Capturer /\ Becomes(Watcher, At("watching"))
      BY <1>4 DEF WatchStart, Capturer, Becomes
    <2>2. Claims(cap[Watcher]) = {}
      BY <1>4, <2>1 DEF WatchStart, RecordInv, RestingEmpty, Resting, Claims
    <2>3. Vouches(At("watching"), Claimed \cup Claims(At("watching"))) /\ At("watching").changes = {}
      BY AtVouches
    <2>4. QED
      BY <1>1, <1>4, <2>1, <2>2, <2>3 DEF WatchStart, db, ghosts
  <1>5. ASSUME NEW c \in Capturer, Load(c)
        PROVE  RecordInv'
    <2> DEFINE v == [At("list") EXCEPT !.base = row]
    <2>1. Claims(cap[c]) = {}
      BY <1>5 DEF Load, RecordInv, RestingEmpty, Resting, Claims
    <2>2. v.changes = {} /\ v.pc = "list" /\ v.base = row
      BY DEF At
    <2>3. Becomes(c, v)
      BY <1>5 DEF Load
    <2> HIDE DEF v
    <2>4. ~ aborted => Vouches(v, Claimed \cup Claims(v))
      BY <2>2 DEF RecordInv, RowsVouched, Vouches, Vouched
    <2>5. QED
      BY <1>1, <1>5, <2>1, <2>2, <2>3, <2>4 DEF Load, db, ghosts
  (* A step of a scan that changes neither the changes nor the rows read.   *)
  <1>6. ASSUME NEW c \in Capturer, NEW v, Becomes(c, v), row' = row, recorded' = recorded,
               aborted' = aborted, v.changes = cap[c].changes, v.base = cap[c].base,
               v.pc \notin {"upsert", "idle", "down", "watching"}
        PROVE  RecordInv'
    <2>1. Claims(v) = Claims(cap[c]) /\ ~ Resting(v.pc)
      BY <1>6 DEF Claims, Resting
    <2>2. ~ aborted => Vouches(v, Claimed \cup Claims(v))
      BY <1>6 DEF RecordInv, CapsVouch, Vouches, Vouched
    <2>3. QED
      BY <1>1, <1>6, <2>1, <2>2
  <1>7. ASSUME NEW c \in Capturer, List(c)
        PROVE  RecordInv'
    <2> DEFINE v == Listed(cap[c], {p \in Path : content[p] # Gone})
    <2>1. v.changes = cap[c].changes /\ v.base = cap[c].base /\ v.pc = "walk"
      BY <1>0 DEF Listed, Capture
    <2>2. Becomes(c, v)
      BY <1>7 DEF List
    <2> HIDE DEF v
    <2>3. QED
      BY <1>6, <1>7, <2>1, <2>2 DEF List, db, ghosts
  <1>8. ASSUME NEW c \in Capturer, NEW p \in Path, Stat(c, p)
        PROVE  RecordInv'
    <2>1. /\ Skipped(cap[c], p).changes = cap[c].changes /\ Skipped(cap[c], p).base = cap[c].base
          /\ Skipped(cap[c], p).pc = "walk"
          /\ Opened(cap[c], p).changes = cap[c].changes /\ Opened(cap[c], p).base = cap[c].base
          /\ Opened(cap[c], p).pc = "read"
      BY <1>0, <1>8 DEF Stat, Skipped, Opened, Capture
    <2>2. Becomes(c, Skipped(cap[c], p)) \/ Becomes(c, Opened(cap[c], p))
      BY <1>8 DEF Stat
    <2>3. QED
      BY <1>6, <1>8, <2>1, <2>2 DEF Stat, db, ghosts
  <1>9. ASSUME NEW c \in Capturer, NEW p \in Path, Read(c, p)
        PROVE  RecordInv'
    <2> DEFINE new == content[p]
               v == Compared(cap[c], new)
               w == WithChange(v, p, new)
    <2>1. /\ v.changes = cap[c].changes /\ v.base = cap[c].base /\ v.pc = "upsert"
          /\ v.path = cap[c].path /\ v.blob = new
      BY <1>0 DEF Compared, Capture
    <2>2. /\ \E f \in w.changes : f.path = p /\ f.new = new
          /\ v.changes \subseteq w.changes /\ w.base = v.base /\ w.pc = v.pc
          /\ w.path = v.path /\ w.blob = v.blob
      <3> DEFINE f == [path |-> p, old |-> v.base[p].blob, new |-> new]
      <3>1. v = [v EXCEPT !.changes = v.changes] /\ w = [v EXCEPT !.changes = v.changes \cup {f}]
        BY <1>0 DEF WithChange, Compared, Capture
      <3>2. f.path = p /\ f.new = new
        OBVIOUS
      <3>3. v \in Capture
        BY <1>0, CaptureTypes DEF TypeOK
      <3> HIDE DEF v, f
      <3>4. /\ w.changes = v.changes \cup {f} /\ w.base = v.base /\ w.pc = v.pc
            /\ w.path = v.path /\ w.blob = v.blob
        BY <3>1, <3>3 DEF Capture
      <3>5. QED
        BY <3>2, <3>4
    <2>3. \A q \in cap[c].path : q = p
      BY <1>0, <1>9 DEF Read, Capture
    <2>4. ~ aborted => \A q \in Path : Vouched(q, cap[c].base[q].blob, Claimed)
      BY DEF RecordInv, CapsVouch, Vouches
    <2>5. ASSUME new = cap[c].base[p].blob, Becomes(c, v)
          PROVE  RecordInv'
      <3> HIDE DEF v, new
      <3>1. ~ aborted => Vouches(v, Claimed \cup Claims(v))
        BY <2>1, <2>3, <2>4, <2>5 DEF Vouches, Vouched
      <3>2. Claims(v) = Claims(cap[c]) /\ ~ Resting(v.pc)
        BY <2>1 DEF Claims, Resting
      <3>3. QED
        BY <1>1, <1>9, <2>5, <3>1, <3>2 DEF Read, db, ghosts
    <2>6. ASSUME Becomes(c, w)
          PROVE  RecordInv'
      <3> HIDE DEF v, w, new
      <3>1. <<p, new>> \in Claims(w) /\ Claims(cap[c]) \subseteq Claims(w) /\ ~ Resting(w.pc)
        BY <2>1, <2>2 DEF Claims, Resting
      <3>2. ~ aborted => Vouches(w, Claimed \cup Claims(w))
        BY <2>1, <2>2, <2>3, <2>4, <3>1 DEF Vouches, Vouched
      <3>3. QED
        BY <1>1, <1>9, <2>6, <3>1, <3>2 DEF Read, db, ghosts
    <2>7. QED
      BY <1>9, <2>5, <2>6 DEF Read
  <1>10. ASSUME NEW c \in Capturer, NEW p \in Path, Upsert(c, p)
         PROVE  RecordInv'
    <2> DEFINE v == Upserted(cap[c])
    <2>1. /\ v.changes = cap[c].changes /\ v.base = cap[c].base /\ v.pc = "walk"
          /\ Becomes(c, v) /\ recorded' = recorded /\ aborted' = aborted
      BY <1>0, <1>10 DEF Upsert, Upserted, Capture, ghosts
    <2>2. ~ aborted => Vouched(p, cap[c].blob, Claimed)
      BY <1>10 DEF Upsert, RecordInv, CapsVouch, Vouches
    <2>3. \A q \in Path : row'[q].blob = IF q = p THEN cap[c].blob ELSE row[q].blob
      BY <1>0, <1>10 DEF Upsert
    <2> HIDE DEF v
    <2>4. Claims(v) = Claims(cap[c]) /\ ~ Resting(v.pc)
      BY <2>1 DEF Claims, Resting
    <2>5. ~ aborted => Vouches(v, Claimed \cup Claims(v))
      BY <2>1 DEF RecordInv, CapsVouch, Vouches, Vouched
    <2>6. RestingEmpty' /\ Claimed \subseteq Claimed' /\ (~ aborted => CapsVouch')
      BY <2>1, <2>4, <2>5, ClaimsStand
    <2>7. ~ aborted => RowsVouched'
      BY <2>2, <2>3, <2>6 DEF RecordInv, RowsVouched, Vouched
    <2>8. QED
      BY <2>1, <2>6, <2>7 DEF RecordInv
  <1>11. ASSUME NEW c \in Capturer, NEW p \in Path, Sweep(c, p)
         PROVE  RecordInv'
    <2> DEFINE v == Swept(cap[c], p)
    <2>1. /\ cap[c].changes \subseteq v.changes /\ v.pc = "walk"
          /\ \A q \in Path : v.base[q].blob = IF q = p THEN Gone ELSE cap[c].base[q].blob
      BY <1>0, <1>11 DEF Sweep, Swept, WithChange, Capture, NoRow
    <2>2. Becomes(c, v) /\ recorded' = recorded /\ aborted' = aborted
      BY <1>11 DEF Sweep, ghosts
    <2>3. \A q \in Path : row'[q].blob = IF q = p THEN Gone ELSE row[q].blob
      BY <1>0, <1>11 DEF Sweep, NoRow
    <2> HIDE DEF v
    <2>4. Claims(cap[c]) \subseteq Claims(v) /\ ~ Resting(v.pc)
      BY <2>1 DEF Claims, Resting
    <2>5. ~ aborted => Vouches(v, Claimed \cup Claims(v))
      BY <2>1 DEF RecordInv, CapsVouch, Vouches, Vouched
    <2>6. RestingEmpty' /\ Claimed \subseteq Claimed' /\ (~ aborted => CapsVouch')
      BY <2>2, <2>4, <2>5, ClaimsStand
    <2>7. ~ aborted => RowsVouched'
      BY <2>3, <2>6 DEF RecordInv, RowsVouched, Vouched
    <2>8. QED
      BY <2>2, <2>6, <2>7 DEF RecordInv
  <1>12. ASSUME NEW c \in Capturer, NoChange(c)
         PROVE  RecordInv'
    <2>1. Claims(cap[c]) = {}
      BY <1>12 DEF NoChange, Claims
    <2>2. QED
      BY <1>1, <1>12, <2>1, RestVouches DEF NoChange, db, ghosts
  <1>13. ASSUME NEW c \in Capturer, Stamp(c) \/ ReadParent(c)
         PROVE  RecordInv'
    <2> DEFINE v == [cap[c] EXCEPT !.pc = "parent", !.time = now + 1]
               w(m) == [cap[c] EXCEPT !.pc = "insert", !.parent = m]
    <2>1. /\ v.changes = cap[c].changes /\ v.base = cap[c].base /\ v.pc = "parent"
          /\ \A m : w(m).changes = cap[c].changes /\ w(m).base = cap[c].base /\ w(m).pc = "insert"
      BY <1>0 DEF Capture
    <2>2. /\ Becomes(c, v) \/ \E m : Becomes(c, w(m))
          /\ row' = row /\ recorded' = recorded /\ aborted' = aborted
      BY <1>13 DEF Stamp, ReadParent, db, ghosts
    <2> HIDE DEF v, w
    <2>3. QED
      BY <1>6, <2>1, <2>2
  <1>14. ASSUME NEW c \in Capturer, Insert(c)
         PROVE  RecordInv'
    <2>1. /\ recorded' = recorded \cup Claims(cap[c]) /\ row' = row /\ aborted' = aborted
          /\ Becomes(c, Rest(c))
      BY <1>14 DEF Insert, Claims
    <2>2. RestingEmpty' /\ Claimed \subseteq Claimed' /\ (~ aborted => CapsVouch')
      BY <2>1, RestVouches, ClaimsStand
    <2>3. ~ aborted => RowsVouched'
      BY <2>1, <2>2 DEF RecordInv, RowsVouched, Vouched
    <2>4. QED
      BY <2>1, <2>2, <2>3 DEF RecordInv
  <1>15. ASSUME NEW c \in Capturer, Abort(c)
         PROVE  RecordInv'
    <2>1. aborted' /\ \A d \in Capturer : cap'[d] = IF d = c THEN Dead(c) ELSE cap[d]
      BY <1>0, <1>15 DEF Abort, Becomes
    <2>2. QED
      BY <2>1, RestVouches DEF RecordInv, RestingEmpty
  <1>16. ASSUME NEW cutoff, Prune(cutoff) \/ PruneFails(cutoff)
         PROVE  RecordInv'
    BY <1>2, <1>16 DEF Prune, PruneFails, db, ghosts
  <1>17. CASE UNCHANGED vars
    BY <1>2, <1>17 DEF vars, db, ghosts
  <1>18. QED
    BY <1>3, <1>4, <1>5, <1>7, <1>8, <1>9, <1>10, <1>11, <1>12, <1>13, <1>14, <1>15,
       <1>16, <1>17 DEF Next, Step, Vanished, InsertFails, Crash

(* However captures, edits, prunes and restarts interleave, a row between  *)
(* captures says what some entry has recorded, as long as every capture    *)
(* got as far as its entry: the fast path skips nothing unrecorded.        *)
THEOREM TimelineCompletedRecord == Spec => []CompletedCapturesRecord
  <1>1. TypeOK /\ RecordInv => CompletedCapturesRecord
    <2> SUFFICES ASSUME TypeOK, RecordInv, ~ aborted, Quiet, NEW p \in Path, row[p].blob # Gone
                 PROVE  <<p, row[p].blob>> \in recorded
      BY DEF CompletedCapturesRecord, RowsRecorded
    <2>1. \A c \in Capturer : Claims(cap[c]) = {}
      BY DEF Quiet, RecordInv, RestingEmpty, Claims
    <2>2. <<p, row[p].blob>> \in Claimed
      BY DEF RecordInv, RowsVouched, Vouched
    <2>3. QED
      BY <2>1, <2>2 DEF Claimed
  <1>2. QED
    BY <1>1, InitTypeOK, StepTypeOK, InitRecord, StepRecord, PTL DEF Spec
-----------------------------------------------------------------------------
(* The timeline of a single capturer is a ledger.  Until a capture is       *)
(* aborted, the newest entry about a path gives its row; the capture under *)
(* way has at most one change to a path, from what the newest entry says,  *)
(* and the rows it has yet to compare are those it read.                   *)

(* The entries of E are about p, the newest of them last: or none is.      *)
Said(E, p, blob) ==
  \/ \A e \in E : \A f \in e.files : f.path # p
  \/ \E e \in E : \E f \in e.files :
       /\ f.path = p /\ f.new = blob
       /\ \A m \in E : \A h \in m.files : h.path = p => m.id <= e.id

(* Nothing about p was entered between d and e.                            *)
Adjacent(E, d, e, p) ==
  d.id < e.id /\ \A m \in E : \A h \in m.files : h.path = p => m.id <= d.id \/ e.id <= m.id

Consistent(E, next, time) ==
  /\ \A e \in E : e.id < next /\ e.time <= time
  /\ \A d \in E, e \in E : (d.id = e.id => d = e) /\ (d.id < e.id => d.time < e.time)
  /\ \A e \in E : \A f \in e.files : f.old # f.new /\ \A g \in e.files : f.path = g.path => f = g
  /\ \A d \in E, e \in E : \A f \in d.files, g \in e.files :
       f.path = g.path /\ Adjacent(E, d, e, f.path) => g.old = f.new

(* The row of p is still to be given the blob just read.                   *)
Pending(v, p) == v.pc = "upsert" /\ p \in v.path

ChangeFits(v, f, E, R) ==
  /\ f.old # f.new /\ Said(E, f.path, f.old)
  /\ \/ f.path \in v.listed \ v.todo
     \/ f.path \notin v.listed /\ v.base[f.path].blob = Gone
  /\ v.pc = "read" => f.path \notin v.path
  /\ IF Pending(v, f.path) THEN v.blob = f.new ELSE R[f.path].blob = f.new
  /\ \A g \in v.changes : f.path = g.path => f = g

Untouched(v, p, E, R) ==
  (\A f \in v.changes : f.path # p) =>
    /\ Said(E, p, R[p].blob)
    /\ ~Resting(v.pc) => v.base[p].blob = R[p].blob
    /\ Pending(v, p) => v.blob = R[p].blob

Fits(v, E, R, time) ==
  /\ Resting(v.pc) \/ v.pc = "list" => v.changes = {}
  /\ v.todo \subseteq v.listed
  /\ v.pc \in {"read", "upsert"} => v.path \subseteq v.listed \ v.todo
  /\ \A f \in v.changes : ChangeFits(v, f, E, R)
  /\ \A p \in Path : Untouched(v, p, E, R)
  /\ v.pc \in {"parent", "insert"} => v.time <= time /\ \A e \in E : e.time < v.time

LedgerInv ==
  ~aborted => Consistent(entries, nextId, now) /\ \A c \in Capturer : Fits(cap[c], entries, row, now)

(* What a prune leaves.                                                    *)
After(E, cutoff) == E \ {e \in E : e.time < cutoff}

(* A prune takes a prefix: it leaves the newest entry about a path, or none.*)
LEMMA PruneKeeps ==
  ASSUME NEW E \in SUBSET Entry, NEW next \in Nat, NEW time \in Nat, Consistent(E, next, time),
         NEW cutoff \in Nat
  PROVE  /\ Consistent(After(E, cutoff), next, time)
         /\ \A p, blob : Said(E, p, blob) => Said(After(E, cutoff), p, blob)
         /\ After(E, cutoff) \subseteq E
  <1> PICK D : D = E \ {e \in E : e.time < cutoff}
    OBVIOUS
  <1>1. \A e \in E : e.id \in Nat /\ e.time \in Nat
    BY DEF Entry
  <1>2. D \subseteq E /\ \A e \in E : e \in D <=> ~(e.time < cutoff)
    OBVIOUS
  <1>3. ASSUME NEW m \in E, NEW d \in D, m \notin D PROVE m.id < d.id
    BY <1>1, <1>2, <1>3 DEF Consistent
  <1>4. ASSUME NEW d \in D, NEW e \in D, NEW p, Adjacent(D, d, e, p)
        PROVE  Adjacent(E, d, e, p)
    <2>1. \A m \in E : m \notin D => m.id <= d.id
      BY <1>1, <1>3
    <2> QED BY <1>4, <2>1 DEF Adjacent
  <1>5. Consistent(D, next, time)
    BY <1>4 DEF Consistent
  <1>6. ASSUME NEW p, NEW blob, Said(E, p, blob) PROVE Said(D, p, blob)
    <2>1. CASE \A e \in E : \A f \in e.files : f.path # p
      BY <2>1 DEF Said
    <2>2. ASSUME NEW e \in E, NEW f \in e.files, f.path = p, f.new = blob,
                 \A m \in E : \A h \in m.files : h.path = p => m.id <= e.id
          PROVE  Said(D, p, blob)
      <3>1. CASE e \in D
        BY <2>2, <3>1 DEF Said
      <3>2. CASE e \notin D
        <4>1. ASSUME NEW m \in D, NEW h \in m.files, h.path = p PROVE FALSE
          <5>1. e.id < m.id /\ m.id <= e.id
            BY <1>3, <2>2, <3>2, <4>1
          <5> QED BY <1>1, <5>1
        <4> QED BY <4>1 DEF Said
      <3> QED BY <3>1, <3>2
    <2> QED BY <1>6, <2>1, <2>2 DEF Said
  <1> QED BY <1>2, <1>5, <1>6 DEF After

LEMMA InsertAppends ==
  ASSUME NEW E \in SUBSET Entry, NEW next \in Nat, NEW time \in Nat, Consistent(E, next, time),
         NEW e, NEW changes, e.id = next, e.files = changes, e.time \in Nat, e.time <= time,
         \A d \in E : d.time < e.time,
         \A f \in changes : /\ f.old # f.new /\ Said(E, f.path, f.old)
                            /\ \A g \in changes : f.path = g.path => f = g
  PROVE  /\ Consistent(E \cup {e}, next + 1, time)
         /\ \A p, blob : (\A f \in changes : f.path # p) /\ Said(E, p, blob) => Said(E \cup {e}, p, blob)
         /\ \A f \in changes : Said(E \cup {e}, f.path, f.new)
  <1>1. \A d \in E : d.id \in Nat /\ d.time \in Nat /\ d.id < next /\ d.id # next
    BY DEF Entry, Consistent
  <1> DEFINE D == E \cup {e}
  <1>2. \A d \in D : d.id < next + 1 /\ d.time <= time
    BY <1>1 DEF Consistent
  <1>3. ASSUME NEW c \in D, NEW d \in D
        PROVE  (c.id = d.id => c = d) /\ (c.id < d.id => c.time < d.time)
    <2>1. CASE c \in E /\ d \in E
      BY <2>1 DEF Consistent
    <2>2. CASE c = e /\ d \in E
      BY <1>1, <2>2
    <2>3. CASE c \in E /\ d = e
      BY <1>1, <2>3
    <2>4. CASE c = e /\ d = e
      BY <2>4
    <2> QED BY <2>1, <2>2, <2>3, <2>4
  <1>4. \A d \in D : \A f \in d.files : f.old # f.new /\ \A g \in d.files : f.path = g.path => f = g
    BY DEF Consistent
  <1>5. ASSUME NEW c \in D, NEW d \in D, NEW f \in c.files, NEW g \in d.files, f.path = g.path,
               Adjacent(D, c, d, f.path)
        PROVE  g.old = f.new
    <2>1. c.id < d.id
      BY <1>5 DEF Adjacent
    <2>2. c \in E
      BY <1>1, <2>1
    <2>3. CASE d \in E
      <3>1. Adjacent(E, c, d, f.path)
        BY <1>5 DEF Adjacent
      <3> QED BY <1>5, <2>2, <2>3, <3>1 DEF Consistent
    <2>4. CASE d = e
      <3>1. Said(E, f.path, g.old)
        BY <1>5, <2>4
      <3>2. PICK b \in E : \E h \in b.files :
              /\ h.path = f.path /\ h.new = g.old
              /\ \A m \in E : \A k \in m.files : k.path = f.path => m.id <= b.id
        BY <2>2, <3>1 DEF Said
      <3>3. PICK h \in b.files : h.path = f.path /\ h.new = g.old
        BY <3>2
      <3>4. c.id <= b.id /\ (b.id <= c.id \/ next <= b.id)
        BY <1>5, <2>2, <2>4, <3>2, <3>3 DEF Adjacent
      <3>5. b.id = c.id
        BY <1>1, <2>2, <3>4
      <3>6. b = c
        BY <2>2, <3>5 DEF Consistent
      <3>7. h = f
        BY <2>2, <3>3, <3>6 DEF Consistent
      <3> QED BY <3>3, <3>7
    <2> QED BY <2>3, <2>4
  <1>6. Consistent(D, next + 1, time)
    <2>1. \A d \in D : \A f \in d.files : f.old # f.new
      BY <1>4
    <2> HIDE DEF D
    <2> QED BY <1>2, <1>3, <1>4, <1>5, <2>1 DEF Consistent
  <1>7. ASSUME NEW p, NEW blob, \A f \in changes : f.path # p, Said(E, p, blob)
        PROVE  Said(D, p, blob)
    <2>1. \A f \in e.files : f.path # p
      BY <1>7
    <2> QED BY <1>7, <2>1 DEF Said
  <1>8. ASSUME NEW f \in changes PROVE Said(D, f.path, f.new)
    <2>1. \A m \in D : m.id <= e.id
      BY <1>1
    <2> QED BY <2>1 DEF Said
  <1> QED BY <1>6, <1>7, <1>8
(* At rest, and when the table has just been loaded, rows are all there is. *)
LEMMA AtFits ==
  ASSUME NEW E, NEW R, NEW time, \A p \in Path : Said(E, p, R[p].blob), NEW v,
         v.changes = {}, v.todo = {}, v.pc \in {"idle", "down", "watching"} \/ (v.pc = "list" /\ v.base = R)
  PROVE  Fits(v, E, R, time)
  BY DEF Fits, Untouched, Pending, Resting

LEMMA RestFits ==
  ASSUME NEW E, NEW R, NEW time, \A p \in Path : Said(E, p, R[p].blob), NEW c
  PROVE  Fits(Rest(c), E, R, time)
  <1>1. \A step \in {"idle", "watching"} : At(step).changes = {} /\ At(step).todo = {} /\ At(step).pc = step
    BY DEF At
  <1>2. \E step \in {"idle", "watching"} : Rest(c) = At(step)
    BY DEF Rest
  <1> QED BY <1>1, <1>2, AtFits

LEMMA FitsLater ==
  ASSUME NEW v \in Capture, NEW E \in SUBSET Entry, NEW R, NEW time \in Nat, NEW later \in Nat, time <= later,
         NEW next, Fits(v, E, R, time), Consistent(E, next, time)
  PROVE  Fits(v, E, R, later) /\ Consistent(E, next, later)
  <1>1. v.time \in Nat /\ \A e \in E : e.time \in Nat
    BY DEF Capture, Entry
  <1> QED BY <1>1 DEF Fits, Consistent

(* A step of the scan that finds no change and writes no row.              *)
LEMMA ScanFits ==
  ASSUME NEW v, NEW w, NEW E, NEW R, NEW time, Fits(v, E, R, time),
         w.changes = v.changes, w.base = v.base, w.pc \in {"walk", "read"}, ~Resting(v.pc), v.pc # "upsert",
         v.pc = "list" \/ w.listed = v.listed, v.pc = "list" \/ w.todo \subseteq v.todo,
         w.todo \subseteq w.listed,
         w.pc = "read" => v.pc # "list" /\ w.path \subseteq v.todo \ w.todo
  PROVE  Fits(w, E, R, time)
  <1>1. ~Resting(w.pc) /\ w.pc \notin {"list", "upsert", "parent", "insert"}
    BY DEF Resting
  <1>2. w.pc = "read" => w.path \subseteq w.listed \ w.todo
    BY DEF Fits
  <1>3. \A p \in Path : ~Pending(v, p) /\ ~Pending(w, p)
    BY <1>1 DEF Pending
  <1>4. ASSUME NEW f \in w.changes PROVE ChangeFits(w, f, E, R)
    <2>1. f \in v.changes /\ v.pc # "list" /\ ChangeFits(v, f, E, R)
      BY <1>4 DEF Fits
    <2>2. ~Pending(v, f.path) /\ ~Pending(w, f.path)
      BY <1>1 DEF Pending
    <2>3. f.path \notin v.todo
      BY <2>1 DEF ChangeFits, Fits
    <2> QED BY <2>1, <2>2, <2>3 DEF ChangeFits
  <1>5. ASSUME NEW p \in Path PROVE Untouched(w, p, E, R)
    BY <1>3 DEF Fits, Untouched
  <1> QED BY <1>1, <1>2, <1>4, <1>5 DEF Fits

(* The file p is read: w has a change to p when the content is not the row's.*)
LEMMA ReadFits ==
  ASSUME NEW v, NEW w, NEW E, NEW R, NEW time, Fits(v, E, R, time), NEW p \in Path, v.pc = "read", v.path = {p},
         w.pc = "upsert", w.path = {p}, w.base = v.base, w.listed = v.listed, w.todo = v.todo,
         \/ w.changes = v.changes /\ w.blob = v.base[p].blob
         \/ /\ w.blob # v.base[p].blob
            /\ \E f : f.path = p /\ f.old = v.base[p].blob /\ f.new = w.blob /\ w.changes = v.changes \cup {f}
  PROVE  Fits(w, E, R, time)
  <1>1. \A f \in v.changes : f.path # p /\ ChangeFits(v, f, E, R)
    BY DEF Fits, ChangeFits
  <1>2. Said(E, p, R[p].blob) /\ v.base[p].blob = R[p].blob
    BY <1>1 DEF Fits, Untouched, Resting
  <1>3. p \in v.listed \ v.todo
    BY DEF Fits
  <1>4. \A q : (Pending(w, q) <=> q = p) /\ ~Pending(v, q)
    BY DEF Pending
  <1>5. ASSUME NEW f \in w.changes PROVE ChangeFits(w, f, E, R)
    <2>1. CASE f \in v.changes
      <3>1. f.path # p /\ ChangeFits(v, f, E, R) /\ \A g \in w.changes : f.path = g.path => g \in v.changes
        BY <1>1, <2>1
      <3> QED BY <1>4, <3>1 DEF ChangeFits
    <2>2. CASE f \notin v.changes
      <3>1. f.path = p /\ f.old = v.base[p].blob /\ f.new = w.blob /\ w.changes = v.changes \cup {f} /\ f.old # f.new
        BY <1>5, <2>2
      <3>2. \A g \in w.changes : f.path = g.path => f = g
        BY <1>1, <3>1
      <3> QED BY <1>2, <1>3, <1>4, <3>1, <3>2 DEF ChangeFits
    <2> QED BY <2>1, <2>2
  <1>6. ASSUME NEW q \in Path PROVE Untouched(w, q, E, R)
    <2>1. CASE q # p
      <3>1. Untouched(v, q, E, R) /\ ~Pending(w, q) /\ v.changes \subseteq w.changes /\ ~Resting(v.pc)
        BY <1>4, <2>1 DEF Fits, Resting
      <3> QED BY <3>1 DEF Untouched
    <2>2. CASE q = p /\ w.changes = v.changes
      BY <1>2, <2>2 DEF Untouched
    <2>3. CASE q = p /\ w.changes # v.changes
      BY <2>3 DEF Untouched
    <2> QED BY <2>1, <2>2, <2>3
  <1>7. ~Resting(w.pc) /\ w.pc \notin {"list", "parent", "insert"}
    BY DEF Resting
  <1> QED BY <1>3, <1>5, <1>6, <1>7 DEF Fits

(* The row of the file just read.                                          *)
LEMMA UpsertFits ==
  ASSUME NEW v, NEW w, NEW E, NEW R, NEW S, NEW time, Fits(v, E, R, time), NEW p \in Path, v.pc = "upsert", v.path = {p},
         w.pc = "walk", w.changes = v.changes, w.base = v.base, w.listed = v.listed, w.todo = v.todo,
         \A q \in Path : S[q].blob = IF q = p THEN v.blob ELSE R[q].blob,
         \A f \in v.changes : f.path \in Path
  PROVE  Fits(w, E, S, time)
  <1>1. \A q : (Pending(v, q) <=> q = p) /\ ~Pending(w, q)
    BY DEF Pending
  <1>2. ASSUME NEW f \in w.changes PROVE ChangeFits(w, f, E, S)
    <2>1. ChangeFits(v, f, E, R) /\ f.path \in Path
      BY <1>2 DEF Fits
    <2>2. S[f.path].blob = f.new
      BY <1>1, <2>1 DEF ChangeFits
    <2> QED BY <1>1, <2>1, <2>2 DEF ChangeFits
  <1>3. ASSUME NEW q \in Path PROVE Untouched(w, q, E, S)
    <2>1. Untouched(v, q, E, R) /\ ~Resting(v.pc)
      BY DEF Fits, Resting
    <2> QED BY <1>1, <2>1 DEF Untouched
  <1>4. ~Resting(w.pc) /\ w.pc \notin {"list", "parent", "insert", "read", "upsert"}
    BY DEF Resting
  <1> QED BY <1>2, <1>3, <1>4 DEF Fits

(* A row the walk did not yield goes, and its deletion becomes a change.    *)
LEMMA SweepFits ==
  ASSUME NEW v, NEW w, NEW E, NEW R, NEW S, NEW time, Fits(v, E, R, time), NEW p \in Path, v.pc = "walk",
         p \notin v.listed, v.base[p].blob # Gone,
         w.pc = "walk", w.listed = v.listed, w.todo = v.todo,
         \E f : f.path = p /\ f.old = v.base[p].blob /\ f.new = Gone /\ w.changes = v.changes \cup {f},
         \A q \in Path : w.base[q].blob = IF q = p THEN Gone ELSE v.base[q].blob,
         \A q \in Path : S[q].blob = IF q = p THEN Gone ELSE R[q].blob,
         \A f \in v.changes : f.path \in Path
  PROVE  Fits(w, E, S, time)
  <1>1. \A f \in v.changes : f.path # p /\ ChangeFits(v, f, E, R)
    BY DEF Fits, ChangeFits
  <1>2. Said(E, p, R[p].blob) /\ v.base[p].blob = R[p].blob
    BY <1>1 DEF Fits, Untouched, Resting
  <1>3. \A q : ~Pending(w, q) /\ ~Pending(v, q)
    BY DEF Pending
  <1>4. ASSUME NEW f \in w.changes PROVE ChangeFits(w, f, E, S)
    <2>1. CASE f \in v.changes
      <3>1. f.path \in Path /\ f.path # p /\ ChangeFits(v, f, E, R) /\ \A g \in w.changes : f.path = g.path => g \in v.changes
        BY <1>1, <2>1
      <3>2. S[f.path].blob = R[f.path].blob /\ w.base[f.path].blob = v.base[f.path].blob
        BY <3>1
      <3> QED BY <1>3, <3>1, <3>2 DEF ChangeFits
    <2>2. CASE f \notin v.changes
      <3>1. f.path = p /\ f.old = v.base[p].blob /\ f.new = Gone /\ w.changes = v.changes \cup {f} /\ f.old # f.new
        BY <1>4, <2>2
      <3>2. \A g \in w.changes : f.path = g.path => f = g
        BY <1>1, <3>1
      <3> QED BY <1>2, <1>3, <3>1, <3>2 DEF ChangeFits
    <2> QED BY <2>1, <2>2
  <1>5. ASSUME NEW q \in Path PROVE Untouched(w, q, E, S)
    <2>1. CASE q # p
      <3>1. Untouched(v, q, E, R) /\ v.changes \subseteq w.changes /\ ~Resting(v.pc)
        BY DEF Fits, Resting
      <3> QED BY <1>3, <2>1, <3>1 DEF Untouched
    <2>2. CASE q = p
      BY <2>2 DEF Untouched
    <2> QED BY <2>1, <2>2
  <1>6. ~Resting(w.pc) /\ w.pc \notin {"list", "parent", "insert", "read", "upsert"}
    BY DEF Resting
  <1> QED BY <1>4, <1>5, <1>6 DEF Fits
LEMMA StepLedger ==
  ASSUME Command = {}, TypeOK, TypeOK', LedgerInv, [Next]_vars
  PROVE  LedgerInv'
  <1> DEFINE W == Watcher
  <1>0. /\ Capturer = {W} /\ cap \in [Capturer -> Capture] /\ row \in [Path -> Row] /\ entries \subseteq Entry
        /\ now \in Nat /\ now' \in Nat /\ nextId \in Nat
    BY DEF TypeOK, Capturer
  <1> SUFFICES ASSUME ~aborted' PROVE Consistent(entries, nextId, now)' /\ Fits(cap'[W], entries', row', now')
    BY <1>0 DEF LedgerInv, Capturer
  <1> PICK v \in Capture : v = cap[W]
    BY <1>0
  <1>1. ASSUME ~aborted PROVE Consistent(entries, nextId, now) /\ Fits(v, entries, row, now)
    BY <1>0, <1>1 DEF LedgerInv
  <1>2. \A f \in v.changes : f.path \in Path
    BY DEF Capture, Change
  <1>3. ASSUME UNCHANGED <<entries, nextId, aborted>>, now <= now', NEW w \in Capture, cap'[W] = w, 
               ~aborted => Fits(w, entries, row', now)
        PROVE  Consistent(entries, nextId, now)' /\ Fits(cap'[W], entries', row', now')
    BY <1>0, <1>1, <1>3, FitsLater
  <1>4. CASE cap' = cap /\ UNCHANGED <<entries, nextId, aborted, row>> /\ now <= now'
    BY <1>1, <1>3, <1>4
  <1>5. CASE Edit
    <2>1. cap' = cap /\ UNCHANGED <<entries, nextId, aborted, row>>
      BY <1>5 DEF Edit, Write, Remove, db, ghosts
    <2>2. now' = now \/ now' = now + 1
      BY <1>5 DEF Edit, Write, Remove
    <2> QED BY <1>0, <1>4, <2>1, <2>2
  <1>6. ASSUME Resting(v.pc), ~aborted PROVE \A p \in Path : Said(entries, p, row[p].blob)
    BY <1>1, <1>6 DEF Fits, Untouched
  <1>7. CASE WatchStart
    <2>1. cap'[W] = At("watching") /\ UNCHANGED <<entries, nextId, aborted, row, now>> /\ Resting(v.pc)
      BY <1>0, <1>7 DEF WatchStart, db, ghosts, Resting
    <2>2. At("watching") \in Capture
      BY AtType
    <2>3. ~aborted => Fits(At("watching"), entries, row, now)
      BY <1>6, <2>1, AtFits DEF At
    <2> QED BY <1>0, <1>3, <2>1, <2>2, <2>3
  (* The capturer's own steps.                                             *)
  <1>8. ASSUME NEW w \in Capture, Becomes(W, w) PROVE cap'[W] = w
    BY <1>0, <1>8 DEF Becomes
  <1>9. ASSUME NEW w \in Capture, Becomes(W, w), UNCHANGED <<entries, nextId, aborted, now>>,
               ~aborted => Fits(w, entries, row', now)
        PROVE  Consistent(entries, nextId, now)' /\ Fits(cap'[W], entries', row', now')
    BY <1>0, <1>3, <1>8, <1>9
  <1>10. CASE Load(W)
    <2> DEFINE w == [At("list") EXCEPT !.base = row]
    <2>1. At("list") \in Capture
      BY AtType
    <2>2. w \in Capture
      BY <1>0, <2>1 DEF Capture
    <2>3. w.changes = {} /\ w.todo = {} /\ w.pc = "list" /\ w.base = row
      BY DEF At
    <2>4. Becomes(W, w) /\ UNCHANGED <<entries, nextId, aborted, now, row>> /\ Resting(v.pc)
      BY <1>10 DEF Load, db, ghosts, Resting
    <2> HIDE DEF w
    <2>5. ~aborted => Fits(w, entries, row, now)
      BY <1>6, <2>3, <2>4, AtFits
    <2> QED BY <1>9, <2>2, <2>4, <2>5
  <1>11. CASE List(W)
    <2> DEFINE found == {p \in Path : content[p] # Gone}
               w == Listed(v, found)
    <2>1. w \in Capture
      <3>1. found \subseteq Path
        OBVIOUS
      <3> HIDE DEF found
      <3> QED BY <3>1 DEF Listed, Capture
    <2>2. w.changes = v.changes /\ w.base = v.base /\ w.pc = "walk" /\ w.todo = w.listed
      BY DEF Listed, Capture
    <2>3. Becomes(W, w) /\ UNCHANGED <<entries, nextId, aborted, now, row>> /\ v.pc = "list"
      BY <1>11 DEF List, db, ghosts
    <2> HIDE DEF w
    <2>4. ~aborted => Fits(w, entries, row, now)
      BY <1>1, <2>2, <2>3, ScanFits DEF Resting
    <2> QED BY <1>9, <2>1, <2>3, <2>4
  <1>12. ASSUME NEW p \in Path, Stat(W, p)
         PROVE  Consistent(entries, nextId, now)' /\ Fits(cap'[W], entries', row', now')
    <2>1. Skipped(v, p) \in Capture /\ Opened(v, p) \in Capture
      BY <1>12, CaptureTypes, OpenedType DEF Stat
    <2>2. PICK w \in Capture : Becomes(W, w) /\ (w = Skipped(v, p) \/ w = Opened(v, p))
      BY <1>12, <2>1 DEF Stat
    <2>3. UNCHANGED <<entries, nextId, aborted, now, row>> /\ v.pc = "walk" /\ p \in v.todo
      BY <1>12 DEF Stat, db, ghosts
    <2>4. /\ w.changes = v.changes /\ w.base = v.base /\ w.listed = v.listed /\ w.todo = v.todo \ {p}
          /\ w.pc = "walk" \/ (w.pc = "read" /\ w.path = {p})
      BY <2>2, <2>3 DEF Skipped, Opened, Capture
    <2>5. ~aborted => Fits(w, entries, row, now)
      <3>1. ~aborted => w.todo \subseteq w.listed
        BY <1>1, <2>4 DEF Fits
      <3>2. w.pc = "read" => w.path \subseteq v.todo \ w.todo
        BY <2>3, <2>4
      <3> QED BY <1>1, <2>3, <2>4, <3>1, <3>2, ScanFits DEF Resting
    <2> QED BY <1>9, <2>2, <2>3, <2>5
  <1>13. ASSUME NEW p \in Path, Read(W, p)
         PROVE  Consistent(entries, nextId, now)' /\ Fits(cap'[W], entries', row', now')
    <2> DEFINE new == content[p]
               u == Compared(v, new)
               f == [path |-> p, old |-> u.base[p].blob, new |-> new]
               x == WithChange(u, p, new)
    <2>1. new \in Blob
      BY DEF TypeOK
    <2>2. u \in Capture
      BY <2>1, CaptureTypes
    <2>3. x \in Capture
      BY <2>1, <2>2, CaptureTypes
    <2>4. v.pc = "read" /\ v.path = {p} /\ UNCHANGED <<entries, nextId, aborted, now, row>>
      BY <1>13 DEF Read, db, ghosts, Capture
    <2>5. /\ u.pc = "upsert" /\ u.path = {p} /\ u.base = v.base /\ u.listed = v.listed /\ u.todo = v.todo
          /\ u.changes = v.changes /\ u.blob = new
      BY <2>4 DEF Compared, Capture
    <2>6. f.path = p /\ f.old = v.base[p].blob /\ f.new = new
      BY <2>5
    <2>7. x = [u EXCEPT !.changes = u.changes \cup {f}]
      BY DEF WithChange
    <2> HIDE DEF u, f
    <2>8. /\ x.pc = "upsert" /\ x.path = {p} /\ x.base = v.base /\ x.listed = v.listed /\ x.todo = v.todo
          /\ x.changes = v.changes \cup {f} /\ x.blob = new
      BY <2>2, <2>5, <2>7 DEF Capture
    <2>9. (new = v.base[p].blob /\ Becomes(W, u)) \/ (new # v.base[p].blob /\ Becomes(W, x))
      BY <1>13 DEF Read, u
    <2> HIDE DEF x, new
    <2>10. CASE new = v.base[p].blob /\ Becomes(W, u)
      <3>1. ~aborted => Fits(u, entries, row, now)
        BY <1>1, <2>4, <2>5, <2>10, ReadFits
      <3> QED BY <1>9, <2>2, <2>4, <2>10, <3>1
    <2>11. CASE new # v.base[p].blob /\ Becomes(W, x)
      <3>1. ~aborted => Fits(x, entries, row, now)
        BY <1>1, <2>4, <2>6, <2>8, <2>11, ReadFits
      <3> QED BY <1>9, <2>3, <2>4, <2>11, <3>1
    <2> QED BY <2>9, <2>10, <2>11
  <1>14. ASSUME NEW p \in Path, Upsert(W, p)
         PROVE  Consistent(entries, nextId, now)' /\ Fits(cap'[W], entries', row', now')
    <2> DEFINE w == Upserted(v)
    <2>1. w \in Capture
      BY CaptureTypes
    <2>2. v.pc = "upsert" /\ v.path = {p} /\ UNCHANGED <<entries, nextId, aborted, now>> /\ Becomes(W, w)
      BY <1>14 DEF Upsert, ghosts, Capture
    <2>3. w.pc = "walk" /\ w.changes = v.changes /\ w.base = v.base /\ w.listed = v.listed /\ w.todo = v.todo
      BY DEF Upserted, Capture
    <2>4. \A q \in Path : row'[q].blob = IF q = p THEN v.blob ELSE row[q].blob
      BY <1>0, <1>14 DEF Upsert
    <2> HIDE DEF w
    <2>5. ~aborted => Fits(w, entries, row', now)
      BY <1>1, <1>2, <2>2, <2>3, <2>4, UpsertFits
    <2> QED BY <1>9, <2>1, <2>2, <2>5
  <1>15. ASSUME NEW p \in Path, Sweep(W, p)
         PROVE  Consistent(entries, nextId, now)' /\ Fits(cap'[W], entries', row', now')
    <2> DEFINE w == Swept(v, p)
               u == WithChange(v, p, Gone)
               f == [path |-> p, old |-> v.base[p].blob, new |-> Gone]
    <2>1. w \in Capture /\ u \in Capture
      BY CaptureTypes DEF Blob
    <2>2. /\ v.pc = "walk" /\ p \notin v.listed /\ v.base[p].blob # Gone
          /\ UNCHANGED <<entries, nextId, aborted, now>> /\ Becomes(W, w)
      BY <1>15 DEF Sweep, Leftover, ghosts
    <2>3. u.changes = v.changes \cup {f} /\ u.pc = v.pc /\ u.listed = v.listed /\ u.todo = v.todo /\ u.base = v.base
      BY DEF WithChange, Capture
    <2>4. f.path = p /\ f.old = v.base[p].blob /\ f.new = Gone
      OBVIOUS
    <2> HIDE DEF f
    <2>5. w = [u EXCEPT !.base = [u.base EXCEPT ![p] = NoRow]]
      BY DEF Swept
    <2> HIDE DEF u, w
    <2>6. /\ w.changes = v.changes \cup {f} /\ w.pc = "walk" /\ w.listed = v.listed /\ w.todo = v.todo
          /\ w.base = [v.base EXCEPT ![p] = NoRow]
      BY <2>1, <2>2, <2>3, <2>5 DEF Capture
    <2>7. \A q \in Path : w.base[q].blob = IF q = p THEN Gone ELSE v.base[q].blob
      BY <2>6 DEF Capture, NoRow
    <2>8. \A q \in Path : row'[q].blob = IF q = p THEN Gone ELSE row[q].blob
      BY <1>0, <1>15 DEF Sweep, NoRow
    <2>9. \E g : g.path = p /\ g.old = v.base[p].blob /\ g.new = Gone /\ w.changes = v.changes \cup {g}
      <3> WITNESS f
      <3> QED BY <2>4, <2>6
    <2>10. w.pc = "walk" /\ w.listed = v.listed /\ w.todo = v.todo /\ v.pc = "walk"
      BY <2>2, <2>6
    <2>11. PICK S : S = row'
      OBVIOUS
    <2>12. \A q \in Path : S[q].blob = IF q = p THEN Gone ELSE row[q].blob
      BY <2>8, <2>11
    <2>13. ~aborted => Fits(w, entries, S, now)
      BY <1>1, <1>2, <2>2, <2>7, <2>9, <2>10, <2>12, SweepFits
    <2>14. ~aborted => Fits(w, entries, row', now)
      BY <2>11, <2>13
    <2> QED BY <1>9, <2>1, <2>2, <2>14
  <1>16. CASE NoChange(W)
    <2>1. /\ Becomes(W, Rest(W)) /\ UNCHANGED <<entries, nextId, aborted, now, row>> /\ v.changes = {}
      BY <1>16 DEF NoChange, db, ghosts
    <2>2. ~aborted => \A p \in Path : Said(entries, p, row[p].blob)
      BY <1>1, <2>1 DEF Fits, Untouched
    <2>3. ~aborted => Fits(Rest(W), entries, row, now)
      BY <2>2, RestFits
    <2>4. Rest(W) \in Capture
      BY <1>0, RestType
    <2> QED BY <1>9, <2>1, <2>3, <2>4
  (* A capture is stamped later than every entry, and holds no file open.   *)
  <1>17. ASSUME NEW w, ~aborted, ~Resting(v.pc), v.pc \notin {"list", "read", "upsert"}, w.changes = v.changes,
                w.base = v.base, w.listed = v.listed, w.todo = v.todo, w.pc \in {"parent", "insert"}, w.time \in Nat,
                NEW time \in Nat, w.time <= time, \A e \in entries : e.time < w.time
         PROVE  Fits(w, entries, row, time)
    <2>1. ~Resting(w.pc) /\ \A p : ~Pending(v, p) /\ ~Pending(w, p)
      BY <1>17 DEF Resting, Pending
    <2>2. \A f \in w.changes : ChangeFits(w, f, entries, row)
      BY <1>1, <1>17, <2>1 DEF Fits, ChangeFits
    <2>3. \A p \in Path : Untouched(w, p, entries, row)
      BY <1>1, <1>17, <2>1 DEF Fits, Untouched
    <2> QED BY <1>1, <1>17, <2>1, <2>2, <2>3 DEF Fits
  <1>18. CASE Stamp(W)
    <2> DEFINE w == [v EXCEPT !.pc = "parent", !.time = now + 1]
    <2>1. w \in Capture
      <3>1. now + 1 \in Nat
        BY <1>0
      <3> QED BY <3>1 DEF Capture
    <2>2. /\ w.changes = v.changes /\ w.base = v.base /\ w.listed = v.listed /\ w.todo = v.todo
          /\ w.pc = "parent" /\ w.time = now + 1
      BY DEF Capture
    <2>3. /\ v.pc = "walk" /\ Becomes(W, w) /\ now' = now + 1 /\ UNCHANGED <<entries, nextId, aborted, row>>
      BY <1>18 DEF Stamp, ScanDone, db, ghosts
    <2> HIDE DEF w
    <2>4. ~aborted => \A e \in entries : e.time \in Nat /\ e.time <= now
      BY <1>0, <1>1 DEF Consistent, Entry
    <2>5. ~aborted => Fits(w, entries, row, now')
      BY <1>0, <1>17, <2>2, <2>3, <2>4 DEF Resting
    <2>6. ~aborted => Consistent(entries, nextId, now')
      BY <1>0, <1>1, <2>3, FitsLater
    <2> QED BY <1>8, <2>1, <2>3, <2>5, <2>6
  <1>19. CASE ReadParent(W)
    <2>1. MaxId \subseteq Nat
      BY <1>0 DEF MaxId, Ids, Entry
    <2>2. PICK m \in MaxId : Becomes(W, [v EXCEPT !.pc = "insert", !.parent = m])
      BY <1>19 DEF ReadParent
    <2> DEFINE w == [v EXCEPT !.pc = "insert", !.parent = m]
    <2>3. w \in Capture
      <3>1. m \in Nat
        BY <2>1
      <3> QED BY <3>1 DEF Capture
    <2>4. /\ w.changes = v.changes /\ w.base = v.base /\ w.listed = v.listed /\ w.todo = v.todo
          /\ w.pc = "insert" /\ w.time = v.time /\ v.time \in Nat
      BY DEF Capture
    <2>5. v.pc = "parent" /\ Becomes(W, w) /\ UNCHANGED <<entries, nextId, aborted, now, row>>
      BY <1>19, <2>2 DEF ReadParent, db, ghosts
    <2> HIDE DEF w
    <2>6. ~aborted => v.time <= now /\ \A e \in entries : e.time < v.time
      BY <1>1, <2>5 DEF Fits
    <2>7. ~aborted => Fits(w, entries, row, now)
      BY <1>0, <1>17, <2>4, <2>5, <2>6 DEF Resting
    <2> QED BY <1>9, <2>3, <2>5, <2>7
  <1>20. CASE Insert(W)
    <2> DEFINE e == [id |-> nextId, parent |-> v.parent, time |-> v.time, files |-> v.changes]
    <2>1. /\ v.pc = "insert" /\ Becomes(W, Rest(W)) /\ entries' = entries \cup {e} /\ nextId' = nextId + 1
          /\ UNCHANGED <<row, now, aborted>>
      BY <1>20 DEF Insert
    <2>2. e.id = nextId /\ e.files = v.changes /\ e.time = v.time /\ e.time \in Nat
      BY DEF Capture
    <2> HIDE DEF e
    <2>3. ~aborted
      BY <2>1
    <2>4. /\ e.time <= now /\ \A d \in entries : d.time < e.time
          /\ \A f \in v.changes : /\ f.old # f.new /\ Said(entries, f.path, f.old)
                                  /\ \A g \in v.changes : f.path = g.path => f = g
      BY <1>1, <2>1, <2>2, <2>3 DEF Fits, ChangeFits
    <2>5. /\ Consistent(entries', nextId', now)
          /\ \A p, blob : (\A f \in v.changes : f.path # p) /\ Said(entries, p, blob) => Said(entries', p, blob)
          /\ \A f \in v.changes : Said(entries', f.path, f.new)
      BY <1>0, <1>1, <2>1, <2>2, <2>3, <2>4, InsertAppends
    <2>6. ASSUME NEW p \in Path PROVE Said(entries', p, row[p].blob)
      <3>1. CASE \A f \in v.changes : f.path # p
        BY <1>1, <2>3, <2>5, <3>1 DEF Fits, Untouched
      <3>2. ASSUME NEW f \in v.changes, f.path = p PROVE Said(entries', p, row[p].blob)
        <4>1. row[p].blob = f.new
          BY <1>1, <2>1, <2>3, <3>2 DEF Fits, ChangeFits, Pending
        <4> QED BY <2>5, <3>2, <4>1
      <3> QED BY <3>1, <3>2
    <2>7. Fits(Rest(W), entries', row, now)
      BY <2>6, RestFits
    <2> QED BY <1>0, <1>8, <2>1, <2>5, <2>7, RestType
  <1>21. ~Abort(W)
    BY DEF Abort
  <1>22. ASSUME NEW cutoff \in Nat, Prune(cutoff) \/ PruneFails(cutoff)
         PROVE  Consistent(entries, nextId, now)' /\ Fits(cap'[W], entries', row', now')
    <2>1. CASE Prune(cutoff)
      <3>1. /\ entries' = entries \ {e \in entries : e.time < cutoff} /\ cap' = cap
            /\ UNCHANGED <<nextId, now, row, aborted>>
        BY <2>1 DEF Prune, Older, ghosts
      <3>2. ~aborted
        BY <3>1
      <3>3. /\ Consistent(entries', nextId, now) /\ entries' \subseteq entries
            /\ \A p, blob : Said(entries, p, blob) => Said(entries', p, blob)
        <4>1. PICK E, D : E = entries /\ D = entries'
          OBVIOUS
        <4>2. E \in SUBSET Entry /\ Consistent(E, nextId, now)
          BY <1>0, <1>1, <3>2, <4>1
        <4>3. D = After(E, cutoff)
          BY <3>1, <4>1 DEF After
        <4>4. /\ Consistent(D, nextId, now) /\ D \subseteq E
              /\ \A p, blob : Said(E, p, blob) => Said(D, p, blob)
          <5>1. nextId \in Nat /\ now \in Nat /\ cutoff \in Nat
            BY <1>0
          <5>2. /\ Consistent(After(E, cutoff), nextId, now) /\ After(E, cutoff) \subseteq E
                /\ \A p, blob : Said(E, p, blob) => Said(After(E, cutoff), p, blob)
            BY <4>2, <5>1, PruneKeeps
          <5> QED BY <4>3, <5>2
        <4> QED BY <4>1, <4>4
      <3>4. Fits(v, entries, row, now)
        BY <1>1, <3>2
      <3>5. \A f \in v.changes : ChangeFits(v, f, entries', row)
        BY <3>3, <3>4 DEF Fits, ChangeFits
      <3>6. \A p \in Path : Untouched(v, p, entries', row)
        BY <3>3, <3>4 DEF Fits, Untouched
      <3>7. Fits(v, entries', row, now)
        BY <3>3, <3>4, <3>5, <3>6 DEF Fits
      <3> QED BY <3>1, <3>3, <3>7
    <2>2. CASE PruneFails(cutoff)
      <3>1. cap' = cap /\ UNCHANGED <<entries, nextId, aborted, row, now>>
        BY <2>2 DEF PruneFails, db, ghosts
      <3> QED BY <1>0, <1>4, <3>1
    <2> QED BY <1>22, <2>1, <2>2
  <1>23. CASE UNCHANGED vars
    <2>1. cap' = cap /\ UNCHANGED <<entries, nextId, aborted, row, now>>
      BY <1>23 DEF vars, db, ghosts
    <2> QED BY <1>0, <1>4, <2>1
  <1>24. CASE Step(W) \/ Crash(W)
    <2>1. ~Crash(W) /\ ~InsertFails(W) /\ \A p \in Path : ~Vanished(W, p)
      BY <1>21 DEF Crash, InsertFails, Vanished
    <2> QED BY <1>10, <1>11, <1>12, <1>13, <1>14, <1>15, <1>16, <1>18, <1>19, <1>20, <1>24, <2>1 DEF Step
  <1>25. \A cutoff \in 1 .. now + 1 : cutoff \in Nat
    BY <1>0
  <1> QED
    BY <1>0, <1>5, <1>7, <1>22, <1>23, <1>24, <1>25 DEF Next

(* With one capturer, until one of its captures is aborted, each change     *)
(* follows on from the change before it and, between captures, the newest  *)
(* entry about a path gives its row, whatever edits fall within a capture  *)
(* and whatever is pruned.                                                 *)
THEOREM TimelineLedger ==
  ASSUME Command = {}
  PROVE  Spec => []Ledger
  <1>1. Init => LedgerInv
    <2> SUFFICES ASSUME Init PROVE LedgerInv
      OBVIOUS
    <2>1. entries = {} /\ now = 0 /\ nextId = 1 /\ Consistent({}, nextId, now) /\ \A p, blob : Said({}, p, blob)
      BY DEF Init, Consistent, Said
    <2>2. ASSUME NEW c \in Capturer PROVE Fits(cap[c], entries, row, now)
      <3>1. \A step \in {"idle", "down"} : At(step).changes = {} /\ At(step).todo = {} /\ At(step).pc = step
        BY DEF At
      <3>2. \E step \in {"idle", "down"} : cap[c] = At(step)
        BY DEF Init, Dead
      <3> QED BY <2>1, <3>1, <3>2, AtFits
    <2> QED BY <2>1, <2>2 DEF LedgerInv
  <1>2. TypeOK /\ LedgerInv => Ledger
    <2> SUFFICES ASSUME TypeOK, LedgerInv, ~aborted
                 PROVE  /\ \A p \in Path : \A e \in About(p) :
                             /\ FileIn(e, p).old # FileIn(e, p).new
                             /\ \A d \in About(p) :
                                  (d.id < e.id /\ \A m \in About(p) : m.id <= d.id \/ m.id >= e.id)
                                    => FileIn(e, p).old = FileIn(d, p).new
                        /\ Quiet => \A p \in Path : About(p) # {} =>
                                      FileIn(Newest(p), p).new = row[p].blob
      BY DEF Ledger
    <2>0. /\ Consistent(entries, nextId, now) /\ \A c \in Capturer : Fits(cap[c], entries, row, now)
          /\ \A e \in entries : e.id \in Nat /\ e.files \subseteq Change
      BY DEF LedgerInv, TypeOK, Entry
    <2>1. ASSUME NEW p \in Path, NEW e \in About(p), NEW f \in e.files, f.path = p
          PROVE  FileIn(e, p) = f
      <3>1. e \in entries /\ \A g \in e.files : g.path = p => g = f
        BY <2>0, <2>1 DEF About, Consistent
      <3> QED BY <2>1, <3>1 DEF FileIn
    <2>2. ASSUME NEW p \in Path, NEW e \in About(p) PROVE \E f \in e.files : f.path = p /\ FileIn(e, p) = f
      BY <2>1 DEF About
    <2>3. ASSUME NEW p \in Path, NEW e \in About(p) PROVE FileIn(e, p).old # FileIn(e, p).new
      BY <2>0, <2>2 DEF About, Consistent
    <2>4. ASSUME NEW p \in Path, NEW e \in About(p), NEW d \in About(p), d.id < e.id,
                 \A m \in About(p) : m.id <= d.id \/ m.id >= e.id
          PROVE  FileIn(e, p).old = FileIn(d, p).new
      <3>1. Adjacent(entries, d, e, p)
        BY <2>0, <2>4 DEF Adjacent, About
      <3>2. PICK g \in e.files : g.path = p /\ FileIn(e, p) = g
        BY <2>2
      <3>3. PICK f \in d.files : f.path = p /\ FileIn(d, p) = f
        BY <2>2
      <3> QED BY <2>0, <3>1, <3>2, <3>3 DEF Consistent, About
    <2>5. ASSUME Quiet, NEW p \in Path, About(p) # {} PROVE FileIn(Newest(p), p).new = row[p].blob
      <3>1. Watcher \in Capturer /\ Resting(cap[Watcher].pc)
        BY <2>5 DEF Quiet, Capturer
      <3>2. Said(entries, p, row[p].blob)
        BY <2>0, <3>1 DEF Fits, Untouched
      <3>3. PICK e \in entries : \E f \in e.files :
               /\ f.path = p /\ f.new = row[p].blob
               /\ \A m \in entries : \A h \in m.files : h.path = p => m.id <= e.id
        BY <2>5, <3>2 DEF Said, About
      <3>4. PICK f \in e.files : f.path = p /\ f.new = row[p].blob
        BY <3>3
      <3>5. e \in About(p) /\ \A d \in About(p) : d.id <= e.id
        BY <3>3, <3>4 DEF About
      <3>6. Newest(p) \in About(p) /\ \A d \in About(p) : d.id <= Newest(p).id
        BY <3>5 DEF Newest
      <3>7. e.id \in Nat /\ Newest(p).id \in Nat /\ Newest(p) \in entries
        BY <2>0, <3>6 DEF About
      <3>8. Newest(p) = e
        BY <2>0, <3>5, <3>6, <3>7 DEF Consistent
      <3> QED BY <2>1, <3>4, <3>5, <3>8
    <2> QED BY <2>3, <2>4, <2>5
  <1>3. TypeOK /\ TypeOK' /\ LedgerInv /\ [Next]_vars => LedgerInv'
    BY StepLedger
  <1> QED
    BY <1>1, <1>2, <1>3, InitTypeOK, StepTypeOK, PTL DEF Spec
=============================================================================
