------------------------------ MODULE Timeline ------------------------------
(***************************************************************************)
(* Layer 2 of gpp: continuous capture of the working directory.            *)
(*                                                                         *)
(* A capture (Timeline::capture) loads the workspace_state table, walks    *)
(* the working directory, compares every file with its row, updates the    *)
(* row of each changed file at once, and only at the end appends one       *)
(* timeline entry.  Every statement is its own SQLite transaction, so      *)
(* edits, other captures, `gpp timeline prune` and the death of the        *)
(* process can fall between any two of them.                               *)
(*                                                                         *)
(* Capturers are the watcher (`gpp timeline watch`), which captures after  *)
(* a file event, and the commands and agent sessions that capture before   *)
(* they do their own work.                                                 *)
(***************************************************************************)
EXTENDS Naturals, FiniteSets

CONSTANTS
  Path,         \* paths of the working directory that are not ignored
  Content,      \* file contents (a content stands for its blob hash too)
  Gone,         \* "no such file", "no such row"
  SizeOf,       \* size of a content
  Watcher,      \* the watching process
  Command,      \* the other processes that capture
  CoarseMtime,  \* may two writes of a file carry the same mtime?
  MaxEdits,     \* bound: edits of the working directory
  MaxPrunes,    \* bound: `gpp timeline prune` commands
  MaxCrashes    \* bound: captures that die

ASSUME GoneAssumption == Gone \notin Content
ASSUME SizeOfAssumption == SizeOf \in [Content -> Nat]
ASSUME WatcherAssumption == Watcher \notin Command
ASSUME CoarseMtimeAssumption == CoarseMtime \in BOOLEAN
ASSUME BoundsAssumption ==
  MaxEdits \in Nat /\ MaxPrunes \in Nat /\ MaxCrashes \in Nat

VARIABLES
  content,   \* content[p]: what is on disk at p, or Gone
  mtime,     \* mtime[p]: modification time of p
  row,       \* row[p]: workspace_state of p (blob Gone: no row)
  objects,   \* blobs in the object store
  entries,   \* table timeline_entries, each with its timeline_files
  nextId,    \* the AUTOINCREMENT sequence
  cap,       \* cap[c]: local state of the capture c is running
  dirty,     \* an event is queued on the watcher's channel
  now,       \* clock
  edits, prunes, crashes,   \* bounded counters
  aborted,     \* history: some capture ended before inserting its entry
  recorded     \* history: <<path, blob>> pairs that some entry has recorded

disk   == <<content, mtime>>
db     == <<row, entries, nextId>>
bounds == <<edits, prunes, crashes>>
ghosts == <<aborted, recorded>>
vars   == <<disk, db, objects, cap, dirty, now, bounds, ghosts>>

Capturer == Command \cup {Watcher}
Blob     == Content \cup {Gone}
Row      == [blob : Blob, size : Nat, mtime : Nat]
NoRow    == [blob |-> Gone, size |-> 0, mtime |-> 0]
Change   == [path : Path, old : Blob, new : Blob]
Entry    == [id : Nat \ {0}, parent : Nat, time : Nat, files : SUBSET Change]

Resting(step) == step \in {"idle", "down", "watching"}

Capture ==
  [pc      : {"idle", "down", "watching", "list", "walk", "read", "upsert",
              "stamp", "parent", "insert"},
   base    : [Path -> Row],     \* the rows load_state returned
   listed  : SUBSET Path,       \* the files the walk yields
   todo    : SUBSET Path,       \* those it has still to visit
   path    : {{}} \cup {{p} : p \in Path},   \* the file being compared
   size    : Nat,               \* its metadata
   mtime   : Nat,
   blob    : Blob,              \* its content
   changes : SUBSET Change,     \* the changes detected so far
   time    : Nat,               \* the entry's timestamp
   parent  : Nat]               \* MAX(id), 0 for none

At(step) ==
  [pc |-> step, base |-> [p \in Path |-> NoRow], listed |-> {}, todo |-> {},
   path |-> {}, size |-> 0, mtime |-> 0, blob |-> Gone, changes |-> {},
   time |-> 0, parent |-> 0]

Rest(c) == IF c = Watcher THEN At("watching") ELSE At("idle")
Dead(c) == IF c = Watcher THEN At("down") ELSE At("idle")

Ids(E) == {e.id : e \in E}
MaxId  == IF entries = {} THEN {0}
          ELSE {m \in Ids(entries) : \A n \in Ids(entries) : n <= m}

TypeOK ==
  /\ content \in [Path -> Blob]
  /\ mtime \in [Path -> Nat]
  /\ row \in [Path -> Row]
  /\ objects \subseteq Content
  /\ entries \subseteq Entry
  /\ nextId \in Nat \ {0}
  /\ cap \in [Capturer -> Capture]
  /\ dirty \in BOOLEAN
  /\ now \in Nat
  /\ edits \in 0 .. MaxEdits /\ prunes \in 0 .. MaxPrunes /\ crashes \in 0 .. MaxCrashes
  /\ aborted \in BOOLEAN
  /\ recorded \subseteq Path \X Blob

(* A fresh repository; the working directory may already hold files.       *)
Init ==
  /\ content \in [Path -> Blob]
  /\ mtime = [p \in Path |-> 0]
  /\ row = [p \in Path |-> NoRow]
  /\ objects = {}
  /\ entries = {}
  /\ nextId = 1
  /\ cap = [c \in Capturer |-> Dead(c)]
  /\ dirty = FALSE
  /\ now = 0
  /\ edits = 0 /\ prunes = 0 /\ crashes = 0
  /\ aborted = FALSE
  /\ recorded = {}
-----------------------------------------------------------------------------
(* The environment: files are written, rewritten and removed.              *)

(* Mutant of Notify: events are lost while a capture runs.                 *)
Notify_OnlyWatching == dirty' = (dirty \/ cap[Watcher].pc = "watching")

(* The notify callback queues an event while the watcher runs.             *)
Notify == dirty' = (cap[Watcher].pc # "down")

Write(p, c) ==
  /\ edits < MaxEdits
  /\ edits' = edits + 1
  /\ now' = now + 1
  /\ content' = [content EXCEPT ![p] = c]
  /\ \E t \in {now + 1} \cup (IF CoarseMtime THEN {mtime[p]} ELSE {}) :
       mtime' = [mtime EXCEPT ![p] = t]
  /\ Notify
  /\ UNCHANGED <<db, objects, cap, prunes, crashes, ghosts>>

Remove(p) ==
  /\ edits < MaxEdits
  /\ edits' = edits + 1
  /\ content[p] # Gone
  /\ content' = [content EXCEPT ![p] = Gone]
  /\ Notify
  /\ UNCHANGED <<mtime, db, objects, cap, now, prunes, crashes, ghosts>>

(* watch_loop registers with the filesystem; it does not scan first.       *)
WatchStart ==
  /\ cap[Watcher].pc = "down"
  /\ cap' = [cap EXCEPT ![Watcher] = At("watching")]
  /\ dirty' = FALSE
  /\ UNCHANGED <<disk, db, objects, now, bounds, ghosts>>
-----------------------------------------------------------------------------
(* A capture, step by step; v is the capturer's state before the step.     *)
Becomes(c, v) == cap' = [cap EXCEPT ![c] = v]

(* The watcher has drained a burst of events, or a command runs; either    *)
(* way load_state reads every row.                                         *)
Load(c) ==
  /\ IF c = Watcher THEN cap[c].pc = "watching" /\ dirty /\ dirty' = FALSE
                    ELSE cap[c].pc = "idle" /\ UNCHANGED dirty
  /\ Becomes(c, [At("list") EXCEPT !.base = row])
  /\ UNCHANGED <<disk, db, objects, now, bounds, ghosts>>

(* WalkDir reads the directory.                                            *)
Listed(v, found) == [v EXCEPT !.pc = "walk", !.listed = found, !.todo = found]

List(c) ==
  /\ cap[c].pc = "list"
  /\ Becomes(c, Listed(cap[c], {p \in Path : content[p] # Gone}))
  /\ UNCHANGED <<disk, db, objects, dirty, now, bounds, ghosts>>

(* The fast path: a row with the file's size and mtime.                    *)
Unchanged(r, p) ==
  r.blob # Gone /\ r.size = SizeOf[content[p]] /\ r.mtime = mtime[p]

Skipped(v, p) == [v EXCEPT !.todo = @ \ {p}]
Opened(v, p)  == [v EXCEPT !.todo = @ \ {p}, !.pc = "read", !.path = {p},
                           !.size = SizeOf[content[p]], !.mtime = mtime[p]]

(* The walk reaches p and reads its metadata.                              *)
Stat(c, p) ==
  /\ cap[c].pc = "walk"
  /\ p \in cap[c].todo
  /\ content[p] # Gone
  /\ Becomes(c, IF Unchanged(cap[c].base[p], p) THEN Skipped(cap[c], p)
                                                ELSE Opened(cap[c], p))
  /\ UNCHANGED <<disk, db, objects, dirty, now, bounds, ghosts>>

WithChange(v, p, new) ==
  [v EXCEPT !.changes = @ \cup {[path |-> p, old |-> v.base[p].blob, new |-> new]}]

Compared(v, new) == [v EXCEPT !.pc = "upsert", !.blob = new]

(* Mutant of Read: the blob of a change is not written to the object store. *)
Read_NoStore(c, p) ==
  /\ cap[c].pc = "read"
  /\ p \in cap[c].path
  /\ content[p] # Gone
  /\ Becomes(c, WithChange(Compared(cap[c], content[p]), p, content[p]))
  /\ UNCHANGED <<disk, db, objects, dirty, now, bounds, ghosts>>

(* The file is read.  Content other than the row's goes to the object      *)
(* store and to the list of changes.                                       *)
Read(c, p) ==
  LET new  == content[p]
      same == new = cap[c].base[p].blob
      v    == Compared(cap[c], new)
  IN  /\ cap[c].pc = "read"
      /\ p \in cap[c].path
      /\ new # Gone
      /\ objects' = IF same THEN objects ELSE objects \cup {new}
      /\ Becomes(c, IF same THEN v ELSE WithChange(v, p, new))
      /\ UNCHANGED <<disk, db, dirty, now, bounds, ghosts>>

Upserted(v) ==
  [v EXCEPT !.pc = "walk", !.path = {}, !.size = 0, !.mtime = 0, !.blob = Gone]

(* Mutant of Upsert: the row takes the metadata after the read, not before. *)
Upsert_LateMetadata(c, p) ==
  /\ cap[c].pc = "upsert"
  /\ p \in cap[c].path
  /\ row' = [row EXCEPT ![p] = [blob |-> cap[c].blob, size |-> cap[c].size,
                                mtime |-> mtime[p]]]
  /\ Becomes(c, Upserted(cap[c]))
  /\ UNCHANGED <<disk, entries, nextId, objects, dirty, now, bounds, ghosts>>

(* upsert_state: the row of the file just read.                            *)
Upsert(c, p) ==
  /\ cap[c].pc = "upsert"
  /\ p \in cap[c].path
  /\ row' = [row EXCEPT ![p] = [blob |-> cap[c].blob, size |-> cap[c].size,
                                mtime |-> cap[c].mtime]]
  /\ Becomes(c, Upserted(cap[c]))
  /\ UNCHANGED <<disk, entries, nextId, objects, dirty, now, bounds, ghosts>>

(* The rows load_state returned for files the walk did not yield.          *)
Leftover(c) == {p \in Path \ cap[c].listed : cap[c].base[p].blob # Gone}

Swept(v, p) == [WithChange(v, p, Gone) EXCEPT !.base = [@ EXCEPT ![p] = NoRow]]

(* Mutant of Sweep: the row of a deleted file is kept.                     *)
Sweep_KeepsRow(c, p) ==
  /\ cap[c].pc = "walk"
  /\ cap[c].todo = {}
  /\ p \in Leftover(c)
  /\ Becomes(c, Swept(cap[c], p))
  /\ UNCHANGED <<disk, db, objects, dirty, now, bounds, ghosts>>

(* One of them: recorded as deleted, its row removed (delete_state).       *)
Sweep(c, p) ==
  /\ cap[c].pc = "walk"
  /\ cap[c].todo = {}
  /\ p \in Leftover(c)
  /\ row' = [row EXCEPT ![p] = NoRow]
  /\ Becomes(c, Swept(cap[c], p))
  /\ UNCHANGED <<disk, entries, nextId, objects, dirty, now, bounds, ghosts>>

ScanDone(c) == cap[c].pc = "walk" /\ cap[c].todo = {} /\ Leftover(c) = {}

(* Mutant of NoChange: a capture may return without inserting its entry.   *)
NoChange_Always(c) ==
  /\ ScanDone(c)
  /\ Becomes(c, Rest(c))
  /\ UNCHANGED <<disk, db, objects, dirty, now, bounds, ghosts>>

(* Nothing changed: capture returns Ok(None).                              *)
NoChange(c) ==
  /\ ScanDone(c)
  /\ cap[c].changes = {}
  /\ Becomes(c, Rest(c))
  /\ UNCHANGED <<disk, db, objects, dirty, now, bounds, ghosts>>

(* now_micros(), taken before the entry is inserted.                       *)
Stamp(c) ==
  /\ ScanDone(c)
  /\ cap[c].changes # {}
  /\ now' = now + 1
  /\ Becomes(c, [cap[c] EXCEPT !.pc = "parent", !.time = now + 1])
  /\ UNCHANGED <<disk, db, objects, dirty, bounds, ghosts>>

(* last_entry_id(): SELECT MAX(id), outside the insert's transaction.      *)
ReadParent(c) ==
  /\ cap[c].pc = "parent"
  /\ \E m \in MaxId : Becomes(c, [cap[c] EXCEPT !.pc = "insert", !.parent = m])
  /\ UNCHANGED <<disk, db, objects, dirty, now, bounds, ghosts>>

(* REFERENCES timeline_entries(id): the parent must still exist.           *)
ParentExists(c) == cap[c].parent = 0 \/ cap[c].parent \in Ids(entries)

(* The transaction: the entry and its files.                               *)
Insert(c) ==
  /\ cap[c].pc = "insert"
  /\ ParentExists(c)
  /\ entries' = entries \cup {[id |-> nextId, parent |-> cap[c].parent,
                               time |-> cap[c].time, files |-> cap[c].changes]}
  /\ nextId' = nextId + 1
  /\ recorded' = recorded \cup {<<f.path, f.new>> : f \in cap[c].changes}
  /\ Becomes(c, Rest(c))
  /\ UNCHANGED <<disk, row, objects, dirty, now, bounds, aborted>>

(* A capture that ends without its entry: watch returns the error and the  *)
(* watcher is down; a command exits.                                       *)
Abort(c) ==
  /\ Becomes(c, Dead(c))
  /\ aborted' = TRUE
  /\ UNCHANGED <<disk, db, objects, dirty, now, edits, prunes, recorded>>

(* A file the walk listed has vanished: metadata or read fails.            *)
Vanished(c, p) ==
  /\ \/ cap[c].pc = "walk" /\ p \in cap[c].todo
     \/ cap[c].pc = "read" /\ p \in cap[c].path
  /\ content[p] = Gone
  /\ Abort(c)
  /\ UNCHANGED crashes

(* The parent was pruned between ReadParent and Insert.                    *)
InsertFails(c) ==
  /\ cap[c].pc = "insert"
  /\ ~ParentExists(c)
  /\ Abort(c)
  /\ UNCHANGED crashes

(* The process is killed, or a statement fails (a busy database, a full    *)
(* disk, a file without read permission).                                  *)
Crash(c) ==
  /\ ~Resting(cap[c].pc)
  /\ crashes < MaxCrashes
  /\ crashes' = crashes + 1
  /\ Abort(c)
-----------------------------------------------------------------------------
(* `gpp timeline prune`: one DELETE of everything older than the cutoff.   *)
(* parent_id has no ON DELETE action, so the statement fails as a whole    *)
(* when an entry that stays has its parent among those that go.            *)
Older(cutoff) == {e \in entries : e.time < cutoff}

Orphans(cutoff) ==
  {e \in entries \ Older(cutoff) : e.parent \in Ids(Older(cutoff))}

Prune(cutoff) ==
  /\ prunes < MaxPrunes
  /\ prunes' = prunes + 1
  /\ Older(cutoff) # {}
  /\ Orphans(cutoff) = {}
  /\ entries' = entries \ Older(cutoff)
  /\ UNCHANGED <<disk, row, nextId, objects, cap, dirty, now, edits, crashes, ghosts>>

PruneFails(cutoff) ==
  /\ prunes < MaxPrunes
  /\ prunes' = prunes + 1
  /\ Orphans(cutoff) # {}
  /\ UNCHANGED <<disk, db, objects, cap, dirty, now, edits, crashes, ghosts>>
-----------------------------------------------------------------------------
Edit == \E p \in Path : Remove(p) \/ \E c \in Content : Write(p, c)

Step(c) ==
  \/ Load(c) \/ List(c)
  \/ \E p \in Path :
       Stat(c, p) \/ Read(c, p) \/ Upsert(c, p) \/ Sweep(c, p) \/ Vanished(c, p)
  \/ NoChange(c) \/ Stamp(c) \/ ReadParent(c) \/ Insert(c) \/ InsertFails(c)

Next ==
  \/ Edit
  \/ WatchStart
  \/ \E c \in Capturer : Step(c) \/ Crash(c)
  \/ \E cutoff \in 1 .. now + 1 : Prune(cutoff) \/ PruneFails(cutoff)

Spec == Init /\ [][Next]_vars

(* The operating system schedules the watcher; nothing obliges the user to *)
(* edit, to run a command or to restart the watcher.                       *)
FairSpec == Spec /\ WF_vars(Step(Watcher))
-----------------------------------------------------------------------------
Quiet == \A c \in Capturer : Resting(cap[c].pc)

(* Whatever the table, an entry or a capture under way refers to can be    *)
(* read back from the object store.                                        *)
BlobsKept ==
  /\ \A p \in Path : row[p].blob # Gone => row[p].blob \in objects
  /\ \A e \in entries : \A f \in e.files : {f.old, f.new} \ {Gone} \subseteq objects

(* The fast path never hides an edit: a file whose size and mtime are      *)
(* those of its row has the content of its row, however edits, concurrent  *)
(* captures and crashes interleave (scan.rs reads metadata, then content). *)
FastPathSound ==
  \A p \in Path :
    content[p] # Gone /\ Unchanged(row[p], p) => row[p].blob = content[p]

(* Between captures, every row says what some entry has recorded: what the *)
(* scanner will not look at again is in the timeline ("records every       *)
(* change", lib.rs).                                                       *)
RowsRecorded ==
  Quiet => \A p \in Path : row[p].blob # Gone => <<p, row[p].blob>> \in recorded

(* The same, as long as no capture has ended before its entry.             *)
CompletedCapturesRecord == ~aborted => RowsRecorded

(* The entries that say something about a path.                            *)
About(p) == {e \in entries : \E f \in e.files : f.path = p}
FileIn(e, p) == CHOOSE f \in e.files : f.path = p
Newest(p) == CHOOSE e \in About(p) : \A d \in About(p) : d.id <= e.id

(* With one capturer whose captures all complete, the timeline is a        *)
(* ledger: the old content of each change is the new content of the change *)
(* before it, no change leaves a file as it was, and between captures the  *)
(* newest entry about a path is its row.                                   *)
Ledger ==
  ~aborted =>
    /\ \A p \in Path : \A e \in About(p) :
         /\ FileIn(e, p).old # FileIn(e, p).new
         /\ \A d \in About(p) :
              (d.id < e.id /\ \A m \in About(p) : m.id <= d.id \/ m.id >= e.id)
                => FileIn(e, p).old = FileIn(d, p).new
    /\ Quiet => \A p \in Path : About(p) # {} =>
                  FileIn(Newest(p), p).new = row[p].blob

(* The working directory agrees with the workspace_state table.            *)
Settled == \A p \in Path : row[p].blob = content[p]

(* An event the watcher has queued is followed by a moment when everything *)
(* on disk is captured, unless the watcher stops.                          *)
EventsAreCaptured == dirty ~> (Settled \/ cap[Watcher].pc = "down")
=============================================================================
