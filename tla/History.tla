------------------------------ MODULE History -------------------------------
(***************************************************************************)
(* Layer 3 of gpp: changesets promoted from the timeline, and branch refs. *)
(*                                                                         *)
(* A promotion captures the working directory, selects the unpromoted      *)
(* entries of a range, snapshots the working directory again, reads HEAD   *)
(* and the ref, writes the changeset, marks the entries one statement at a *)
(* time and rewrites the ref.  Nothing locks the repository: edits, other  *)
(* captures, other promotions and branch commands fall between any two of  *)
(* these steps, and the process can die after any of them.                 *)
(*                                                                         *)
(* Here a capture is one step; Timeline.tla takes it apart.                *)
(***************************************************************************)
EXTENDS Naturals, Sequences, FiniteSets

CONSTANTS
  Content,      \* contents of the whole working directory (and of its tree)
  Start,        \* the content at `gpp init`
  Blocked,      \* contents some Block rule of the active policies matches
  Branch,       \* branch names
  Main,         \* the branch `gpp init` points HEAD at
  Exploration,  \* the names under explorations/
  NoBranch,     \* what head_branch makes of an empty HEAD file
  Cli,          \* processes of the gpp command
  Agent,        \* processes that use the SDK
  MaxEdits,     \* bound: edits of the working directory
  MaxCommands,  \* bound: branch commands
  MaxCrashes    \* bound: processes that die

ASSUME ContentAssumption == Start \in Content /\ Blocked \subseteq Content
ASSUME BranchAssumption ==
  Main \in Branch /\ Exploration \subseteq Branch /\ NoBranch \notin Branch
ASSUME ProcessAssumption == Cli \cap Agent = {}
ASSUME BoundsAssumption ==
  MaxEdits \in Nat /\ MaxCommands \in Nat /\ MaxCrashes \in Nat

VARIABLES
  wd,        \* content of the working directory
  entry,     \* timeline entries: what was captured and promoted_to (0: NULL)
  cs,        \* changeset objects, numbered in the order they are stored
  files,     \* branches whose ref file exists
  tip,       \* tip[b]: changeset in b's ref file, 0 when empty or absent
  head,      \* branch in HEAD, NoBranch when HEAD is empty
  proc,      \* proc[p]: local state of the command p is running
  discarded, \* history: tips the user dropped (delete, explore again)
  lost,      \* history: tips a dying process or an overlapping write dropped
  edits, commands, crashes   \* bounded counters

refs   == <<files, tip, head>>
ghosts == <<discarded, lost>>
bounds == <<edits, commands, crashes>>
vars   == <<wd, entry, cs, refs, proc, ghosts, bounds>>

Proc == Cli \cup Agent

Command ==
  [pc     : {"idle", "capture", "select", "snapshot", "head", "tip", "write",
             "mark", "truncate", "fill", "clear", "point"},
   ids    : SUBSET (Nat \ {0}),  \* entries selected
   todo   : SUBSET (Nat \ {0}),  \* those still to be marked
   tree   : Content,             \* the snapshot
   branch : Branch,              \* the branch the command writes
   parent : Nat,                 \* its tip as read, 0 for none
   made   : Nat,                 \* the tip to write, 0 for none yet
   old    : Nat,                 \* the tip truncated away
   linked : BOOLEAN,             \* is the open file still the branch's?
   raced  : BOOLEAN]             \* an edit fell between check and snapshot

Idle ==
  [pc |-> "idle", ids |-> {}, todo |-> {}, tree |-> Start, branch |-> Main,
   parent |-> 0, made |-> 0, old |-> 0, linked |-> FALSE, raced |-> FALSE]

Entry     == [content : Content, promoted : Nat]
Changeset == [parents : SUBSET Nat, tree : Content, first : Nat, last : Nat,
              by : Proc, raced : BOOLEAN]

TypeOK ==
  /\ wd \in Content
  /\ entry \in Seq(Entry)
  /\ cs \in Seq(Changeset)
  /\ files \subseteq Branch
  /\ tip \in [Branch -> Nat]
  /\ head \in Branch \cup {NoBranch}
  /\ proc \in [Proc -> Command]
  /\ discarded \subseteq Nat /\ lost \subseteq Nat
  /\ edits \in Nat /\ commands \in Nat /\ crashes \in Nat

Init ==
  /\ wd = Start
  /\ entry = << >>
  /\ cs = << >>
  /\ files = {}
  /\ tip = [b \in Branch |-> 0]
  /\ head = Main
  /\ proc = [p \in Proc |-> Idle]
  /\ discarded = {} /\ lost = {}
  /\ edits = 0 /\ commands = 0 /\ crashes = 0

Becomes(p, c) == proc' = [proc EXCEPT ![p] = c]
-----------------------------------------------------------------------------
(* Captures.                                                               *)

Captured == IF entry = << >> THEN Start ELSE entry[Len(entry)].content

Recorded == IF wd = Captured THEN entry
            ELSE Append(entry, [content |-> wd, promoted |-> 0])

(* Someone edits the working directory.  A promotion that has checked it    *)
(* and not yet taken its snapshot is raced.                                *)
Edit(c) ==
  /\ edits < MaxEdits
  /\ c # wd
  /\ wd' = c
  /\ edits' = edits + 1
  /\ proc' = [p \in Proc |->
       IF proc[p].pc \in {"capture", "select", "snapshot"}
       THEN [proc[p] EXCEPT !.raced = TRUE] ELSE proc[p]]
  /\ UNCHANGED <<entry, cs, refs, ghosts, commands, crashes>>

(* The watcher, or any other command that begins with a capture.           *)
CaptureElsewhere ==
  /\ wd # Captured
  /\ entry' = Recorded
  /\ UNCHANGED <<wd, cs, refs, proc, ghosts, bounds>>
-----------------------------------------------------------------------------
(* Promotion.                                                              *)

(* Mutant of PassesPolicy: the snapshot is checked and the result dropped.  *)
PassesPolicy_Ignored(c) == TRUE

PassesPolicy(c) == c \notin Blocked

(* `gpp promote`: the content policies see a snapshot of their own; a Block *)
(* violation ends the command.                                             *)
Gate(p) ==
  /\ p \in Cli
  /\ proc[p].pc = "idle"
  /\ PassesPolicy(wd)
  /\ Becomes(p, [Idle EXCEPT !.pc = "capture"])
  /\ UNCHANGED <<wd, entry, cs, refs, ghosts, bounds>>

(* Agent::propose_changeset promotes without asking the policies.          *)
Propose(p) ==
  /\ p \in Agent
  /\ proc[p].pc = "idle"
  /\ Becomes(p, [Idle EXCEPT !.pc = "capture"])
  /\ UNCHANGED <<wd, entry, cs, refs, ghosts, bounds>>

(* Mutant of Capture: the snapshot alone is thought to be enough.           *)
Capture_Skipped(p) ==
  /\ proc[p].pc = "capture"
  /\ Becomes(p, [proc[p] EXCEPT !.pc = "select"])
  /\ UNCHANGED <<wd, entry, cs, refs, ghosts, bounds>>

Capture(p) ==
  /\ proc[p].pc = "capture"
  /\ entry' = Recorded
  /\ Becomes(p, [proc[p] EXCEPT !.pc = "select"])
  /\ UNCHANGED <<wd, cs, refs, ghosts, bounds>>

Unpromoted(lo, hi) ==
  {e \in 1..Len(entry) : entry[e].promoted = 0 /\ lo <= e /\ e <= hi}

(* The unpromoted entries from..to; NothingToPromote when there are none.   *)
Select(p, lo, hi) ==
  LET ids == Unpromoted(lo, hi)
  IN  /\ proc[p].pc = "select"
      /\ Becomes(p, IF ids = {} THEN Idle
                    ELSE [proc[p] EXCEPT !.pc = "snapshot", !.ids = ids, !.todo = ids])
      /\ UNCHANGED <<wd, entry, cs, refs, ghosts, bounds>>

(* snapshot_tree walks the working directory again.  The Intent object      *)
(* written next refers to nothing and is left out.                         *)
Snapshot(p) ==
  /\ proc[p].pc = "snapshot"
  /\ Becomes(p, [proc[p] EXCEPT !.pc = "head", !.tree = wd])
  /\ UNCHANGED <<wd, entry, cs, refs, ghosts, bounds>>

(* head_branch; HEAD caught empty is an error.                             *)
ReadHead(p) ==
  /\ proc[p].pc = "head"
  /\ Becomes(p, IF head = NoBranch THEN Idle
                ELSE [proc[p] EXCEPT !.pc = "tip", !.branch = head])
  /\ UNCHANGED <<wd, entry, cs, refs, ghosts, bounds>>

(* read_ref: an absent or empty file is None, and the changeset a root.     *)
ReadTip(p) ==
  /\ proc[p].pc = "tip"
  /\ Becomes(p, [proc[p] EXCEPT !.pc = "write", !.parent = tip[proc[p].branch]])
  /\ UNCHANGED <<wd, entry, cs, refs, ghosts, bounds>>

Wrote(c) == [c EXCEPT !.pc = "mark", !.made = Len(cs) + 1, !.tree = Start, !.raced = FALSE]

(* Mutant of WriteChangeset: the id is computed, the object never stored.   *)
WriteChangeset_Unstored(p, lo, hi) ==
  /\ proc[p].pc = "write"
  /\ Becomes(p, Wrote(proc[p]))
  /\ UNCHANGED <<wd, entry, cs, refs, ghosts, bounds>>

IsFirst(e, ids) == e \in ids /\ \A f \in ids : e <= f
IsLast(e, ids)  == e \in ids /\ \A f \in ids : f <= e

(* Mutant of WriteChangeset: the changeset has no parents.                  *)
WriteChangeset_Root(p, lo, hi) ==
  /\ proc[p].pc = "write"
  /\ IsFirst(lo, proc[p].ids) /\ IsLast(hi, proc[p].ids)
  /\ cs' = Append(cs,
       [parents |-> {}, tree |-> proc[p].tree,
        first |-> lo, last |-> hi, by |-> p, raced |-> proc[p].raced])
  /\ Becomes(p, Wrote(proc[p]))
  /\ UNCHANGED <<wd, entry, refs, ghosts, bounds>>

WriteChangeset(p, lo, hi) ==
  /\ proc[p].pc = "write"
  /\ IsFirst(lo, proc[p].ids) /\ IsLast(hi, proc[p].ids)
  /\ cs' = Append(cs,
       [parents |-> {proc[p].parent} \ {0}, tree |-> proc[p].tree,
        first |-> lo, last |-> hi, by |-> p, raced |-> proc[p].raced])
  /\ Becomes(p, Wrote(proc[p]))
  /\ UNCHANGED <<wd, entry, refs, ghosts, bounds>>

(* mark_promoted: one UPDATE per entry, each its own transaction.          *)
Mark(p, e) ==
  LET rest == proc[p].todo \ {e}
  IN  /\ proc[p].pc = "mark"
      /\ IsFirst(e, proc[p].todo)
      /\ entry' = [entry EXCEPT ![e].promoted = proc[p].made]
      /\ Becomes(p, [proc[p] EXCEPT !.todo = rest,
                                    !.pc = IF rest = {} THEN "truncate" ELSE "mark"])
      /\ UNCHANGED <<wd, cs, refs, ghosts, bounds>>
-----------------------------------------------------------------------------
(* write_ref is fs::write: open with truncation, then one write(2).        *)

Promoting(c) == c.ids # {}

(* A promotion overwrites a tip that is not the one it read; a branch       *)
(* command overwrites what the user asks it to.                            *)
Truncate(p) ==
  LET b == proc[p].branch
      c == proc[p]
  IN  /\ c.pc = "truncate"
      /\ files' = files \cup {b}
      /\ tip' = [tip EXCEPT ![b] = 0]
      /\ IF Promoting(c)
         THEN lost' = lost \cup ({tip[b]} \ {0, c.parent}) /\ UNCHANGED discarded
         ELSE discarded' = discarded \cup ({tip[b]} \ {0}) /\ UNCHANGED lost
      /\ Becomes(p, [c EXCEPT !.pc = "fill", !.old = tip[b], !.linked = TRUE])
      /\ UNCHANGED <<wd, entry, cs, head, bounds>>

(* A file deleted in the meantime keeps no name for what is written, and a  *)
(* tip another process has filled in meanwhile is overwritten.             *)
Fill(p) ==
  LET b == proc[p].branch
      c == proc[p]
  IN  /\ c.pc = "fill"
      /\ IF c.linked
         THEN /\ tip' = [tip EXCEPT ![b] = c.made]
              /\ lost' = lost \cup ({tip[b]} \ {0, c.made})
         ELSE UNCHANGED <<tip, lost>>
      /\ Becomes(p, Idle)
      /\ UNCHANGED <<wd, entry, cs, files, head, discarded, bounds>>
-----------------------------------------------------------------------------
(* Branch commands.                                                        *)

HeadTip == IF head = NoBranch THEN 0 ELSE tip[head]

Starts(p) ==
  /\ p \in Cli
  /\ proc[p].pc = "idle"
  /\ commands < MaxCommands
  /\ commands' = commands + 1

WriteLater(b, t) == [Idle EXCEPT !.pc = "truncate", !.branch = b, !.made = t]

(* Mutant of Create: a branch may start from an empty one.                  *)
Create_Empty(p, b) ==
  /\ Starts(p)
  /\ b \notin files
  /\ Becomes(p, WriteLater(b, HeadTip))
  /\ UNCHANGED <<wd, entry, cs, refs, ghosts, edits, crashes>>

(* `gpp branch create`: the branch is new and the current one has a tip.    *)
Create(p, b) ==
  /\ Starts(p)
  /\ b \notin files
  /\ HeadTip # 0
  /\ Becomes(p, WriteLater(b, HeadTip))
  /\ UNCHANGED <<wd, entry, cs, refs, ghosts, edits, crashes>>

(* `gpp branch explore` replaces an exploration of the same name.          *)
Explore(p, b) ==
  /\ Starts(p)
  /\ b \in Exploration
  /\ HeadTip # 0
  /\ Becomes(p, WriteLater(b, HeadTip))
  /\ UNCHANGED <<wd, entry, cs, refs, ghosts, edits, crashes>>

(* `gpp branch delete` deletes any branch, the current one too.  A process *)
(* that has the file open goes on writing to a file without a name.        *)
Delete(p, b) ==
  LET open == {q \in Proc : proc[q].pc = "fill" /\ proc[q].linked /\ proc[q].branch = b}
  IN  /\ Starts(p)
      /\ b \in files
      /\ files' = files \ {b}
      /\ tip' = [tip EXCEPT ![b] = 0]
      /\ discarded' = discarded \cup
           (({tip[b]} \cup UNION {{proc[q].made, proc[q].old} : q \in open}) \ {0})
      /\ proc' = [q \in Proc |->
           IF q \in open THEN [proc[q] EXCEPT !.linked = FALSE] ELSE proc[q]]
      /\ UNCHANGED <<wd, entry, cs, head, lost, edits, crashes>>

(* `gpp branch switch` moves HEAD, with fs::write again, and leaves the     *)
(* working directory as it is.                                             *)
Switch(p, b) ==
  /\ Starts(p)
  /\ b \in files
  /\ Becomes(p, [Idle EXCEPT !.pc = "clear", !.branch = b])
  /\ UNCHANGED <<wd, entry, cs, refs, ghosts, edits, crashes>>

ClearHead(p) ==
  /\ proc[p].pc = "clear"
  /\ head' = NoBranch
  /\ Becomes(p, [proc[p] EXCEPT !.pc = "point"])
  /\ UNCHANGED <<wd, entry, cs, files, tip, ghosts, bounds>>

PointHead(p) ==
  /\ proc[p].pc = "point"
  /\ head' = proc[p].branch
  /\ Becomes(p, Idle)
  /\ UNCHANGED <<wd, entry, cs, files, tip, ghosts, bounds>>
-----------------------------------------------------------------------------
(* What is lost with a process: a changeset entries already point to and   *)
(* no ref does, and the tip its truncation removed.                        *)
LostWith(c) ==
  CASE c.pc \in {"mark", "truncate"} /\ Promoting(c) -> {c.made}
    [] c.pc = "fill" /\ c.linked -> {c.made, c.old} \ {0}
    [] OTHER -> {}

Crash(p) ==
  /\ proc[p].pc # "idle"
  /\ crashes < MaxCrashes
  /\ crashes' = crashes + 1
  /\ lost' = lost \cup LostWith(proc[p])
  /\ Becomes(p, Idle)
  /\ UNCHANGED <<wd, entry, cs, refs, discarded, edits, commands>>

Promote(p) ==
  \/ Gate(p) \/ Propose(p)
  \/ Capture(p)
  \/ \E lo, hi \in 0..Len(entry) : Select(p, lo, hi)
  \/ Snapshot(p)
  \/ ReadHead(p) \/ ReadTip(p)
  \/ \E lo, hi \in 1..Len(entry) : WriteChangeset(p, lo, hi)
  \/ \E e \in 1..Len(entry) : Mark(p, e)
  \/ Truncate(p) \/ Fill(p)

BranchCommand(p) ==
  \/ \E b \in Branch : Create(p, b) \/ Explore(p, b) \/ Delete(p, b) \/ Switch(p, b)
  \/ ClearHead(p) \/ PointHead(p)

Next ==
  \/ \E c \in Content : Edit(c)
  \/ CaptureElsewhere
  \/ \E p \in Proc : Promote(p) \/ BranchCommand(p) \/ Crash(p)

Spec == Init /\ [][Next]_vars
-----------------------------------------------------------------------------
Quiet == \A p \in Proc : proc[p].pc = "idle"

(* Changesets reached from those of S through parents: they are in every   *)
(* set that has those of S and the parents of what it has.                 *)
History(S) ==
  LET stored == 1..Len(cs)
  IN  {k \in stored : \A C \in SUBSET stored :
         (S \cap stored \subseteq C /\ \A j \in C : cs[j].parents \subseteq C) => k \in C}

(* No dangling name: every tip, every parent and every promoted_to is a     *)
(* stored changeset, older than what names it, and the timeline_range of   *)
(* the changeset an entry was promoted to covers that entry.               *)
StoreClosed ==
  /\ \A b \in Branch : tip[b] \in 0..Len(cs)
  /\ \A k \in 1..Len(cs) : cs[k].parents \subseteq 1..(k - 1)
  /\ \A e \in 1..Len(entry) : entry[e].promoted # 0 =>
       LET k == entry[e].promoted
       IN  k \in 1..Len(cs) /\ cs[k].first <= e /\ e <= cs[k].last

Tips == {tip[b] : b \in files} \ {0}

(* With no command running, the changeset an entry was promoted to can be   *)
(* reached from a branch, unless the user dropped the branch, a process     *)
(* died between marking its entries and rewriting its ref, or a ref that   *)
(* had moved since it was read was overwritten.                            *)
PromotedReachable ==
  Quiet => \A e \in 1..Len(entry) : entry[e].promoted # 0 =>
    entry[e].promoted \in History(Tips \cup discarded \cup lost)

(* With no command running and none ever killed, no ref file and no HEAD    *)
(* is empty, whoever else was writing it.                                  *)
RefsWhole ==
  (Quiet /\ crashes = 0) => head # NoBranch /\ \A b \in files : tip[b] # 0

(* A changeset of `gpp promote` holds what a Block rule matches only if an  *)
(* edit came between the check and the snapshot.                           *)
GatedTree ==
  \A k \in 1..Len(cs) :
    cs[k].by \in Cli /\ cs[k].tree \in Blocked => cs[k].raced

(* A changeset holds what some timeline entry recorded, unless an edit came *)
(* between the capture and the snapshot.                                   *)
TreeCaptured ==
  \A k \in 1..Len(cs) :
    cs[k].raced \/ \E e \in 1..Len(entry) : entry[e].content = cs[k].tree
=============================================================================
