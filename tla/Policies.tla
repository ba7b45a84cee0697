------------------------------ MODULE Policies ------------------------------
(***************************************************************************)
(* Compliance policies (gpp-policy): the rules, the files that hold them,  *)
(* and the commands that load and enforce them, `gpp promote` on what it   *)
(* is about to promote and `gpp sync` on what it is about to send.         *)
(*                                                                         *)
(* A policy file is truncated before it is written, a command lists the    *)
(* directory and then reads file by file, and nothing locks it.  Files     *)
(* that are not text are never looked at by a rule and are left out, so    *)
(* are sessions with --graph-only (no check, no content) and lost          *)
(* connections (Sync.tla).  Several tips a sync adopts or forks are a set  *)
(* here; Sync.tla has the names.                                           *)
(***************************************************************************)
EXTENDS Integers, Sequences, FiniteSets

CONSTANTS
  Replica,       \* repositories that sync with each other
  Path,          \* paths of files
  Content,       \* contents of (text) files
  Gone,          \* what a path without a file holds
  Name,          \* names of policy files, numbered in the order of the names
  Text,          \* what a policy file can say
  NameOf,        \* NameOf[t]: the name in the policy, and of its file
  Wording,       \* Wording[t]: its rules as they are written
  Absent, Torn,  \* a policy file that is not there, and one that is empty
  Proc,          \* processes of the gpp command
  Home,          \* Home[p]: the repository p works in
  May,           \* May[p]: the commands p may run
  Worked,        \* the repositories people work in, other than by Proc
  Agents,        \* the repositories in which agents use the SDK
  FirstTree,     \* FirstTree[r]: the working directory of r at the start
  FirstPolicies, \* FirstPolicies[r][n]: the policy files at the start
  MaxChangesets, MaxEdits, MaxCommands, MaxDeaths   \* bounds

Tree == [Path -> Content \cup {Gone}]

(* A rule as a file has it; "none" is a severity the file leaves out.       *)
RuleFile ==
  [kind : {"pattern", "changeset", "other"},
   severity : {"audit", "warn", "block", "none", "other"},
   compiles : BOOLEAN,        \* the pattern it needs is there, regex and globs are valid
   hits : SUBSET Content,     \* pattern: the contents its regex matches
   scope : SUBSET Path,       \* pattern: the paths its globs match, {} without globs
   noAgents : BOOLEAN,        \* changeset: forbid_agent_author
   review : BOOLEAN,          \* changeset: require_human_review
   most : Nat,                \* changeset: max_files
   forbidden : SUBSET Path]   \* changeset: the paths its forbidden_paths match

ASSUME PolicyAssumption ==
  /\ Name \subseteq Nat
  /\ NameOf \in [Text -> Name] /\ Wording \in [Text -> SUBSET RuleFile]
  /\ Absent \notin Text /\ Torn \notin Text /\ Absent # Torn
  /\ FirstPolicies \in [Replica -> [Name -> Text \cup {Absent}]]
ASSUME ReplicaAssumption ==
  /\ Home \in [Proc -> Replica]
  /\ May \in [Proc -> SUBSET {"promote", "sync", "serve", "add", "remove"}]
  /\ Worked \subseteq Replica /\ Agents \subseteq Replica
  /\ Gone \notin Content /\ FirstTree \in [Replica -> Tree]
ASSUME BoundsAssumption ==
  MaxChangesets \in Nat /\ MaxEdits \in Nat /\ MaxCommands \in Nat /\ MaxDeaths \in Nat

VARIABLES
  wd,       \* wd[r]: the working directory of r
  blobs,    \* blobs[r]: the contents in r's object store
  cs,       \* changesets
  main,     \* main[r]: the tip of r's branch, 0 without one
  forks,    \* forks[r]: the tips of its other branches
  pol,      \* pol[r][n]: its policy files
  told,     \* told[r]: what a capture or `gpp policy check` last said
  proc,     \* proc[p]: the command p runs
  edits, commands, deaths   \* bounded counters

bounds == <<edits, commands, deaths>>
vars   == <<wd, blobs, cs, main, forks, pol, told, proc, bounds>>

File    == Text \cup {Absent, Torn}
NoFiles == [q \in Path |-> Gone]

Idle ==
  [pc |-> "idle", cmd |-> "promote", tree |-> NoFiles, todo |-> {},
   read |-> [n \in Name |-> Absent], seen |-> {}, held |-> {},
   peers |-> {}, sent |-> {}, text |-> Absent]

Nothing == [tree |-> NoFiles, files |-> [n \in Name |-> Absent],
            blocks |-> FALSE, faults |-> FALSE]
-----------------------------------------------------------------------------
(* The rules.                                                              *)

(* A rule of an unknown kind, or a pattern that does not compile, makes    *)
(* the policy unreadable; an unknown severity does not.                    *)
Parses(t) == \A w \in Wording[t] : w.kind # "other" /\ w.compiles

Severity(s) == CASE s \in {"block", "warn"} -> s [] s = "none" -> "block" [] OTHER -> "audit"

RulesOf == [t \in Text |-> {[w EXCEPT !.severity = Severity(@)] : w \in Wording[t]}]

Readable == {t \in Text : Parses(t)}

(* The pattern rules that match content c at path q.                       *)
ContentHits(rules, q, c) ==
  {r \in rules : /\ r.kind = "pattern"
                 /\ r.scope = {} \/ q \in r.scope
                 /\ c \in r.hits}

Blocks(rules, q, c) == \E r \in ContentHits(rules, q, c) : r.severity = "block"

(* The changeset rules a changeset breaks; no rule has a scope here, and   *)
(* the command that asks never says that a person has reviewed it.         *)
ChangesetHits(rules, byAgent, files, reviewed) ==
  {r \in rules : /\ r.kind = "changeset"
                 /\ \/ r.noAgents /\ byAgent
                    \/ r.review /\ ~reviewed
                    \/ Cardinality(files) > r.most
                    \/ files \cap r.forbidden # {}}

Files(t) == {q \in Path : t[q] # Gone}
Seen(t)  == {<<q, t[q]>> : q \in Files(t)}

(* The rules of the policy files `files`, all of them readable.            *)
Loaded(files) == UNION {RulesOf[files[n]] : n \in {x \in Name : files[x] # Absent}}

Blocked(rules, seen) == \E x \in seen : Blocks(rules, x[1], x[2])

(* What a policy file keeps from passing: everything if it does not parse. *)
RuledOut(f) ==
  {x \in Path \X Content : f # Absent /\ (f \in Readable => Blocks(RulesOf[f], x[1], x[2]))}
-----------------------------------------------------------------------------
Init ==
  /\ wd = FirstTree
  /\ blobs = [r \in Replica |-> {}]
  /\ cs = <<>>
  /\ main = [r \in Replica |-> 0]
  /\ forks = [r \in Replica |-> {}]
  /\ pol = FirstPolicies
  /\ told = [r \in Replica |-> Nothing]
  /\ proc = [p \in Proc |-> Idle]
  /\ edits = 0 /\ commands = 0 /\ deaths = 0

Tips(r) == ({main[r]} \ {0}) \cup forks[r]

Becomes(p, c) == proc' = [proc EXCEPT ![p] = c]

Edit(r, q, c) ==
  /\ edits < MaxEdits
  /\ c # wd[r][q]
  /\ wd' = [wd EXCEPT ![r][q] = c]
  /\ edits' = edits + 1
  /\ UNCHANGED <<blobs, cs, main, forks, pol, told, proc, commands, deaths>>

(* A snapshot of the working directory writes a blob of every file.        *)
Snapshot(r) == blobs' = [blobs EXCEPT ![r] = @ \cup {x[2] : x \in Seen(wd[r])}]

Whole(r) == \A n \in Name : pol[r][n] \in Readable \cup {Absent}

Tell(r, t, faults) ==
  told' = [told EXCEPT ![r] =
    [tree |-> t, files |-> pol[r], blocks |-> Blocked(Loaded(pol[r]), Seen(t)),
     faults |-> faults \/ \E x \in Seen(t) : ContentHits(Loaded(pol[r]), x[1], x[2]) # {}]]

(* Mutant of Capture: the warning leaves out what will block.               *)
Capture_Silent(r) ==
  /\ Snapshot(r)
  /\ told' = [told EXCEPT ![r] =
       [tree |-> wd[r], files |-> pol[r], blocks |-> FALSE, faults |-> FALSE]]
  /\ UNCHANGED <<wd, cs, main, forks, pol, proc, bounds>>

(* A capture that recorded something warns of what would be blocked, if    *)
(* the policies load, and says nothing if they do not.                     *)
Capture(r) ==
  /\ Snapshot(r)
  /\ \/ Whole(r) /\ Tell(r, wd[r], FALSE)
     \/ ~Whole(r) /\ UNCHANGED told
  /\ UNCHANGED <<wd, cs, main, forks, pol, proc, bounds>>

(* `gpp policy check`, of a changeset or (k = 0) of the working directory.  *)
Check(r, k) ==
  /\ Whole(r)
  /\ IF k = 0
     THEN Snapshot(r) /\ Tell(r, wd[r], FALSE)
     ELSE /\ Tell(r, cs[k].tree,
                  ChangesetHits(Loaded(pol[r]), cs[k].agent, Files(cs[k].tree), FALSE) # {})
          /\ UNCHANGED blobs
  /\ UNCHANGED <<wd, cs, main, forks, pol, proc, bounds>>
-----------------------------------------------------------------------------
(* The policies of a replica.                                              *)

Begins(p, cmd) ==
  /\ proc[p].pc \in {"idle", "refused"}
  /\ cmd \in May[p]
  /\ commands < MaxCommands
  /\ commands' = commands + 1

(* File n of replica r now says f; the checks under way there notice which *)
(* contents no longer have been ruled out all along.                       *)
WriteFile(r, n, f, procs) ==
  /\ pol' = [pol EXCEPT ![r][n] = f]
  /\ proc' = [p \in Proc |->
       IF Home[p] = r /\ procs[p].pc = "load"
       THEN [procs[p] EXCEPT !.held =
               {h \in @ : h[1] = n => <<h[2], h[3]>> \in RuledOut(f)}]
       ELSE procs[p]]

(* `gpp policy add` and `template`: a text that parses; the file of its    *)
(* name is truncated, then filled.                                         *)
Truncate(p, t) ==
  /\ Begins(p, "add")
  /\ Parses(t)
  /\ WriteFile(Home[p], NameOf[t], Torn,
               [proc EXCEPT ![p] = [Idle EXCEPT !.pc = "fill", !.cmd = "add", !.text = t]])
  /\ UNCHANGED <<wd, blobs, cs, main, forks, told, edits, deaths>>

Fill(p) ==
  /\ proc[p].pc = "fill"
  /\ WriteFile(Home[p], NameOf[proc[p].text], proc[p].text, [proc EXCEPT ![p] = Idle])
  /\ UNCHANGED <<wd, blobs, cs, main, forks, told, bounds>>

(* The command dies before it has filled the file.                         *)
Die(p) ==
  /\ proc[p].pc = "fill"
  /\ deaths < MaxDeaths
  /\ deaths' = deaths + 1
  /\ Becomes(p, Idle)
  /\ UNCHANGED <<wd, blobs, cs, main, forks, pol, told, edits, commands>>

Remove(p, n) ==
  /\ Begins(p, "remove")
  /\ pol[Home[p]][n] # Absent
  /\ WriteFile(Home[p], n, Absent, [proc EXCEPT ![p] = Idle])
  /\ UNCHANGED <<wd, blobs, cs, main, forks, told, edits, deaths>>
-----------------------------------------------------------------------------
(* Loading and judging.                                                    *)

(* load_dir lists the policy files; a promotion has taken its snapshot.    *)
List(p, cmd, peers) ==
  LET r == Home[p]
  IN  /\ Begins(p, cmd)
      /\ Becomes(p, [Idle EXCEPT !.pc = "load", !.cmd = cmd, !.tree = wd[r], !.peers = peers,
           !.todo = {n \in Name : pol[r][n] # Absent},
           !.held = {h \in Name \X Path \X Content : <<h[2], h[3]>> \in RuledOut(pol[r][h[1]])}])
      /\ UNCHANGED <<wd, cs, main, forks, pol, told, edits, deaths>>

BeginPromote(p) == Snapshot(Home[p]) /\ List(p, "promote", {})
BeginServe(p)   == List(p, "serve", {}) /\ UNCHANGED blobs

(* `gpp sync` with every peer, or with one.                                *)
BeginSync(p, peers) == List(p, "sync", peers) /\ UNCHANGED blobs

(* Mutant of Read: a file that cannot be read is passed over.               *)
Read_Lenient(p, n) ==
  LET f == pol[Home[p]][n]
  IN  /\ proc[p].pc = "load"
      /\ n \in proc[p].todo /\ \A m \in proc[p].todo : n <= m
      /\ Becomes(p, [proc[p] EXCEPT !.todo = @ \ {n},
                     !.read[n] = IF f \notin Readable THEN Absent ELSE f])
      /\ UNCHANGED <<wd, blobs, cs, main, forks, pol, told, bounds>>

(* The files are read in the order of their names; one that cannot be read *)
(* or does not parse makes the whole command fail.                         *)
Read(p, n) ==
  LET f == pol[Home[p]][n]
  IN  /\ proc[p].pc = "load"
      /\ n \in proc[p].todo /\ \A m \in proc[p].todo : n <= m
      /\ Becomes(p, IF f \notin Readable THEN Idle
                    ELSE [proc[p] EXCEPT !.todo = @ \ {n}, !.read[n] = f])
      /\ UNCHANGED <<wd, blobs, cs, main, forks, pol, told, bounds>>

(* What the command looks at: the snapshot, or the trees of all tips.      *)
Looked(p) ==
  IF proc[p].cmd = "promote" THEN Seen(proc[p].tree)
  ELSE UNION {Seen(cs[k].tree) : k \in Tips(Home[p])}

Judge(p) ==
  /\ proc[p].pc = "load" /\ proc[p].todo = {}
  /\ Becomes(p, [proc[p] EXCEPT !.seen = Looked(p),
       !.pc = IF Blocked(Loaded(proc[p].read), Looked(p)) THEN "refused"
              ELSE IF proc[p].cmd = "promote" THEN "make" ELSE "session"])
  /\ UNCHANGED <<wd, blobs, cs, main, forks, pol, told, bounds>>
-----------------------------------------------------------------------------
(* What a check lets pass.                                                 *)

(* A changeset of the working directory as it is by now.                   *)
Commit(r, agent) ==
  /\ Len(cs) < MaxChangesets
  /\ Snapshot(r)
  /\ cs' = Append(cs, [tree |-> wd[r], parent |-> main[r], agent |-> agent])
  /\ main' = [main EXCEPT ![r] = Len(cs) + 1]

Make(p) ==
  /\ proc[p].pc = "make"
  /\ Commit(Home[p], FALSE)
  /\ Becomes(p, Idle)
  /\ UNCHANGED <<wd, forks, pol, told, bounds>>

(* An agent that promotes with the SDK loads no policy.                    *)
Propose(r) ==
  /\ Commit(r, TRUE)
  /\ UNCHANGED <<wd, forks, pol, told, proc, bounds>>

Ancestors(k) ==
  LET up[j \in 0..Len(cs)] == IF j = 0 THEN {} ELSE {j} \cup up[cs[j].parent]
  IN  up[k]

(* build_push and apply_push: every object that x has and y lacks, the     *)
(* refs, and the policies under names that y has no file for.              *)
Transfer(x, y, pols) ==
  /\ blobs' = [blobs EXCEPT ![y] = @ \cup blobs[x]]
  /\ main' = [main EXCEPT ![y] = IF @ \in Ancestors(main[x]) \cup {0} THEN main[x] ELSE @]
  /\ forks' = [forks EXCEPT ![y] =
       @ \cup forks[x] \cup
       {k \in {main[x]} \ {0} : k \notin Ancestors(main[y]) /\ main[y] \notin Ancestors(k) \cup {0}}]
  /\ pol' = [pol EXCEPT ![y] = pols]
  /\ UNCHANGED <<wd, cs, told, bounds>>

(* Mutant of Received: the sender's policies win.                           *)
Received_Over(x, y) == [n \in Name |-> IF pol[x][n] # Absent THEN pol[x][n] ELSE pol[y][n]]

Received(x, y) == [n \in Name |-> IF pol[y][n] = Absent THEN pol[x][n] ELSE pol[y][n]]

(* The two phases of a session: the caller pushes first.  A process that   *)
(* serves answers one caller after the other.                              *)
Push(p, s) ==
  /\ proc[p].pc = "session" /\ proc[p].cmd = "sync" /\ Home[s] \in proc[p].peers
  /\ proc[s].pc = "session" /\ proc[s].cmd = "serve"
  /\ Transfer(Home[p], Home[s], Received(Home[p], Home[s]))
  /\ proc' = [proc EXCEPT
       ![p].pc = "pull", ![p].sent = @ \cup (blobs[Home[p]] \ blobs[Home[s]]),
       ![s].pc = "answer"]

(* A sync goes on with its next peer.                                      *)
NextPeer(c, y) ==
  IF c.peers = {y} THEN Idle ELSE [c EXCEPT !.pc = "session", !.peers = @ \ {y}]

Pull(p, s) ==
  /\ proc[p].pc = "pull" /\ Home[s] \in proc[p].peers
  /\ proc[s].pc = "answer"
  /\ Transfer(Home[s], Home[p], Received(Home[s], Home[p]))
  /\ proc' = [proc EXCEPT
       ![p] = NextPeer(@, Home[s]),
       ![s].pc = "session", ![s].sent = @ \cup (blobs[Home[s]] \ blobs[Home[p]])]

Next ==
  \/ \E r \in Worked :
       \/ \E q \in Path, c \in Content \cup {Gone} : Edit(r, q, c)
       \/ Capture(r)
       \/ \E k \in Tips(r) \cup {0} : Check(r, k)
  \/ \E r \in Agents : Propose(r)
  \/ \E p \in Proc :
       \/ \E t \in Text : Truncate(p, t)
       \/ Fill(p) \/ Die(p)
       \/ \E n \in Name : Remove(p, n) \/ Read(p, n)
       \/ BeginPromote(p) \/ BeginServe(p)
       \/ \E peers \in SUBSET (Replica \ {Home[p]}) : peers # {} /\ BeginSync(p, peers)
       \/ Judge(p) \/ Make(p)
       \/ \E s \in Proc : Push(p, s) \/ Pull(p, s)

Spec == Init /\ [][Next]_vars
-----------------------------------------------------------------------------
Command ==
  [pc : {"idle", "fill", "load", "make", "refused", "session", "pull", "answer"},
   cmd : {"promote", "sync", "serve", "add"},
   tree : Tree, todo : SUBSET Name, read : [Name -> Text \cup {Absent}],
   seen : SUBSET (Path \X Content), held : SUBSET (Name \X Path \X Content),
   peers : SUBSET Replica, sent : SUBSET Content, text : Text \cup {Absent}]

TypeOK ==
  /\ wd \in [Replica -> Tree]
  /\ blobs \in [Replica -> SUBSET Content]
  /\ cs \in Seq([tree : Tree, parent : Nat, agent : BOOLEAN])
  /\ \A k \in 1..Len(cs) : cs[k].parent < k
  /\ main \in [Replica -> 0..Len(cs)]
  /\ forks \in [Replica -> SUBSET (1..Len(cs))]
  /\ pol \in [Replica -> [Name -> File]]
  /\ told \in [Replica -> [tree : Tree, files : [Name -> File],
                            blocks : BOOLEAN, faults : BOOLEAN]]
  /\ proc \in [Proc -> Command]
  /\ \A p \in Proc : proc[p].pc = "fill" => proc[p].text \in Text

(* A command that a check lets through has not looked at anything that one *)
(* of the policy files ruled out from the moment the directory was listed  *)
(* to the verdict, though files are rewritten, removed and received while  *)
(* they are read one by one (load_dir, enforce_content_policies,           *)
(* enforce_sync_policies).                                                 *)
PassedIsClean ==
  \A p \in Proc : proc[p].pc \in {"make", "session"} =>
    \A h \in proc[p].held : <<h[2], h[3]>> \notin proc[p].seen

(* "will block promote/sync" is true, and so is its absence: a tree and    *)
(* the policies that a capture or `gpp policy check` has judged are judged *)
(* alike by `gpp promote` (warn_content_policies repeats the scan of       *)
(* enforce_content_policies).                                              *)
ToldTrue ==
  \A p \in Proc :
    LET t == told[Home[p]]
    IN  proc[p].cmd = "promote" /\ t.tree = proc[p].tree /\ t.files = proc[p].read =>
          /\ proc[p].pc = "make" => ~t.blocks
          /\ proc[p].pc = "refused" => t.blocks /\ t.faults

(* A sync never lifts a rule: what a policy file of a replica rules out,   *)
(* only the user's own `policy add` and `policy remove` there let pass     *)
(* again (apply_push writes no file that exists).                          *)
SyncOnlyTightens ==
  [][\A r \in Replica, n \in Name :
       \/ commands' # commands
       \/ \E p \in Proc : Home[p] = r /\ proc[p].pc = "fill" /\ proc'[p] # proc[p]
       \/ RuledOut(pol[r][n]) \subseteq RuledOut(pol'[r][n])]_vars

(* "Enforce content policies over everything a sync could transmit"        *)
(* (phase4.rs, enforce_sync_policies): a sync does not send what the       *)
(* policies it has loaded block in any file.                               *)
BlockedStays ==
  \A p \in Proc : \A c \in proc[p].sent :
    ~ \A q \in Path : Blocks(Loaded(proc[p].read), q, c)
=============================================================================
