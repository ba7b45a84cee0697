----------------------------- MODULE GitBridge -----------------------------
(***************************************************************************)
(* The Git bridge (gpp-git-bridge and `gpp git-import`, `git-export`,      *)
(* `git-bridge`): commits become changesets and changesets commits, and    *)
(* map.db remembers which is which.  Users of Git and of gpp, and several  *)
(* bridges, work at the same time; a bridge can die between any two        *)
(* writes, and is run again.                                               *)
(*                                                                         *)
(* Commits and changesets are content-addressed: here each is a record     *)
(* that holds its parents.  signed: the commit has something that no       *)
(* exported commit has (a signature, a time zone).  git: the commit a      *)
(* changeset was imported from.  tree: a commit's maps names to modes, a   *)
(* changeset's to kinds with modes; contents never change.                 *)
(***************************************************************************)
EXTENDS Integers, Sequences, FiniteSets, SequencesExt

CONSTANTS
  Proc,       \* bridge processes
  Repo,       \* Git repositories
  Branch,     \* branch names, a sequence in the order RefStore lists them
  Main,       \* the branch HEAD points at, in Git and at gpp init
  Scenarios,  \* repositories to start from, with what will be done in them
  MaxDeaths   \* bound: bridges that die

ASSUME MaxDeathsAssumption == MaxDeaths \in Nat

(* A tree of Git: the modes it writes.                                     *)
TreeOK(tree) == \A n \in DOMAIN tree : tree[n] \in {"100644", "100755", "120000", "160000"}

(* gpp init was just run.  Each repository has its commits with all they   *)
(* descend from; a message stands for author, date and text, so that no    *)
(* promotion has one that a commit has.                                    *)
ScenarioOK(s) ==
  /\ DOMAIN s.commits = Repo /\ DOMAIN s.gitRefs = Repo
  /\ \A g \in Repo :
       /\ IsFiniteSet(s.commits[g])
       /\ \A c \in s.commits[g] : TreeOK(c.tree) /\ c.parents \in Seq(s.commits[g])
       /\ \A b \in DOMAIN s.gitRefs[g] : s.gitRefs[g][b] \in s.commits[g]
  /\ \A n \in DOMAIN s.wd : s.wd[n] \in {"file", "link"}
  /\ \A d \in s.todo : d.op # "promote" => d.g \in Repo
  /\ \A d \in s.todo : d.op = "commit" => TreeOK(d.tree)
  /\ \A d, e \in s.todo : d.op = "promote" /\ e.op = "commit" => d.msg # e.msg
  /\ \A d \in s.todo, g \in Repo : d.op = "promote" => \A c \in s.commits[g] : d.msg # c.msg

ASSUME ScenariosAssumption == \A s \in Scenarios : ScenarioOK(s)

VARIABLES
  commits,    \* commits[g]: the commit objects of a Git repository
  gitRefs,    \* gitRefs[g]: its branches, a function from names to commits
  objects,    \* changesets in the object store
  refs,       \* the branches of gpp, a function from names to changesets
  cmap,       \* the table commit_map: pairs <<commit, changeset>>
  wd,         \* the working directory: a function from names to "file" or "link"
  proc,       \* proc[p]: where a bridge stands
  todo,       \* what users will still do
  deaths,
  fresh,      \* history: commits users made that no import has set a branch to or past
  made,       \* history: commits exports made
  used,       \* history: repositories a bridge has been run for
  promoted,   \* history: changesets promotions put on a branch
  missed,     \* history: watchers whose HEAD moved during their first round
  overlapped, \* history: two bridges ran at once
  hasty       \* history: a promotion came before an import had ended, or it died

gitVars == <<commits, gitRefs>>
gppVars == <<objects, refs, wd>>
history == <<fresh, made, used, promoted, missed, overlapped, hasty>>
vars    == <<gitVars, gppVars, cmap, proc, todo, deaths, history>>

None == "none"
Idle == [at |-> "idle", op |-> None, g |-> None, mem |-> None, seen |-> {}, next |-> {}]

At(p, label)       == proc[p].at = label
Move(p, label, mem, seen, next) ==
  proc' = [proc EXCEPT ![p] = [at |-> label, op |-> @.op, g |-> @.g, mem |-> mem, seen |-> seen, next |-> next]]
Goto(p, label, mem) == Move(p, label, mem, proc[p].seen, proc[p].next)
Stop(p) == proc' = [proc EXCEPT ![p] = Idle]

(* A function that has one value at the given arguments from now on.       *)
Put(f, K, v) == [k \in DOMAIN f \cup K |-> IF k \in K THEN v ELSE f[k]]

(* What is reached from a set along edges, its elements included.          *)
Reach(S, edge) ==
  LET back[k \in 0 .. Cardinality(DOMAIN edge)] ==
        IF k = 0 THEN S ELSE back[k - 1] \cup UNION {edge[x] : x \in back[k - 1] \cap DOMAIN edge}
  IN  back[Cardinality(DOMAIN edge)]

(* Everything the elements of a set descend from, with them.               *)
Ancestors(S, store) == Reach(S, [x \in store |-> ToSet(x.parents)])

(* walk: a changeset and its first parents.                                *)
FirstParents(x) == Reach({x}, [y \in objects |-> {y.parents[i] : i \in {1} \cap DOMAIN y.parents}])

(* Parents as what they are linked to, those that are not left out.        *)
Counterparts(parents, pairs) ==
  LET of[i \in 0 .. Len(parents)] ==
        IF i = 0 THEN <<>>
        ELSE IF \E r \in pairs : r[1] = parents[i]
             THEN Append(of[i - 1], (CHOOSE r \in pairs : r[1] = parents[i])[2])
             ELSE of[i - 1]
  IN  of[Len(parents)]

Linked(c)   == \E l \in cmap : l[1] = c
Exported(x) == \E l \in cmap : l[2] = x
GppFor(c)   == (CHOOSE l \in cmap : l[1] = c)[2]
CommitFor(x) == (CHOOSE l \in cmap : l[2] = x)[1]

(* INSERT OR IGNORE: both columns are unique.                              *)
Link(c, x) == cmap' = IF Linked(c) \/ Exported(x) THEN cmap ELSE cmap \cup {<<c, x>>}

Init ==
  /\ \E s \in Scenarios :
       /\ commits = s.commits /\ gitRefs = s.gitRefs /\ fresh = s.commits
       /\ wd = s.wd /\ todo = s.todo
  /\ objects = {} /\ refs = <<>> /\ cmap = {} /\ deaths = 0
  /\ proc = [p \in Proc |-> Idle]
  /\ made = {} /\ used = {} /\ promoted = {} /\ missed = {} /\ overlapped = FALSE /\ hasty = FALSE
-----------------------------------------------------------------------------
(* convert_tree: submodules are left out, modes are kept.                  *)
ConvertTree(t) ==
  [n \in {k \in DOMAIN t : t[k] # "160000"} |->
     [kind |-> IF t[n] = "120000" THEN "symlink" ELSE "file", mode |-> t[n]]]

(* build_git_tree: a file that is not executable is an ordinary one.       *)
BuildGitTree(t) ==
  [n \in DOMAIN t |-> IF t[n].kind = "symlink" THEN "120000"
                      ELSE IF t[n].mode = "100755" THEN "100755" ELSE "100644"]

(* A snapshot of the working directory: links are passed over, and no file *)
(* is executable.                                                          *)
SnapshotTree(w) == [n \in {k \in DOMAIN w : w[k] = "file"} |-> [kind |-> "file", mode |-> "100644"]]

(* materialize_head writes what entries hold, a link's target as a file.   *)
Materialized(names) == [n \in names |-> "file"]
-----------------------------------------------------------------------------
(* Users.  A commit goes on the branch a Git user works on; a promotion    *)
(* (History takes it apart) on gpp's HEAD, after a file was edited.        *)
GitCommit(d) ==
  LET first == d.b \notin DOMAIN gitRefs[d.g]
      c == [msg |-> d.msg, signed |-> d.signed,
            parents |-> IF first THEN <<>> ELSE <<gitRefs[d.g][d.b]>>,
            tree |-> IF first THEN d.tree ELSE gitRefs[d.g][d.b].tree]
  IN  /\ d.op = "commit"
      /\ commits' = [commits EXCEPT ![d.g] = @ \cup {c}]
      /\ gitRefs' = [gitRefs EXCEPT ![d.g] = Put(@, {d.b}, c)]
      /\ fresh' = [fresh EXCEPT ![d.g] = @ \cup {c}]
      /\ missed' = missed \cup {p \in Proc : d.b = Main /\ proc[p].op = "watch" /\ proc[p].seen = {}}
      /\ UNCHANGED <<gppVars, cmap, proc, made, used, promoted, hasty>>

Promote(d) ==
  LET x == [msg |-> d.msg, tree |-> SnapshotTree(wd'), git |-> {},
            parents |-> IF Main \in DOMAIN refs THEN <<refs[Main]>> ELSE <<>>]
  IN  /\ d.op = "promote"
      /\ wd' = Put(wd, {"own"}, "file")
      /\ objects' = objects \cup {x}
      /\ refs' = Put(refs, {Main}, x)
      /\ promoted' = promoted \cup {x}
      /\ hasty' = (hasty \/ Main \notin DOMAIN refs \/ \E p \in Proc : proc[p].op = "import")
      /\ UNCHANGED <<gitVars, cmap, proc, fresh, made, used, missed>>

User(d) == (GitCommit(d) \/ Promote(d)) /\ todo' = todo \ {d} /\ UNCHANGED <<deaths, overlapped>>
-----------------------------------------------------------------------------
(* gpp git-import, git-export, git-bridge --export, --watch: the first     *)
(* statement of a run.                                                     *)
Walked(g) == Ancestors({gitRefs[g][b] : b \in DOMAIN gitRefs[g]}, commits[g])

Start(p, d) ==
  /\ d.op \in {"import", "export", "bridge", "watch"}
  /\ At(p, "idle")
  /\ proc' = [proc EXCEPT ![p] = [at |-> IF d.op = "export" THEN "list" ELSE "walk", op |-> d.op, g |-> d.g,
                                  mem |-> None, seen |-> {}, next |-> {}]]
  /\ todo' = todo \ {d}
  /\ used' = used \cup {d.g}
  /\ overlapped' = (overlapped \/ \E q \in Proc \ {p} : ~At(q, "idle"))
  /\ UNCHANGED <<gitVars, gppVars, cmap, deaths, fresh, made, promoted, missed, hasty>>

ImportWalk(p) ==
  /\ At(p, "walk")
  /\ Goto(p, "commit", [left |-> Walked(proc[p].g)])
  /\ UNCHANGED <<gitVars, gppVars, cmap, history>>

(* Mutant of Due: in any order.                                             *)
Due_Any(left) == left

(* The next commit of the walk, parents before children.                   *)
Due(left) == {c \in left : ToSet(c.parents) \cap left = {}}

(* A commit as a changeset: everything in it comes from the commit and     *)
(* from the changesets its parents are linked to.                          *)
Imported(c) ==
  [msg |-> c.msg, tree |-> ConvertTree(c.tree), git |-> {c},
   parents |-> Counterparts(c.parents, cmap)]

ImportCommit(p) ==
  LET m == proc[p].mem
  IN  /\ At(p, "commit")
      /\ \E c \in Due(m.left) :
           IF Linked(c) THEN objects' = objects /\ Goto(p, "commit", [m EXCEPT !.left = @ \ {c}])
           ELSE /\ objects' = objects \cup {Imported(c)}
                /\ Goto(p, "link", [left |-> m.left \ {c}, c |-> c, x |-> Imported(c)])
      /\ UNCHANGED <<gitVars, refs, wd, cmap, history>>

ImportLink(p) ==
  LET m == proc[p].mem
  IN  /\ At(p, "link")
      /\ Link(m.c, m.x)
      /\ Goto(p, "commit", [left |-> m.left])
      /\ UNCHANGED <<gitVars, gppVars, history>>

(* The branches, one after the other: a target that is not linked, because *)
(* Git moved on meanwhile, is left for the next run.                       *)
ImportBranches(p) ==
  /\ At(p, "commit")
  /\ proc[p].mem.left = {}
  /\ Goto(p, "branch", [left |-> DOMAIN gitRefs[proc[p].g]])
  /\ UNCHANGED <<gitVars, gppVars, cmap, history>>

ReadBranch(p) ==
  LET m == proc[p].mem
      g == proc[p].g
  IN  /\ At(p, "branch")
      /\ \E b \in m.left :
           IF Linked(gitRefs[g][b])
           THEN Goto(p, "ref", [left |-> m.left \ {b}, b |-> b,
                               c |-> gitRefs[g][b], x |-> GppFor(gitRefs[g][b])])
           ELSE Goto(p, "branch", [m EXCEPT !.left = @ \ {b}])
      /\ UNCHANGED <<gitVars, gppVars, cmap, history>>

(* write_ref: the branch is Git's, whatever gpp had on it.                 *)
Mirrored(m) == Put(refs, {m.b}, m.x)

WriteRef(p) ==
  LET m == proc[p].mem
  IN  /\ At(p, "ref")
      /\ refs' = Mirrored(m)
      /\ fresh' = [fresh EXCEPT ![proc[p].g] = @ \ Ancestors({m.c}, commits[proc[p].g])]
      /\ Goto(p, "branch", [left |-> m.left])
      /\ UNCHANGED <<gitVars, objects, wd, cmap, made, used, promoted, missed, overlapped, hasty>>

(* set_head_branch ends the import: Git's HEAD is gpp's already.           *)
ImportHead(p) ==
  /\ At(p, "branch")
  /\ proc[p].mem.left = {}
  /\ Goto(p, IF proc[p].op = "import" THEN "files" ELSE "list", None)
  /\ UNCHANGED <<gitVars, gppVars, cmap, history>>
-----------------------------------------------------------------------------
(* Mutant of MaterializeHead: only a working directory that is not empty.   *)
MaterializeHead_Never(p) == wd # <<>> /\ Main \in DOMAIN refs

(* git_import puts HEAD's files in an empty working directory, one by one. *)
MaterializeHead(p) == wd = <<>> /\ Main \in DOMAIN refs

ImportFiles(p) ==
  /\ At(p, "files")
  /\ IF MaterializeHead(p)
     THEN LET names == DOMAIN refs[Main].tree
          IN  /\ wd' = Materialized({CHOOSE n \in names : TRUE})
              /\ Goto(p, "filling", [names |-> names])
     ELSE wd' = wd /\ Stop(p)
  /\ UNCHANGED <<gitVars, objects, refs, cmap, history>>

ImportFilled(p) ==
  /\ At(p, "filling")
  /\ wd' = Put(wd, proc[p].mem.names, "file")
  /\ Stop(p)
  /\ UNCHANGED <<gitVars, objects, refs, cmap, history>>
-----------------------------------------------------------------------------
(* git-export: the branches are listed with their tips; one after the     *)
(* other, by name, is replayed from the first of its first parents, and    *)
(* then set.                                                               *)
ExportList(p) ==
  /\ At(p, "list")
  /\ Goto(p, "chain", refs)
  /\ UNCHANGED <<gitVars, gppVars, cmap, history>>

NextBranch(names) ==
  {b \in names : \A i, j \in DOMAIN Branch : Branch[i] \in names /\ Branch[j] = b => j <= i}

ExportBranch(p) ==
  LET m == proc[p].mem
  IN  /\ At(p, "chain")
      /\ \E b \in NextBranch(DOMAIN m) :
           Goto(p, "replay", [rest |-> [n \in DOMAIN m \ {b} |-> m[n]], b |-> b, tip |-> m[b],
                              left |-> FirstParents(m[b]), resolved |-> {}])
      /\ UNCHANGED <<gitVars, gppVars, cmap, history>>

(* A changeset is present in a repository when the commit it is linked to  *)
(* is there; what this replay has made counts as well.                     *)
Present(g, x) == Exported(x) /\ CommitFor(x) \in commits[g]
Resolved(m, x) == \E r \in m.resolved : r[1] = x
Replaying(m, left, resolved) == [rest |-> m.rest, b |-> m.b, tip |-> m.tip, left |-> left, resolved |-> resolved]
InTarget(m, x) == (CHOOSE r \in m.resolved : r[1] = x)[2]

(* Mutant of Rebuilt: what this replay has made does not count.             *)
Rebuilt_Linked(m, g, x) ==
  [msg |-> x.msg, tree |-> BuildGitTree(x.tree), signed |-> FALSE,
   parents |-> Counterparts(x.parents, {<<l[2], l[1]>> : l \in {k \in cmap : k[1] \in commits[g]}})]

Known(m, g) ==
  m.resolved \cup {<<l[2], l[1]>> : l \in {k \in cmap : k[1] \in commits[g] /\ ~Resolved(m, k[2])}}

Rebuilt(m, g, x) ==
  [msg |-> x.msg, tree |-> BuildGitTree(x.tree), signed |-> FALSE,
   parents |-> Counterparts(x.parents, Known(m, g))]

ExportChangeset(p) ==
  LET m == proc[p].mem
      g == proc[p].g
  IN  /\ At(p, "replay")
      /\ \E x \in {y \in m.left : y.parents = <<>> \/ y.parents[1] \notin m.left} :
           IF Present(g, x)
           THEN /\ Goto(p, "replay", Replaying(m, m.left \ {x}, m.resolved \cup {<<x, CommitFor(x)>>}))
                /\ UNCHANGED <<commits, made>>
           ELSE LET c == Rebuilt(m, g, x)
                IN  /\ commits' = [commits EXCEPT ![g] = @ \cup {c}]
                    /\ made' = made \cup {c}
                    /\ Goto(p, "relink", [rest |-> m.rest, b |-> m.b, tip |-> m.tip, left |-> m.left \ {x},
                                          resolved |-> m.resolved \cup {<<x, c>>}, x |-> x, c |-> c])
      /\ UNCHANGED <<gitRefs, gppVars, cmap, fresh, used, promoted, missed, overlapped, hasty>>

(* Mutant of Relink: the link is left to the next import.                   *)
Relink_Later(m) == cmap' = cmap

Relink(m) == Link(m.c, m.x)

ExportLink(p) ==
  LET m == proc[p].mem
  IN  /\ At(p, "relink")
      /\ Relink(m)
      /\ Goto(p, "replay", Replaying(m, m.left, m.resolved))
      /\ UNCHANGED <<gitVars, gppVars, history>>

(* The branch is set to the last commit of the replay, by force.           *)
ExportRef(p) ==
  LET m == proc[p].mem
  IN  /\ At(p, "replay")
      /\ m.left = {}
      /\ gitRefs' = [gitRefs EXCEPT ![proc[p].g] = Put(@, {m.b}, InTarget(m, m.tip))]
      /\ Goto(p, "chain", m.rest)
      /\ UNCHANGED <<commits, gppVars, cmap, history>>

HeadOid(g) == {gitRefs[g][b] : b \in {Main} \cap DOMAIN gitRefs[g]}

(* Mutant of LastSeen: HEAD as it is when the round ends.                   *)
LastSeen_After(p) == HeadOid(proc[p].g)

(* What the next round is compared with: HEAD as it was before this one.   *)
LastSeen(p) == proc[p].next

(* set_head ends the export, and with it a round of a bridge.              *)
ExportHead(p) ==
  /\ At(p, "chain")
  /\ DOMAIN proc[p].mem = {}
  /\ IF proc[p].op # "watch" THEN Stop(p)
     ELSE IF proc[p].seen = {} THEN Goto(p, "head", None)
     ELSE Move(p, "sleep", None, LastSeen(p), proc[p].next)
  /\ UNCHANGED <<gitVars, gppVars, cmap, history>>
-----------------------------------------------------------------------------
(* git-bridge --watch: after the first round HEAD is read; then, every few *)
(* seconds, HEAD is compared with what it was, and a round run if it moved.*)
WatchHead(p) ==
  /\ At(p, "head")
  /\ Move(p, "sleep", None, HeadOid(proc[p].g), proc[p].next)
  /\ UNCHANGED <<gitVars, gppVars, cmap, history>>

WatchLook(p) ==
  /\ At(p, "sleep")
  /\ HeadOid(proc[p].g) # proc[p].seen
  /\ Move(p, "walk", None, proc[p].seen, HeadOid(proc[p].g))
  /\ UNCHANGED <<gitVars, gppVars, cmap, history>>

Die(p) ==
  /\ ~At(p, "idle")
  /\ deaths < MaxDeaths
  /\ deaths' = deaths + 1
  /\ Stop(p)
  /\ hasty' = TRUE
  /\ UNCHANGED <<gitVars, gppVars, cmap, todo, fresh, made, used, promoted, missed, overlapped>>

Bridge(p) ==
  \/ ImportWalk(p) \/ ImportCommit(p) \/ ImportLink(p) \/ ImportBranches(p) \/ ReadBranch(p)
  \/ WriteRef(p) \/ ImportHead(p) \/ ImportFiles(p) \/ ImportFilled(p)
  \/ ExportList(p) \/ ExportBranch(p) \/ ExportChangeset(p) \/ ExportLink(p) \/ ExportRef(p) \/ ExportHead(p)
  \/ WatchHead(p) \/ WatchLook(p)

Next ==
  \/ \E d \in todo : User(d) \/ \E p \in Proc : Start(p, d)
  \/ \E p \in Proc : Bridge(p) /\ UNCHANGED <<todo, deaths>>
  \/ \E p \in Proc : Die(p)

Fairness == \A p \in Proc : WF_vars(Bridge(p) /\ UNCHANGED <<todo, deaths>>)
Spec     == Init /\ [][Next]_vars
FairSpec == Spec /\ Fairness
-----------------------------------------------------------------------------
(* Whatever died half-way, the branches of Git and of gpp and the map lead *)
(* only to commits and changesets that are stored, back to the first.      *)
TypeOK ==
  /\ deaths \in 0 .. MaxDeaths /\ \A n \in DOMAIN wd : wd[n] \in {"file", "link"}
  /\ \A g \in Repo : Walked(g) \subseteq commits[g]
  /\ Ancestors({refs[b] : b \in DOMAIN refs} \cup {l[2] : l \in cmap}, objects) \subseteq objects
  /\ \A l \in cmap : \E g \in Repo : Ancestors({l[1]}, commits[g]) \subseteq commits[g]

(* An import brings nothing twice: a commit is one changeset, even when an *)
(* import died after it stored the changeset and before it noted so, or    *)
(* two imports run at once; and what was exported to the one repository a  *)
(* project is bridged with does not come back from it as another changeset.*)
ImportsOnce ==
  /\ \A x, y \in objects : x.git # {} /\ x.git = y.git => x = y
  /\ Cardinality(used) = 1 => \A x \in objects : x.git \cap made = {}

(* A linked pair is the same history: what was imported has the parents of *)
(* its commit, each as its own changeset; what was exported has at least   *)
(* the first parent of its changeset, as a commit of the same change; and  *)
(* both have the same files but for submodules, links and executables too. *)
LinkFaithful ==
  \A l \in cmap :
    LET c == l[1]
        x == l[2]
    IN  /\ c.msg = x.msg /\ x.tree = ConvertTree(c.tree)
        /\ \A n \in DOMAIN x.tree : BuildGitTree(x.tree)[n] = c.tree[n]
        /\ x.git = {c} => Len(c.parents) = Len(x.parents) /\
                        \A i \in DOMAIN c.parents : <<c.parents[i], x.parents[i]>> \in cmap
        /\ x.git = {} /\ x.parents # <<>> => c.parents # <<>> /\ c.parents[1].msg = x.parents[1].msg

OneByOne == ~overlapped /\ Cardinality(used) <= 1

(* An export that sets a branch of Git back takes off it only commits that *)
(* no import has set a branch of gpp to, and an import that sets a branch  *)
(* of gpp back only what was promoted and not yet linked to a commit on a  *)
(* branch of Git; unless two bridges ran at once or gpp is bridged with    *)
(* two repositories.                                                       *)
ForcedRefsKeep ==
  [][OneByOne =>
       /\ \A g \in Repo : \A b \in DOMAIN gitRefs[g] :
            \A c \in Ancestors({gitRefs[g][b]}, commits[g]) \ Ancestors({gitRefs'[g][b]}, commits'[g]) : c \in fresh[g]
       /\ \A b \in DOMAIN refs : \A x \in Ancestors({refs[b]}, objects) \ Ancestors({refs'[b]}, objects') :
            x \in promoted /\ \A l \in cmap : l[2] = x => \A g \in Repo : l[1] \notin Walked(g)]_vars

(* A promotion after an import into an empty directory does not delete the *)
(* imported files, unless it came before the import had written them, the  *)
(* import died, or a bridge imported (it writes no files).  The links of a *)
(* Git checkout are not counted: a promotion deletes them.                 *)
ImportedFilesKept ==
  ~hasty => \A x \in promoted : x.parents # <<>> /\ x.parents[1].git # {} =>
              \A n \in DOMAIN x.parents[1].tree : n \in DOMAIN x.tree \/ x.parents[1].tree[n].kind = "symlink"

(* A watching bridge does not lose sight of Git: in the end its HEAD is    *)
(* linked, unless HEAD moved during the watcher's first round.             *)
WatcherFollows ==
  \A p \in Proc : <>[](proc[p].op = "watch" /\ p \notin missed =>
                          \A c \in HeadOid(proc[p].g) : Linked(c))

(* What every state keeps, in the middle of a run or after a death:        *)
(* whatever a branch or the map names is stored, and the links are true.   *)
BridgeInv == TypeOK /\ LinkFaithful
=============================================================================
