-------------------------------- MODULE Sync --------------------------------
(***************************************************************************)
(* Synchronisation of replicas (gpp-sync), the relay that serves several   *)
(* peers at once (gpp-relay), and `gpp merge`, which resolves the forks    *)
(* that a sync leaves.                                                     *)
(*                                                                         *)
(* The refs of a replica are those that grow from one branch: its own      *)
(* name is <<>>, and <<l1, l2>> is the name `main.fork.<l1>.fork.<l2>`.    *)
(* An object is a changeset together with its tree and intent.  Keys,      *)
(* hello, policies and the graph index are left out: a session here is     *)
(* one whose peers accepted each other.                                    *)
(***************************************************************************)
EXTENDS Integers, Sequences, FiniteSets

CONSTANTS
  Replica,        \* repositories with one repo-id; their names label forks
  Peers,          \* <<i, r>>: i has r as a peer (`gpp sync add`)
  Relay,          \* the replicas that serve each peer in a thread of its own
  Cloned,         \* the replicas that hold the first changeset at the start
  GraphOnly,      \* the replicas whose user may sync with --graph-only
  MaxChangesets,  \* bound: changesets made, the first one included
  MaxSyncs,       \* bound: sessions opened
  MaxDrops        \* bound: sessions whose connection is lost

ASSUME ReplicaAssumption ==
  /\ Peers \subseteq {p \in Replica \X Replica : p[1] # p[2]}
  /\ Relay \subseteq Replica /\ Cloned \subseteq Replica /\ GraphOnly \subseteq Replica
ASSUME BoundsAssumption == MaxChangesets \in Nat \ {0} /\ MaxSyncs \in Nat /\ MaxDrops \in Nat

VARIABLES
  cs,      \* cs[c]: the parents of changeset c
  objs,    \* objs[r]: the changesets in r's object store
  refs,    \* refs[r]: a function from the names of r's ref files to tips
  cmd,     \* cmd[r]: the promote or merge that runs on r
  sess,    \* the sync sessions; a session's number stands for its port
  drops,   \* how many connections have been lost
  short,   \* history: tips sent in a push that did not bring all their history
  lost     \* history: changesets a write that raced another took off a replica's refs

vars == <<cs, objs, refs, cmd, sess, drops, short, lost>>

Changeset == 1 .. MaxChangesets
None      == 0
Main      == <<>>

NoCommand == [pc |-> "idle", id |-> None, read |-> None, fork |-> Main, theirs |-> None]
Closed    == [pc |-> "closed", from |-> None, to |-> None, dir |-> "push", bare |-> FALSE,
              theirs |-> {}, ours |-> {}, sent |-> {}, push |-> <<>>, todo |-> {},
              name |-> Main, target |-> Main, read |-> None,
              disturbed |-> FALSE, goal |-> {}]
-----------------------------------------------------------------------------
(* The history of a changeset.                                             *)
Ancestors[c \in 1..Len(cs)] == {c} \cup UNION {Ancestors[p] : p \in cs[c]}

(* is_ancestor: the walk goes through the changesets the replica holds.    *)
IsAncestor(r, anc, tip) ==
  LET up[d \in 1..Len(cs)] ==
        {d} \cup IF d \in objs[r] THEN UNION {up[p] : p \in cs[d]} ELSE {}
  IN  anc \in up[tip]

ReadRef(r, n) == IF n \in DOMAIN refs[r] THEN refs[r][n] ELSE None

WithRef(r, n, tip) ==
  [refs EXCEPT ![r] = [m \in DOMAIN @ \cup {n} |-> IF m = n THEN tip ELSE @[m]]]

Reach(rs) == UNION {Ancestors[rs[n]] : n \in DOMAIN rs}
Known(r)  == Reach(refs[r])

(* Open sessions notice that the refs of one of their ends were written.   *)
Disturb(ss, r, but) ==
  [s \in DOMAIN ss |-> IF s # but /\ ss[s].pc # "closed" /\ r \in {ss[s].from, ss[s].to}
                       THEN [ss[s] EXCEPT !.disturbed = TRUE] ELSE ss[s]]

Forgotten(r) == Known(r) \ Reach(refs'[r])
-----------------------------------------------------------------------------
Init ==
  /\ cs = <<{}>>
  /\ objs = [r \in Replica |-> IF r \in Cloned THEN {1} ELSE {}]
  /\ refs = [r \in Replica |-> IF r \in Cloned THEN [n \in {Main} |-> 1] ELSE <<>>]
  /\ cmd = [r \in Replica |-> NoCommand]
  /\ sess = <<>>
  /\ drops = 0
  /\ short = {}
  /\ lost = {}

(* A command stores a new changeset, on the tips it has read.  A relay is  *)
(* a bare store: no commands run there.                                    *)
Store(r, parents, step) ==
  LET id == Len(cs) + 1
  IN  /\ r \notin Relay
      /\ cmd[r].pc = "idle"
      /\ id \in Changeset
      /\ cs' = Append(cs, parents)
      /\ objs' = [objs EXCEPT ![r] = @ \cup {id}]
      /\ cmd' = [cmd EXCEPT ![r] = [step EXCEPT !.id = id]]
      /\ UNCHANGED <<refs, sess, drops, short, lost>>

(* promote: the tip is read and the changeset stored; the ref comes later. *)
BeginPromote(r) ==
  LET tip == ReadRef(r, Main)
  IN  Store(r, {tip} \ {None}, [NoCommand EXCEPT !.pc = "ref", !.read = tip])

(* gpp merge: the fork's changeset is read, both tips become parents.      *)
BeginMerge(r, fork) ==
  LET ours == ReadRef(r, Main)
      theirs == ReadRef(r, fork)
  IN  /\ None \notin {ours, theirs}
      /\ ours # theirs
      /\ theirs \in objs[r]
      /\ Store(r, {ours, theirs},
               [NoCommand EXCEPT !.pc = "ref", !.read = ours, !.fork = fork, !.theirs = theirs])

(* The branch ref is rewritten, whatever it holds by now.                  *)
MoveTip(r) ==
  /\ cmd[r].pc = "ref"
  /\ refs' = WithRef(r, Main, cmd[r].id)
  /\ lost' = IF ReadRef(r, Main) # cmd[r].read THEN lost \cup Forgotten(r) ELSE lost
  /\ cmd' = [cmd EXCEPT ![r] = IF cmd[r].fork = Main THEN NoCommand
                               ELSE [@ EXCEPT !.pc = "delete"]]
  /\ sess' = Disturb(sess, r, None)
  /\ UNCHANGED <<cs, objs, drops, short>>

(* The merged fork is deleted, whatever it and the branch hold by now.     *)
DeleteFork(r) ==
  /\ cmd[r].pc = "delete"
  /\ refs' = [refs EXCEPT ![r] = [n \in DOMAIN @ \ {cmd[r].fork} |-> @[n]]]
  /\ lost' = IF ReadRef(r, cmd[r].fork) # cmd[r].theirs \/ ReadRef(r, Main) # cmd[r].id
             THEN lost \cup Forgotten(r) ELSE lost
  /\ cmd' = [cmd EXCEPT ![r] = NoCommand]
  /\ sess' = Disturb(sess, r, None)
  /\ UNCHANGED <<cs, objs, drops, short>>
-----------------------------------------------------------------------------
Sender(s)   == IF sess[s].dir = "push" THEN sess[s].from ELSE sess[s].to
Receiver(s) == IF sess[s].dir = "push" THEN sess[s].to ELSE sess[s].from
Open        == {s \in DOMAIN sess : sess[s].pc # "closed"}

(* connect and serve: hello is exchanged and each side sends its State,    *)
(* which names no object of an initiator with --graph-only (`bare`).  A    *)
(* replica runs one `gpp sync` at a time, `gpp sync serve` answers one     *)
(* peer at a time, the relay as many as call.                              *)
Connect(i, r) ==
  /\ <<i, r>> \in Peers
  /\ Len(sess) < MaxSyncs
  /\ \A s \in Open : sess[s].from # i
  /\ r \notin Relay => \A s \in Open : sess[s].to # r
  /\ \E bare \in BOOLEAN :
       /\ bare => i \in GraphOnly
       /\ sess' = Append(sess, [Closed EXCEPT !.pc = "collect", !.from = i, !.to = r, !.bare = bare,
                                              !.theirs = objs[r], !.ours = IF bare THEN {} ELSE objs[i],
                                              !.goal = Known(i) \cup Known(r)])
  /\ UNCHANGED <<cs, objs, refs, cmd, drops, short, lost>>

Step(s, record) == sess' = [sess EXCEPT ![s] = record]

(* build_push, of the initiator: it reads the objects that the peer did not *)
(* tell of, none with --graph-only.                                        *)
Collect(s) ==
  /\ sess[s].pc = "collect"
  /\ Step(s, [sess[s] EXCEPT !.pc = "list",
                 !.sent = IF sess[s].bare THEN {} ELSE objs[sess[s].from] \ sess[s].theirs])
  /\ UNCHANGED <<cs, objs, refs, cmd, drops, short, lost>>

(* Mutant of AfterObjects: the refs do not wait for the objects.            *)
AfterObjects_Early(left) == "refs"

(* The refs of a push are applied once all of its objects are.              *)
AfterObjects(left) == IF left = {} THEN "refs" ELSE "objects"

(* build_push: then the refs are listed, and the Push is sent.             *)
ListRefs(s) ==
  LET push == refs[Sender(s)]
      brought == sess[s].theirs \cup sess[s].sent
  IN  /\ sess[s].pc = "list"
      /\ Step(s, [sess[s] EXCEPT !.pc = AfterObjects(sess[s].sent), !.push = push, !.todo = DOMAIN push])
      /\ short' = short \cup {push[n] : n \in {m \in DOMAIN push : ~(Ancestors[push[m]] \subseteq brought)}}
      /\ UNCHANGED <<cs, objs, refs, cmd, drops, lost>>

(* write_raw: a frame that has the content its address is the hash of.     *)
WriteRaw(r, c) == [objs EXCEPT ![r] = @ \cup {c}]

(* apply_push: the objects are written first, in no order of history.      *)
WriteObject(s) ==
  /\ sess[s].pc = "objects"
  /\ \E c \in sess[s].sent :
       /\ objs' = WriteRaw(Receiver(s), c)
       /\ Step(s, [sess[s] EXCEPT !.sent = @ \ {c}, !.pc = AfterObjects(sess[s].sent \ {c})])
  /\ UNCHANGED <<cs, refs, cmd, drops, short, lost>>

(* Mutant of Adopts: the last writer wins, divergent or not.               *)
Adopts_Always(r, local, tip) == local # tip

(* A missing branch is adopted, one that is behind moved forward.          *)
Adopts(r, local, tip) == local = None \/ (local # tip /\ IsAncestor(r, local, tip))

(* Mutant of Keeps: what is not a fast-forward is ignored.                  *)
Keeps_Always(r, local, tip) == TRUE

Keeps(r, local, tip) == local = tip \/ IsAncestor(r, tip, local)

(* The name a divergent tip is kept under: `<name>.fork.<label>`, where    *)
(* the label is the peer's name for `gpp sync` and its address, with a     *)
(* port of its own for each session, for a server.                         *)
ForkName(s, n) == Append(n, IF sess[s].dir = "push" THEN s ELSE sess[s].to)

(* apply_push reads its ref of a name and decides what to do with the      *)
(* peer's tip.                                                             *)
ReadLocal(s) ==
  /\ sess[s].pc = "refs"
  /\ \E n \in sess[s].todo :
       LET r == Receiver(s)
           tip == sess[s].push[n]
           local == ReadRef(r, n)
           rest == [sess[s] EXCEPT !.todo = @ \ {n}]
           write(target) == [rest EXCEPT !.pc = "write", !.name = n, !.target = target, !.read = local]
       IN  Step(s, IF Adopts(r, local, tip) THEN write(n)
                   ELSE IF Keeps(r, local, tip) THEN rest
                   ELSE write(ForkName(s, n)))
  /\ UNCHANGED <<cs, objs, refs, cmd, drops, short, lost>>

(* write_ref: whatever the ref holds by now.                               *)
WriteRef(s) ==
  LET r == Receiver(s)
      n == sess[s].name
      raced == sess[s].disturbed \/ ReadRef(r, n) # sess[s].read
  IN  /\ sess[s].pc = "write"
      /\ refs' = WithRef(r, sess[s].target, sess[s].push[n])
      /\ lost' = IF raced THEN lost \cup Forgotten(r) ELSE lost
      /\ sess' = [Disturb(sess, r, s) EXCEPT ![s] =
                    [@ EXCEPT !.pc = "refs", !.name = Main, !.target = Main, !.read = None]]
      /\ UNCHANGED <<cs, objs, cmd, drops, short>>

(* The push is applied: the server turns to build_push and reads what the  *)
(* initiator did not tell of, and the initiator is done.                   *)
Turn(s) ==
  /\ sess[s].pc = "refs"
  /\ sess[s].todo = {}
  /\ Step(s, IF sess[s].dir = "pull" THEN Closed
             ELSE [sess[s] EXCEPT !.pc = "list", !.dir = "pull", !.theirs = sess[s].ours,
                                  !.sent = objs[sess[s].to] \ sess[s].ours,
                                  !.ours = {}, !.push = <<>>])
  /\ UNCHANGED <<cs, objs, refs, cmd, drops, short, lost>>

(* The connection or the receiving process is lost; what was applied stays. *)
Drop(s) ==
  /\ s \in Open
  /\ drops < MaxDrops
  /\ drops' = drops + 1
  /\ Step(s, Closed)
  /\ UNCHANGED <<cs, objs, refs, cmd, short, lost>>

Next ==
  \/ \E r \in Replica :
       \/ BeginPromote(r)
       \/ \E fork \in DOMAIN refs[r] \ {Main} : BeginMerge(r, fork)
       \/ MoveTip(r)
       \/ DeleteFork(r)
       \/ \E i \in Replica : Connect(i, r)
  \/ \E s \in Open :
       \/ Collect(s)
       \/ ListRefs(s)
       \/ WriteObject(s)
       \/ ReadLocal(s)
       \/ WriteRef(s)
       \/ Turn(s)
       \/ Drop(s)

Spec == Init /\ [][Next]_vars
-----------------------------------------------------------------------------
TypeOK ==
  /\ Len(cs) \in Changeset
  /\ \A c \in DOMAIN cs : cs[c] \subseteq 1 .. c - 1
  /\ objs \in [Replica -> SUBSET (1..Len(cs))]
  /\ \A r \in Replica : \A n \in DOMAIN refs[r] :
       n \in Seq(Replica \cup 1..Len(sess)) /\ refs[r][n] \in 1..Len(cs)
  /\ \A r \in Replica : cmd[r].pc # "idle" => cmd[r].id \in objs[r]
  /\ \A s \in Open : sess[s].sent \cup sess[s].theirs \cup sess[s].goal \subseteq 1..Len(cs)
  /\ drops \in 0..MaxDrops
  /\ short \cup lost \subseteq 1..Len(cs)

(* Whatever a session is cut or runs beside, a ref of a replica leads only *)
(* to changesets that replica holds, but through a tip that a peer sent    *)
(* without its history: with --graph-only, or because a promotion or       *)
(* another sync came between build_push's two reads (lib.rs:219-235).      *)
RefsResolve ==
  \A r \in Replica : \A n \in DOMAIN refs[r] :
     LET history == Ancestors[refs[r][n]]
     IN  history \subseteq objs[r] \/ history \cap short # {}

(* No step takes a changeset off the refs of a replica, forks included,    *)
(* unless its write raced another one (apply_push, merge: "never           *)
(* auto-merge", lib.rs:343).                                               *)
NeverForgets ==
  [][\A r \in Replica : Known(r) \ Known(r)' \subseteq lost']_vars

(* A session that runs to its end with no other write to the refs of its   *)
(* two replicas leaves both knowing all that either knew before.           *)
SyncedAgree ==
  \A s \in Open :
     sess[s].pc = "refs" /\ sess[s].dir = "pull" /\ sess[s].todo = {} /\ ~sess[s].disturbed
       => /\ sess[s].goal \ lost \subseteq Known(sess[s].from)
          /\ Known(sess[s].from) \ lost = Known(sess[s].to) \ lost

(* What every state of the replicas keeps: the types, and RefsResolve.     *)
SyncInv == TypeOK /\ RefsResolve
=============================================================================
