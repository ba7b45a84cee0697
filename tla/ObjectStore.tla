----------------------------- MODULE ObjectStore -----------------------------
(***************************************************************************)
(* The content-addressed object store of gpp-core, one step per system     *)
(* call.  Several processes (the watcher, a command, an agent session) may *)
(* write at once, and a write of an id always goes through the same        *)
(* temporary path, `.tmp-<id.short()>`, so two writers of one object share *)
(* a temporary file.                                                       *)
(*                                                                         *)
(* A file is the set of the chunks written to it so far (one chunk per     *)
(* write(2) that write_all issues).  A writer keeps its open handle across *)
(* a rename: `loc` says where the file behind the handle is linked now.    *)
(***************************************************************************)
EXTENDS Naturals, FiniteSets

CONSTANTS
  Writer,      \* processes that call write or write_raw
  Id,          \* object ids (content addresses)
  NChunks,     \* how many write(2) calls a frame takes
  MaxCrashes   \* bound: how many writers may die in the middle of a write

ASSUME NChunksAssumption == NChunks \in Nat \ {0}
ASSUME MaxCrashesAssumption == MaxCrashes \in Nat

VARIABLES
  tmp,      \* tmp[i]: content of `.tmp-<i.short()>`, or NoFile
  final,    \* final[i]: content of `objects/<aa>/<rest>`, or NoFile
  writer,   \* the writers' local state
  acked,    \* ids for which some write has returned Ok
  crashes,  \* how many writers have died
  raced     \* history: ids two writers were writing at the same time

storeVars == <<tmp, final, writer, acked, crashes, raced>>

Chunk   == 1 .. NChunks
File    == SUBSET Chunk
NoFile  == {0}           \* no chunk is numbered 0: never the content of a file
Whole   == Chunk
WriterAt(step, i)   == [pc |-> step, id |-> i, loc |-> "none", next |-> 1]
IdleWriter(i) == WriterAt("idle", i)

StoreTypeOK ==
  /\ tmp \in [Id -> File \cup {NoFile}]
  /\ final \in [Id -> File \cup {NoFile}]
  /\ writer \in [Writer -> [pc   : {"idle", "create", "fill", "rename"},
                            id   : Id,
                            loc  : {"none", "tmp", "final", "unlinked"},
                            next : 1 .. NChunks + 1]]
  /\ acked \subseteq Id
  /\ crashes \in 0 .. MaxCrashes
  /\ raced \subseteq Id

StoreInit ==
  /\ tmp = [i \in Id |-> NoFile]
  /\ final = [i \in Id |-> NoFile]
  /\ \E i \in Id : writer = [w \in Writer |-> IdleWriter(i)]
  /\ acked = {}
  /\ crashes = 0
  /\ raced = {}
-----------------------------------------------------------------------------
(* A writer finds the object already stored: nothing is written.           *)
SkipPresent(w, i) ==
  /\ writer[w].pc = "idle"
  /\ final[i] # NoFile
  /\ acked' = acked \cup {i}
  /\ UNCHANGED <<tmp, final, writer, crashes, raced>>

Writing(v, i) == writer[v].pc # "idle" /\ writer[v].id = i

(* The object is absent when the writer looks; it goes on to write it.     *)
Begin(w, i) ==
  /\ writer[w].pc = "idle"
  /\ final[i] = NoFile
  /\ writer' = [writer EXCEPT ![w] = WriterAt("create", i)]
  /\ raced' = IF \E v \in Writer \ {w} : Writing(v, i) THEN raced \cup {i} ELSE raced
  /\ UNCHANGED <<tmp, final, acked, crashes>>

(* Mutant of Create: the frame is written straight to the object's path.    *)
Create_InPlace(w) ==
  /\ writer[w].pc = "create"
  /\ final' = [final EXCEPT ![writer[w].id] = {}]
  /\ tmp' = [tmp EXCEPT ![writer[w].id] = {}]
  /\ writer' = [writer EXCEPT ![w].pc = "fill", ![w].loc = "final"]
  /\ UNCHANGED <<acked, crashes, raced>>

(* File::create: a new file, or the one another writer is using, truncated. *)
Create(w) ==
  /\ writer[w].pc = "create"
  /\ tmp' = [tmp EXCEPT ![writer[w].id] = {}]
  /\ writer' = [writer EXCEPT ![w].pc = "fill", ![w].loc = "tmp"]
  /\ UNCHANGED <<final, acked, crashes, raced>>

(* Mutant of LastChunk: the rename does not wait for write_all to end.      *)
LastChunk_Any(n) == TRUE

LastChunk(n) == n = NChunks

(* write_all, one write(2) at a time at the writer's own offset, into the  *)
(* file the handle is open on, wherever that file is linked; after the     *)
(* last one, sync_all.                                                     *)
Fill(w) ==
  LET i == writer[w].id
      n == writer[w].next
      grow(f) == [f EXCEPT ![i] = @ \cup {n}]
  IN  /\ writer[w].pc = "fill"
      /\ tmp' = IF writer[w].loc = "tmp" THEN grow(tmp) ELSE tmp
      /\ final' = IF writer[w].loc = "final" THEN grow(final) ELSE final
      /\ writer' = [writer EXCEPT ![w].next = n + 1,
                                  ![w].pc = IF LastChunk(n) THEN "rename" ELSE "fill"]
      /\ UNCHANGED <<acked, crashes, raced>>

(* rename(2): the temporary file takes the object's name; handles follow   *)
(* their file, and a file that had the name before has none now.           *)
Relinked(v, i) ==
  IF v.id # i \/ v.loc \notin {"tmp", "final"} THEN v
  ELSE [v EXCEPT !.loc = IF v.loc = "tmp" THEN "final" ELSE "unlinked"]

Rename(w) ==
  LET i == writer[w].id
  IN  /\ writer[w].pc = "rename"
      /\ tmp[i] # NoFile
      /\ final' = [final EXCEPT ![i] = tmp[i]]
      /\ tmp' = [tmp EXCEPT ![i] = NoFile]
      /\ writer' = [v \in Writer |-> IF v = w THEN IdleWriter(i)
                                              ELSE Relinked(writer[v], i)]
      /\ acked' = acked \cup {i}
      /\ UNCHANGED <<crashes, raced>>

(* The temporary file is gone, renamed by the other writer: an io error.   *)
RenameFails(w) ==
  /\ writer[w].pc = "rename"
  /\ tmp[writer[w].id] = NoFile
  /\ writer' = [writer EXCEPT ![w] = IdleWriter(writer[w].id)]
  /\ UNCHANGED <<tmp, final, acked, crashes, raced>>

(* The process dies; what it wrote stays in the file.                      *)
Crash(w) ==
  /\ writer[w].pc # "idle"
  /\ crashes < MaxCrashes
  /\ crashes' = crashes + 1
  /\ writer' = [writer EXCEPT ![w] = IdleWriter(writer[w].id)]
  /\ UNCHANGED <<tmp, final, acked, raced>>

StoreNext ==
  \E w \in Writer :
    \/ \E i \in Id : SkipPresent(w, i) \/ Begin(w, i)
    \/ Create(w)
    \/ Fill(w)
    \/ Rename(w)
    \/ RenameFails(w)
    \/ Crash(w)

StoreSpec == StoreInit /\ [][StoreNext]_storeVars
-----------------------------------------------------------------------------
(* read verifies the content address: it succeeds on a whole file only.    *)
Readable(i) == final[i] = Whole

(* iter_ids lists the object files, whole or not, and skips `.tmp-` files. *)
IterIds == {i \in Id : final[i] # NoFile}

(* Every object iter_ids lists can be read, unless two processes wrote it  *)
(* at once: a write shows nothing before its rename and everything after   *)
(* it, and crashes and retries leave nothing half-written (store.rs:4-5).  *)
LoneWritesWhole == \A i \in IterIds \ raced : Readable(i)

(* A write that returned Ok left an object that can be read, whether it    *)
(* wrote the object or found it there.                                     *)
AckedReadable == \A i \in acked \ raced : i \in IterIds /\ Readable(i)

(* What a reader of the directory sees, in the terms of ContentStore; an   *)
(* object two processes wrote at once is left out.                         *)
Promise == INSTANCE ContentStore WITH
  stored <- [i \in Id |-> IF final[i] = NoFile \/ i \in raced THEN "absent"
                          ELSE IF Readable(i) THEN "present" ELSE "corrupt"]

(* Crashes included, the directory goes from absent to readable in one     *)
(* step per object and never back (store.rs, write).                       *)
ImplementsContentStore == Promise!Spec
=============================================================================
