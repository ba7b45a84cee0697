---------------------------- MODULE Stores_proof ----------------------------
(***************************************************************************)
(* The two content-addressed stores.  The object store keeps its promise   *)
(* whatever the writers, the objects, the size of the frames and the       *)
(* number of crashes, for every object that two processes do not write at  *)
(* the same time.  The Git bridge keeps the branches, the commits and      *)
(* changesets they lead to, and the links between both, whole and true,    *)
(* whatever died, and imports nothing twice, whatever the bridges,         *)
(* repositories, branches and work to be done.                             *)
(***************************************************************************)
EXTENDS ObjectStore, GitBridge, FiniteSetTheorems, WellFoundedInduction, TLAPS

(* The object store.                                                       *)

(* What a writer that has its object to itself knows about its files.      *)
LoneWriter(w) ==
  LET i == writer[w].id
      n == writer[w].next
  IN  /\ writer[w].pc = "create" => final[i] = NoFile
      /\ writer[w].pc = "fill" =>
           /\ writer[w].loc = "tmp"
           /\ final[i] = NoFile
           /\ tmp[i] = 1 .. n - 1
      /\ writer[w].pc = "rename" =>
           /\ final[i] = NoFile
           /\ tmp[i] = Whole

WriterOK(w) ==
  /\ writer[w].pc = "create" => writer[w].next = 1
  /\ writer[w].pc = "fill" => writer[w].next \in Chunk
  /\ writer[w].loc = "tmp" => tmp[writer[w].id] # NoFile
  /\ writer[w].loc = "final" => final[writer[w].id] # NoFile
  /\ writer[w].id \notin raced => LoneWriter(w)

WriterInv == \A w \in Writer : WriterOK(w)

(* Two writers of one object are remembered in raced.                      *)
AloneInv ==
  \A v, w \in Writer :
     v # w /\ writer[v].pc # "idle" /\ Writing(w, writer[v].id) => writer[v].id \in raced

StoreInv == StoreTypeOK /\ WriterInv /\ AloneInv /\ LoneWritesWhole /\ acked \ raced \subseteq IterIds

(* No file content is mistaken for the absence of a file.                  *)
LEMMA NoFileIsNotAFile == \A f \in File : f # NoFile
  BY DEF File, NoFile, Chunk

LEMMA InitStoreInv == StoreInit => StoreInv
  <1> USE NChunksAssumption, MaxCrashesAssumption
  <1> SUFFICES ASSUME StoreInit PROVE StoreInv
    OBVIOUS
  <1>1. StoreTypeOK
    BY DEF StoreInit, StoreTypeOK, IdleWriter, WriterAt
  <1>2. WriterInv /\ AloneInv
    BY DEF StoreInit, WriterInv, WriterOK, LoneWriter, AloneInv, IdleWriter, WriterAt
  <1>3. LoneWritesWhole /\ acked \ raced \subseteq IterIds
    BY DEF StoreInit, LoneWritesWhole, IterIds
  <1>4. QED
    BY <1>1, <1>2, <1>3 DEF StoreInv

(* A step that only sends a writer back to idle keeps the invariant.       *)
LEMMA GivesUp ==
  ASSUME StoreInv, NEW w \in Writer,
         writer' = [writer EXCEPT ![w] = IdleWriter(writer[w].id)],
         UNCHANGED <<tmp, final, acked, raced>>,
         crashes' \in 0 .. MaxCrashes
  PROVE  StoreInv'
  <1> USE NChunksAssumption, MaxCrashesAssumption
  <1>1. StoreTypeOK'
    BY DEF StoreInv, StoreTypeOK, IdleWriter, WriterAt
  <1>2. WriterInv' /\ AloneInv'
    BY DEF StoreInv, StoreTypeOK, WriterInv, WriterOK, LoneWriter, AloneInv, Writing, IdleWriter, WriterAt
  <1>3. LoneWritesWhole' /\ (acked \ raced \subseteq IterIds)'
    BY DEF StoreInv, LoneWritesWhole, IterIds, Readable
  <1>4. QED
    BY <1>1, <1>2, <1>3 DEF StoreInv

(* Every step of every writer, a crash included, keeps the invariant.      *)
LEMMA StepStoreInv ==
  ASSUME StoreInv, [StoreNext]_storeVars
  PROVE  StoreInv'
  <1> USE NChunksAssumption, MaxCrashesAssumption
  <1> USE NoFileIsNotAFile DEF StoreInv
  <1>0. /\ 0 \notin Chunk
        /\ Whole \in File
        /\ \A n \in Chunk : (1 .. n - 1) \cup {n} = 1 .. n
    BY DEF Chunk, Whole, File
  <1>1. ASSUME NEW w \in Writer, NEW i \in Id, SkipPresent(w, i)
        PROVE  StoreInv'
    BY <1>1 DEF SkipPresent, StoreTypeOK, WriterInv, WriterOK, LoneWriter, AloneInv, Writing,
                LoneWritesWhole, IterIds, Readable
  <1>2. ASSUME NEW w \in Writer, NEW i \in Id, Begin(w, i)
        PROVE  StoreInv'
    <2>0. /\ writer' = [writer EXCEPT ![w] =
                          [pc |-> "create", id |-> i, loc |-> "none", next |-> 1]]
          /\ raced \subseteq raced' /\ raced' \subseteq raced \cup {i}
      BY <1>2 DEF Begin, WriterAt
    <2>1. StoreTypeOK'
      BY <1>2, <2>0 DEF Begin, StoreTypeOK
    <2>2. WriterInv'
      BY <1>2, <2>0 DEF Begin, StoreTypeOK, WriterInv, WriterOK, LoneWriter
    <2>3. AloneInv'
      <3> SUFFICES ASSUME NEW u \in Writer, NEW v \in Writer, u # v,
                          (writer[u].pc # "idle")', Writing(v, writer[u].id)'
                   PROVE  writer'[u].id \in raced'
        BY DEF AloneInv
      <3>1. CASE u # w /\ v # w
        BY <3>1, <2>0 DEF AloneInv, Writing, StoreTypeOK
      <3>2. CASE u = w
        <4>1. v \in Writer \ {w} /\ Writing(v, i) /\ writer'[u].id = i
          BY <3>2, <2>0 DEF Writing, StoreTypeOK
        <4>2. QED
          BY <4>1, <1>2 DEF Begin
      <3>3. CASE v = w
        <4>1. u \in Writer \ {w} /\ Writing(u, i) /\ writer'[u].id = i
          BY <3>3, <2>0 DEF Writing, StoreTypeOK
        <4>2. QED
          BY <4>1, <1>2 DEF Begin
      <3>4. QED
        BY <3>1, <3>2, <3>3
    <2>4. LoneWritesWhole' /\ (acked \ raced \subseteq IterIds)'
      BY <1>2, <2>0 DEF Begin, LoneWritesWhole, IterIds, Readable
    <2>5. QED
      BY <2>1, <2>2, <2>3, <2>4
  <1>3. ASSUME NEW w \in Writer, Create(w)
        PROVE  StoreInv'
    <2> DEFINE i == writer[w].id
    <2>0. /\ writer' = [writer EXCEPT ![w].pc = "fill", ![w].loc = "tmp"]
          /\ tmp' = [tmp EXCEPT ![i] = {}]
          /\ UNCHANGED <<final, acked, crashes, raced>>
          /\ writer[w].pc = "create" /\ i \in Id
      BY <1>3 DEF Create, StoreTypeOK
    <2>1. StoreTypeOK'
      BY <2>0, ZenonT(60) DEF StoreTypeOK, File
    <2>f. tmp'[i] = {} /\ {} # NoFile
      BY <2>0 DEF StoreTypeOK, NoFile
    <2>2. WriterOK(w)'
      <3>1. writer'[w].pc = "fill" /\ writer'[w].loc = "tmp" /\ writer'[w].id = i
            /\ writer'[w].next = 1
        BY <2>0 DEF StoreTypeOK, WriterInv, WriterOK
      <3>2. i \notin raced => final[i] = NoFile
        BY <2>0 DEF WriterInv, WriterOK, LoneWriter
      <3>3. QED
        <4>1. 1 \in Chunk /\ 1 .. 1 - 1 = {}
          BY DEF Chunk
        <4>2. LoneWriter(w)' \/ i \in raced
          BY <2>0, <2>f, <3>1, <3>2, <4>1 DEF LoneWriter
        <4>3. QED
          BY <2>0, <2>f, <3>1, <4>1, <4>2 DEF WriterOK
    <2>3. ASSUME NEW v \in Writer, v # w
          PROVE  WriterOK(v)'
      <3>1. writer'[v] = writer[v]
        BY <2>0, <2>3 DEF StoreTypeOK
      <3>2. CASE writer[v].id # i
        BY <3>1, <3>2, <2>0 DEF StoreTypeOK, WriterInv, WriterOK, LoneWriter
      <3>3. CASE writer[v].id = i
        <4>1. writer[v].pc = "idle" \/ i \in raced
          BY <3>3, <2>3, <2>0 DEF AloneInv, Writing
        <4>2. QED
          BY <3>1, <3>3, <4>1, <2>0, <2>f DEF WriterInv, WriterOK, LoneWriter
      <3>4. QED
        BY <3>2, <3>3
    <2>4. AloneInv'
      BY <2>0 DEF AloneInv, Writing, StoreTypeOK
    <2>5. LoneWritesWhole' /\ (acked \ raced \subseteq IterIds)'
      BY <2>0 DEF LoneWritesWhole, IterIds, Readable
    <2>6. QED
      BY <2>1, <2>2, <2>3, <2>4, <2>5 DEF WriterInv
  <1>4. ASSUME NEW w \in Writer, Fill(w)
        PROVE  StoreInv'
    <2> DEFINE i == writer[w].id
               n == writer[w].next
    <2>0. /\ i \in Id
          /\ n \in Chunk
          /\ writer[w].pc = "fill"
          /\ UNCHANGED <<acked, crashes, raced>>
          /\ writer' = [writer EXCEPT ![w].next = n + 1,
                                      ![w].pc = IF n = NChunks THEN "rename" ELSE "fill"]
          /\ tmp' = tmp \/ tmp' = [tmp EXCEPT ![i] = @ \cup {n}]
          /\ final' = final \/ final' = [final EXCEPT ![i] = @ \cup {n}]
      BY <1>4 DEF Fill, LastChunk, StoreTypeOK, WriterInv, WriterOK
    <2>1. i \notin raced =>
            /\ writer[w].loc = "tmp" /\ final[i] = NoFile /\ tmp[i] = 1 .. n - 1
            /\ tmp' = [tmp EXCEPT ![i] = 1 .. n]
            /\ final' = final
      BY <1>0, <1>4, <2>0 DEF Fill, WriterInv, WriterOK, LoneWriter
    <2>2. StoreTypeOK'
      <3>1. n + 1 \in 1 .. NChunks + 1
        BY <2>0 DEF Chunk
      <3>2. /\ tmp' = tmp \/ (tmp' = [tmp EXCEPT ![i] = @ \cup {n}] /\ tmp[i] \in File)
            /\ final' = final \/ (final' = [final EXCEPT ![i] = @ \cup {n}] /\ final[i] \in File)
        BY <1>4, <2>0 DEF Fill, StoreTypeOK, WriterInv, WriterOK
      <3>3. /\ tmp' \in [Id -> File \cup {NoFile}]
            /\ final' \in [Id -> File \cup {NoFile}]
        BY <2>0, <3>2 DEF StoreTypeOK, File
      <3>4. ASSUME NEW pc \in {"rename", "fill"},
                   writer' = [writer EXCEPT ![w].next = n + 1, ![w].pc = pc]
            PROVE  writer' \in [Writer -> [pc   : {"idle", "create", "fill", "rename"},
                                          id   : Id,
                                          loc  : {"none", "tmp", "final", "unlinked"},
                                          next : 1 .. NChunks + 1]]
        BY <3>1, <3>4, ZenonT(60) DEF StoreTypeOK
      <3>5. QED
        BY <2>0, <3>3, <3>4 DEF StoreTypeOK
    <2>g. /\ \A j \in Id : tmp[j] # NoFile => tmp'[j] # NoFile
          /\ \A j \in Id : final[j] # NoFile => final'[j] # NoFile
      <3>1. ASSUME NEW f, f # NoFile
            PROVE  f \cup {n} # NoFile
        <4>1. n # 0
          BY <2>0 DEF Chunk
        <4> HIDE DEF n
        <4> QED BY <4>1 DEF NoFile
      <3>2. ASSUME NEW j \in Id
            PROVE  /\ tmp'[j] = tmp[j] \/ tmp'[j] = tmp[j] \cup {n}
                   /\ final'[j] = final[j] \/ final'[j] = final[j] \cup {n}
        BY <2>0 DEF StoreTypeOK
      <3>3. QED
        BY <3>1, <3>2
    <2>3. WriterOK(w)'
      <3>1. i \notin raced => tmp'[i] = 1 .. n /\ final'[i] = NoFile /\ writer'[w].loc = "tmp"
        BY <2>0, <2>1 DEF StoreTypeOK
      <3>2. /\ writer'[w].id = i /\ writer'[w].next = n + 1
            /\ writer'[w].pc = IF n = NChunks THEN "rename" ELSE "fill"
        BY <2>0 DEF StoreTypeOK
      <3>3. /\ writer'[w].loc = writer[w].loc
            /\ writer'[w].loc = "tmp" => tmp'[i] # NoFile
            /\ writer'[w].loc = "final" => final'[i] # NoFile
        BY <2>0, <2>g DEF StoreTypeOK, WriterInv, WriterOK
      <3>4. QED
        BY <2>0, <3>1, <3>2, <3>3 DEF WriterOK, LoneWriter, Chunk, Whole
    <2>4. ASSUME NEW v \in Writer, v # w
          PROVE  WriterOK(v)'
      <3>1. writer'[v] = writer[v]
        BY <2>0, <2>4 DEF StoreTypeOK
      <3>2. ASSUME NEW j \in Id, j # i
            PROVE  tmp'[j] = tmp[j] /\ final'[j] = final[j]
        BY <2>0, <3>2 DEF StoreTypeOK
      <3>3. CASE writer[v].id # i
        <4>1. writer[v].id \in Id
          BY DEF StoreTypeOK
        <4>2. QED
          BY <3>1, <3>2, <3>3, <4>1, <2>0 DEF WriterInv, WriterOK, LoneWriter
      <3>4. CASE writer[v].id = i
        <4>1. writer[v].pc = "idle" \/ i \in raced
          BY <3>4, <2>4, <2>0 DEF AloneInv, Writing
        <4>2. QED
          BY <3>1, <3>4, <4>1, <2>0, <2>g DEF WriterInv, WriterOK, LoneWriter
      <3>5. QED
        BY <3>3, <3>4
    <2>5. AloneInv'
      BY <2>0 DEF AloneInv, Writing, StoreTypeOK
    <2>6. LoneWritesWhole' /\ (acked \ raced \subseteq IterIds)'
      <3>1. \A j \in Id \ raced : final'[j] = final[j]
        BY <2>0, <2>1 DEF StoreTypeOK
      <3>2. acked \subseteq Id
        BY DEF StoreTypeOK
      <3>3. QED
        BY <2>0, <3>1, <3>2 DEF LoneWritesWhole, IterIds, Readable
    <2>7. QED
      BY <2>2, <2>3, <2>4, <2>5, <2>6 DEF WriterInv
  <1>5. ASSUME NEW w \in Writer, Rename(w)
        PROVE  StoreInv'
    <2> DEFINE i == writer[w].id
    <2>0. /\ i \in Id
          /\ writer[w].pc = "rename"
          /\ tmp[i] \in File
          /\ final' = [final EXCEPT ![i] = tmp[i]]
          /\ tmp' = [tmp EXCEPT ![i] = NoFile]
          /\ acked' = acked \cup {i}
          /\ UNCHANGED <<crashes, raced>>
      BY <1>5 DEF Rename, StoreTypeOK
    <2>1. writer'[w] = IdleWriter(i)
      BY <1>5 DEF Rename
    <2>2. ASSUME NEW v \in Writer, v # w
          PROVE  /\ writer'[v].pc = writer[v].pc
                 /\ writer'[v].id = writer[v].id
                 /\ writer'[v].next = writer[v].next
                 /\ writer'[v] \in [pc   : {"idle", "create", "fill", "rename"},
                                    id   : Id,
                                    loc  : {"none", "tmp", "final", "unlinked"},
                                    next : 1 .. NChunks + 1]
                 /\ writer[v].id # i => writer'[v] = writer[v]
      <3>1. writer'[v] = Relinked(writer[v], i)
        BY <1>5, <2>2 DEF Rename
      <3>2. QED
        BY <3>1 DEF Relinked, StoreTypeOK
    <2>3. StoreTypeOK'
      <3>1. writer' \in [Writer -> [pc   : {"idle", "create", "fill", "rename"},
                                    id   : Id,
                                    loc  : {"none", "tmp", "final", "unlinked"},
                                    next : 1 .. NChunks + 1]]
        <4>1. writer' = [v \in Writer |-> writer'[v]]
          BY <1>5 DEF Rename
        <4>2. writer'[w] \in [pc   : {"idle", "create", "fill", "rename"},
                              id   : Id,
                              loc  : {"none", "tmp", "final", "unlinked"},
                              next : 1 .. NChunks + 1]
          BY <2>0, <2>1 DEF IdleWriter, WriterAt
        <4>3. QED
          BY <4>1, <4>2, <2>2
      <3>2. QED
        BY <2>0, <3>1 DEF StoreTypeOK
    <2>4. ASSUME NEW v \in Writer
          PROVE  WriterOK(v)'
      <3>1. CASE v = w
        BY <3>1, <2>1 DEF WriterOK, LoneWriter, IdleWriter, WriterAt
      <3>2. CASE v # w /\ writer[v].id # i
        <4>1. writer'[v] = writer[v] /\ writer[v].id \in Id
          BY <3>2, <2>2 DEF StoreTypeOK
        <4>2. QED
          BY <3>2, <4>1, <2>0 DEF StoreTypeOK, WriterInv, WriterOK, LoneWriter
      <3>3. CASE v # w /\ writer[v].id = i
        <4>1. writer[v].pc = "idle" \/ i \in raced
          BY <3>3, <2>0 DEF AloneInv, Writing
        <4>2. writer'[v].loc # "tmp" /\ final'[i] # NoFile
          BY <3>3, <1>5, <2>0 DEF Rename, Relinked, StoreTypeOK
        <4>3. QED
          BY <3>3, <4>1, <4>2, <2>0, <2>2 DEF WriterInv, WriterOK, LoneWriter
      <3>4. QED
        BY <3>1, <3>2, <3>3
    <2>5. AloneInv'
      <3>1. writer'[w].pc = "idle"
        BY <2>1 DEF IdleWriter, WriterAt
      <3>2. QED
        BY <2>0, <2>2, <3>1 DEF AloneInv, Writing
    <2>6. LoneWritesWhole' /\ (acked \ raced \subseteq IterIds)'
      <3>1. i \notin raced => tmp[i] = Whole
        BY <2>0 DEF WriterInv, WriterOK, LoneWriter
      <3>2. QED
        BY <2>0, <3>1 DEF StoreTypeOK, LoneWritesWhole, IterIds, Readable
    <2>7. QED
      BY <2>3, <2>4, <2>5, <2>6 DEF WriterInv
  <1>6. ASSUME NEW w \in Writer, RenameFails(w)
        PROVE  StoreInv'
    BY <1>6, GivesUp DEF RenameFails, StoreTypeOK
  <1>7. ASSUME NEW w \in Writer, Crash(w)
        PROVE  StoreInv'
    <2>1. crashes' \in 0 .. MaxCrashes
      BY <1>7 DEF Crash, StoreTypeOK
    <2>2. QED
      BY <1>7, <2>1, GivesUp DEF Crash
  <1>8. CASE UNCHANGED storeVars
    BY <1>8 DEF storeVars, StoreTypeOK, WriterInv, WriterOK, LoneWriter, AloneInv, Writing,
                LoneWritesWhole, IterIds, Readable
  <1>9. QED
    BY <1>1, <1>2, <1>3, <1>4, <1>5, <1>6, <1>7, <1>8 DEF StoreNext

(* Whatever the processes that write, at every moment and after any crash, *)
(* every object the directory lists and every object a write acknowledged  *)
(* can be read, but for those two processes wrote at once (store.rs:4-5).  *)
THEOREM LoneWritesAreAtomic == StoreSpec => [](StoreTypeOK /\ LoneWritesWhole /\ AckedReadable)
  <1> USE NChunksAssumption, MaxCrashesAssumption
  <1>1. StoreInit => StoreInv
    BY InitStoreInv
  <1>2. StoreInv /\ [StoreNext]_storeVars => StoreInv'
    BY StepStoreInv
  <1>3. StoreInv => StoreTypeOK /\ LoneWritesWhole /\ AckedReadable
    BY DEF StoreInv, LoneWritesWhole, AckedReadable, IterIds
  <1>4. QED
    BY <1>1, <1>2, <1>3, PTL DEF StoreSpec

(* The files of the objects no two processes wrote at once implement        *)
(* ContentStore.                                                           *)
THEOREM StoreImplements == StoreSpec => ImplementsContentStore
  <1> USE NChunksAssumption, MaxCrashesAssumption
  <1> DEFINE view == [i \in Id |-> IF final[i] = NoFile \/ i \in raced THEN "absent"
                                   ELSE IF Readable(i) THEN "present" ELSE "corrupt"]
  <1>1. StoreInit => Promise!Init
    BY DEF StoreInit, Promise!Init, Promise!Absent
  <1>2. StoreInv /\ StoreInv' /\ [StoreNext]_storeVars => [Promise!Next]_view
    <2> SUFFICES ASSUME StoreInv, StoreInv', [StoreNext]_storeVars
                 PROVE  Promise!Next \/ view' = view
      OBVIOUS
    <2>1. ASSUME NEW w \in Writer, Rename(w)
          PROVE  Promise!Next \/ view' = view
      <3> DEFINE i == writer[w].id
      <3>1. /\ i \in Id /\ raced' = raced
            /\ final' = [final EXCEPT ![i] = tmp[i]]
            /\ i \notin raced => final[i] = NoFile /\ tmp[i] = Whole
        BY <2>1 DEF Rename, StoreInv, StoreTypeOK, WriterInv, WriterOK, LoneWriter
      <3>2. CASE i \in raced
        BY <3>1, <3>2 DEF StoreInv, StoreTypeOK, Readable
      <3>3. CASE i \notin raced
        <4>1. Whole # NoFile
          BY DEF Whole, NoFile, Chunk
        <4>2. view' = [view EXCEPT ![i] = "present"]
          BY <3>1, <3>3, <4>1 DEF StoreInv, StoreTypeOK, Readable
        <4>3. QED
          BY <3>1, <3>3, <4>2 DEF Promise!Next, Promise!Put, Promise!Absent, Promise!Present
      <3>4. QED
        BY <3>2, <3>3
    <2>2. ASSUME NEW w \in Writer, Fill(w)
          PROVE  view' = view
      <3>1. raced' = raced
            /\ \A i \in Id \ raced : final'[i] = final[i]
        <4>1. /\ writer[w].pc = "fill" /\ writer[w].id \in Id /\ final \in [Id -> File \cup {NoFile}]
              /\ writer[w].id \notin raced => writer[w].loc = "tmp"
          BY <2>2 DEF Fill, StoreInv, StoreTypeOK, WriterInv, WriterOK, LoneWriter
        <4>2. QED
          BY <2>2, <4>1 DEF Fill
      <3>2. QED
        BY <3>1 DEF Readable
    <2>3. ASSUME NEW w \in Writer, NEW i \in Id, Begin(w, i)
          PROVE  view' = view
      BY <2>3 DEF Begin, Readable
    <2>4. ASSUME final' = final, raced' = raced
          PROVE  view' = view
      BY <2>4 DEF Readable
    <2>5. QED
      BY <2>1, <2>2, <2>3, <2>4 DEF StoreNext, SkipPresent, Create, RenameFails, Crash, storeVars
  <1>3. StoreInit => StoreInv
    BY InitStoreInv
  <1>4. StoreInv /\ [StoreNext]_storeVars => StoreInv'
    BY StepStoreInv
  <1>5. QED
    BY <1>1, <1>2, <1>3, <1>4, PTL DEF StoreSpec, ImplementsContentStore, Promise!Spec

-----------------------------------------------------------------------------
(* The Git bridge.                                                         *)
LEMMA NatMin ==
  ASSUME NEW T \in SUBSET Nat, T # {}
  PROVE  \E m \in T : \A k \in T : m <= k
  <1> DEFINE R == OpToRel(<, Nat)
  <1>1. PICK m \in T : \A k \in T : <<k, m>> \notin R
    <2>1. IsWellFoundedOn(R, Nat)   BY NatLessThanWellFounded
    <2> HIDE DEF R
    <2>2. QED                       BY <2>1, WFMin
  <1>2. ASSUME NEW k \in T, k < m PROVE FALSE
    <2>1. <<k, m>> \in R            BY <1>2 DEF OpToRel
    <2>2. QED                       BY <2>1, <1>1
  <1>3. QED                         BY <1>2

LEMMA LeastFails ==
  ASSUME NEW T, \A n \in Nat : (\A k \in 0 .. n - 1 : k \in T) => n \in T
  PROVE  \A n \in Nat : n \in T
  <1> SUFFICES ASSUME Nat \ T # {} PROVE FALSE
    OBVIOUS
  <1>1. PICK m \in Nat \ T : \A k \in Nat \ T : m <= k
    BY NatMin
  <1>2. \A k \in 0 .. m - 1 : k \in T
    BY <1>1
  <1> QED BY <1>1, <1>2

-----------------------------------------------------------------------------
(* Reach, level by level.                                                  *)
Onward(S, edge) == S \cup UNION {edge[x] : x \in S \cap DOMAIN edge}

Levels(back, S, edge, n) ==
  back = [k \in 0 .. n |->
            IF k = 0 THEN S ELSE back[k - 1] \cup UNION {edge[x] : x \in back[k - 1] \cap DOMAIN edge}]

LEMMA LevelsGrow ==
  ASSUME NEW S, NEW edge, NEW n \in Nat, NEW f, Levels(f, S, edge, n)
  PROVE  \E g : Levels(g, S, edge, n + 1)
  <1> DEFINE g == [k \in 0 .. n + 1 |-> IF k = n + 1 THEN Onward(f[n], edge) ELSE f[k]]
  <1>1. \A k \in 0 .. n : f[k] = IF k = 0 THEN S ELSE Onward(f[k - 1], edge)
    BY DEF Levels, Onward
  <1>2. \A k \in 0 .. n + 1 : g[k] = IF k = n + 1 THEN Onward(f[n], edge) ELSE f[k]
    OBVIOUS
  <1>3. g = [k \in 0 .. n + 1 |-> g[k]]
    OBVIOUS
  <1> HIDE DEF g
  <1>4. \A k \in 0 .. n + 1 : g[k] = IF k = 0 THEN S ELSE Onward(g[k - 1], edge)
    <2> TAKE k \in 0 .. n + 1
    <2>1. CASE k = 0
      BY <1>1, <1>2, <2>1
    <2>2. CASE k = n + 1
      <3>1. n \in 0 .. n + 1 /\ n # n + 1 /\ (n + 1) - 1 = n /\ n + 1 # 0
        OBVIOUS
      <3> QED BY <1>2, <2>2, <3>1
    <2>3. CASE k # 0 /\ k # n + 1
      <3>1. k \in 0 .. n /\ k - 1 \in 0 .. n + 1 /\ k - 1 # n + 1
        BY <2>3
      <3> QED BY <1>1, <1>2, <2>3, <3>1
    <2> QED BY <2>1, <2>2, <2>3
  <1>5. Levels(g, S, edge, n + 1)
    BY <1>3, <1>4 DEF Levels, Onward
  <1> QED BY <1>5

LEMMA LevelsExist ==
  ASSUME NEW S, NEW edge, NEW n \in Nat
  PROVE  \E f : Levels(f, S, edge, n)
  <1> DEFINE T == {m \in Nat : \E f : Levels(f, S, edge, m)}
  <1>1. 0 \in T
    <2> DEFINE f == [k \in 0 .. 0 |-> S]
    <2>1. Levels(f, S, edge, 0)
      BY DEF Levels
    <2> QED BY <2>1
  <1>2. ASSUME NEW m \in Nat, \A k \in 0 .. m - 1 : k \in T PROVE m \in T
    <2> SUFFICES ASSUME m # 0 PROVE \E f : Levels(f, S, edge, m)
      BY <1>1
    <2>1. m - 1 \in T /\ m - 1 \in Nat /\ (m - 1) + 1 = m
      BY <1>2
    <2>2. PICK f : Levels(f, S, edge, m - 1)
      BY <2>1
    <2>3. \E g : Levels(g, S, edge, (m - 1) + 1)
      BY <2>1, <2>2, LevelsGrow
    <2> QED BY <2>1, <2>3
  <1> HIDE DEF T
  <1>3. n \in T
    BY <1>2, LeastFails
  <1> QED BY <1>3 DEF T

LEMMA ReachLevels ==
  ASSUME NEW S, NEW edge, IsFiniteSet(DOMAIN edge)
  PROVE  \E f : /\ Reach(S, edge) = f[Cardinality(DOMAIN edge)] /\ f[0] = S
                /\ \A k \in 1 .. Cardinality(DOMAIN edge) : f[k] = Onward(f[k - 1], edge)
  <1> DEFINE n == Cardinality(DOMAIN edge)
             f == CHOOSE f : Levels(f, S, edge, n)
  <1>1. n \in Nat
    BY FS_CardinalityType
  <1>2. Reach(S, edge) = f[n]
    BY DEF Reach, Levels
  <1>3. Levels(f, S, edge, n)
    BY <1>1, LevelsExist
  <1> HIDE DEF f, n
  <1>4. \A k \in 0 .. n : f[k] = IF k = 0 THEN S ELSE Onward(f[k - 1], edge)
    BY <1>3 DEF Levels, Onward
  <1>5. f[0] = S /\ \A k \in 1 .. n : f[k] = Onward(f[k - 1], edge)
    BY <1>1, <1>4
  <1> QED BY <1>2, <1>5 DEF n

(* What is reached stays within every set that no edge leaves.             *)
LEMMA ReachWithin ==
  ASSUME NEW S, NEW edge, IsFiniteSet(DOMAIN edge), NEW T, S \subseteq T,
         \A x \in T \cap DOMAIN edge : edge[x] \subseteq T
  PROVE  S \subseteq Reach(S, edge) /\ Reach(S, edge) \subseteq T
  <1> DEFINE n == Cardinality(DOMAIN edge)
  <1>1. PICK f : /\ Reach(S, edge) = f[n] /\ f[0] = S
                 /\ \A k \in 1 .. n : f[k] = Onward(f[k - 1], edge)
    BY ReachLevels
  <1>2. n \in Nat
    BY FS_CardinalityType
  <1> HIDE DEF n
  <1> DEFINE U == {k \in Nat : k <= n => S \subseteq f[k] /\ f[k] \subseteq T}
  <1>3. ASSUME NEW m \in Nat, \A k \in 0 .. m - 1 : k \in U PROVE m \in U
    <2>1. CASE m = 0
      BY <1>1, <2>1
    <2>2. CASE m # 0 /\ m <= n
      <3>1. m - 1 \in U /\ m - 1 <= n /\ m \in 1 .. n
        BY <1>2, <1>3, <2>2
      <3>2. S \subseteq f[m - 1] /\ f[m - 1] \subseteq T /\ f[m] = Onward(f[m - 1], edge)
        BY <1>1, <3>1
      <3> QED BY <3>2 DEF Onward
    <2> QED BY <1>2, <2>1, <2>2
  <1> HIDE DEF U
  <1>4. n \in U
    BY <1>2, <1>3, LeastFails
  <1> QED BY <1>1, <1>2, <1>4 DEF U

(* A search as long as the store is large finds everything there is: a     *)
(* level that is not the last adds an element.                             *)
LEMMA ReachClosed ==
  ASSUME NEW S, NEW edge, IsFiniteSet(DOMAIN edge), S \subseteq DOMAIN edge,
         \A x \in DOMAIN edge : edge[x] \subseteq DOMAIN edge
  PROVE  \A x \in Reach(S, edge) : edge[x] \subseteq Reach(S, edge)
  <1> DEFINE D == DOMAIN edge
             n == Cardinality(D)
  <1>1. PICK f : /\ Reach(S, edge) = f[n] /\ f[0] = S
                 /\ \A k \in 1 .. n : f[k] = Onward(f[k - 1], edge)
    BY ReachLevels
  <1>2. n \in Nat
    BY FS_CardinalityType
  <1>d. IsFiniteSet(D) /\ S \subseteq D /\ \A x \in D : edge[x] \subseteq D
    OBVIOUS
  <1>n. n = Cardinality(D)
    OBVIOUS
  <1>o. \A R : R \subseteq D => Onward(R, edge) = R \cup UNION {edge[x] : x \in R}
    BY DEF Onward
  <1> HIDE DEF n, D
  <1> DEFINE Shut(R) == \A x \in R : edge[x] \subseteq R
             U == {k \in Nat : k <= n => f[k] \subseteq D /\ (Shut(f[k]) \/ Cardinality(f[k]) >= k)}
  <1>3. ASSUME NEW m \in Nat, \A k \in 0 .. m - 1 : k \in U PROVE m \in U
    <2>1. CASE m = 0
      <3>1. f[0] \subseteq D /\ IsFiniteSet(f[0])
        BY <1>1, <1>d, FS_Subset
      <3>2. Cardinality(f[0]) \in Nat
        BY <3>1, FS_CardinalityType
      <3> QED BY <2>1, <3>1, <3>2
    <2>2. CASE m # 0 /\ m <= n
      <3> DEFINE R == f[m - 1]
      <3>1. m - 1 \in U /\ m - 1 <= n /\ m \in 1 .. n
        BY <1>2, <1>3, <2>2
      <3>2. R \subseteq D /\ (Shut(R) \/ Cardinality(R) >= m - 1) /\ f[m] = Onward(R, edge)
        BY <1>1, <3>1
      <3> HIDE DEF R
      <3>3. f[m] = R \cup UNION {edge[x] : x \in R} /\ f[m] \subseteq D /\ R \subseteq f[m]
        BY <1>d, <1>o, <3>2
      <3>4. CASE Shut(R)
        <4>1. f[m] = R
          BY <3>3, <3>4
        <4> QED BY <3>3, <3>4, <4>1
      <3>5. CASE ~Shut(R)
        <4>1. PICK x \in R : ~(edge[x] \subseteq R)
          BY <3>5
        <4>2. PICK y \in edge[x] : y \notin R
          BY <4>1
        <4>3. y \in f[m] /\ R \cup {y} \subseteq f[m]
          BY <3>3, <4>2
        <4>4. IsFiniteSet(f[m]) /\ IsFiniteSet(R)
          BY <1>d, <3>2, <3>3, FS_Subset
        <4>5. Cardinality(R \cup {y}) = Cardinality(R) + 1 /\ IsFiniteSet(R \cup {y})
          BY <4>2, <4>4, FS_AddElement
        <4>6. Cardinality(R \cup {y}) <= Cardinality(f[m])
          BY <4>3, <4>4, FS_Subset
        <4>7. Cardinality(R) \in Nat /\ Cardinality(f[m]) \in Nat
          BY <4>4, FS_CardinalityType
        <4>8. Cardinality(R) >= m - 1
          BY <3>2, <3>5
        <4>9. Cardinality(f[m]) >= m
          BY <4>5, <4>6, <4>7, <4>8
        <4> QED BY <3>3, <4>9
      <3> QED BY <3>4, <3>5
    <2> QED BY <1>2, <2>1, <2>2
  <1> HIDE DEF U
  <1>4. n \in U
    BY <1>2, <1>3, LeastFails
  <1>5. f[n] \subseteq D /\ (Shut(f[n]) \/ Cardinality(f[n]) >= n)
    BY <1>2, <1>4 DEF U
  <1>6. CASE Cardinality(f[n]) >= n
    <2>1. Cardinality(f[n]) <= n /\ (Cardinality(D) = Cardinality(f[n]) => D = f[n])
      BY <1>d, <1>5, <1>n, FS_Subset
    <2>2. Cardinality(f[n]) \in Nat
      BY <1>d, <1>5, FS_Subset, FS_CardinalityType
    <2>3. D = f[n]
      BY <1>2, <1>6, <1>n, <2>1, <2>2
    <2> QED BY <1>1, <1>d, <2>3
  <1> QED BY <1>1, <1>5, <1>6

-----------------------------------------------------------------------------
(* Counterparts, parent by parent.                                         *)
HasPartner(pairs, y) == \E r \in pairs : r[1] = y
Partner(pairs, y) == (CHOOSE r \in pairs : r[1] = y)[2]

LEMMA PartnerOf ==
  ASSUME NEW pairs, NEW y, HasPartner(pairs, y)
  PROVE  \E r \in pairs : r[1] = y /\ Partner(pairs, y) = r[2]
  BY DEF HasPartner, Partner

Longer(s, pairs, y) == IF HasPartner(pairs, y) THEN Append(s, Partner(pairs, y)) ELSE s

Traces(f, parents, pairs, n) ==
  f = [i \in 0 .. n |->
        IF i = 0 THEN <<>>
        ELSE IF \E r \in pairs : r[1] = parents[i]
             THEN Append(f[i - 1], (CHOOSE r \in pairs : r[1] = parents[i])[2])
             ELSE f[i - 1]]

LEMMA TracesGrow ==
  ASSUME NEW parents, NEW pairs, NEW n \in Nat, NEW f, Traces(f, parents, pairs, n)
  PROVE  \E g : Traces(g, parents, pairs, n + 1)
  <1> DEFINE g == [i \in 0 .. n + 1 |-> IF i = n + 1 THEN Longer(f[n], pairs, parents[i]) ELSE f[i]]
  <1>1. \A i \in 0 .. n : f[i] = IF i = 0 THEN <<>> ELSE Longer(f[i - 1], pairs, parents[i])
    BY DEF Traces, Longer, HasPartner, Partner
  <1>2. \A i \in 0 .. n + 1 : g[i] = IF i = n + 1 THEN Longer(f[n], pairs, parents[i]) ELSE f[i]
    OBVIOUS
  <1>3. g = [i \in 0 .. n + 1 |-> g[i]]
    OBVIOUS
  <1> HIDE DEF g
  <1>4. \A i \in 0 .. n + 1 : g[i] = IF i = 0 THEN <<>> ELSE Longer(g[i - 1], pairs, parents[i])
    <2> TAKE i \in 0 .. n + 1
    <2>1. CASE i = 0
      BY <1>1, <1>2, <2>1
    <2>2. CASE i = n + 1
      <3>1. n \in 0 .. n + 1 /\ n # n + 1 /\ (n + 1) - 1 = n /\ n + 1 # 0
        OBVIOUS
      <3> QED BY <1>2, <2>2, <3>1
    <2>3. CASE i # 0 /\ i # n + 1
      <3>1. i \in 0 .. n /\ i - 1 \in 0 .. n + 1 /\ i - 1 # n + 1
        BY <2>3
      <3> QED BY <1>1, <1>2, <2>3, <3>1
    <2> QED BY <2>1, <2>2, <2>3
  <1>5. Traces(g, parents, pairs, n + 1)
    BY <1>3, <1>4 DEF Traces, Longer, HasPartner, Partner
  <1> QED BY <1>5

LEMMA TracesExist ==
  ASSUME NEW parents, NEW pairs, NEW n \in Nat
  PROVE  \E f : Traces(f, parents, pairs, n)
  <1> DEFINE T == {m \in Nat : \E f : Traces(f, parents, pairs, m)}
  <1>1. 0 \in T
    <2> DEFINE f == [i \in 0 .. 0 |-> <<>>]
    <2>1. Traces(f, parents, pairs, 0)
      BY DEF Traces
    <2> QED BY <2>1
  <1>2. ASSUME NEW m \in Nat, \A k \in 0 .. m - 1 : k \in T PROVE m \in T
    <2> SUFFICES ASSUME m # 0 PROVE \E f : Traces(f, parents, pairs, m)
      BY <1>1
    <2>1. m - 1 \in T /\ m - 1 \in Nat /\ (m - 1) + 1 = m
      BY <1>2
    <2>2. PICK f : Traces(f, parents, pairs, m - 1)
      BY <2>1
    <2>3. \E g : Traces(g, parents, pairs, (m - 1) + 1)
      BY <2>1, <2>2, TracesGrow
    <2> QED BY <2>1, <2>3
  <1> HIDE DEF T
  <1>3. n \in T
    BY <1>2, LeastFails
  <1> QED BY <1>3 DEF T

(* The parents that have a partner, as partners; all of them, if all have. *)
LEMMA CounterpartsAre ==
  ASSUME NEW S, NEW T, NEW parents \in Seq(S), NEW pairs, \A r \in pairs : r[2] \in T
  PROVE  /\ Counterparts(parents, pairs) \in Seq(T) /\ Len(Counterparts(parents, pairs)) <= Len(parents)
         /\ (\A i \in DOMAIN parents : HasPartner(pairs, parents[i])) =>
              /\ Len(Counterparts(parents, pairs)) = Len(parents)
              /\ \A i \in DOMAIN parents : Counterparts(parents, pairs)[i] = Partner(pairs, parents[i])
  <1> DEFINE n == Len(parents)
             f == CHOOSE f : Traces(f, parents, pairs, n)
             All == \A i \in DOMAIN parents : HasPartner(pairs, parents[i])
  <1>1. n \in Nat /\ DOMAIN parents = 1 .. n
    OBVIOUS
  <1>2. Counterparts(parents, pairs) = f[n]
    BY DEF Counterparts, Traces
  <1>3. Traces(f, parents, pairs, n)
    BY <1>1, TracesExist
  <1> HIDE DEF f, n
  <1>4. \A i \in 0 .. n : f[i] = IF i = 0 THEN <<>> ELSE Longer(f[i - 1], pairs, parents[i])
    BY <1>3 DEF Traces, Longer, HasPartner, Partner
  <1>a. All => \A i \in 1 .. n : HasPartner(pairs, parents[i])
    BY <1>1
  <1> HIDE DEF All
  <1> DEFINE Good(s, k) == s \in Seq(T) /\ Len(s) <= k /\ (All => Len(s) = k /\ \A i \in 1 .. k : s[i] = Partner(pairs, parents[i]))
             U == {k \in Nat : k <= n => Good(f[k], k)}
  <1>5. ASSUME NEW m \in Nat, \A k \in 0 .. m - 1 : k \in U PROVE m \in U
    <2>1. CASE m = 0
      <3>1. f[0] = <<>>
        BY <1>1, <1>4
      <3>2. Good(<<>>, 0)
        OBVIOUS
      <3> QED BY <2>1, <3>1, <3>2
    <2>2. CASE m # 0 /\ m <= n
      <3>1. m - 1 \in U /\ m - 1 <= n /\ m \in 1 .. n /\ m \in 0 .. n
        BY <1>1, <1>5, <2>2
      <3> DEFINE s == f[m - 1]
      <3>2. Good(s, m - 1)
        BY <3>1
      <3>3. f[m] = Longer(s, pairs, parents[m])
        BY <1>4, <2>2, <3>1
      <3>4. s \in Seq(T) /\ Len(s) <= m - 1 /\ (All => Len(s) = m - 1) /\ (All => \A i \in 1 .. m - 1 : s[i] = Partner(pairs, parents[i]))
        BY <3>2
      <3> HIDE DEF s
      <3>5. CASE HasPartner(pairs, parents[m])
        <4>1. Partner(pairs, parents[m]) \in T
          BY <3>5, PartnerOf
        <4>2. f[m] = Append(s, Partner(pairs, parents[m]))
          BY <3>3, <3>5 DEF Longer
        <4> DEFINE z == Partner(pairs, parents[m])
                   t == Append(s, z)
        <4> HIDE DEF z
        <4>3. t \in Seq(T) /\ Len(t) = Len(s) + 1 /\ t[Len(s) + 1] = z /\ \A i \in 1 .. Len(s) : t[i] = s[i]
          BY <3>4, <4>1 DEF z
        <4>t. f[m] = t
          BY <4>2 DEF z
        <4> HIDE DEF t
        <4>4. ASSUME All, NEW i \in 1 .. m PROVE t[i] = Partner(pairs, parents[i])
          <5>0. Len(s) = m - 1 /\ \A j \in 1 .. m - 1 : s[j] = Partner(pairs, parents[j])
            BY <3>4, <4>4
          <5>1. CASE i = m
            BY <5>0, <4>3, <5>1 DEF z
          <5>2. CASE i # m
            <6>1. i \in 1 .. m - 1
              BY <5>2
            <6> QED BY <5>0, <4>3, <6>1
          <5> QED BY <5>1, <5>2
        <4>5. Len(t) <= m /\ (All => Len(t) = m)
          BY <3>4, <4>3
        <4> QED BY <4>3, <4>4, <4>5, <4>t
      <3>6. CASE ~HasPartner(pairs, parents[m])
        <4>1. ~All /\ f[m] = s
          BY <1>a, <3>1, <3>3, <3>6 DEF Longer
        <4> QED BY <3>4, <4>1
      <3> QED BY <3>5, <3>6
    <2> QED BY <1>1, <2>1, <2>2
  <1> HIDE DEF U
  <1>6. n \in U
    BY <1>1, <1>5, LeastFails
  <1>7. Good(f[n], n)
    BY <1>1, <1>6 DEF U
  <1> QED BY <1>1, <1>2, <1>7 DEF All, n

LEMMA CounterpartOfOne ==
  ASSUME NEW T, NEW y, NEW pairs, \A r \in pairs : r[2] \in T
  PROVE  /\ Counterparts(<<>>, pairs) = <<>>
         /\ HasPartner(pairs, y) => Counterparts(<<y>>, pairs) = <<Partner(pairs, y)>>
  <1>1. Counterparts(<<>>, pairs) = <<>>
    <2>1. <<>> \in Seq({y}) /\ Len(<<>>) = 0
      OBVIOUS
    <2>2. Counterparts(<<>>, pairs) \in Seq(T) /\ Len(Counterparts(<<>>, pairs)) <= 0
      BY <2>1, CounterpartsAre
    <2> QED BY <2>2
  <1>2. ASSUME HasPartner(pairs, y) PROVE Counterparts(<<y>>, pairs) = <<Partner(pairs, y)>>
    <2> DEFINE s == <<y>>
    <2>1. s \in Seq({y}) /\ DOMAIN s = {1} /\ s[1] = y /\ Len(s) = 1
      OBVIOUS
    <2> HIDE DEF s
    <2>2. \A i \in DOMAIN s : HasPartner(pairs, s[i])
      BY <1>2, <2>1
    <2>3. /\ Counterparts(s, pairs) \in Seq(T) /\ Len(Counterparts(s, pairs)) = 1
          /\ Counterparts(s, pairs)[1] = Partner(pairs, y)
      BY <2>1, <2>2, CounterpartsAre
    <2>4. Counterparts(s, pairs) = <<Partner(pairs, y)>>
      BY <2>3
    <2> QED BY <2>4 DEF s
  <1> QED BY <1>1, <1>2

-----------------------------------------------------------------------------
(* Everything descended from lies in a store that holds parents, and is    *)
(* all there.                                                              *)
Shut(store) == IsFiniteSet(store) /\ \A c \in store : c.parents \in Seq(store)

LEMMA AncestorsWithin ==
  ASSUME NEW store, Shut(store), NEW S, NEW T, S \subseteq T,
         \A c \in T \cap store : \A i \in DOMAIN c.parents : c.parents[i] \in T
  PROVE  S \subseteq Ancestors(S, store) /\ Ancestors(S, store) \subseteq T
  <1> DEFINE edge == [x \in store |-> ToSet(x.parents)]
  <1>1. DOMAIN edge = store /\ \A x \in store : edge[x] = ToSet(x.parents)
    OBVIOUS
  <1>2. Ancestors(S, store) = Reach(S, edge)
    BY DEF Ancestors
  <1> HIDE DEF edge
  <1>3. \A x \in T \cap DOMAIN edge : edge[x] \subseteq T
    BY <1>1 DEF ToSet
  <1>4. IsFiniteSet(DOMAIN edge)
    BY <1>1 DEF Shut
  <1> QED BY <1>2, <1>3, <1>4, ReachWithin

LEMMA AncestorsShut ==
  ASSUME NEW store, Shut(store), NEW S, S \subseteq store
  PROVE  /\ S \subseteq Ancestors(S, store) /\ Ancestors(S, store) \subseteq store
         /\ \A c \in Ancestors(S, store) : \A i \in DOMAIN c.parents : c.parents[i] \in Ancestors(S, store)
  <1> DEFINE edge == [x \in store |-> ToSet(x.parents)]
  <1>1. DOMAIN edge = store /\ \A x \in store : edge[x] = ToSet(x.parents)
    OBVIOUS
  <1>2. Ancestors(S, store) = Reach(S, edge)
    BY DEF Ancestors
  <1> HIDE DEF edge
  <1>3. \A c \in store : \A i \in DOMAIN c.parents : c.parents[i] \in store
    BY DEF Shut
  <1>4. S \subseteq Ancestors(S, store) /\ Ancestors(S, store) \subseteq store
    BY <1>3, AncestorsWithin
  <1>5. IsFiniteSet(DOMAIN edge) /\ \A x \in DOMAIN edge : edge[x] \subseteq DOMAIN edge
    BY <1>1, <1>3 DEF Shut, ToSet
  <1>6. \A x \in Reach(S, edge) : edge[x] \subseteq Reach(S, edge)
    BY <1>1, <1>5, ReachClosed
  <1>7. \A c \in Ancestors(S, store) : ToSet(c.parents) \subseteq Ancestors(S, store)
    BY <1>1, <1>2, <1>4, <1>6
  <1> QED BY <1>4, <1>7 DEF ToSet

LEMMA FirstParentsShut ==
  ASSUME Shut(objects), NEW x \in objects, NEW T, x \in T,
         \A y \in T \cap objects : y.parents # <<>> => y.parents[1] \in T
  PROVE  /\ x \in FirstParents(x) /\ FirstParents(x) \subseteq T
         /\ \A y \in FirstParents(x) : y.parents # <<>> => y.parents[1] \in FirstParents(x)
  <1> DEFINE edge == [y \in objects |-> {y.parents[i] : i \in {1} \cap DOMAIN y.parents}]
  <1>1. DOMAIN edge = objects /\ \A y \in objects : edge[y] = {y.parents[i] : i \in {1} \cap DOMAIN y.parents}
    OBVIOUS
  <1>2. FirstParents(x) = Reach({x}, edge)
    BY DEF FirstParents
  <1> HIDE DEF edge
  <1>3. ASSUME NEW y \in objects
        PROVE  /\ y.parents = <<>> => edge[y] = {}
               /\ y.parents # <<>> => edge[y] = {y.parents[1]} /\ y.parents[1] \in objects
    <2>1. y.parents \in Seq(objects)
      BY DEF Shut
    <2>2. CASE y.parents = <<>>
      BY <1>1, <2>2
    <2>3. CASE y.parents # <<>>
      <3>1. 1 \in DOMAIN y.parents /\ y.parents[1] \in objects
        BY <2>1, <2>3
      <3> QED BY <1>1, <2>3, <3>1
    <2> QED BY <2>2, <2>3
  <1>4. IsFiniteSet(DOMAIN edge)
    BY <1>1 DEF Shut
  <1>5. \A y \in T \cap DOMAIN edge : edge[y] \subseteq T
    BY <1>1, <1>3
  <1>6. \A y \in DOMAIN edge : edge[y] \subseteq DOMAIN edge
    BY <1>1, <1>3
  <1>7. {x} \subseteq Reach({x}, edge) /\ Reach({x}, edge) \subseteq T
    BY <1>4, <1>5, ReachWithin
  <1>8. Reach({x}, edge) \subseteq objects
    BY <1>1, <1>4, <1>6, ReachWithin
  <1>9. \A y \in Reach({x}, edge) : edge[y] \subseteq Reach({x}, edge)
    BY <1>1, <1>4, <1>6, ReachClosed
  <1> QED BY <1>2, <1>3, <1>7, <1>8, <1>9

(* A changeset is noted: it comes from no commit, or from the one it is    *)
(* linked to.  All that branches and other changesets name are.            *)
Noted(x) == x \in objects /\ (x.git = {} \/ \E c : x.git = {c} /\ <<c, x>> \in cmap)

(* What is true of every changeset that was promoted, and of every one     *)
(* that was imported, linked or not.                                       *)
Native(x) ==
  /\ x.git = {} /\ x \in promoted
  /\ x.parents = <<>> \/ \E y \in objects : x.parents = <<y>>
  /\ \A n \in DOMAIN x.tree : x.tree[n] = [kind |-> "file", mode |-> "100644"]

ImportOf(c, x) ==
  /\ x.git = {c} /\ x.msg = c.msg /\ x.tree = ConvertTree(c.tree)
  /\ Len(x.parents) = Len(c.parents)
  /\ \A i \in DOMAIN c.parents : <<c.parents[i], x.parents[i]>> \in cmap

IsChangeset(x) ==
  /\ x = [msg |-> x.msg, tree |-> x.tree, git |-> x.git, parents |-> x.parents]
  /\ x.tree = [n \in DOMAIN x.tree |-> x.tree[n]]
  /\ x.parents \in Seq(objects) /\ \A i \in DOMAIN x.parents : Noted(x.parents[i])
  /\ Native(x) \/ \E g \in Repo : \E c \in commits[g] : ImportOf(c, x)

IsCommit(c, g) == c.parents \in Seq(commits[g]) /\ TreeOK(c.tree)

(* The repositories, the object store and the branches.                    *)
GitOK ==
  /\ DOMAIN commits = Repo /\ DOMAIN gitRefs = Repo
  /\ \A g \in Repo :
       /\ IsFiniteSet(commits[g])
       /\ \A c \in commits[g] : IsCommit(c, g)
       /\ \A b \in DOMAIN gitRefs[g] : gitRefs[g][b] \in commits[g]

GppOK ==
  /\ IsFiniteSet(objects)
  /\ \A x \in objects : IsChangeset(x)
  /\ \A b \in DOMAIN refs : Noted(refs[b])
  /\ \A n \in DOMAIN wd : wd[n] \in {"file", "link"}

(* The map: one to one, and true.                                          *)
MapOK ==
  /\ \A l \in cmap : l = <<l[1], l[2]>> /\ Noted(l[2]) /\ \E g \in Repo : l[1] \in commits[g]
  /\ \A k, l \in cmap : k[1] = l[1] \/ k[2] = l[2] => k = l
  /\ LinkFaithful

(* What a bridge holds at each label.                                      *)
WalkOK(left, g, C) ==
  /\ left \subseteq commits[g]
  /\ \A d \in left : \A i \in DOMAIN d.parents :
        d.parents[i] \in left \cup C \/ Linked(d.parents[i])

ReplayOK(m, C) ==
  /\ \A b \in DOMAIN m.rest : Noted(m.rest[b])
  /\ \A x \in m.left : Noted(x) /\ (x.parents # <<>> => x.parents[1] \in m.left \/ Resolved(m, x.parents[1]))
  /\ \A r \in m.resolved : r = <<r[1], r[2]>> /\ r[2] \in C /\ r[2].msg = r[1].msg
  /\ m.tip \in m.left \/ Resolved(m, m.tip)

Replayed(c, x) ==
  /\ c.msg = x.msg /\ c.tree = BuildGitTree(x.tree)
  /\ x.git = {} /\ x.parents # <<>> => c.parents # <<>> /\ c.parents[1].msg = x.parents[1].msg

BridgeOK(p) ==
  LET m == proc[p].mem
      g == proc[p].g
  IN  /\ ~At(p, "idle") => g \in used /\ g \in Repo
      /\ At(p, "commit") => m = [left |-> m.left] /\ WalkOK(m.left, g, {})
      /\ At(p, "link") => /\ m.c \in commits[g] /\ m.x \in objects /\ m.x.git = {m.c}
                          /\ WalkOK(m.left, g, {m.c})
      /\ At(p, "ref") => Noted(m.x)
      /\ At(p, "chain") => \A b \in DOMAIN m : Noted(m[b])
      /\ At(p, "replay") => m = [rest |-> m.rest, b |-> m.b, tip |-> m.tip, left |-> m.left, resolved |-> m.resolved]
      /\ At(p, "replay") \/ At(p, "relink") => ReplayOK(m, commits[g])
      /\ At(p, "relink") => Noted(m.x) /\ m.c \in commits[g] /\ Replayed(m.c, m.x)

ProcOK ==
  /\ proc = [p \in Proc |-> proc[p]]
  /\ \A p \in Proc :
       /\ proc[p] = [at |-> proc[p].at, op |-> proc[p].op, g |-> proc[p].g, mem |-> proc[p].mem,
                     seen |-> proc[p].seen, next |-> proc[p].next]
       /\ BridgeOK(p)

TodoOK ==
  /\ \A d \in todo : d.op # "promote" => d.g \in Repo
  /\ \A d \in todo : d.op = "commit" => TreeOK(d.tree)

Inv == deaths \in 0 .. MaxDeaths /\ GitOK /\ GppOK /\ MapOK /\ ProcOK /\ TodoOK

(* As long as gpp is bridged with one repository.                          *)
Settled(c) == c \in made => Linked(c)

(* The commit an export makes of a promoted changeset.                     *)
Remade(c, x) ==
  /\ c = [msg |-> x.msg, tree |-> BuildGitTree(x.tree), signed |-> FALSE, parents |-> c.parents]
  /\ x.parents = <<>> => c.parents = <<>>
  /\ \A y : x.parents = <<y>> => \E d : c.parents = <<d>> /\ <<d, y>> \in cmap

LoneBridge(p) ==
  LET m == proc[p].mem
  IN  /\ At(p, "commit") \/ At(p, "link") => \A c \in m.left : Settled(c)
      /\ At(p, "replay") => \A r \in m.resolved : <<r[2], r[1]>> \in cmap
      /\ At(p, "relink") => /\ m.x.git = {} /\ m.c \in made /\ Remade(m.c, m.x)
                            /\ \A r \in m.resolved : <<r[2], r[1]>> \in cmap \/ r = <<m.x, m.c>>

PromoMsgs == {x.msg : x \in promoted} \cup {d.msg : d \in {e \in todo : e.op = "promote"}}
Theirs    == UNION {commits[g] \ made : g \in Repo}
UserMsgs  == {c.msg : c \in Theirs} \cup {d.msg : d \in {e \in todo : e.op = "commit"}}

LoneInv(g) ==
  /\ \A l \in cmap : l[1] \in commits[g]
  /\ made \subseteq commits[g]
  /\ \A c \in commits[g] : \A i \in DOMAIN c.parents : Settled(c.parents[i])
  /\ \A b \in DOMAIN gitRefs[g] : Settled(gitRefs[g][b])
  /\ \A x \in objects : x.git \cap made = {}
  /\ PromoMsgs \cap UserMsgs = {} /\ \A c \in made : \E x \in promoted : c.msg = x.msg
  /\ \A l \in cmap : l[2].git = {} => Remade(l[1], l[2])
  /\ \A p \in Proc : LoneBridge(p)

OnlyInv ==
  /\ IsFiniteSet(used) /\ used \subseteq Repo
  /\ \A g \in Repo : used \subseteq {g} => LoneInv(g)

-----------------------------------------------------------------------------
USE MaxDeathsAssumption, ScenariosAssumption

(* The parts of LinkFaithful, for one pair.                                *)
Faithful(c, x) ==
  /\ c.msg = x.msg /\ x.tree = ConvertTree(c.tree)
  /\ \A n \in DOMAIN x.tree : BuildGitTree(x.tree)[n] = c.tree[n]
  /\ x.git = {c} => Len(c.parents) = Len(x.parents) /\
                  \A i \in DOMAIN c.parents : <<c.parents[i], x.parents[i]>> \in cmap
  /\ x.git = {} /\ x.parents # <<>> => c.parents # <<>> /\ c.parents[1].msg = x.parents[1].msg

LEMMA FaithfulLinks == LinkFaithful <=> \A l \in cmap : Faithful(l[1], l[2])
  BY DEF LinkFaithful, Faithful

(* An imported tree, and an exported one, lead back.                       *)
LEMMA ImportedTree ==
  ASSUME NEW tree, TreeOK(tree)
  PROVE  \A n \in DOMAIN ConvertTree(tree) : BuildGitTree(ConvertTree(tree))[n] = tree[n]
  BY DEF TreeOK, ConvertTree, BuildGitTree

LEMMA ExportedTree ==
  ASSUME NEW tree, tree = [n \in DOMAIN tree |-> tree[n]],
         \A n \in DOMAIN tree : tree[n] = [kind |-> "file", mode |-> "100644"]
  PROVE  ConvertTree(BuildGitTree(tree)) = tree
  <1>1. BuildGitTree(tree) = [n \in DOMAIN tree |-> "100644"]
    BY DEF BuildGitTree
  <1> DEFINE t == BuildGitTree(tree)
  <1>2. DOMAIN t = DOMAIN tree /\ \A n \in DOMAIN tree : t[n] = "100644"
    BY <1>1
  <1> HIDE DEF t
  <1>3. {k \in DOMAIN t : t[k] # "160000"} = DOMAIN tree
    BY <1>2
  <1>4. ConvertTree(t) = [n \in DOMAIN tree |-> [kind |-> "file", mode |-> "100644"]]
    BY <1>2, <1>3 DEF ConvertTree
  <1> QED BY <1>4 DEF t

LEMMA BuiltTree == ASSUME NEW tree PROVE TreeOK(BuildGitTree(tree))
  BY DEF TreeOK, BuildGitTree

LEMMA PutIs ==
  ASSUME NEW f, NEW k, NEW v
  PROVE  /\ DOMAIN Put(f, {k}, v) = DOMAIN f \cup {k}
         /\ \A a \in DOMAIN f \cup {k} : Put(f, {k}, v)[a] = IF a = k THEN v ELSE f[a]
  BY DEF Put

-----------------------------------------------------------------------------
(* What grows.                                                             *)
Grown ==
  /\ objects \subseteq objects' /\ cmap \subseteq cmap'
  /\ promoted \subseteq promoted' /\ used \subseteq used'
  /\ \A g \in Repo : commits[g] \subseteq commits'[g]

LEMMA NotedKeeps ==
  ASSUME Grown, NEW x, Noted(x)
  PROVE  Noted(x)'
  BY DEF Grown, Noted

LEMMA ChangesetKeeps ==
  ASSUME Grown, NEW x, IsChangeset(x)
  PROVE  IsChangeset(x)'
  <1>1. x.parents \in Seq(objects') /\ \A i \in DOMAIN x.parents : Noted(x.parents[i])'
    BY NotedKeeps DEF IsChangeset, Grown
  <1>2. Native(x) => Native(x)'
    BY DEF Native, Grown
  <1>3. ASSUME NEW g \in Repo, NEW c \in commits[g], ImportOf(c, x)
        PROVE  c \in commits'[g] /\ ImportOf(c, x)'
    BY <1>3 DEF ImportOf, Grown
  <1> QED BY <1>1, <1>2, <1>3 DEF IsChangeset

LEMMA CommitKeeps ==
  ASSUME Grown, NEW g \in Repo, NEW c, IsCommit(c, g)
  PROVE  IsCommit(c, g)'
  BY DEF IsCommit, Grown

LEMMA ReplayKeeps ==
  ASSUME Grown, NEW m, NEW C, NEW D, C \subseteq D, ReplayOK(m, C)
  PROVE  ReplayOK(m, D)'
  BY NotedKeeps DEF ReplayOK, Resolved

LEMMA WalkKeeps ==
  ASSUME Grown, NEW left, NEW g \in Repo, NEW C, WalkOK(left, g, C)
  PROVE  WalkOK(left, g, C)'
  BY DEF WalkOK, Grown, Linked

LEMMA BridgeKeeps ==
  ASSUME Grown, NEW q \in Proc, proc'[q] = proc[q], BridgeOK(q)
  PROVE  BridgeOK(q)'
  <1>0. PICK m, g : m = proc[q].mem /\ g = proc[q].g
    OBVIOUS
  <1>1. m = proc'[q].mem /\ g = proc'[q].g /\ \A label : At(q, label)' <=> At(q, label)
    BY <1>0 DEF At
  <1>2. CASE At(q, "idle")
    BY <1>1, <1>2 DEF BridgeOK, At
  <1>3. CASE ~At(q, "idle")
    <2>1. g \in Repo /\ g \in used
      BY <1>0, <1>3 DEF BridgeOK
    <2>2. /\ At(q, "commit") => WalkOK(m.left, g, {})'
          /\ At(q, "link") => WalkOK(m.left, g, {m.c})'
      BY <1>0, <2>1, WalkKeeps DEF BridgeOK
    <2>3. /\ At(q, "ref") => Noted(m.x)'
          /\ At(q, "chain") => \A b \in DOMAIN m : Noted(m[b])'
          /\ At(q, "relink") => Noted(m.x)'
      BY <1>0, NotedKeeps DEF BridgeOK
    <2>4. At(q, "replay") \/ At(q, "relink") => ReplayOK(m, commits[g])'
      <3>1. PICK C, D : C = commits[g] /\ D = commits'[g]
        OBVIOUS
      <3>2. C \subseteq D
        BY <2>1, <3>1 DEF Grown
      <3>3. At(q, "replay") \/ At(q, "relink") => ReplayOK(m, D)'
        BY <1>0, <3>1, <3>2, ReplayKeeps DEF BridgeOK
      <3> QED BY <3>1, <3>3 DEF ReplayOK
    <2>5. g \in used' /\ commits[g] \subseteq commits'[g] /\ objects \subseteq objects'
      BY <2>1 DEF Grown
    <2>6. /\ At(q, "commit") => m = [left |-> m.left]
          /\ At(q, "link") => m.c \in commits[g] /\ m.x \in objects /\ m.x.git = {m.c}
          /\ At(q, "replay") => m = [rest |-> m.rest, b |-> m.b, tip |-> m.tip, left |-> m.left, resolved |-> m.resolved]
          /\ At(q, "relink") => m.c \in commits[g] /\ Replayed(m.c, m.x)
      BY <1>0 DEF BridgeOK
    <2> QED BY <1>1, <2>1, <2>2, <2>3, <2>4, <2>5, <2>6 DEF BridgeOK
  <1> QED BY <1>2, <1>3

-----------------------------------------------------------------------------
(* One bridge moves.                                                       *)
Complete(r) == r = [at |-> r.at, op |-> r.op, g |-> r.g, mem |-> r.mem, seen |-> r.seen, next |-> r.next]

Moves(p) ==
  /\ proc' = [q \in Proc |-> proc'[q]] /\ \A q \in Proc \ {p} : proc'[q] = proc[q]
  /\ Complete(proc'[p])

LEMMA MoveMoves ==
  ASSUME ProcOK, NEW p \in Proc, NEW label, NEW mem, NEW seen, NEW next, Move(p, label, mem, seen, next)
  PROVE  /\ Moves(p) /\ proc'[p].at = label /\ proc'[p].mem = mem
         /\ proc'[p].op = proc[p].op /\ proc'[p].g = proc[p].g
         /\ proc'[p].seen = seen /\ proc'[p].next = next
  <1>1. PICK o, g : o = proc[p].op /\ g = proc[p].g
    OBVIOUS
  <1>2. PICK r : r = [at |-> label, op |-> o, g |-> g, mem |-> mem, seen |-> seen, next |-> next]
    OBVIOUS
  <1>3. proc' = [proc EXCEPT ![p] = r] /\ proc = [q \in Proc |-> proc[q]]
    BY <1>1, <1>2 DEF Move, ProcOK
  <1>4. proc' = [q \in Proc |-> proc'[q]] /\ (\A q \in Proc \ {p} : proc'[q] = proc[q]) /\ proc'[p] = r
    BY <1>3
  <1>5. /\ Complete(r) /\ r.at = label /\ r.mem = mem /\ r.op = o /\ r.g = g /\ r.seen = seen /\ r.next = next
    BY <1>2 DEF Complete
  <1> QED BY <1>1, <1>4, <1>5 DEF Moves

LEMMA GotoMoves ==
  ASSUME ProcOK, NEW p \in Proc, NEW label, NEW mem, Goto(p, label, mem)
  PROVE  /\ Moves(p) /\ proc'[p].at = label /\ proc'[p].mem = mem
         /\ proc'[p].op = proc[p].op /\ proc'[p].g = proc[p].g
  <1>1. PICK s, n : s = proc[p].seen /\ n = proc[p].next
    OBVIOUS
  <1>2. Move(p, label, mem, s, n)
    BY <1>1 DEF Goto
  <1> QED BY <1>2, MoveMoves

LEMMA StopMoves ==
  ASSUME ProcOK, NEW p \in Proc, Stop(p)
  PROVE  Moves(p) /\ proc'[p].at = "idle"
  <1>1. PICK r : r = Idle
    OBVIOUS
  <1>2. proc' = [proc EXCEPT ![p] = r] /\ proc = [q \in Proc |-> proc[q]]
    BY <1>1 DEF Stop, ProcOK
  <1>3. proc' = [q \in Proc |-> proc'[q]] /\ (\A q \in Proc \ {p} : proc'[q] = proc[q]) /\ proc'[p] = r
    BY <1>2
  <1>4. Complete(r) /\ r.at = "idle"
    BY <1>1 DEF Idle, Complete
  <1> QED BY <1>3, <1>4 DEF Moves

LEMMA MovedKeeps ==
  ASSUME ProcOK, Grown, NEW p \in Proc, Moves(p), BridgeOK(p)'
  PROVE  ProcOK'
  <1>1. proc' = [q \in Proc |-> proc'[q]] /\ \A q \in Proc \ {p} : proc'[q] = proc[q]
    BY DEF Moves
  <1>2. \A q \in Proc \ {p} : BridgeOK(q)'
    BY <1>1, BridgeKeeps DEF ProcOK
  <1>3. \A q \in Proc : proc'[q] = [at |-> proc'[q].at, op |-> proc'[q].op, g |-> proc'[q].g, mem |-> proc'[q].mem,
                                    seen |-> proc'[q].seen, next |-> proc'[q].next]
    BY <1>1 DEF ProcOK, Complete, Moves
  <1> QED BY <1>1, <1>2, <1>3 DEF ProcOK

LEMMA StillKeeps ==
  ASSUME ProcOK, Grown, proc' = proc
  PROVE  ProcOK'
  BY BridgeKeeps DEF ProcOK

LEMMA InitInv == Init => Inv
  <1> SUFFICES ASSUME Init PROVE Inv
    OBVIOUS
  <1>1. PICK s \in Scenarios : commits = s.commits /\ gitRefs = s.gitRefs /\ wd = s.wd /\ todo = s.todo
    BY DEF Init
  <1>2. ScenarioOK(s)
    BY <1>1
  <1>3. GitOK /\ TodoOK
    BY <1>1, <1>2 DEF GitOK, TodoOK, IsCommit, ScenarioOK
  <1>4. GppOK
    BY <1>1, <1>2, FS_EmptySet DEF Init, GppOK, ScenarioOK
  <1>5. MapOK
    BY DEF Init, MapOK, LinkFaithful
  <1>6. ProcOK
    BY DEF Init, ProcOK, Idle, BridgeOK, At
  <1>7. deaths \in 0 .. MaxDeaths
    BY DEF Init
  <1> QED BY <1>3, <1>4, <1>5, <1>6, <1>7 DEF Inv

LEMMA GppSame ==
  ASSUME GppOK, Grown, UNCHANGED gppVars
  PROVE  GppOK'
  BY NotedKeeps, ChangesetKeeps DEF GppOK, gppVars

LEMMA GitSame ==
  ASSUME GitOK, UNCHANGED gitVars
  PROVE  GitOK'
  BY DEF GitOK, gitVars, IsCommit

LEMMA MapSame ==
  ASSUME MapOK, Grown, UNCHANGED cmap
  PROVE  MapOK'
  <1>1. LinkFaithful'
    BY DEF MapOK, LinkFaithful
  <1>2. \A l \in cmap : Noted(l[2])'
    BY NotedKeeps DEF MapOK
  <1> QED BY <1>1, <1>2 DEF MapOK, Grown

(* A step of a bridge that only moves it on.                               *)
LEMMA QuietStep ==
  ASSUME Inv, NEW p \in Proc, Moves(p), BridgeOK(p)',
         UNCHANGED <<gitVars, gppVars, cmap, todo, deaths, promoted, used>>
  PROVE  Inv'
  <1>1. Grown
    BY DEF Grown, gppVars, gitVars
  <1>2. ProcOK'
    BY <1>1, MovedKeeps DEF Inv
  <1>3. GppOK' /\ GitOK' /\ MapOK'
    BY <1>1, GppSame, GitSame, MapSame DEF Inv
  <1> QED BY <1>2, <1>3 DEF Inv, TodoOK

LEMMA ShutStores ==
  ASSUME Inv
  PROVE  Shut(objects) /\ \A g \in Repo : Shut(commits[g])
  BY DEF Inv, GitOK, GppOK, Shut, IsChangeset, IsCommit

(* Labels at which a bridge holds nothing, or what the next label asks.    *)
LEMMA PlainStep ==
  ASSUME Inv, NEW p \in Proc, NEW label, NEW mem, Goto(p, label, mem), ~At(p, "idle"),
         label \in {"branch", "files", "filling", "list", "head"},
         UNCHANGED <<gitVars, gppVars, cmap, todo, deaths, promoted, used>>
  PROVE  Inv'
  <1>1. Moves(p) /\ proc'[p].at = label /\ proc'[p].g = proc[p].g
    BY GotoMoves DEF Inv
  <1>2. BridgeOK(p)'
    BY <1>1 DEF BridgeOK, At, Inv, ProcOK
  <1> QED BY <1>1, <1>2, QuietStep

LEMMA ImportWalkStep ==
  ASSUME Inv, NEW p \in Proc, UNCHANGED <<todo, deaths>>, ImportWalk(p)
  PROVE  Inv'
  <1>1. PICK g, W : g = proc[p].g /\ W = Walked(g)
    OBVIOUS
  <1>2. Goto(p, "commit", [left |-> W]) /\ ~At(p, "idle") /\ UNCHANGED <<gitVars, gppVars, cmap, todo, deaths, promoted, used>>
    BY <1>1 DEF ImportWalk, At, history
  <1>3. Moves(p) /\ proc'[p].at = "commit" /\ proc'[p].mem = [left |-> W] /\ proc'[p].g = g
    BY <1>1, <1>2, GotoMoves DEF Inv
  <1>4. g \in Repo /\ g \in used /\ Shut(commits[g]) /\ \A b \in DOMAIN gitRefs[g] : gitRefs[g][b] \in commits[g]
    BY <1>1, <1>2, ShutStores DEF Inv, GitOK, ProcOK, BridgeOK
  <1>5. WalkOK(W, g, {})
    <2> DEFINE S == {gitRefs[g][b] : b \in DOMAIN gitRefs[g]}
    <2>1. S \subseteq commits[g]
      BY <1>4
    <2> HIDE DEF S
    <2>2. /\ Ancestors(S, commits[g]) \subseteq commits[g]
          /\ \A c \in Ancestors(S, commits[g]) : \A i \in DOMAIN c.parents : c.parents[i] \in Ancestors(S, commits[g])
      BY <1>4, <2>1, AncestorsShut
    <2>3. W = Ancestors(S, commits[g])
      BY <1>1 DEF S, Walked
    <2> QED BY <2>2, <2>3 DEF WalkOK
  <1>6. Grown
    BY <1>2 DEF Grown, gppVars, gitVars
  <1>7. WalkOK(W, g, {})'
    BY <1>4, <1>5, <1>6, WalkKeeps
  <1>8. BridgeOK(p)'
    BY <1>2, <1>3, <1>4, <1>7 DEF BridgeOK, At
  <1> QED BY <1>2, <1>3, <1>8, QuietStep

LEMMA LinkedPair ==
  ASSUME Inv, NEW c, Linked(c)
  PROVE  <<c, GppFor(c)>> \in cmap /\ Noted(GppFor(c))
  BY DEF Inv, MapOK, Linked, GppFor

LEMMA ReadBranchStep ==
  ASSUME Inv, NEW p \in Proc, UNCHANGED <<todo, deaths>>, ReadBranch(p)
  PROVE  Inv'
  <1>1. ~At(p, "idle") /\ UNCHANGED <<gitVars, gppVars, cmap, todo, deaths, promoted, used>>
    BY DEF ReadBranch, At, history
  <1>2. PICK g, m : g = proc[p].g /\ m = proc[p].mem
    OBVIOUS
  <1>3. PICK b \in m.left :
          IF Linked(gitRefs[g][b])
          THEN Goto(p, "ref", [left |-> m.left \ {b}, b |-> b, c |-> gitRefs[g][b], x |-> GppFor(gitRefs[g][b])])
          ELSE Goto(p, "branch", [m EXCEPT !.left = @ \ {b}])
    BY <1>2 DEF ReadBranch
  <1>4. CASE Linked(gitRefs[g][b])
    <2>1. PICK c, x : c = gitRefs[g][b] /\ x = GppFor(c)
      OBVIOUS
    <2>2. Noted(x)
      BY <1>4, <2>1, LinkedPair
    <2>3. PICK mem : mem = [left |-> m.left \ {b}, b |-> b, c |-> c, x |-> x]
      OBVIOUS
    <2>4. Goto(p, "ref", mem)
      BY <1>3, <1>4, <2>1, <2>3
    <2>5. Moves(p) /\ proc'[p].at = "ref" /\ proc'[p].mem.x = x /\ proc'[p].g = g
      BY <1>2, <2>3, <2>4, GotoMoves DEF Inv
    <2>6. Grown
      BY <1>1 DEF Grown, gppVars, gitVars
    <2>7. Noted(x)' /\ g \in Repo /\ g \in used'
      BY <1>1, <1>2, <2>2, <2>6, NotedKeeps DEF Inv, ProcOK, BridgeOK
    <2>8. BridgeOK(p)'
      BY <2>5, <2>7 DEF BridgeOK, At
    <2> QED BY <1>1, <2>5, <2>8, QuietStep
  <1>5. CASE ~Linked(gitRefs[g][b])
    <2>1. PICK mem : mem = [m EXCEPT !.left = @ \ {b}]
      OBVIOUS
    <2>2. Goto(p, "branch", mem)
      BY <1>3, <1>5, <2>1
    <2> QED BY <1>1, <2>2, PlainStep
  <1> QED BY <1>4, <1>5

LEMMA PlainSteps ==
  ASSUME Inv, NEW p \in Proc, UNCHANGED <<todo, deaths>>, ImportBranches(p) \/ ImportHead(p)
  PROVE  Inv'
  <1>1. PICK mem, label : Goto(p, label, mem) /\ label \in {"branch", "files", "list"}
    BY DEF ImportBranches, ImportHead
  <1>2. ~At(p, "idle") /\ UNCHANGED <<gitVars, gppVars, cmap, todo, deaths, promoted, used>>
    BY DEF ImportBranches, ImportHead, history, At
  <1> QED BY <1>1, <1>2, PlainStep

(* A commit all of whose parents are linked, as a changeset.               *)
LEMMA ImportedIs ==
  ASSUME Inv, NEW g \in Repo, NEW c \in commits[g], \A i \in DOMAIN c.parents : Linked(c.parents[i])
  PROVE  LET x == Imported(c) IN
           /\ x = [msg |-> x.msg, tree |-> x.tree, git |-> x.git, parents |-> x.parents]
           /\ x.tree = [n \in DOMAIN x.tree |-> x.tree[n]]
           /\ x.parents \in Seq(objects) /\ \A i \in DOMAIN x.parents : Noted(x.parents[i])
           /\ ImportOf(c, x)
  <1> DEFINE T == {y \in objects : Noted(y)}
             s == Counterparts(c.parents, cmap)
  <1>1. \A r \in cmap : r[2] \in T
    BY DEF Inv, MapOK, Noted
  <1>2. c.parents \in Seq(commits[g]) /\ \A i \in DOMAIN c.parents : HasPartner(cmap, c.parents[i])
    BY DEF Inv, GitOK, IsCommit, Linked, HasPartner
  <1> HIDE DEF T, s
  <1>3. s \in Seq(T) /\ Len(s) = Len(c.parents) /\ \A i \in DOMAIN c.parents : s[i] = Partner(cmap, c.parents[i])
    <2>1. PICK q, C : q = c.parents /\ C = cmap
      OBVIOUS
    <2>2. q \in Seq(commits[g]) /\ (\A r \in C : r[2] \in T) /\ \A i \in DOMAIN q : HasPartner(C, q[i])
      BY <1>1, <1>2, <2>1
    <2>3. PICK z : z = Counterparts(q, C)
      OBVIOUS
    <2>4. /\ z \in Seq(T)
          /\ (\A i \in DOMAIN q : HasPartner(C, q[i])) =>
               Len(z) = Len(q) /\ \A i \in DOMAIN q : z[i] = Partner(C, q[i])
      BY <2>2, <2>3, CounterpartsAre
    <2>5. z \in Seq(T) /\ Len(z) = Len(q) /\ \A i \in DOMAIN q : z[i] = Partner(C, q[i])
      BY <2>2, <2>4
    <2> QED BY <2>1, <2>3, <2>5 DEF s
  <1>4. ASSUME NEW i \in DOMAIN c.parents PROVE <<c.parents[i], s[i]>> \in cmap
    <2>1. PICK r \in cmap : r[1] = c.parents[i] /\ Partner(cmap, c.parents[i]) = r[2]
      BY <1>2, PartnerOf
    <2>2. r = <<r[1], r[2]>>
      BY DEF Inv, MapOK
    <2> QED BY <1>3, <2>1, <2>2
  <1>5. s \in Seq(objects) /\ \A i \in DOMAIN s : Noted(s[i])
    BY <1>3 DEF T
  <1>6. PICK x : x = Imported(c)
    OBVIOUS
  <1>7. x = [msg |-> c.msg, tree |-> ConvertTree(c.tree), git |-> {c}, parents |-> s]
    BY <1>6 DEF Imported, s
  <1>8. /\ x = [msg |-> x.msg, tree |-> x.tree, git |-> x.git, parents |-> x.parents]
        /\ x.msg = c.msg /\ x.tree = ConvertTree(c.tree) /\ x.git = {c} /\ x.parents = s
    BY <1>7
  <1>9. x.tree = [n \in DOMAIN x.tree |-> x.tree[n]]
    BY <1>8 DEF ConvertTree
  <1>10. ImportOf(c, x)
    BY <1>3, <1>4, <1>8 DEF ImportOf
  <1> QED BY <1>5, <1>6, <1>8, <1>9, <1>10

LEMMA ImportCommitStep ==
  ASSUME Inv, NEW p \in Proc, UNCHANGED <<todo, deaths>>, ImportCommit(p)
  PROVE  Inv'
  <1>1. At(p, "commit") /\ ~At(p, "idle") /\ UNCHANGED <<gitVars, refs, wd, cmap, todo, deaths, promoted, used>>
    BY DEF ImportCommit, At, history
  <1>2. PICK g, m : g = proc[p].g /\ m = proc[p].mem
    OBVIOUS
  <1>3. g \in Repo /\ g \in used /\ m = [left |-> m.left] /\ WalkOK(m.left, g, {})
    BY <1>1, <1>2 DEF Inv, ProcOK, BridgeOK
  <1>4. PICK c \in Due(m.left) :
          IF Linked(c) THEN objects' = objects /\ Goto(p, "commit", [m EXCEPT !.left = @ \ {c}])
          ELSE /\ objects' = objects \cup {Imported(c)}
               /\ Goto(p, "link", [left |-> m.left \ {c}, c |-> c, x |-> Imported(c)])
    BY <1>2 DEF ImportCommit
  <1>5. c \in m.left /\ c \in commits[g] /\ \A i \in DOMAIN c.parents : c.parents[i] \notin m.left
    BY <1>3, <1>4 DEF Due, WalkOK, ToSet
  <1>6. CASE Linked(c)
    <2>1. [m EXCEPT !.left = @ \ {c}] = [left |-> m.left \ {c}]
      BY <1>3
    <2>2. PICK W : W = m.left \ {c}
      OBVIOUS
    <2>3. Goto(p, "commit", [left |-> W]) /\ objects' = objects
      BY <1>4, <1>6, <2>1, <2>2
    <2>4. Moves(p) /\ proc'[p].at = "commit" /\ proc'[p].mem = [left |-> W] /\ proc'[p].g = g
      BY <1>2, <2>3, GotoMoves DEF Inv
    <2>5. WalkOK(W, g, {})
      BY <1>3, <1>6, <2>2 DEF WalkOK
    <2>6. Grown
      BY <1>1, <2>3 DEF Grown, gitVars
    <2>7. WalkOK(W, g, {})'
      BY <1>3, <2>5, <2>6, WalkKeeps
    <2>8. BridgeOK(p)'
      BY <1>1, <1>3, <2>4, <2>7 DEF BridgeOK, At
    <2> QED BY <1>1, <2>3, <2>4, <2>8, QuietStep DEF gppVars
  <1>7. CASE ~Linked(c)
    <2>1. \A i \in DOMAIN c.parents : Linked(c.parents[i])
      BY <1>3, <1>5 DEF WalkOK
    <2>2. PICK x, W : x = Imported(c) /\ W = m.left \ {c}
      OBVIOUS
    <2>3. /\ x = [msg |-> x.msg, tree |-> x.tree, git |-> x.git, parents |-> x.parents]
          /\ x.tree = [n \in DOMAIN x.tree |-> x.tree[n]]
          /\ x.parents \in Seq(objects) /\ \A i \in DOMAIN x.parents : Noted(x.parents[i])
          /\ ImportOf(c, x)
      BY <1>3, <1>5, <2>1, <2>2, ImportedIs
    <2>4. IsChangeset(x)
      BY <1>3, <1>5, <2>3 DEF IsChangeset
    <2>5. PICK mem : mem = [left |-> W, c |-> c, x |-> x]
      OBVIOUS
    <2>6. objects' = objects \cup {x} /\ Goto(p, "link", mem)
      BY <1>4, <1>7, <2>2, <2>5
    <2>7. Grown
      BY <1>1, <2>6 DEF Grown, gitVars
    <2>8. GppOK'
      <3>1. IsFiniteSet(objects') /\ \A y \in objects' : IsChangeset(y)'
        BY <2>4, <2>6, <2>7, ChangesetKeeps, FS_AddElement DEF Inv, GppOK
      <3>2. \A b \in DOMAIN refs : Noted(refs[b])'
        BY <1>1, <2>7, NotedKeeps DEF Inv, GppOK
      <3> QED BY <1>1, <3>1, <3>2 DEF Inv, GppOK
    <2>9. GitOK' /\ MapOK'
      BY <1>1, <2>7, GitSame, MapSame DEF Inv
    <2>10. Moves(p) /\ proc'[p].at = "link" /\ proc'[p].mem = mem /\ proc'[p].g = g
      BY <1>2, <2>6, GotoMoves DEF Inv
    <2>11. mem.left = W /\ mem.c = c /\ mem.x = x /\ x.git = {c}
      BY <2>3, <2>5 DEF ImportOf
    <2>12. WalkOK(W, g, {c})
      BY <1>3, <2>2 DEF WalkOK
    <2>13. WalkOK(W, g, {c})' /\ commits'[g] = commits[g]
      BY <1>1, <1>3, <2>7, <2>12, WalkKeeps DEF gitVars
    <2>14. BridgeOK(p)'
      BY <1>1, <1>3, <1>5, <2>6, <2>10, <2>11, <2>13 DEF BridgeOK, At
    <2>15. ProcOK'
      BY <2>7, <2>10, <2>14, MovedKeeps DEF Inv
    <2> QED BY <1>1, <2>8, <2>9, <2>15 DEF Inv, TodoOK
  <1> QED BY <1>6, <1>7

(* A new link keeps the map one to one.                                    *)
LEMMA LinkKeeps ==
  ASSUME Inv, NEW g \in Repo, NEW c \in commits[g], NEW x \in objects, Link(c, x),
         UNCHANGED <<commits, objects>>, Grown,
         ~Linked(c) /\ ~Exported(x) => Faithful(c, x) /\ (x.git = {} \/ x.git = {c})
  PROVE  MapOK'
  <1>1. CASE Linked(c) \/ Exported(x)
    BY <1>1, MapSame DEF Inv, Link
  <1>2. CASE ~Linked(c) /\ ~Exported(x)
    <2>1. cmap' = cmap \cup {<<c, x>>} /\ Faithful(c, x) /\ (x.git = {} \/ x.git = {c})
      BY <1>2 DEF Link
    <2>2. \A l \in cmap : l[1] # c /\ l[2] # x
      BY <1>2 DEF Linked, Exported
    <2>3. \A k, l \in cmap' : k[1] = l[1] \/ k[2] = l[2] => k = l
      BY <2>1, <2>2 DEF Inv, MapOK
    <2>4. \A l \in cmap : Noted(l[2])'
      BY NotedKeeps DEF Inv, MapOK
    <2>5. Noted(x)'
      BY <2>1 DEF Noted
    <2>6. \A l \in cmap' : l = <<l[1], l[2]>> /\ Noted(l[2])' /\ \E h \in Repo : l[1] \in commits'[h]
      BY <2>1, <2>4, <2>5 DEF Inv, MapOK
    <2>7. \A d, y : Faithful(d, y) => Faithful(d, y)'
      BY <2>1 DEF Faithful
    <2>8. \A l \in cmap' : Faithful(l[1], l[2])'
      BY <2>1, <2>7, FaithfulLinks DEF Inv, MapOK
    <2>9. LinkFaithful'
      BY <2>8 DEF LinkFaithful, Faithful
    <2> QED BY <2>3, <2>6, <2>9 DEF MapOK
  <1> QED BY <1>1, <1>2

LEMMA LinkStep ==
  ASSUME Inv, NEW p \in Proc, NEW g \in Repo, NEW c \in commits[g], NEW x \in objects, Link(c, x),
         UNCHANGED <<gitVars, gppVars, todo, deaths, promoted, used>>,
         ~Linked(c) /\ ~Exported(x) => Faithful(c, x) /\ (x.git = {} \/ x.git = {c}),
         Moves(p), BridgeOK(p)'
  PROVE  Inv'
  <1>1. Grown
    BY DEF Grown, gppVars, gitVars, Link
  <1>2. MapOK'
    BY <1>1, LinkKeeps DEF gitVars, gppVars
  <1>3. ProcOK' /\ GppOK' /\ GitOK'
    BY <1>1, MovedKeeps, GppSame, GitSame DEF Inv
  <1> QED BY <1>2, <1>3 DEF Inv, TodoOK

(* A changeset that was imported from a commit, and is linked to something, *)
(* is linked to that commit.                                               *)
LEMMA ExportedIsLinked ==
  ASSUME Inv, NEW c, NEW x, x.git = {c}, Exported(x)
  PROVE  <<c, x>> \in cmap
  <1>1. Noted(x)
    BY DEF Inv, MapOK, Exported
  <1>2. PICK d : x.git = {d} /\ <<d, x>> \in cmap
    BY <1>1 DEF Noted
  <1>3. d = c
    BY <1>2
  <1> QED BY <1>2, <1>3

LEMMA ImportLinkStep ==
  ASSUME Inv, NEW p \in Proc, UNCHANGED <<todo, deaths>>, ImportLink(p)
  PROVE  Inv'
  <1>1. At(p, "link") /\ ~At(p, "idle") /\ UNCHANGED <<gitVars, gppVars, todo, deaths, promoted, used>>
    BY DEF ImportLink, At, history
  <1>2. PICK g, m : g = proc[p].g /\ m = proc[p].mem
    OBVIOUS
  <1>3. PICK c, x, W : c = m.c /\ x = m.x /\ W = m.left
    OBVIOUS
  <1>4. g \in Repo /\ g \in used /\ c \in commits[g] /\ x \in objects /\ x.git = {c} /\ WalkOK(W, g, {c})
    BY <1>1, <1>2, <1>3 DEF Inv, ProcOK, BridgeOK
  <1>5. Link(c, x) /\ Goto(p, "commit", [left |-> W])
    BY <1>2, <1>3 DEF ImportLink
  <1>6. IsChangeset(x) /\ TreeOK(c.tree)
    BY <1>4 DEF Inv, GppOK, GitOK, IsCommit
  <1>7. ImportOf(c, x)
    BY <1>4, <1>6 DEF IsChangeset, Native, ImportOf
  <1>8. Faithful(c, x)
    BY <1>6, <1>7, ImportedTree DEF Faithful, ImportOf
  <1>9. Moves(p) /\ proc'[p].at = "commit" /\ proc'[p].mem = [left |-> W] /\ proc'[p].g = g
    BY <1>2, <1>5, GotoMoves DEF Inv
  <1>10. Linked(c)'
    <2>1. CASE Exported(x)
      <3>1. <<c, x>> \in cmap /\ cmap' = cmap
        BY <1>4, <1>5, <2>1, ExportedIsLinked DEF Link
      <3> QED BY <3>1 DEF Linked
    <2>2. CASE ~Exported(x) /\ ~Linked(c)
      <3>1. <<c, x>> \in cmap'
        BY <1>5, <2>2 DEF Link
      <3> QED BY <3>1 DEF Linked
    <2>3. CASE Linked(c)
      <3>1. cmap' = cmap
        BY <1>5, <2>3 DEF Link
      <3> QED BY <2>3, <3>1 DEF Linked
    <2> QED BY <2>1, <2>2, <2>3
  <1>11. Grown
    BY <1>1, <1>5 DEF Grown, gppVars, gitVars, Link
  <1>12. WalkOK(W, g, {c})'
    BY <1>4, <1>11, WalkKeeps
  <1>13. WalkOK(W, g, {})'
    BY <1>10, <1>12 DEF WalkOK
  <1>14. BridgeOK(p)'
    BY <1>1, <1>4, <1>9, <1>13 DEF BridgeOK, At
  <1> QED BY <1>1, <1>4, <1>5, <1>8, <1>9, <1>14, LinkStep

LEMMA WriteRefStep ==
  ASSUME Inv, NEW p \in Proc, UNCHANGED <<todo, deaths>>, WriteRef(p)
  PROVE  Inv'
  <1>1. PICK m : m = proc[p].mem
    OBVIOUS
  <1>2. At(p, "ref") /\ ~At(p, "idle") /\ UNCHANGED <<gitVars, objects, wd, cmap, todo, deaths, promoted, used>>
        /\ refs' = Put(refs, {m.b}, m.x) /\ Noted(m.x)
    BY <1>1 DEF WriteRef, At, Mirrored, Inv, ProcOK, BridgeOK
  <1>3. PICK mem : Goto(p, "branch", mem)
    BY DEF WriteRef
  <1>4. Moves(p) /\ proc'[p].at = "branch" /\ proc'[p].g = proc[p].g
    BY <1>3, GotoMoves DEF Inv
  <1>5. Grown
    BY <1>2 DEF Grown, gitVars
  <1>6. BridgeOK(p)'
    BY <1>2, <1>4 DEF BridgeOK, At, Inv, ProcOK
  <1>7. GppOK'
    <2>1. ASSUME NEW b \in DOMAIN refs' PROVE Noted(refs[b])'
      <3>1. PICK y : y = refs'[b]
        OBVIOUS
      <3>2. y = m.x \/ \E d \in DOMAIN refs : y = refs[d]
        BY <1>2, <2>1, <3>1 DEF Put
      <3>3. Noted(y)
        BY <1>2, <3>2 DEF Inv, GppOK
      <3>4. Noted(y)'
        BY <1>5, <3>3, NotedKeeps
      <3> QED BY <3>1, <3>4 DEF Noted
    <2>2. IsFiniteSet(objects') /\ \A y \in objects' : IsChangeset(y)'
      BY <1>2, <1>5, ChangesetKeeps DEF Inv, GppOK
    <2> QED BY <1>2, <2>1, <2>2 DEF Inv, GppOK
  <1>8. ProcOK' /\ GitOK' /\ MapOK'
    BY <1>2, <1>4, <1>5, <1>6, MovedKeeps, GitSame, MapSame DEF Inv
  <1> QED BY <1>2, <1>7, <1>8 DEF Inv, TodoOK

(* Only the working directory changes.                                     *)
LEMMA FileStep ==
  ASSUME Inv, NEW p \in Proc, Moves(p), BridgeOK(p)', \A n \in DOMAIN wd' : wd'[n] \in {"file", "link"},
         UNCHANGED <<gitVars, objects, refs, cmap, todo, deaths, promoted, used>>
  PROVE  Inv'
  <1>1. Grown
    BY DEF Grown, gitVars
  <1>2. IsFiniteSet(objects') /\ \A y \in objects' : IsChangeset(y)'
    BY <1>1, ChangesetKeeps DEF Inv, GppOK
  <1>3. (\A b \in DOMAIN refs : Noted(refs[b]))'
    BY <1>1, NotedKeeps DEF Inv, GppOK
  <1>4. ProcOK' /\ GitOK' /\ MapOK' /\ GppOK'
    BY <1>1, <1>2, <1>3, MovedKeeps, GitSame, MapSame DEF Inv, GppOK
  <1> QED BY <1>4 DEF Inv, TodoOK

LEMMA ImportFilesStep ==
  ASSUME Inv, NEW p \in Proc, UNCHANGED <<todo, deaths>>, ImportFiles(p) \/ ImportFilled(p)
  PROVE  Inv'
  <1>1. ~At(p, "idle") /\ UNCHANGED <<gitVars, objects, refs, cmap, todo, deaths, promoted, used>>
    BY DEF ImportFiles, ImportFilled, At, history
  <1>2. \A n \in DOMAIN wd' : wd'[n] \in {"file", "link"}
    BY DEF ImportFiles, ImportFilled, Materialized, Put, Inv, GppOK
  <1>3. Moves(p) /\ (proc'[p].at = "idle" \/ (proc'[p].at = "filling" /\ proc'[p].g = proc[p].g))
    <2>1. Stop(p) \/ \E mem : Goto(p, "filling", mem)
      BY DEF ImportFiles, ImportFilled
    <2> QED BY <2>1, GotoMoves, StopMoves DEF Inv
  <1>4. BridgeOK(p)'
    BY <1>1, <1>3 DEF BridgeOK, At, Inv, ProcOK
  <1> QED BY <1>1, <1>2, <1>3, <1>4, FileStep

LEMMA ExportListStep ==
  ASSUME Inv, NEW p \in Proc, UNCHANGED <<todo, deaths>>, ExportList(p)
  PROVE  Inv'
  <1>1. ~At(p, "idle") /\ UNCHANGED <<gitVars, gppVars, cmap, todo, deaths, promoted, used>>
    BY DEF ExportList, At, history
  <1>2. PICK m : m = refs
    OBVIOUS
  <1>3. Goto(p, "chain", m)
    BY <1>2 DEF ExportList
  <1>4. Moves(p) /\ proc'[p].at = "chain" /\ proc'[p].mem = m /\ proc'[p].g = proc[p].g
    BY <1>3, GotoMoves DEF Inv
  <1>5. Grown
    BY <1>1 DEF Grown, gppVars, gitVars
  <1>6. \A b \in DOMAIN m : Noted(m[b])
    BY <1>2 DEF Inv, GppOK
  <1>7. \A b \in DOMAIN m : Noted(m[b])'
    BY <1>5, <1>6, NotedKeeps
  <1>8. BridgeOK(p)'
    BY <1>1, <1>4, <1>7 DEF BridgeOK, At, Inv, ProcOK
  <1> QED BY <1>1, <1>4, <1>8, QuietStep

LEMMA ExportBranchStep ==
  ASSUME Inv, NEW p \in Proc, UNCHANGED <<todo, deaths>>, ExportBranch(p)
  PROVE  Inv'
  <1>1. At(p, "chain") /\ ~At(p, "idle") /\ UNCHANGED <<gitVars, gppVars, cmap, todo, deaths, promoted, used>>
    BY DEF ExportBranch, At, history
  <1>2. PICK m, g : m = proc[p].mem /\ g = proc[p].g
    OBVIOUS
  <1>3. PICK b \in DOMAIN m :
          Goto(p, "replay", [rest |-> [n \in DOMAIN m \ {b} |-> m[n]], b |-> b, tip |-> m[b],
                              left |-> FirstParents(m[b]), resolved |-> {}])
    BY <1>2 DEF ExportBranch, NextBranch
  <1>4. PICK t, F, rest : t = m[b] /\ F = FirstParents(t) /\ rest = [n \in DOMAIN m \ {b} |-> m[n]]
    OBVIOUS
  <1>5. PICK mem : mem = [rest |-> rest, b |-> b, tip |-> t, left |-> F, resolved |-> {}]
    OBVIOUS
  <1>6. Goto(p, "replay", mem)
    BY <1>3, <1>4, <1>5
  <1>7. Moves(p) /\ proc'[p].at = "replay" /\ proc'[p].mem = mem /\ proc'[p].g = g
    BY <1>2, <1>6, GotoMoves DEF Inv
  <1>8. g \in Repo /\ g \in used /\ \A n \in DOMAIN m : Noted(m[n])
    BY <1>1, <1>2 DEF Inv, ProcOK, BridgeOK
  <1>9. Noted(t) /\ \A n \in DOMAIN rest : Noted(rest[n])
    BY <1>3, <1>4, <1>8
  <1>10. /\ t \in F /\ \A y \in F : Noted(y)
         /\ \A y \in F : y.parents # <<>> => y.parents[1] \in F
    <2> DEFINE T == {y \in objects : Noted(y)}
    <2>1. \A y \in T \cap objects : y.parents # <<>> => y.parents[1] \in T
      <3> SUFFICES ASSUME NEW y \in objects, y.parents # <<>> PROVE y.parents[1] \in T
        OBVIOUS
      <3>1. y.parents \in Seq(objects) /\ \A i \in DOMAIN y.parents : Noted(y.parents[i])
        BY DEF Inv, GppOK, IsChangeset
      <3>2. 1 \in DOMAIN y.parents
        BY <3>1
      <3> QED BY <3>1, <3>2 DEF Noted
    <2>2. t \in T /\ t \in objects
      BY <1>9 DEF Noted
    <2>3. \A y \in T : Noted(y)
      OBVIOUS
    <2> HIDE DEF T
    <2>4. /\ t \in FirstParents(t) /\ FirstParents(t) \subseteq T
          /\ \A y \in FirstParents(t) : y.parents # <<>> => y.parents[1] \in FirstParents(t)
      BY <2>1, <2>2, ShutStores, FirstParentsShut
    <2> QED BY <1>4, <2>3, <2>4
  <1>11. Grown
    BY <1>1 DEF Grown, gppVars, gitVars
  <1>12. /\ mem = [rest |-> mem.rest, b |-> mem.b, tip |-> mem.tip, left |-> mem.left, resolved |-> mem.resolved]
         /\ mem.rest = rest /\ mem.tip = t /\ mem.left = F /\ mem.resolved = {}
    BY <1>5
  <1>13. PICK C : C = commits[g] /\ C = commits'[g]
    BY <1>1 DEF gitVars
  <1>14. ReplayOK(mem, commits[g])'
    <2>1. ReplayOK(mem, C)
      BY <1>9, <1>10, <1>12 DEF ReplayOK
    <2>2. ReplayOK(mem, C)'
      BY <1>11, <2>1, ReplayKeeps
    <2> QED BY <1>13, <2>2 DEF ReplayOK
  <1>15. BridgeOK(p)'
    BY <1>1, <1>7, <1>8, <1>12, <1>14 DEF BridgeOK, At
  <1> QED BY <1>1, <1>7, <1>15, QuietStep

(* A replay goes one changeset further.                                    *)
LEMMA ReplayAdvances ==
  ASSUME NEW m, NEW C, ReplayOK(m, C), NEW x \in m.left, NEW D, C \subseteq D, NEW c \in D, c.msg = x.msg,
         NEW k, k.rest = m.rest, k.tip = m.tip, k.left = m.left \ {x}, k.resolved = m.resolved \cup {<<x, c>>}
  PROVE  ReplayOK(k, D)
  <1>1. \A b \in DOMAIN k.rest : Noted(k.rest[b])
    BY DEF ReplayOK
  <1>2. \A y : Resolved(m, y) \/ y = x => Resolved(k, y)
    BY DEF Resolved
  <1>3. \A y \in k.left : Noted(y) /\ (y.parents # <<>> => y.parents[1] \in k.left \/ Resolved(k, y.parents[1]))
    BY <1>2 DEF ReplayOK
  <1>4. \A r \in k.resolved : r = <<r[1], r[2]>> /\ r[2] \in D /\ r[2].msg = r[1].msg
    BY DEF ReplayOK
  <1>5. k.tip \in k.left \/ Resolved(k, k.tip)
    BY <1>2 DEF ReplayOK
  <1> QED BY <1>1, <1>3, <1>4, <1>5 DEF ReplayOK

(* What an export has in reach in its repository.                          *)
LEMMA KnownIs ==
  ASSUME Inv, NEW g \in Repo, NEW m, ReplayOK(m, commits[g])
  PROVE  \A r \in Known(m, g) : r = <<r[1], r[2]>> /\ r[2] \in commits[g] /\ r[2].msg = r[1].msg
                                /\ (r \in m.resolved \/ <<r[2], r[1]>> \in cmap)
  <1>1. \A l \in cmap : l = <<l[1], l[2]>> /\ l[1].msg = l[2].msg
    BY DEF Inv, MapOK, LinkFaithful
  <1> QED BY <1>1 DEF Known, ReplayOK

LEMMA RebuiltIs ==
  ASSUME Inv, NEW g \in Repo, NEW m, ReplayOK(m, commits[g]), NEW x \in m.left,
         x.parents = <<>> \/ x.parents[1] \notin m.left
  PROVE  /\ Rebuilt(m, g, x) = [msg |-> x.msg, tree |-> BuildGitTree(x.tree), signed |-> FALSE,
                                parents |-> Counterparts(x.parents, Known(m, g))]
         /\ IsCommit(Rebuilt(m, g, x), g) /\ Replayed(Rebuilt(m, g, x), x)
         /\ Native(x) =>
              \/ x.parents = <<>> /\ Rebuilt(m, g, x).parents = <<>>
              \/ \E r \in Known(m, g) : x.parents = <<r[1]>> /\ Rebuilt(m, g, x).parents = <<r[2]>>
  <1>1. PICK c, K : c = Rebuilt(m, g, x) /\ K = Known(m, g)
    OBVIOUS
  <1>2. PICK s : s = Counterparts(x.parents, K)
    OBVIOUS
  <1>3. c = [msg |-> x.msg, tree |-> BuildGitTree(x.tree), signed |-> FALSE, parents |-> s]
    BY <1>1, <1>2 DEF Rebuilt
  <1>4. c.msg = x.msg /\ c.tree = BuildGitTree(x.tree) /\ c.parents = s
    BY <1>3
  <1>5. \A r \in K : r[2] \in commits[g] /\ r[2].msg = r[1].msg
    BY <1>1, KnownIs
  <1>6. IsChangeset(x)
    BY DEF ReplayOK, Noted, Inv, GppOK
  <1>7. s \in Seq(commits[g])
    BY <1>2, <1>5, <1>6, CounterpartsAre DEF IsChangeset
  <1>8. IsCommit(c, g)
    BY <1>4, <1>7, BuiltTree DEF IsCommit
  <1>9. ASSUME Native(x), x.parents # <<>>
        PROVE  \E r \in K : x.parents = <<r[1]>> /\ s = <<r[2]>>
    <2>1. PICK y : x.parents = <<y>>
      BY <1>9 DEF Native
    <2>2. x.parents[1] = y
      BY <2>1
    <2>3. Resolved(m, y)
      BY <1>9, <2>2 DEF ReplayOK
    <2>4. HasPartner(K, y)
      BY <1>1, <2>3 DEF HasPartner, Known, Resolved
    <2>5. Counterparts(<<y>>, K) = <<Partner(K, y)>>
      BY <1>5, <2>4, CounterpartOfOne
    <2>6. PICK r \in K : r[1] = y /\ Partner(K, y) = r[2]
      BY <2>4, PartnerOf
    <2> QED BY <1>2, <2>1, <2>5, <2>6
  <1>10. ASSUME x.parents = <<>> PROVE s = <<>>
    BY <1>2, <1>5, <1>10, CounterpartOfOne
  <1>11. Replayed(c, x)
    <2> SUFFICES ASSUME x.git = {}, x.parents # <<>> PROVE c.parents # <<>> /\ c.parents[1].msg = x.parents[1].msg
      BY <1>4 DEF Replayed
    <2>1. Native(x)
      BY <1>6 DEF IsChangeset, ImportOf
    <2>2. PICK r \in K : x.parents = <<r[1]>> /\ s = <<r[2]>>
      BY <1>9, <2>1
    <2>3. s # <<>> /\ s[1] = r[2] /\ x.parents[1] = r[1]
      BY <2>2
    <2> QED BY <1>4, <1>5, <2>3
  <1>12. Native(x) => (x.parents = <<>> /\ c.parents = <<>>) \/ \E r \in K : x.parents = <<r[1]>> /\ c.parents = <<r[2]>>
    BY <1>4, <1>9, <1>10
  <1> QED BY <1>1, <1>2, <1>3, <1>8, <1>11, <1>12

(* New commits in a repository.                                            *)
LEMMA CommitsMore ==
  ASSUME GitOK, Grown, NEW g \in Repo, NEW c, IsCommit(c, g), commits' = [commits EXCEPT ![g] = @ \cup {c}]
  PROVE  /\ DOMAIN commits' = Repo /\ c \in commits'[g]
         /\ \A h \in Repo : IsFiniteSet(commits'[h]) /\ \A d \in commits'[h] : IsCommit(d, h)'
  <1>1. DOMAIN commits = Repo
    BY DEF GitOK
  <1>2. DOMAIN commits' = Repo /\ \A h \in Repo : commits'[h] = IF h = g THEN commits[g] \cup {c} ELSE commits[h]
    BY <1>1
  <1>3. ASSUME NEW h \in Repo PROVE IsFiniteSet(commits'[h])
    BY <1>2, <1>3, FS_AddElement DEF GitOK
  <1>4. ASSUME NEW h \in Repo, NEW d \in commits'[h] PROVE IsCommit(d, h)'
    <2>1. IsCommit(d, h)
      BY <1>2, <1>4 DEF GitOK
    <2> QED BY <1>4, <2>1, CommitKeeps
  <1> QED BY <1>2, <1>3, <1>4

LEMMA RefsSet ==
  ASSUME GitOK, Grown, NEW g \in Repo, NEW b, NEW c, c \in commits'[g],
         gitRefs' = [gitRefs EXCEPT ![g] = Put(@, {b}, c)]
  PROVE  DOMAIN gitRefs' = Repo /\ \A h \in Repo : \A n \in DOMAIN gitRefs'[h] : gitRefs'[h][n] \in commits'[h]
  <1>1. DOMAIN gitRefs = Repo
    BY DEF GitOK
  <1>2. DOMAIN gitRefs' = Repo /\ \A h \in Repo : gitRefs'[h] = IF h = g THEN Put(gitRefs[g], {b}, c) ELSE gitRefs[h]
    BY <1>1
  <1>3. ASSUME NEW h \in Repo, NEW n \in DOMAIN gitRefs'[h] PROVE gitRefs'[h][n] \in commits'[h]
    <2>1. CASE h = g
      <3>1. PICK f, z : f = gitRefs[g] /\ z = gitRefs'[h]
        OBVIOUS
      <3>2. z = Put(f, {b}, c)
        BY <1>2, <2>1, <3>1
      <3>3. n \in DOMAIN z
        BY <1>3, <3>1
      <3>4. n \in DOMAIN f \cup {b} /\ z[n] = IF n = b THEN c ELSE f[n]
        BY <3>2, <3>3 DEF Put
      <3> QED BY <2>1, <3>1, <3>4 DEF GitOK, Grown
    <2>2. CASE h # g
      BY <1>2, <1>3, <2>2 DEF GitOK, Grown
    <2> QED BY <2>1, <2>2
  <1> QED BY <1>2, <1>3

LEMMA PairFor ==
  ASSUME Inv, NEW x, Exported(x)
  PROVE  <<CommitFor(x), x>> \in cmap /\ CommitFor(x).msg = x.msg
  <1>1. PICK l \in cmap : l[2] = x /\ CommitFor(x) = l[1]
    BY DEF Exported, CommitFor
  <1>2. l = <<l[1], l[2]>> /\ l[1].msg = l[2].msg
    BY DEF Inv, MapOK, LinkFaithful
  <1> QED BY <1>1, <1>2

LEMMA ExportChangesetStep ==
  ASSUME Inv, NEW p \in Proc, UNCHANGED <<todo, deaths>>, ExportChangeset(p)
  PROVE  Inv'
  <1>1. At(p, "replay") /\ ~At(p, "idle") /\ UNCHANGED <<gitRefs, gppVars, cmap, todo, deaths, promoted, used>>
    BY DEF ExportChangeset, At
  <1>2. PICK g, m : g = proc[p].g /\ m = proc[p].mem
    OBVIOUS
  <1>3. /\ g \in Repo /\ g \in used /\ ReplayOK(m, commits[g])
        /\ m = [rest |-> m.rest, b |-> m.b, tip |-> m.tip, left |-> m.left, resolved |-> m.resolved]
    BY <1>1, <1>2 DEF Inv, ProcOK, BridgeOK
  <1>4. PICK x \in m.left :
          /\ x.parents = <<>> \/ x.parents[1] \notin m.left
          /\ IF Present(g, x)
             THEN /\ Goto(p, "replay", Replaying(m, m.left \ {x}, m.resolved \cup {<<x, CommitFor(x)>>}))
                  /\ UNCHANGED <<commits, made>>
             ELSE /\ commits' = [commits EXCEPT ![g] = @ \cup {Rebuilt(m, g, x)}]
                  /\ Goto(p, "relink", [rest |-> m.rest, b |-> m.b, tip |-> m.tip, left |-> m.left \ {x},
                               resolved |-> m.resolved \cup {<<x, Rebuilt(m, g, x)>>}, x |-> x, c |-> Rebuilt(m, g, x)])
    BY <1>2 DEF ExportChangeset
  <1>5. CASE Present(g, x)
    <2>1. PICK c : c = CommitFor(x)
      OBVIOUS
    <2>2. c \in commits[g] /\ c.msg = x.msg
      BY <1>5, <2>1, PairFor DEF Present
    <2>3. PICK L, R, k : /\ L = m.left \ {x} /\ R = m.resolved \cup {<<x, c>>}
                         /\ k = [rest |-> m.rest, b |-> m.b, tip |-> m.tip, left |-> L, resolved |-> R]
      OBVIOUS
    <2>4. Replaying(m, m.left \ {x}, m.resolved \cup {<<x, c>>}) = k
      BY <2>3 DEF Replaying
    <2>5. Goto(p, "replay", k) /\ commits' = commits
      BY <1>4, <1>5, <2>1, <2>4
    <2>6. Moves(p) /\ proc'[p].at = "replay" /\ proc'[p].mem = k /\ proc'[p].g = g
      BY <1>2, <2>5, GotoMoves DEF Inv
    <2>7. /\ k = [rest |-> k.rest, b |-> k.b, tip |-> k.tip, left |-> k.left, resolved |-> k.resolved]
          /\ k.rest = m.rest /\ k.tip = m.tip /\ k.left = L /\ k.resolved = R
      BY <2>3
    <2>8. Grown
      BY <1>1, <2>5 DEF Grown, gppVars
    <2>9. PICK C : C = commits[g] /\ C = commits'[g]
      BY <2>5
    <2>10. ReplayOK(k, C)
      BY <1>3, <2>2, <2>3, <2>7, <2>9, ReplayAdvances
    <2>11. ReplayOK(k, C)'
      BY <2>8, <2>10, ReplayKeeps
    <2>12. ReplayOK(k, commits[g])'
      BY <2>9, <2>11 DEF ReplayOK
    <2>13. BridgeOK(p)'
      BY <1>1, <1>3, <2>6, <2>7, <2>12 DEF BridgeOK, At
    <2> QED BY <1>1, <2>5, <2>6, <2>13, QuietStep DEF gitVars
  <1>6. CASE ~Present(g, x)
    <2>1. PICK c : c = Rebuilt(m, g, x)
      OBVIOUS
    <2>2. IsCommit(c, g) /\ Replayed(c, x)
      BY <1>3, <1>4, <2>1, RebuiltIs
    <2>3. PICK L, R, k : /\ L = m.left \ {x} /\ R = m.resolved \cup {<<x, c>>}
                         /\ k = [rest |-> m.rest, b |-> m.b, tip |-> m.tip, left |-> L, resolved |-> R, x |-> x, c |-> c]
      OBVIOUS
    <2>4. commits' = [commits EXCEPT ![g] = @ \cup {c}] /\ Goto(p, "relink", k)
      BY <1>4, <1>6, <2>1, <2>3
    <2>5. Moves(p) /\ proc'[p].at = "relink" /\ proc'[p].mem = k /\ proc'[p].g = g
      BY <1>2, <2>4, GotoMoves DEF Inv
    <2>6. k.rest = m.rest /\ k.tip = m.tip /\ k.left = L /\ k.resolved = R /\ k.x = x /\ k.c = c
      BY <2>3
    <2>7. DOMAIN commits = Repo /\ commits'[g] = commits[g] \cup {c} /\ \A h \in Repo : commits[h] \subseteq commits'[h]
      BY <1>3, <2>4 DEF Inv, GitOK
    <2>8. Grown
      BY <1>1, <2>7 DEF Grown, gppVars
    <2>9. PICK C, D : C = commits[g] /\ D = commits'[g] /\ C \subseteq D /\ c \in D
      BY <2>7
    <2>10. ReplayOK(k, D)
      BY <1>3, <2>2, <2>3, <2>6, <2>9, ReplayAdvances DEF Replayed
    <2>11. ReplayOK(k, D)'
      BY <2>8, <2>10, ReplayKeeps
    <2>12. ReplayOK(k, commits[g])'
      BY <2>9, <2>11 DEF ReplayOK
    <2>13. Noted(x)
      BY <1>3 DEF ReplayOK
    <2>14. Noted(x)'
      BY <2>8, <2>13, NotedKeeps
    <2>15. BridgeOK(p)'
      BY <1>1, <1>3, <2>2, <2>5, <2>6, <2>9, <2>12, <2>14 DEF BridgeOK, At
    <2>16. ProcOK' /\ GppOK' /\ MapOK'
      BY <1>1, <2>5, <2>8, <2>15, MovedKeeps, GppSame, MapSame DEF Inv
    <2>17. GitOK'
      <3>1. /\ DOMAIN commits' = Repo
            /\ \A h \in Repo : IsFiniteSet(commits'[h]) /\ \A d \in commits'[h] : IsCommit(d, h)'
        BY <1>3, <2>2, <2>4, <2>8, CommitsMore DEF Inv
      <3>2. \A h \in Repo : \A b \in DOMAIN gitRefs[h] : gitRefs[h][b] \in commits'[h]
        BY <2>8 DEF Inv, GitOK, Grown
      <3> QED BY <1>1, <3>1, <3>2 DEF Inv, GitOK
    <2> QED BY <1>1, <2>16, <2>17 DEF Inv, TodoOK
  <1> QED BY <1>5, <1>6

(* A changeset that is linked to nothing was promoted.                     *)
LEMMA UnlinkedIsNative ==
  ASSUME Inv, NEW x, Noted(x), ~Exported(x)
  PROVE  x.git = {} /\ Native(x) /\ IsChangeset(x)
  <1>1. x.git = {}
    <2> SUFFICES ASSUME NEW c, <<c, x>> \in cmap PROVE FALSE
      BY DEF Noted
    <2>1. <<c, x>>[2] = x
      OBVIOUS
    <2> QED BY <2>1 DEF Exported
  <1>2. IsChangeset(x)
    BY DEF Noted, Inv, GppOK
  <1> QED BY <1>1, <1>2 DEF IsChangeset, ImportOf

LEMMA ReplayedIsFaithful ==
  ASSUME NEW c, NEW x, Replayed(c, x), Native(x), x.tree = [n \in DOMAIN x.tree |-> x.tree[n]]
  PROVE  Faithful(c, x)
  <1>1. x.git = {} /\ \A n \in DOMAIN x.tree : x.tree[n] = [kind |-> "file", mode |-> "100644"]
    BY DEF Native
  <1>2. ConvertTree(BuildGitTree(x.tree)) = x.tree
    BY <1>1, ExportedTree
  <1> QED BY <1>1, <1>2 DEF Faithful, Replayed

LEMMA ExportLinkStep ==
  ASSUME Inv, NEW p \in Proc, UNCHANGED <<todo, deaths>>, ExportLink(p)
  PROVE  Inv'
  <1>1. At(p, "relink") /\ ~At(p, "idle") /\ UNCHANGED <<gitVars, gppVars, todo, deaths, promoted, used>>
    BY DEF ExportLink, At, history
  <1>2. PICK g, m : g = proc[p].g /\ m = proc[p].mem
    OBVIOUS
  <1>3. PICK c, x : c = m.c /\ x = m.x
    OBVIOUS
  <1>4. g \in Repo /\ g \in used /\ c \in commits[g] /\ Noted(x) /\ x \in objects /\ Replayed(c, x) /\ ReplayOK(m, commits[g])
    BY <1>1, <1>2, <1>3 DEF Inv, ProcOK, BridgeOK, Noted
  <1>5. PICK k : k = [rest |-> m.rest, b |-> m.b, tip |-> m.tip, left |-> m.left, resolved |-> m.resolved]
    OBVIOUS
  <1>6. Link(c, x) /\ Goto(p, "replay", k)
    BY <1>2, <1>3, <1>5 DEF ExportLink, Relink, Replaying
  <1>7. Moves(p) /\ proc'[p].at = "replay" /\ proc'[p].mem = k /\ proc'[p].g = g
    BY <1>2, <1>6, GotoMoves DEF Inv
  <1>8. /\ k = [rest |-> k.rest, b |-> k.b, tip |-> k.tip, left |-> k.left, resolved |-> k.resolved]
        /\ k.rest = m.rest /\ k.tip = m.tip /\ k.left = m.left /\ k.resolved = m.resolved
    BY <1>5
  <1>9. ~Exported(x) => Faithful(c, x) /\ x.git = {}
    BY <1>4, UnlinkedIsNative, ReplayedIsFaithful DEF IsChangeset
  <1>10. Grown
    BY <1>1, <1>6 DEF Grown, gppVars, gitVars, Link
  <1>11. PICK C : C = commits[g] /\ C = commits'[g]
    BY <1>1 DEF gitVars
  <1>12. ReplayOK(k, C)
    BY <1>4, <1>8, <1>11 DEF ReplayOK, Resolved
  <1>13. ReplayOK(k, C)'
    BY <1>10, <1>12, ReplayKeeps
  <1>14. ReplayOK(k, commits[g])'
    BY <1>11, <1>13 DEF ReplayOK
  <1>15. BridgeOK(p)'
    BY <1>1, <1>4, <1>7, <1>8, <1>14 DEF BridgeOK, At
  <1> QED BY <1>1, <1>4, <1>6, <1>7, <1>9, <1>15, LinkStep

LEMMA ResolvedTarget ==
  ASSUME NEW m, NEW C, ReplayOK(m, C), NEW x, Resolved(m, x)
  PROVE  InTarget(m, x) \in C /\ <<x, InTarget(m, x)>> \in m.resolved
  <1>1. PICK r \in m.resolved : r[1] = x /\ InTarget(m, x) = r[2]
    BY DEF Resolved, InTarget
  <1>2. r = <<r[1], r[2]>> /\ r[2] \in C
    BY DEF ReplayOK
  <1> QED BY <1>1, <1>2

LEMMA ExportRefStep ==
  ASSUME Inv, NEW p \in Proc, UNCHANGED <<todo, deaths>>, ExportRef(p)
  PROVE  Inv'
  <1>1. At(p, "replay") /\ ~At(p, "idle") /\ UNCHANGED <<commits, gppVars, cmap, todo, deaths, promoted, used>>
    BY DEF ExportRef, At, history
  <1>2. PICK g, m : g = proc[p].g /\ m = proc[p].mem
    OBVIOUS
  <1>3. PICK c, rest : c = InTarget(m, m.tip) /\ rest = m.rest
    OBVIOUS
  <1>4. /\ m.left = {} /\ gitRefs' = [gitRefs EXCEPT ![g] = Put(@, {m.b}, c)] /\ Goto(p, "chain", rest)
    BY <1>2, <1>3 DEF ExportRef
  <1>5. g \in Repo /\ g \in used /\ ReplayOK(m, commits[g])
    BY <1>1, <1>2 DEF Inv, ProcOK, BridgeOK
  <1>6. c \in commits[g] /\ \A b \in DOMAIN rest : Noted(rest[b])
    BY <1>3, <1>4, <1>5, ResolvedTarget DEF ReplayOK
  <1>8. Moves(p) /\ proc'[p].at = "chain" /\ proc'[p].mem = rest /\ proc'[p].g = g
    BY <1>2, <1>4, GotoMoves DEF Inv
  <1>9. Grown
    BY <1>1 DEF Grown, gppVars
  <1>7. GitOK'
    <2>1. DOMAIN gitRefs' = Repo /\ \A h \in Repo : \A n \in DOMAIN gitRefs'[h] : gitRefs'[h][n] \in commits'[h]
      BY <1>1, <1>4, <1>5, <1>6, <1>9, RefsSet DEF Inv
    <2> QED BY <1>1, <2>1 DEF Inv, GitOK, IsCommit
  <1>10. \A b \in DOMAIN rest : Noted(rest[b])'
    BY <1>6, <1>9, NotedKeeps
  <1>11. BridgeOK(p)'
    BY <1>1, <1>5, <1>8, <1>10 DEF BridgeOK, At
  <1>12. ProcOK' /\ GppOK' /\ MapOK'
    BY <1>1, <1>8, <1>9, <1>11, MovedKeeps, GppSame, MapSame DEF Inv
  <1> QED BY <1>1, <1>7, <1>12 DEF Inv, TodoOK

(* A round that ends, and the watch between two.                           *)
LEMMA RestSteps ==
  ASSUME Inv, NEW p \in Proc, UNCHANGED <<todo, deaths>>, ExportHead(p) \/ WatchHead(p) \/ WatchLook(p)
  PROVE  Inv'
  <1>1. ~At(p, "idle") /\ UNCHANGED <<gitVars, gppVars, cmap, todo, deaths, promoted, used>>
    BY DEF ExportHead, WatchHead, WatchLook, At, history
  <1>2. \/ Stop(p) \/ \E mem : Goto(p, "head", mem)
        \/ \E label, mem, seen, next : Move(p, label, mem, seen, next) /\ label \in {"sleep", "walk"}
    BY DEF ExportHead, WatchHead, WatchLook
  <1>3. Moves(p) /\ (proc'[p].at = "idle" \/ (proc'[p].at \in {"head", "sleep", "walk"} /\ proc'[p].g = proc[p].g))
    BY <1>2, GotoMoves, StopMoves, MoveMoves DEF Inv
  <1>4. BridgeOK(p)'
    BY <1>1, <1>3 DEF BridgeOK, At, Inv, ProcOK
  <1> QED BY <1>1, <1>3, <1>4, QuietStep

LEMMA BridgeStep ==
  ASSUME Inv, NEW p \in Proc, UNCHANGED <<todo, deaths>>, Bridge(p)
  PROVE  Inv'
  BY ImportWalkStep, ImportCommitStep, ImportLinkStep, PlainSteps, ReadBranchStep, WriteRefStep,
     ImportFilesStep, ExportListStep, ExportBranchStep, ExportChangesetStep, ExportLinkStep, ExportRefStep,
     RestSteps DEF Bridge

LEMMA DieStep ==
  ASSUME Inv, NEW p \in Proc, Die(p)
  PROVE  Inv'
  <1>1. Moves(p) /\ proc'[p].at = "idle"
    BY StopMoves DEF Die, Inv
  <1>2. BridgeOK(p)'
    BY <1>1 DEF BridgeOK, At
  <1>3. Grown
    BY DEF Die, Grown, gppVars, gitVars
  <1>4. ProcOK' /\ GppOK' /\ GitOK' /\ MapOK'
    BY <1>1, <1>2, <1>3, MovedKeeps, GppSame, GitSame, MapSame DEF Die, Inv
  <1>5. deaths' \in 0 .. MaxDeaths
    BY DEF Die, Inv
  <1> QED BY <1>4, <1>5 DEF Die, Inv, TodoOK

LEMMA StartStep ==
  ASSUME Inv, NEW d \in todo, NEW p \in Proc, Start(p, d)
  PROVE  Inv'
  <1>1. PICK l, r : /\ l = IF d.op = "export" THEN "list" ELSE "walk"
                    /\ r = [at |-> l, op |-> d.op, g |-> d.g, mem |-> None, seen |-> {}, next |-> {}]
    OBVIOUS
  <1>2. proc' = [proc EXCEPT ![p] = r] /\ proc = [q \in Proc |-> proc[q]]
    BY <1>1 DEF Start, Inv, ProcOK
  <1>3. Complete(r) /\ r.at \in {"list", "walk"} /\ r.g = d.g
    BY <1>1 DEF Complete
  <1>4. proc' = [q \in Proc |-> proc'[q]] /\ (\A q \in Proc \ {p} : proc'[q] = proc[q]) /\ proc'[p] = r
    BY <1>2
  <1>5. Moves(p)
    BY <1>3, <1>4 DEF Moves
  <1>6. d.g \in Repo /\ d.g \in used'
    BY DEF Start, Inv, TodoOK
  <1>7. BridgeOK(p)'
    BY <1>3, <1>4, <1>6 DEF BridgeOK, At
  <1>8. Grown
    BY DEF Start, Grown, gppVars, gitVars
  <1>9. ProcOK' /\ GppOK' /\ GitOK' /\ MapOK'
    BY <1>5, <1>7, <1>8, MovedKeeps, GppSame, GitSame, MapSame DEF Start, Inv
  <1> QED BY <1>9 DEF Start, Inv, TodoOK

LEMMA OneOf == ASSUME NEW C, NEW e \in C PROVE <<e>> \in Seq(C)
  OBVIOUS

LEMMA GitCommitStep ==
  ASSUME Inv, NEW d \in todo, GitCommit(d), todo' = todo \ {d}, UNCHANGED deaths
  PROVE  Inv'
  <1>1. d.op = "commit" /\ UNCHANGED <<gppVars, cmap, proc, promoted, used, deaths>>
    BY DEF GitCommit
  <1>2. PICK g, b : g = d.g /\ b = d.b
    OBVIOUS
  <1>3. g \in Repo /\ TreeOK(d.tree)
    BY <1>1, <1>2 DEF Inv, TodoOK
  <1>4. PICK s, t : /\ s = IF b \notin DOMAIN gitRefs[g] THEN <<>> ELSE <<gitRefs[g][b]>>
                    /\ t = IF b \notin DOMAIN gitRefs[g] THEN d.tree ELSE gitRefs[g][b].tree
    OBVIOUS
  <1>5. PICK c : c = [msg |-> d.msg, signed |-> d.signed, parents |-> s, tree |-> t]
    OBVIOUS
  <1>6. commits' = [commits EXCEPT ![g] = @ \cup {c}] /\ gitRefs' = [gitRefs EXCEPT ![g] = Put(@, {b}, c)]
    BY <1>2, <1>4, <1>5 DEF GitCommit
  <1>7. s \in Seq(commits[g]) /\ TreeOK(t)
    <2>1. CASE b \notin DOMAIN gitRefs[g]
      BY <1>3, <1>4, <2>1
    <2>2. CASE b \in DOMAIN gitRefs[g]
      <3>1. PICK e : e = gitRefs[g][b]
        OBVIOUS
      <3>2. e \in commits[g] /\ IsCommit(e, g)
        BY <1>3, <2>2, <3>1 DEF Inv, GitOK
      <3>3. s = <<e>> /\ t = e.tree
        BY <1>4, <2>2, <3>1
      <3>4. <<e>> \in Seq(commits[g])
        BY <3>2, OneOf
      <3> QED BY <3>2, <3>3, <3>4 DEF IsCommit
    <2> QED BY <2>1, <2>2
  <1>8. IsCommit(c, g)
    BY <1>5, <1>7 DEF IsCommit
  <1>9. \A h \in Repo : commits[h] \subseteq commits'[h]
    BY <1>6 DEF Inv, GitOK
  <1>10. Grown
    BY <1>1, <1>9 DEF Grown, gppVars
  <1>11. /\ DOMAIN commits' = Repo /\ c \in commits'[g]
         /\ \A h \in Repo : IsFiniteSet(commits'[h]) /\ \A e \in commits'[h] : IsCommit(e, h)'
    BY <1>3, <1>6, <1>8, <1>10, CommitsMore DEF Inv
  <1>12. DOMAIN gitRefs' = Repo /\ \A h \in Repo : \A n \in DOMAIN gitRefs'[h] : gitRefs'[h][n] \in commits'[h]
    BY <1>3, <1>6, <1>10, <1>11, RefsSet DEF Inv
  <1>13. GitOK'
    BY <1>11, <1>12 DEF GitOK
  <1>14. ProcOK' /\ GppOK' /\ MapOK'
    BY <1>1, <1>10, StillKeeps, GppSame, MapSame DEF Inv
  <1> QED BY <1>1, <1>13, <1>14 DEF Inv, TodoOK

LEMMA PromoteStep ==
  ASSUME Inv, NEW d \in todo, Promote(d), todo' = todo \ {d}, UNCHANGED deaths
  PROVE  Inv'
  <1>1. UNCHANGED <<gitVars, cmap, proc, used, deaths>> /\ wd' = Put(wd, {"own"}, "file")
    BY DEF Promote
  <1>2. PICK s, t : s = (IF Main \in DOMAIN refs THEN <<refs[Main]>> ELSE <<>>) /\ t = SnapshotTree(wd')
    OBVIOUS
  <1>3. PICK x : x = [msg |-> d.msg, tree |-> t, git |-> {}, parents |-> s]
    OBVIOUS
  <1>4. /\ objects' = objects \cup {x} /\ refs' = Put(refs, {Main}, x) /\ promoted' = promoted \cup {x}
    BY <1>2, <1>3 DEF Promote
  <1>5. Grown
    BY <1>1, <1>4 DEF Grown, gitVars
  <1>6. /\ x = [msg |-> x.msg, tree |-> x.tree, git |-> x.git, parents |-> x.parents]
        /\ x.tree = t /\ x.git = {} /\ x.parents = s
    BY <1>3
  <1>7. t = [n \in DOMAIN t |-> t[n]] /\ \A n \in DOMAIN t : t[n] = [kind |-> "file", mode |-> "100644"]
    BY <1>2 DEF SnapshotTree
  <1>8. /\ s \in Seq(objects') /\ \A i \in DOMAIN s : Noted(s[i])'
        /\ s = <<>> \/ \E y \in objects' : s = <<y>>
    <2>1. CASE Main \notin DOMAIN refs
      BY <1>2, <2>1
    <2>2. CASE Main \in DOMAIN refs
      <3>1. PICK y : y = refs[Main]
        OBVIOUS
      <3>2. Noted(y)
        BY <2>2, <3>1 DEF Inv, GppOK
      <3>3. Noted(y)' /\ y \in objects'
        BY <1>5, <3>2, NotedKeeps DEF Noted
      <3>4. s = <<y>>
        BY <1>2, <2>2, <3>1
      <3>5. s \in Seq(objects') /\ DOMAIN s = {1} /\ s[1] = y
        BY <3>3, <3>4
      <3> QED BY <3>3, <3>4, <3>5
    <2> QED BY <2>1, <2>2
  <1>9. Native(x)'
    BY <1>4, <1>6, <1>7, <1>8 DEF Native
  <1>10. IsChangeset(x)'
    BY <1>6, <1>7, <1>8, <1>9 DEF IsChangeset
  <1>11. Noted(x)'
    BY <1>4, <1>6 DEF Noted
  <1>12. IsFiniteSet(objects') /\ \A y \in objects' : IsChangeset(y)'
    BY <1>4, <1>5, <1>10, ChangesetKeeps, FS_AddElement DEF Inv, GppOK
  <1>13. \A n \in DOMAIN wd' : wd'[n] \in {"file", "link"}
    BY <1>1 DEF Put, Inv, GppOK
  <1>14. ASSUME NEW b \in DOMAIN refs' PROVE Noted(refs[b])'
    <2>1. PICK y : y = refs'[b]
      OBVIOUS
    <2>2. y = x \/ \E n \in DOMAIN refs : y = refs[n]
      BY <1>4, <1>14, <2>1 DEF Put
    <2>3. y = x \/ Noted(y)
      BY <2>2 DEF Inv, GppOK
    <2>4. Noted(y)'
      BY <1>5, <1>11, <2>3, NotedKeeps
    <2> QED BY <2>1, <2>4 DEF Noted
  <1>15. ProcOK' /\ GitOK' /\ MapOK'
    BY <1>1, <1>5, StillKeeps, GitSame, MapSame DEF Inv
  <1> QED BY <1>1, <1>12, <1>13, <1>14, <1>15 DEF Inv, TodoOK, GppOK

LEMMA NextInv == Inv /\ [Next]_vars => Inv'
  <1> SUFFICES ASSUME Inv, [Next]_vars PROVE Inv'
    OBVIOUS
  <1>1. CASE UNCHANGED vars
    <2>1. Grown
      BY <1>1 DEF vars, gitVars, gppVars, history, Grown
    <2>2. ProcOK' /\ GppOK' /\ GitOK' /\ MapOK'
      BY <1>1, <2>1, StillKeeps, GppSame, GitSame, MapSame DEF vars, Inv
    <2> QED BY <1>1, <2>2 DEF vars, Inv, TodoOK
  <1>2. ASSUME NEW d \in todo, User(d) PROVE Inv'
    BY <1>2, GitCommitStep, PromoteStep DEF User
  <1>3. ASSUME NEW d \in todo, NEW p \in Proc, Start(p, d) PROVE Inv'
    BY <1>3, StartStep
  <1>4. ASSUME NEW p \in Proc, Bridge(p), UNCHANGED <<todo, deaths>> PROVE Inv'
    BY <1>4, BridgeStep
  <1>5. ASSUME NEW p \in Proc, Die(p) PROVE Inv'
    BY <1>5, DieStep
  <1> QED BY <1>1, <1>2, <1>3, <1>4, <1>5 DEF Next

LEMMA InvHolds == Spec => []Inv
  BY InitInv, NextInv, PTL DEF Spec

LEMMA BridgeInvFollows == Inv => BridgeInv
  <1> SUFFICES ASSUME Inv PROVE BridgeInv
    OBVIOUS
  <1>1. ASSUME NEW g \in Repo PROVE Walked(g) \subseteq commits[g]
    <2>1. PICK S, C : S = {gitRefs[g][b] : b \in DOMAIN gitRefs[g]} /\ C = commits[g]
      OBVIOUS
    <2>2. S \subseteq C
      BY <1>1, <2>1 DEF Inv, GitOK
    <2>3. Ancestors(S, C) \subseteq C
      BY <1>1, <2>1, <2>2, ShutStores, AncestorsShut
    <2> QED BY <2>1, <2>3 DEF Walked
  <1>2. Ancestors({refs[b] : b \in DOMAIN refs} \cup {l[2] : l \in cmap}, objects) \subseteq objects
    <2>1. PICK S : S = {refs[b] : b \in DOMAIN refs} \cup {l[2] : l \in cmap}
      OBVIOUS
    <2>2. S \subseteq objects
      BY <2>1 DEF Inv, GppOK, MapOK, Noted
    <2>3. Ancestors(S, objects) \subseteq objects
      BY <2>2, ShutStores, AncestorsShut
    <2> QED BY <2>1, <2>3
  <1>3. ASSUME NEW l \in cmap PROVE \E g \in Repo : Ancestors({l[1]}, commits[g]) \subseteq commits[g]
    <2>1. PICK g \in Repo : l[1] \in commits[g]
      BY <1>3 DEF Inv, MapOK
    <2>2. PICK S, C : S = {l[1]} /\ C = commits[g]
      OBVIOUS
    <2>3. Ancestors(S, C) \subseteq C
      BY <2>1, <2>2, ShutStores, AncestorsShut
    <2> QED BY <2>2, <2>3
  <1> QED BY <1>1, <1>2, <1>3 DEF BridgeInv, TypeOK, Inv, GppOK, MapOK

THEOREM BridgeIsSound == Spec => []BridgeInv
  BY InvHolds, BridgeInvFollows, PTL

(* What an export makes is in no earlier commit, on no branch.             *)
LoneGrown(g) ==
  /\ cmap \subseteq cmap' /\ made \subseteq made'
  /\ \A c \in commits[g] : c \in made' => c \in made

LEMMA SettledKeeps ==
  ASSUME NEW g, LoneGrown(g), NEW c \in commits[g], Settled(c)
  PROVE  Settled(c)'
  BY DEF LoneGrown, Settled, Linked

LEMMA RemadeKeeps ==
  ASSUME cmap \subseteq cmap', NEW c, NEW x, Remade(c, x)
  PROVE  Remade(c, x)'
  BY DEF Remade

LEMMA OnlyRepo ==
  ASSUME Inv, NEW g, used \subseteq {g}, NEW p \in Proc, ~At(p, "idle")
  PROVE  proc[p].g = g
  BY DEF Inv, ProcOK, BridgeOK

LEMMA LoneBridgeKeeps ==
  ASSUME Inv, NEW g \in Repo, used \subseteq {g}, LoneGrown(g), NEW q \in Proc, proc'[q] = proc[q], LoneBridge(q)
  PROVE  LoneBridge(q)'
  <1>1. PICK m : m = proc[q].mem /\ m = proc'[q].mem
    OBVIOUS
  <1>2. \A label : At(q, label)' <=> At(q, label)
    BY DEF At
  <1>3. ASSUME At(q, "commit") \/ At(q, "link") PROVE \A c \in m.left : Settled(c)'
    <2>1. ~At(q, "idle")
      BY <1>3 DEF At
    <2>2. proc[q].g = g
      BY <2>1, OnlyRepo
    <2>3. m.left \subseteq commits[g]
      BY <1>1, <1>3, <2>2 DEF Inv, ProcOK, BridgeOK, WalkOK
    <2>4. \A c \in m.left : Settled(c)
      BY <1>1, <1>3 DEF LoneBridge
    <2> QED BY <2>3, <2>4, SettledKeeps
  <1>4. At(q, "replay") => \A r \in m.resolved : <<r[2], r[1]>> \in cmap'
    BY <1>1 DEF LoneBridge, LoneGrown
  <1>5. ASSUME At(q, "relink")
        PROVE  /\ m.x.git = {} /\ m.c \in made' /\ Remade(m.c, m.x)'
               /\ \A r \in m.resolved : <<r[2], r[1]>> \in cmap' \/ r = <<m.x, m.c>>
    <2>1. PICK c, x : c = m.c /\ x = m.x
      OBVIOUS
    <2>2. x.git = {} /\ c \in made /\ Remade(c, x) /\ \A r \in m.resolved : <<r[2], r[1]>> \in cmap \/ r = <<x, c>>
      BY <1>1, <1>5, <2>1 DEF LoneBridge
    <2>3. Remade(c, x)'
      BY <2>2, RemadeKeeps DEF LoneGrown
    <2>4. x.git = {} /\ c \in made' /\ \A r \in m.resolved : <<r[2], r[1]>> \in cmap' \/ r = <<x, c>>
      BY <2>2 DEF LoneGrown
    <2> QED BY <2>1, <2>3, <2>4 DEF Remade
  <1> QED BY <1>1, <1>2, <1>3, <1>4, <1>5 DEF LoneBridge

LEMMA MessagesShrink ==
  ASSUME UNCHANGED promoted, todo' \subseteq todo
  PROVE  PromoMsgs' \subseteq PromoMsgs
  BY DEF PromoMsgs

(* A step that makes no commit.                                            *)
LEMMA LoneStep ==
  ASSUME Inv, NEW g \in Repo, used \subseteq {g}, LoneInv(g), NEW p \in Proc, Moves(p), LoneBridge(p)',
         UNCHANGED <<commits, made, promoted>>, todo' \subseteq todo, cmap \subseteq cmap',
         \A b \in DOMAIN gitRefs'[g] : Settled(gitRefs[g][b])',
         \A x \in objects' : x.git \cap made = {},
         \A l \in cmap' : l \in cmap \/ (l[1] \in commits[g] /\ (l[2].git = {} => Remade(l[1], l[2])))
  PROVE  LoneInv(g)'
  <1>1. LoneGrown(g)
    BY DEF LoneGrown
  <1>2. (\A q \in Proc : LoneBridge(q))'
    <2>1. \A q \in Proc \ {p} : proc'[q] = proc[q]
      BY DEF Moves
    <2>2. \A q \in Proc : LoneBridge(q)
      BY DEF LoneInv
    <2>3. \A q \in Proc \ {p} : LoneBridge(q)'
      BY <1>1, <2>1, <2>2, LoneBridgeKeeps
    <2> QED BY <2>3
  <1>3. PromoMsgs' \subseteq PromoMsgs /\ UserMsgs' \subseteq UserMsgs
    <2>1. UserMsgs' \subseteq UserMsgs
      BY DEF UserMsgs, Theirs
    <2> QED BY <2>1, MessagesShrink
  <1>4. \A c \in commits'[g] : \A i \in DOMAIN c.parents : Settled(c.parents[i])'
    <2> SUFFICES ASSUME NEW c \in commits[g], NEW i \in DOMAIN c.parents PROVE Settled(c.parents[i])'
      OBVIOUS
    <2>1. PICK d : d = c.parents[i]
      OBVIOUS
    <2>2. d \in commits[g] /\ Settled(d)
      BY <2>1 DEF LoneInv, Inv, GitOK, IsCommit
    <2>3. Settled(d)'
      BY <1>1, <2>2, SettledKeeps
    <2> QED BY <2>1, <2>3
  <1>5. ASSUME NEW l \in cmap', l[2].git = {} PROVE Remade(l[1], l[2])'
    <2>1. PICK c, x : c = l[1] /\ x = l[2]
      OBVIOUS
    <2>2. Remade(c, x)
      BY <1>5, <2>1 DEF LoneInv
    <2>3. Remade(c, x)'
      BY <2>2, RemadeKeeps
    <2> QED BY <2>1, <2>3 DEF Remade
  <1>6. (\A l \in cmap : l[1] \in commits[g])' /\ (made \subseteq commits[g])'
    BY DEF LoneInv
  <1>7. (PromoMsgs \cap UserMsgs = {})' /\ (\A c \in made : \E x \in promoted : c.msg = x.msg)'
    BY <1>3 DEF LoneInv
  <1>8. (\A b \in DOMAIN gitRefs[g] : Settled(gitRefs[g][b]))'
    OBVIOUS
  <1>9. (\A x \in objects : x.git \cap made = {})'
    OBVIOUS
  <1> QED BY <1>2, <1>4, <1>5, <1>6, <1>7, <1>8, <1>9 DEF LoneInv

(* A bridge comes to a label at which nothing is asked of it.              *)
LEMMA LoneQuiet ==
  ASSUME Inv, NEW g \in Repo, used \subseteq {g}, LoneInv(g), NEW p \in Proc, Moves(p),
         proc'[p].at \notin {"commit", "link", "replay", "relink"},
         UNCHANGED <<gitVars, objects, cmap, made, promoted>>, todo' \subseteq todo
  PROVE  LoneInv(g)'
  <1>1. LoneBridge(p)'
    BY DEF LoneBridge, At
  <1>2. \A b \in DOMAIN gitRefs'[g] : Settled(gitRefs[g][b])'
    BY DEF LoneInv, Settled, Linked, gitVars
  <1>3. UNCHANGED commits /\ \A x \in objects' : x.git \cap made = {}
    BY DEF LoneInv, gitVars
  <1> QED BY <1>1, <1>2, <1>3, LoneStep

LEMMA LoneQuietSteps ==
  ASSUME Inv, NEW g \in Repo, used \subseteq {g}, LoneInv(g), NEW p \in Proc, UNCHANGED <<todo, deaths>>,
         \/ ImportBranches(p) \/ ReadBranch(p) \/ WriteRef(p) \/ ImportHead(p) \/ ImportFiles(p) \/ ImportFilled(p)
         \/ ExportList(p) \/ ExportHead(p) \/ WatchHead(p) \/ WatchLook(p)
  PROVE  LoneInv(g)'
  <1>1. UNCHANGED <<gitVars, objects, cmap, made, promoted, todo>>
    BY DEF ImportBranches, ReadBranch, WriteRef, ImportHead, ImportFiles, ImportFilled,
           ExportList, ExportHead, WatchHead, WatchLook, gppVars, history
  <1>2. \/ Stop(p)
        \/ \E label, mem : Goto(p, label, mem) /\ label \in {"branch", "ref", "files", "list", "filling", "chain", "head"}
        \/ \E label, mem, seen, next : Move(p, label, mem, seen, next) /\ label \in {"sleep", "walk"}
    BY DEF ImportBranches, ReadBranch, WriteRef, ImportHead, ImportFiles, ImportFilled,
           ExportList, ExportHead, WatchHead, WatchLook
  <1>3. Moves(p) /\ proc'[p].at \in {"idle", "branch", "ref", "files", "list", "filling", "chain", "head", "sleep", "walk"}
    BY <1>2, GotoMoves, StopMoves, MoveMoves DEF Inv
  <1> QED BY <1>1, <1>3, LoneQuiet

LEMMA LoneWalk ==
  ASSUME Inv, NEW g \in Repo, used \subseteq {g}, LoneInv(g), NEW p \in Proc, UNCHANGED <<todo, deaths>>, ImportWalk(p)
  PROVE  LoneInv(g)'
  <1>1. At(p, "walk") /\ ~At(p, "idle") /\ UNCHANGED <<gitVars, gppVars, cmap, todo, deaths, promoted, made>>
    BY DEF ImportWalk, At, history
  <1>2. proc[p].g = g
    BY <1>1, OnlyRepo
  <1>3. PICK W : W = Walked(g)
    OBVIOUS
  <1>4. Goto(p, "commit", [left |-> W])
    BY <1>2, <1>3 DEF ImportWalk
  <1>5. Moves(p) /\ proc'[p].at = "commit" /\ proc'[p].mem = [left |-> W]
    BY <1>4, GotoMoves DEF Inv
  <1>6. \A c \in W : c \in commits[g] /\ Settled(c)
    <2> DEFINE S == {gitRefs[g][b] : b \in DOMAIN gitRefs[g]}
               T == {c \in commits[g] : Settled(c)}
    <2>1. S \subseteq T
      BY DEF LoneInv, Inv, GitOK
    <2>2. \A c \in T \cap commits[g] : \A i \in DOMAIN c.parents : c.parents[i] \in T
      BY DEF LoneInv, Inv, GitOK, IsCommit
    <2>3. W = Ancestors(S, commits[g])
      BY <1>3 DEF Walked
    <2>4. \A c \in T : c \in commits[g] /\ Settled(c)
      OBVIOUS
    <2> HIDE DEF S, T
    <2>5. Ancestors(S, commits[g]) \subseteq T
      BY <2>1, <2>2, ShutStores, AncestorsWithin
    <2> QED BY <2>3, <2>4, <2>5
  <1>7. \A c \in W : Settled(c)'
    BY <1>1, <1>6 DEF Settled, Linked
  <1>8. LoneBridge(p)'
    BY <1>5, <1>7 DEF LoneBridge, At
  <1>9. \A b \in DOMAIN gitRefs'[g] : Settled(gitRefs[g][b])'
    BY <1>1 DEF LoneInv, Settled, Linked, gitVars
  <1>10. UNCHANGED commits /\ \A x \in objects' : x.git \cap made = {}
    BY <1>1 DEF LoneInv, gitVars, gppVars
  <1> QED BY <1>1, <1>5, <1>8, <1>9, <1>10, LoneStep

LEMMA LoneImportCommit ==
  ASSUME Inv, NEW g \in Repo, used \subseteq {g}, LoneInv(g), NEW p \in Proc, UNCHANGED <<todo, deaths>>, ImportCommit(p)
  PROVE  LoneInv(g)'
  <1>1. At(p, "commit") /\ ~At(p, "idle") /\ UNCHANGED <<gitVars, refs, wd, cmap, todo, deaths, promoted, made>>
    BY DEF ImportCommit, At, history
  <1>2. PICK m : m = proc[p].mem
    OBVIOUS
  <1>3. PICK c \in Due(m.left) :
          IF Linked(c) THEN objects' = objects /\ Goto(p, "commit", [m EXCEPT !.left = @ \ {c}])
          ELSE /\ objects' = objects \cup {Imported(c)}
               /\ Goto(p, "link", [left |-> m.left \ {c}, c |-> c, x |-> Imported(c)])
    BY <1>2 DEF ImportCommit
  <1>4. m = [left |-> m.left] /\ (\A d \in m.left : Settled(d)) /\ c \in m.left
    BY <1>1, <1>2, <1>3 DEF Inv, ProcOK, BridgeOK, LoneInv, LoneBridge, Due
  <1>5. \A b \in DOMAIN gitRefs'[g] : Settled(gitRefs[g][b])'
    BY <1>1 DEF LoneInv, Settled, Linked, gitVars
  <1>6. PICK W : W = m.left \ {c}
    OBVIOUS
  <1>7. \A d \in W : Settled(d)'
    BY <1>1, <1>4, <1>6 DEF Settled, Linked
  <1>8. \A x \in objects : x.git \cap made = {}
    BY DEF LoneInv
  <1>9. CASE Linked(c)
    <2>1. Goto(p, "commit", [left |-> W]) /\ objects' = objects
      <3>1. [m EXCEPT !.left = @ \ {c}] = [left |-> m.left \ {c}]
        BY <1>4
      <3> QED BY <1>3, <1>6, <1>9, <3>1
    <2>2. Moves(p) /\ proc'[p].at = "commit" /\ proc'[p].mem = [left |-> W]
      BY <2>1, GotoMoves DEF Inv
    <2>3. LoneBridge(p)'
      BY <1>7, <2>2 DEF LoneBridge, At
    <2> QED BY <1>1, <1>5, <1>8, <2>1, <2>2, <2>3, LoneStep DEF gitVars
  <1>10. CASE ~Linked(c)
    <2>1. PICK x : x = Imported(c)
      OBVIOUS
    <2>2. x.git = {c} /\ c \notin made
      BY <1>4, <1>10, <2>1 DEF Imported, Settled
    <2>3. PICK mem : mem = [left |-> W, c |-> c, x |-> x]
      OBVIOUS
    <2>4. objects' = objects \cup {x} /\ Goto(p, "link", mem)
      BY <1>3, <1>6, <1>10, <2>1, <2>3
    <2>5. Moves(p) /\ proc'[p].at = "link" /\ proc'[p].mem = mem /\ mem.left = W
      BY <2>3, <2>4, GotoMoves DEF Inv
    <2>6. LoneBridge(p)'
      BY <1>7, <2>5 DEF LoneBridge, At
    <2>7. \A y \in objects' : y.git \cap made = {}
      BY <1>8, <2>2, <2>4
    <2> QED BY <1>1, <1>5, <2>5, <2>6, <2>7, LoneStep DEF gitVars
  <1> QED BY <1>9, <1>10

LEMMA LoneImportLink ==
  ASSUME Inv, NEW g \in Repo, used \subseteq {g}, LoneInv(g), NEW p \in Proc, UNCHANGED <<todo, deaths>>, ImportLink(p)
  PROVE  LoneInv(g)'
  <1>1. At(p, "link") /\ ~At(p, "idle") /\ UNCHANGED <<gitVars, gppVars, todo, deaths, promoted, made>>
    BY DEF ImportLink, At, history
  <1>2. PICK m : m = proc[p].mem
    OBVIOUS
  <1>3. PICK c, x, W : c = m.c /\ x = m.x /\ W = m.left
    OBVIOUS
  <1>4. proc[p].g = g
    BY <1>1, OnlyRepo
  <1>5. c \in commits[g] /\ x.git = {c} /\ \A d \in W : Settled(d)
    BY <1>1, <1>2, <1>3, <1>4 DEF Inv, ProcOK, BridgeOK, LoneInv, LoneBridge
  <1>6. Link(c, x) /\ Goto(p, "commit", [left |-> W])
    BY <1>2, <1>3 DEF ImportLink
  <1>7. cmap \subseteq cmap' /\ \A l \in cmap' : l \in cmap \/ l = <<c, x>>
    BY <1>6 DEF Link
  <1>8. \A l \in cmap' : l \in cmap \/ (l[1] \in commits[g] /\ (l[2].git = {} => Remade(l[1], l[2])))
    BY <1>5, <1>7
  <1>9. \A d : Settled(d) => Settled(d)'
    BY <1>1, <1>7 DEF Settled, Linked
  <1>10. Moves(p) /\ proc'[p].at = "commit" /\ proc'[p].mem = [left |-> W]
    BY <1>6, GotoMoves DEF Inv
  <1>11. LoneBridge(p)'
    BY <1>5, <1>9, <1>10 DEF LoneBridge, At
  <1>12. \A b \in DOMAIN gitRefs'[g] : Settled(gitRefs[g][b])'
    <2> SUFFICES ASSUME NEW b \in DOMAIN gitRefs[g] PROVE Settled(gitRefs[g][b])'
      BY <1>1 DEF gitVars
    <2>1. PICK d : d = gitRefs[g][b] /\ d = gitRefs'[g][b]
      BY <1>1 DEF gitVars
    <2>2. Settled(d)
      BY <2>1 DEF LoneInv
    <2>3. Settled(d)'
      BY <1>9, <2>2
    <2> QED BY <2>1, <2>3 DEF Settled, Linked
  <1>13. UNCHANGED commits /\ \A y \in objects' : y.git \cap made = {}
    BY <1>1 DEF LoneInv, gitVars, gppVars
  <1> QED BY <1>1, <1>7, <1>8, <1>10, <1>11, <1>12, <1>13, LoneStep

LEMMA LoneExportBranch ==
  ASSUME Inv, NEW g \in Repo, used \subseteq {g}, LoneInv(g), NEW p \in Proc, UNCHANGED <<todo, deaths>>, ExportBranch(p)
  PROVE  LoneInv(g)'
  <1>1. UNCHANGED <<gitVars, gppVars, cmap, todo, deaths, promoted, made>>
    BY DEF ExportBranch, history
  <1>2. PICK mem : Goto(p, "replay", mem) /\ mem.resolved = {}
    <2>1. PICK m : m = proc[p].mem
      OBVIOUS
    <2>2. PICK b : Goto(p, "replay", [rest |-> [n \in DOMAIN m \ {b} |-> m[n]], b |-> b, tip |-> m[b],
                                      left |-> FirstParents(m[b]), resolved |-> {}])
      BY <2>1 DEF ExportBranch
    <2>3. PICK mem : mem = [rest |-> [n \in DOMAIN m \ {b} |-> m[n]], b |-> b, tip |-> m[b],
                            left |-> FirstParents(m[b]), resolved |-> {}]
      OBVIOUS
    <2>4. mem.resolved = {}
      BY <2>3
    <2> QED BY <2>2, <2>3, <2>4
  <1>3. Moves(p) /\ proc'[p].at = "replay" /\ proc'[p].mem = mem
    BY <1>2, GotoMoves DEF Inv
  <1>4. LoneBridge(p)'
    BY <1>2, <1>3 DEF LoneBridge, At
  <1>5. \A b \in DOMAIN gitRefs'[g] : Settled(gitRefs[g][b])'
    BY <1>1 DEF LoneInv, Settled, Linked, gitVars
  <1>6. UNCHANGED commits /\ \A x \in objects' : x.git \cap made = {}
    BY <1>1 DEF LoneInv, gitVars, gppVars
  <1> QED BY <1>1, <1>3, <1>4, <1>5, <1>6, LoneStep

LEMMA LoneExportRef ==
  ASSUME Inv, NEW g \in Repo, used \subseteq {g}, LoneInv(g), NEW p \in Proc, UNCHANGED <<todo, deaths>>, ExportRef(p)
  PROVE  LoneInv(g)'
  <1>1. At(p, "replay") /\ ~At(p, "idle") /\ UNCHANGED <<commits, gppVars, cmap, todo, deaths, promoted, made>>
    BY DEF ExportRef, At, history
  <1>2. PICK m : m = proc[p].mem
    OBVIOUS
  <1>3. proc[p].g = g
    BY <1>1, OnlyRepo
  <1>4. PICK c, rest, b : c = InTarget(m, m.tip) /\ rest = m.rest /\ b = m.b
    OBVIOUS
  <1>5. /\ m.left = {} /\ gitRefs' = [gitRefs EXCEPT ![g] = Put(@, {b}, c)] /\ Goto(p, "chain", rest)
    BY <1>2, <1>3, <1>4 DEF ExportRef
  <1>6. ReplayOK(m, commits[g]) /\ \A r \in m.resolved : <<r[2], r[1]>> \in cmap
    BY <1>1, <1>2, <1>3 DEF Inv, ProcOK, BridgeOK, LoneInv, LoneBridge
  <1>7. <<c, m.tip>> \in cmap
    <2>1. <<m.tip, c>> \in m.resolved
      BY <1>4, <1>5, <1>6, ResolvedTarget DEF ReplayOK
    <2>2. <<m.tip, c>>[1] = m.tip /\ <<m.tip, c>>[2] = c
      OBVIOUS
    <2> QED BY <1>6, <2>1, <2>2
  <1>8. Linked(c)
    <2>1. <<c, m.tip>>[1] = c
      OBVIOUS
    <2> QED BY <1>7, <2>1 DEF Linked
  <1>9. \A n \in DOMAIN gitRefs'[g] : Settled(gitRefs[g][n])'
    <2> SUFFICES ASSUME NEW n \in DOMAIN gitRefs'[g] PROVE Settled(gitRefs[g][n])'
      OBVIOUS
    <2>1. PICK f, z, d : f = gitRefs[g] /\ z = gitRefs'[g] /\ d = z[n]
      OBVIOUS
    <2>2. z = Put(f, {b}, c)
      BY <1>5, <2>1 DEF Inv, GitOK
    <2>3. n \in DOMAIN z
      BY <2>1
    <2>4. n \in DOMAIN f \cup {b} /\ z[n] = IF n = b THEN c ELSE f[n]
      BY <2>2, <2>3 DEF Put
    <2>5. \A e \in DOMAIN f : Settled(f[e])
      BY <2>1 DEF LoneInv
    <2>6. Settled(d)
      BY <1>8, <2>1, <2>4, <2>5 DEF Settled
    <2>7. Settled(d)'
      BY <1>1, <2>6 DEF Settled, Linked
    <2> QED BY <2>1, <2>7 DEF Settled, Linked
  <1>10. Moves(p) /\ proc'[p].at = "chain"
    BY <1>5, GotoMoves DEF Inv
  <1>11. LoneBridge(p)'
    BY <1>10 DEF LoneBridge, At
  <1>12. \A x \in objects' : x.git \cap made = {}
    BY <1>1 DEF LoneInv, gppVars
  <1> QED BY <1>1, <1>9, <1>10, <1>11, <1>12, LoneStep

(* Two commits that were made of one changeset are one, and two changesets *)
(* of which one commit was made.                                           *)
LEMMA OneCommit ==
  ASSUME Inv, NEW c, NEW d, NEW x, Remade(c, x), Remade(d, x), Native(x)
  PROVE  c = d
  <1>1. c.parents = d.parents
    <2>1. CASE x.parents = <<>>
      BY <2>1 DEF Remade
    <2>2. ASSUME NEW y, x.parents = <<y>> PROVE c.parents = d.parents
      <3>1. PICK e : c.parents = <<e>> /\ <<e, y>> \in cmap
        BY <2>2 DEF Remade
      <3>2. PICK f : d.parents = <<f>> /\ <<f, y>> \in cmap
        BY <2>2 DEF Remade
      <3>3. <<e, y>>[2] = <<f, y>>[2]
        OBVIOUS
      <3>4. <<e, y>> = <<f, y>>
        BY <3>1, <3>2, <3>3 DEF Inv, MapOK
      <3> QED BY <3>1, <3>2, <3>4
    <2> QED BY <2>1, <2>2 DEF Native
  <1>2. /\ c = [msg |-> x.msg, tree |-> BuildGitTree(x.tree), signed |-> FALSE, parents |-> c.parents]
        /\ d = [msg |-> x.msg, tree |-> BuildGitTree(x.tree), signed |-> FALSE, parents |-> d.parents]
    BY DEF Remade
  <1>3. PICK s : s = c.parents /\ s = d.parents
    BY <1>1
  <1> QED BY <1>2, <1>3

LEMMA OneChangeset ==
  ASSUME Inv, NEW c, NEW x, NEW z, Remade(c, x), Remade(c, z), Native(x), Native(z), IsChangeset(x), IsChangeset(z)
  PROVE  x = z
  <1>1. x.parents = z.parents
    <2>1. CASE x.parents = <<>>
      <3>1. c.parents = <<>>
        BY <2>1 DEF Remade
      <3>2. ASSUME NEW y, z.parents = <<y>> PROVE FALSE
        <4>1. PICK e : c.parents = <<e>>
          BY <3>2 DEF Remade
        <4> QED BY <3>1, <4>1
      <3> QED BY <2>1, <3>2 DEF Native
    <2>2. ASSUME NEW y, x.parents = <<y>> PROVE x.parents = z.parents
      <3>1. PICK e : c.parents = <<e>> /\ <<e, y>> \in cmap
        BY <2>2 DEF Remade
      <3>2. z.parents # <<>>
        BY <3>1 DEF Remade
      <3>3. PICK w : z.parents = <<w>>
        BY <3>2 DEF Native
      <3>4. PICK f : c.parents = <<f>> /\ <<f, w>> \in cmap
        BY <3>3 DEF Remade
      <3>5. e = f
        BY <3>1, <3>4
      <3>6. <<e, y>>[1] = <<f, w>>[1]
        BY <3>5
      <3>7. <<e, y>> = <<f, w>>
        BY <3>1, <3>4, <3>6 DEF Inv, MapOK
      <3> QED BY <2>2, <3>3, <3>7
    <2> QED BY <2>1, <2>2 DEF Native
  <1>2. x.msg = c.msg /\ z.msg = c.msg /\ BuildGitTree(x.tree) = c.tree /\ BuildGitTree(z.tree) = c.tree
    <2>1. PICK t, u, s : t = BuildGitTree(x.tree) /\ u = BuildGitTree(z.tree) /\ s = c.parents
      OBVIOUS
    <2>2. c = [msg |-> x.msg, tree |-> t, signed |-> FALSE, parents |-> s]
      BY <2>1 DEF Remade
    <2>3. c = [msg |-> z.msg, tree |-> u, signed |-> FALSE, parents |-> s]
      BY <2>1 DEF Remade
    <2>4. c.msg = x.msg /\ c.tree = t
      BY <2>2
    <2>5. c.msg = z.msg /\ c.tree = u
      BY <2>3
    <2> QED BY <2>1, <2>4, <2>5
  <1>3. x.tree = z.tree
    <2>1. ConvertTree(BuildGitTree(x.tree)) = x.tree
      BY ExportedTree DEF IsChangeset, Native
    <2>2. ConvertTree(BuildGitTree(z.tree)) = z.tree
      BY ExportedTree DEF IsChangeset, Native
    <2> QED BY <1>2, <2>1, <2>2
  <1>4. /\ x = [msg |-> x.msg, tree |-> x.tree, git |-> x.git, parents |-> x.parents]
        /\ z = [msg |-> z.msg, tree |-> z.tree, git |-> z.git, parents |-> z.parents]
        /\ x.git = {} /\ z.git = {}
    BY DEF IsChangeset, Native
  <1>5. PICK a, t, s : a = x.msg /\ a = z.msg /\ t = x.tree /\ t = z.tree /\ s = x.parents /\ s = z.parents
    BY <1>1, <1>2, <1>3
  <1> QED BY <1>4, <1>5

LEMMA LoneExportLink ==
  ASSUME Inv, NEW g \in Repo, used \subseteq {g}, LoneInv(g), NEW p \in Proc, UNCHANGED <<todo, deaths>>, ExportLink(p)
  PROVE  LoneInv(g)'
  <1>1. At(p, "relink") /\ ~At(p, "idle") /\ UNCHANGED <<gitVars, gppVars, todo, deaths, promoted, made>>
    BY DEF ExportLink, At, history
  <1>2. PICK m : m = proc[p].mem
    OBVIOUS
  <1>3. proc[p].g = g
    BY <1>1, OnlyRepo
  <1>4. PICK c, x, R : c = m.c /\ x = m.x /\ R = m.resolved
    OBVIOUS
  <1>5. /\ c \in commits[g] /\ x \in objects
        /\ x.git = {} /\ c \in made /\ Remade(c, x) /\ \A r \in R : <<r[2], r[1]>> \in cmap \/ r = <<x, c>>
    BY <1>1, <1>2, <1>3, <1>4 DEF Inv, ProcOK, BridgeOK, LoneInv, LoneBridge, Noted
  <1>6. PICK k : k = Replaying(m, m.left, R)
    OBVIOUS
  <1>7. Link(c, x) /\ Goto(p, "replay", k)
    BY <1>2, <1>4, <1>6 DEF ExportLink, Relink
  <1>8. k.resolved = R
    BY <1>6 DEF Replaying
  <1>9. IsChangeset(x) /\ Native(x)
    BY <1>5 DEF Inv, GppOK, IsChangeset, ImportOf
  <1>10. <<c, x>> \in cmap'
    <2>1. ASSUME Exported(x) PROVE <<c, x>> \in cmap
      <3>1. PICK e : <<e, x>> \in cmap
        BY <2>1, PairFor
      <3>2. <<e, x>>[1] = e /\ <<e, x>>[2] = x
        OBVIOUS
      <3>3. Remade(e, x)
        BY <1>5, <3>1, <3>2 DEF LoneInv
      <3>4. c = e
        BY <1>5, <1>9, <3>3, OneCommit
      <3> QED BY <3>1, <3>4
    <2>2. ASSUME Linked(c) PROVE <<c, x>> \in cmap
      <3>1. PICK z : z = GppFor(c)
        OBVIOUS
      <3>2. <<c, z>> \in cmap /\ Noted(z)
        BY <2>2, <3>1, LinkedPair
      <3>3. <<c, z>>[1] = c /\ <<c, z>>[2] = z
        OBVIOUS
      <3>4. z.git = {}
        <4> SUFFICES ASSUME NEW e, z.git = {e}, <<e, z>> \in cmap PROVE FALSE
          BY <3>2 DEF Noted
        <4>1. <<e, z>>[2] = z
          OBVIOUS
        <4>2. <<e, z>> = <<c, z>>
          BY <3>2, <3>3, <4>1 DEF Inv, MapOK
        <4>3. e = c /\ z \in objects
          BY <3>2, <4>2 DEF Noted
        <4> QED BY <1>5, <4>3 DEF LoneInv
      <3>5. IsChangeset(z) /\ Native(z)
        BY <3>2, <3>4 DEF Noted, Inv, GppOK, IsChangeset, ImportOf
      <3>6. Remade(c, z)
        BY <3>2, <3>3, <3>4 DEF LoneInv
      <3>7. x = z
        BY <1>5, <1>9, <3>5, <3>6, OneChangeset
      <3> QED BY <3>2, <3>7
    <2> QED BY <1>7, <2>1, <2>2 DEF Link
  <1>11. cmap \subseteq cmap' /\ \A l \in cmap' : l \in cmap \/ l = <<c, x>>
    BY <1>7 DEF Link
  <1>12. \A l \in cmap' : l \in cmap \/ (l[1] \in commits[g] /\ (l[2].git = {} => Remade(l[1], l[2])))
    BY <1>5, <1>11
  <1>13. Moves(p) /\ proc'[p].at = "replay" /\ proc'[p].mem = k
    BY <1>7, GotoMoves DEF Inv
  <1>14. \A r \in R : <<r[2], r[1]>> \in cmap'
    <2> SUFFICES ASSUME NEW r \in R, r = <<x, c>> PROVE <<r[2], r[1]>> \in cmap'
      BY <1>5, <1>11
    <2>1. r[2] = c /\ r[1] = x
      OBVIOUS
    <2> QED BY <1>10, <2>1
  <1>15. LoneBridge(p)'
    BY <1>8, <1>13, <1>14 DEF LoneBridge, At
  <1>16. \A b \in DOMAIN gitRefs'[g] : Settled(gitRefs[g][b])'
    <2> SUFFICES ASSUME NEW b \in DOMAIN gitRefs[g] PROVE Settled(gitRefs[g][b])'
      BY <1>1 DEF gitVars
    <2>1. PICK d : d = gitRefs[g][b] /\ d = gitRefs'[g][b]
      BY <1>1 DEF gitVars
    <2>2. Settled(d)
      BY <2>1 DEF LoneInv
    <2>3. Settled(d)'
      BY <1>1, <1>11, <2>2 DEF Settled, Linked
    <2> QED BY <2>1, <2>3 DEF Settled, Linked
  <1>17. UNCHANGED commits /\ \A y \in objects' : y.git \cap made = {}
    BY <1>1 DEF LoneInv, gitVars, gppVars
  <1> QED BY <1>1, <1>11, <1>12, <1>13, <1>15, <1>16, <1>17, LoneStep

(* A commit with the message of a promotion is in no repository but as one *)
(* that an export made.                                                    *)
LEMMA NotTheirs ==
  ASSUME Inv, NEW g \in Repo, LoneInv(g), NEW c, c.msg \in PromoMsgs, NEW h \in Repo, c \in commits[h]
  PROVE  c \in made
  <1> SUFFICES ASSUME c \notin made PROVE FALSE
    OBVIOUS
  <1>1. c \in Theirs
    BY DEF Theirs
  <1>2. c.msg \in UserMsgs
    BY <1>1 DEF UserMsgs
  <1> QED BY <1>2 DEF LoneInv

LEMMA LoneReplayed ==
  ASSUME Inv, NEW g \in Repo, used \subseteq {g}, LoneInv(g), NEW p \in Proc, UNCHANGED <<todo, deaths>>,
         ExportChangeset(p), NEW c, c.msg \in PromoMsgs, \E x \in promoted : c.msg = x.msg,
         commits' = [commits EXCEPT ![g] = @ \cup {c}], made' = made \cup {c},
         \A i \in DOMAIN c.parents : Linked(c.parents[i]),
         Moves(p), LoneBridge(p)'
  PROVE  LoneInv(g)'
  <1>1. UNCHANGED <<gitRefs, gppVars, cmap, todo, deaths, promoted>>
    BY DEF ExportChangeset
  <1>2. commits'[g] = commits[g] \cup {c} /\ \A h \in Repo : commits'[h] = IF h = g THEN commits[g] \cup {c} ELSE commits[h]
    BY DEF Inv, GitOK
  <1>3. \A h \in Repo : c \in commits[h] => c \in made
    BY NotTheirs
  <1>4. LoneGrown(g)
    BY <1>1, <1>3 DEF LoneGrown
  <1>5. (\A q \in Proc : LoneBridge(q))'
    <2>1. \A q \in Proc \ {p} : proc'[q] = proc[q]
      BY DEF Moves
    <2>2. \A q \in Proc : LoneBridge(q)
      BY DEF LoneInv
    <2>3. \A q \in Proc \ {p} : LoneBridge(q)'
      BY <1>4, <2>1, <2>2, LoneBridgeKeeps
    <2> QED BY <2>3
  <1>6. (\A b \in DOMAIN gitRefs[g] : Settled(gitRefs[g][b]))'
    <2> SUFFICES ASSUME NEW b \in DOMAIN gitRefs[g] PROVE Settled(gitRefs[g][b])'
      BY <1>1
    <2>1. PICK d : d = gitRefs[g][b] /\ d = gitRefs'[g][b]
      BY <1>1
    <2>2. Settled(d) /\ d \in commits[g]
      BY <2>1 DEF LoneInv, Inv, GitOK
    <2>3. Settled(d)'
      BY <1>4, <2>2, SettledKeeps
    <2> QED BY <2>1, <2>3 DEF Settled, Linked
  <1>7. (\A e \in commits[g] : \A i \in DOMAIN e.parents : Settled(e.parents[i]))'
    <2> SUFFICES ASSUME NEW e \in commits'[g], NEW i \in DOMAIN e.parents PROVE Settled(e.parents[i])'
      OBVIOUS
    <2>1. PICK d : d = e.parents[i]
      OBVIOUS
    <2>2. CASE e = c
      <3>1. Linked(d)
        BY <2>1, <2>2
      <3>2. Linked(d)'
        BY <1>1, <3>1 DEF Linked
      <3> QED BY <2>1, <3>2 DEF Settled
    <2>3. CASE e \in commits[g]
      <3>1. Settled(d) /\ d \in commits[g]
        BY <2>1, <2>3 DEF LoneInv, Inv, GitOK, IsCommit
      <3>2. Settled(d)'
        BY <1>4, <3>1, SettledKeeps
      <3> QED BY <2>1, <3>2
    <2> QED BY <1>2, <2>2, <2>3
  <1>8. (\A y \in objects : y.git \cap made = {})'
    <2> SUFFICES ASSUME NEW y \in objects, c \in y.git PROVE FALSE
      BY <1>1 DEF LoneInv, gppVars
    <2>1. PICK h \in Repo : \E d \in commits[h] : ImportOf(d, y)
      BY DEF Inv, GppOK, IsChangeset, Native
    <2>2. c \in commits[h]
      BY <2>1 DEF ImportOf
    <2>3. c \in made
      BY <1>3, <2>2
    <2> QED BY <2>3 DEF LoneInv
  <1>9. (\A l \in cmap : l[2].git = {} => Remade(l[1], l[2]))'
    BY <1>1 DEF LoneInv, Remade
  <1>10. (PromoMsgs \cap UserMsgs = {})' /\ (\A e \in made : \E x \in promoted : e.msg = x.msg)'
    <2>1. UserMsgs' \subseteq UserMsgs
      <3>1. \A h \in Repo : commits'[h] \ made' \subseteq commits[h] \ made
        BY <1>2
      <3>2. Theirs' \subseteq Theirs
        BY <3>1 DEF Theirs
      <3> QED BY <1>1, <3>2 DEF UserMsgs
    <2>2. PromoMsgs' \subseteq PromoMsgs
      BY <1>1, MessagesShrink
    <2> QED BY <1>1, <2>1, <2>2 DEF LoneInv
  <1>11. (\A l \in cmap : l[1] \in commits[g])' /\ (made \subseteq commits[g])'
    BY <1>1, <1>2 DEF LoneInv
  <1> QED BY <1>5, <1>6, <1>7, <1>8, <1>9, <1>10, <1>11 DEF LoneInv

LEMMA LoneExportChangeset ==
  ASSUME Inv, NEW g \in Repo, used \subseteq {g}, LoneInv(g), NEW p \in Proc, UNCHANGED <<todo, deaths>>, ExportChangeset(p)
  PROVE  LoneInv(g)'
  <1>1. At(p, "replay") /\ ~At(p, "idle") /\ UNCHANGED <<gitRefs, gppVars, cmap, todo, deaths, promoted, used>>
    BY DEF ExportChangeset, At
  <1>2. PICK m : m = proc[p].mem
    OBVIOUS
  <1>3. proc[p].g = g
    BY <1>1, OnlyRepo
  <1>4. ReplayOK(m, commits[g]) /\ \A r \in m.resolved : <<r[2], r[1]>> \in cmap
    BY <1>1, <1>2, <1>3 DEF Inv, ProcOK, BridgeOK, LoneInv, LoneBridge
  <1>5. PICK x \in m.left :
          /\ x.parents = <<>> \/ x.parents[1] \notin m.left
          /\ IF Present(g, x)
             THEN /\ Goto(p, "replay", Replaying(m, m.left \ {x}, m.resolved \cup {<<x, CommitFor(x)>>}))
                  /\ UNCHANGED <<commits, made>>
             ELSE /\ commits' = [commits EXCEPT ![g] = @ \cup {Rebuilt(m, g, x)}]
                  /\ made' = made \cup {Rebuilt(m, g, x)}
                  /\ Goto(p, "relink", [rest |-> m.rest, b |-> m.b, tip |-> m.tip, left |-> m.left \ {x},
                               resolved |-> m.resolved \cup {<<x, Rebuilt(m, g, x)>>}, x |-> x, c |-> Rebuilt(m, g, x)])
    BY <1>2, <1>3 DEF ExportChangeset
  <1>6. CASE Present(g, x)
    <2>1. PICK c, R : c = CommitFor(x) /\ R = m.resolved \cup {<<x, c>>}
      OBVIOUS
    <2>2. <<c, x>> \in cmap
      BY <1>6, <2>1, PairFor DEF Present
    <2>3. PICK k : k = Replaying(m, m.left \ {x}, R)
      OBVIOUS
    <2>4. Goto(p, "replay", k) /\ UNCHANGED <<commits, made>> /\ k.resolved = R
      BY <1>5, <1>6, <2>1, <2>3 DEF Replaying
    <2>5. Moves(p) /\ proc'[p].at = "replay" /\ proc'[p].mem = k
      BY <2>4, GotoMoves DEF Inv
    <2>6. \A r \in R : <<r[2], r[1]>> \in cmap'
      <3>1. <<x, c>>[1] = x /\ <<x, c>>[2] = c
        OBVIOUS
      <3> QED BY <1>1, <1>4, <2>1, <2>2, <3>1
    <2>7. LoneBridge(p)'
      BY <2>4, <2>5, <2>6 DEF LoneBridge, At
    <2>8. \A b \in DOMAIN gitRefs'[g] : Settled(gitRefs[g][b])'
      BY <1>1, <2>4 DEF LoneInv, Settled, Linked
    <2>9. \A y \in objects' : y.git \cap made = {}
      BY <1>1 DEF LoneInv, gppVars
    <2> QED BY <1>1, <2>4, <2>5, <2>7, <2>8, <2>9, LoneStep
  <1>7. CASE ~Present(g, x)
    <2>1. Noted(x)
      BY <1>4 DEF ReplayOK
    <2>2. ~Exported(x)
      <3> SUFFICES ASSUME Exported(x) PROVE FALSE
        OBVIOUS
      <3>1. PICK d : d = CommitFor(x)
        OBVIOUS
      <3>2. <<d, x>> \in cmap /\ <<d, x>>[1] = d
        BY <3>1, PairFor
      <3>3. d \in commits[g]
        BY <3>2 DEF LoneInv
      <3> QED BY <1>7, <3>1, <3>3 DEF Present
    <2>3. x.git = {} /\ Native(x)
      BY <2>1, <2>2, UnlinkedIsNative
    <2>4. PICK c, s : c = Rebuilt(m, g, x) /\ s = Counterparts(x.parents, Known(m, g))
      OBVIOUS
    <2>5. /\ c = [msg |-> x.msg, tree |-> BuildGitTree(x.tree), signed |-> FALSE, parents |-> s]
          /\ \/ x.parents = <<>> /\ c.parents = <<>>
             \/ \E r \in Known(m, g) : x.parents = <<r[1]>> /\ c.parents = <<r[2]>>
      BY <1>4, <1>5, <2>3, <2>4, RebuiltIs
    <2>6. c.msg = x.msg /\ c.parents = s
      BY <2>5
    <2>7. \A r \in Known(m, g) : <<r[2], r[1]>> \in cmap
      BY <1>4, KnownIs
    <2>8. Remade(c, x)
      <3>1. c = [msg |-> x.msg, tree |-> BuildGitTree(x.tree), signed |-> FALSE, parents |-> c.parents]
        BY <2>5, <2>6
      <3>2. x.parents = <<>> => c.parents = <<>>
        BY <2>5
      <3>3. ASSUME NEW y, x.parents = <<y>> PROVE \E d : c.parents = <<d>> /\ <<d, y>> \in cmap
        <4>1. PICK r \in Known(m, g) : x.parents = <<r[1]>> /\ c.parents = <<r[2]>>
          BY <2>5, <3>3
        <4>2. y = r[1]
          BY <3>3, <4>1
        <4> QED BY <2>7, <4>1, <4>2
      <3> QED BY <3>1, <3>2, <3>3 DEF Remade
    <2>9. \A i \in DOMAIN c.parents : Linked(c.parents[i])
      <3>1. CASE c.parents = <<>>
        BY <3>1
      <3>2. ASSUME NEW r \in Known(m, g), c.parents = <<r[2]>> PROVE \A i \in DOMAIN c.parents : Linked(c.parents[i])
        <4>1. PICK d, y : d = r[2] /\ y = r[1]
          OBVIOUS
        <4>2. <<d, y>> \in cmap /\ <<d, y>>[1] = d
          BY <2>7, <4>1
        <4>3. Linked(d)
          BY <4>2 DEF Linked
        <4>4. DOMAIN c.parents = {1} /\ c.parents[1] = d
          BY <3>2, <4>1
        <4> QED BY <4>3, <4>4
      <3> QED BY <2>5, <3>1, <3>2
    <2>10. c.msg \in PromoMsgs /\ \E y \in promoted : c.msg = y.msg
      BY <2>3, <2>6 DEF Native, PromoMsgs
    <2>11. PICK k, R : /\ R = m.resolved \cup {<<x, c>>}
                       /\ k = [rest |-> m.rest, b |-> m.b, tip |-> m.tip, left |-> m.left \ {x}, resolved |-> R, x |-> x, c |-> c]
      OBVIOUS
    <2>12. commits' = [commits EXCEPT ![g] = @ \cup {c}] /\ made' = made \cup {c} /\ Goto(p, "relink", k)
      BY <1>5, <1>7, <2>4, <2>11
    <2>13. k.resolved = R /\ k.x = x /\ k.c = c
      BY <2>11
    <2>14. Moves(p) /\ proc'[p].at = "relink" /\ proc'[p].mem = k
      BY <2>12, GotoMoves DEF Inv
    <2>15. Remade(c, x)'
      BY <1>1, <2>8, RemadeKeeps
    <2>16. \A r \in R : <<r[2], r[1]>> \in cmap' \/ r = <<x, c>>
      BY <1>1, <1>4, <2>11
    <2>17. LoneBridge(p)'
      BY <2>3, <2>12, <2>13, <2>14, <2>15, <2>16 DEF LoneBridge, At
    <2> QED BY <2>9, <2>10, <2>12, <2>14, <2>17, LoneReplayed
  <1> QED BY <1>6, <1>7

LEMMA LoneBridgeStep ==
  ASSUME Inv, NEW g \in Repo, used \subseteq {g}, LoneInv(g), NEW p \in Proc, UNCHANGED <<todo, deaths>>, Bridge(p)
  PROVE  LoneInv(g)'
  BY LoneQuietSteps, LoneWalk, LoneImportCommit, LoneImportLink, LoneExportBranch, LoneExportChangeset,
     LoneExportLink, LoneExportRef DEF Bridge

LEMMA LoneStartDie ==
  ASSUME Inv, NEW g \in Repo, used \subseteq {g}, LoneInv(g), NEW p \in Proc,
         Die(p) \/ \E d \in todo : Start(p, d)
  PROVE  LoneInv(g)'
  <1>1. UNCHANGED <<gitVars, objects, cmap, made, promoted>> /\ todo' \subseteq todo
    BY DEF Die, Start, gppVars
  <1>2. Moves(p) /\ proc'[p].at \in {"idle", "list", "walk"}
    <2>1. CASE Die(p)
      BY <2>1, StopMoves DEF Die, Inv
    <2>2. ASSUME NEW d \in todo, Start(p, d) PROVE Moves(p) /\ proc'[p].at \in {"list", "walk"}
      <3>1. PICK l, r : /\ l = IF d.op = "export" THEN "list" ELSE "walk"
                        /\ r = [at |-> l, op |-> d.op, g |-> d.g, mem |-> None, seen |-> {}, next |-> {}]
        OBVIOUS
      <3>2. proc' = [proc EXCEPT ![p] = r] /\ proc = [q \in Proc |-> proc[q]]
        BY <2>2, <3>1 DEF Start, Inv, ProcOK
      <3>3. Complete(r) /\ r.at \in {"list", "walk"}
        BY <3>1 DEF Complete
      <3>4. proc' = [q \in Proc |-> proc'[q]] /\ (\A q \in Proc \ {p} : proc'[q] = proc[q]) /\ proc'[p] = r
        BY <3>2
      <3> QED BY <3>3, <3>4 DEF Moves
    <2> QED BY <2>1, <2>2
  <1> QED BY <1>1, <1>2, LoneQuiet

LEMMA LoneStill ==
  ASSUME Inv, NEW g \in Repo, used \subseteq {g}, LoneInv(g), LoneGrown(g), proc' = proc
  PROVE  (\A q \in Proc : LoneBridge(q))'
  BY LoneBridgeKeeps DEF LoneInv

LEMMA LoneGitCommit ==
  ASSUME Inv, NEW g \in Repo, used \subseteq {g}, LoneInv(g), NEW d \in todo, GitCommit(d), todo' = todo \ {d}
  PROVE  LoneInv(g)'
  <1>1. d.op = "commit" /\ UNCHANGED <<gppVars, cmap, proc, promoted, made>>
    BY DEF GitCommit
  <1>2. PICK h, b : h = d.g /\ b = d.b
    OBVIOUS
  <1>3. h \in Repo
    BY <1>1, <1>2 DEF Inv, TodoOK
  <1>4. PICK s, t : /\ s = IF b \notin DOMAIN gitRefs[h] THEN <<>> ELSE <<gitRefs[h][b]>>
                    /\ t = IF b \notin DOMAIN gitRefs[h] THEN d.tree ELSE gitRefs[h][b].tree
    OBVIOUS
  <1>5. PICK c : c = [msg |-> d.msg, signed |-> d.signed, parents |-> s, tree |-> t]
    OBVIOUS
  <1>6. commits' = [commits EXCEPT ![h] = @ \cup {c}] /\ gitRefs' = [gitRefs EXCEPT ![h] = Put(@, {b}, c)]
    BY <1>2, <1>4, <1>5 DEF GitCommit
  <1>7. \A k \in Repo : commits'[k] = IF k = h THEN commits[h] \cup {c} ELSE commits[k]
    BY <1>6 DEF Inv, GitOK
  <1>8. c.msg = d.msg /\ c.parents = s
    BY <1>5
  <1>9. c.msg \in UserMsgs
    BY <1>1, <1>8 DEF UserMsgs
  <1>10. c \notin made
    <2> SUFFICES ASSUME c \in made PROVE FALSE
      OBVIOUS
    <2>1. c.msg \in PromoMsgs
      BY DEF LoneInv, PromoMsgs
    <2> QED BY <1>9, <2>1 DEF LoneInv
  <1>11. LoneGrown(g)
    BY <1>1 DEF LoneGrown
  <1>12. (\A q \in Proc : LoneBridge(q))'
    BY <1>1, <1>11, LoneStill
  <1>13. (\A x : Settled(x) => Settled(x)')
    BY <1>1 DEF Settled, Linked
  <1>14. (\A e \in commits[g] : \A i \in DOMAIN e.parents : Settled(e.parents[i]))'
    <2> SUFFICES ASSUME NEW e \in commits'[g], NEW i \in DOMAIN e.parents PROVE Settled(e.parents[i])'
      OBVIOUS
    <2>1. PICK f : f = e.parents[i]
      OBVIOUS
    <2>2. CASE e \in commits[g]
      <3>1. Settled(f)
        BY <2>1, <2>2 DEF LoneInv
      <3>2. Settled(f)'
        BY <1>13, <3>1
      <3> QED BY <2>1, <3>2
    <2>3. CASE e = c /\ g = h
      <3>1. b \in DOMAIN gitRefs[g] /\ s = <<gitRefs[g][b]>>
        BY <1>4, <1>8, <2>3
      <3>2. PICK y : y = gitRefs[g][b]
        OBVIOUS
      <3>3. s = <<y>> /\ Settled(y)
        BY <3>1, <3>2 DEF LoneInv
      <3>4. f = y
        BY <1>8, <2>1, <2>3, <3>3
      <3>5. Settled(f)'
        BY <1>13, <3>3, <3>4
      <3> QED BY <2>1, <3>5
    <2> QED BY <1>7, <2>2, <2>3
  <1>15. (\A n \in DOMAIN gitRefs[g] : Settled(gitRefs[g][n]))'
    <2> SUFFICES ASSUME NEW n \in DOMAIN gitRefs'[g] PROVE Settled(gitRefs[g][n])'
      OBVIOUS
    <2>1. PICK f, z, e : f = gitRefs[g] /\ z = gitRefs'[g] /\ e = z[n]
      OBVIOUS
    <2>2. z = IF g = h THEN Put(f, {b}, c) ELSE f
      BY <1>6, <2>1 DEF Inv, GitOK
    <2>3. n \in DOMAIN z
      BY <2>1
    <2>4. e = c \/ (n \in DOMAIN f /\ e = f[n])
      BY <2>1, <2>2, <2>3 DEF Put
    <2>5. \A k \in DOMAIN f : Settled(f[k])
      BY <2>1 DEF LoneInv
    <2>6. Settled(e)
      BY <1>10, <2>4, <2>5 DEF Settled
    <2>7. Settled(e)'
      BY <1>13, <2>6
    <2> QED BY <2>1, <2>7 DEF Settled, Linked
  <1>16. (PromoMsgs \cap UserMsgs = {})' /\ (\A e \in made : \E x \in promoted : e.msg = x.msg)'
    <2>1. PromoMsgs' \subseteq PromoMsgs
      BY <1>1, MessagesShrink
    <2>2. Theirs' \subseteq Theirs \cup {c}
      BY <1>1, <1>7 DEF Theirs
    <2>3. UserMsgs' \subseteq UserMsgs
      <3>1. {e.msg : e \in Theirs'} \subseteq {e.msg : e \in Theirs} \cup {c.msg}
        BY <2>2
      <3> QED BY <1>9, <3>1 DEF UserMsgs
    <2> QED BY <1>1, <2>1, <2>3 DEF LoneInv
  <1>17. (\A x \in objects : x.git \cap made = {})' /\ (\A l \in cmap : l[2].git = {} => Remade(l[1], l[2]))'
    BY <1>1 DEF LoneInv, gppVars, Remade
  <1>18. (\A l \in cmap : l[1] \in commits[g])' /\ (made \subseteq commits[g])'
    BY <1>1, <1>7 DEF LoneInv
  <1> QED BY <1>12, <1>14, <1>15, <1>16, <1>17, <1>18 DEF LoneInv

LEMMA LonePromote ==
  ASSUME Inv, NEW g \in Repo, used \subseteq {g}, LoneInv(g), NEW d \in todo, Promote(d), todo' = todo \ {d}
  PROVE  LoneInv(g)'
  <1>1. d.op = "promote" /\ UNCHANGED <<gitVars, cmap, proc, made>>
    BY DEF Promote
  <1>2. PICK x : objects' = objects \cup {x} /\ promoted' = promoted \cup {x} /\ x.git = {} /\ x.msg = d.msg
    <2>1. PICK s, t : s = (IF Main \in DOMAIN refs THEN <<refs[Main]>> ELSE <<>>) /\ t = SnapshotTree(wd')
      OBVIOUS
    <2>2. PICK x : x = [msg |-> d.msg, tree |-> t, git |-> {}, parents |-> s]
      OBVIOUS
    <2>3. objects' = objects \cup {x} /\ promoted' = promoted \cup {x}
      BY <2>1, <2>2 DEF Promote
    <2>4. x.git = {} /\ x.msg = d.msg
      BY <2>2
    <2> QED BY <2>3, <2>4
  <1>3. LoneGrown(g)
    BY <1>1 DEF LoneGrown
  <1>4. (\A q \in Proc : LoneBridge(q))'
    BY <1>1, <1>3, LoneStill
  <1>5. (PromoMsgs \cap UserMsgs = {})' /\ (\A e \in made : \E y \in promoted : e.msg = y.msg)'
    <2>1. x.msg \in PromoMsgs
      BY <1>1, <1>2 DEF PromoMsgs
    <2>2. PromoMsgs' \subseteq PromoMsgs
      BY <1>2, <2>1 DEF PromoMsgs
    <2>3. UserMsgs' \subseteq UserMsgs
      BY <1>1 DEF UserMsgs, Theirs, gitVars
    <2> QED BY <1>1, <1>2, <2>2, <2>3 DEF LoneInv
  <1>6. (\A y \in objects : y.git \cap made = {})'
    BY <1>1, <1>2 DEF LoneInv
  <1>7. (\A l \in cmap : l[1] \in commits[g])' /\ (made \subseteq commits[g])' /\ (\A l \in cmap : l[2].git = {} => Remade(l[1], l[2]))'
    BY <1>1 DEF LoneInv, gitVars, Remade
  <1>8. (\A e \in commits[g] : \A i \in DOMAIN e.parents : Settled(e.parents[i]))'
        /\ (\A n \in DOMAIN gitRefs[g] : Settled(gitRefs[g][n]))'
    BY <1>1 DEF LoneInv, gitVars, Settled, Linked
  <1> QED BY <1>4, <1>5, <1>6, <1>7, <1>8 DEF LoneInv

LEMMA LoneNext ==
  ASSUME Inv, NEW g \in Repo, used \subseteq {g}, LoneInv(g), [Next]_vars
  PROVE  LoneInv(g)'
  <1>1. CASE UNCHANGED vars
    <2>1. LoneGrown(g) /\ proc' = proc
      BY <1>1 DEF LoneGrown, vars, history
    <2>2. (\A q \in Proc : LoneBridge(q))'
      BY <2>1, LoneStill
    <2>3. UNCHANGED <<commits, gitRefs, objects, cmap, made, promoted, todo>>
      BY <1>1 DEF vars, gitVars, gppVars, history
    <2>4. (PromoMsgs \cap UserMsgs = {})' /\ (\A e \in made : \E y \in promoted : e.msg = y.msg)'
      BY <2>3 DEF LoneInv, PromoMsgs, UserMsgs, Theirs
    <2>5. (\A y \in objects : y.git \cap made = {})'
      BY <2>3 DEF LoneInv
    <2>6. (\A l \in cmap : l[1] \in commits[g])' /\ (made \subseteq commits[g])'
          /\ (\A l \in cmap : l[2].git = {} => Remade(l[1], l[2]))'
      BY <2>3 DEF LoneInv, Remade
    <2>7. (\A e \in commits[g] : \A i \in DOMAIN e.parents : Settled(e.parents[i]))'
          /\ (\A n \in DOMAIN gitRefs[g] : Settled(gitRefs[g][n]))'
      BY <2>3 DEF LoneInv, Settled, Linked
    <2> QED BY <2>2, <2>4, <2>5, <2>6, <2>7 DEF LoneInv
  <1>2. ASSUME NEW d \in todo, User(d) PROVE LoneInv(g)'
    BY <1>2, LoneGitCommit, LonePromote DEF User
  <1>3. ASSUME NEW d \in todo, NEW p \in Proc, Start(p, d) PROVE LoneInv(g)'
    BY <1>3, LoneStartDie
  <1>4. ASSUME NEW p \in Proc, Bridge(p), UNCHANGED <<todo, deaths>> PROVE LoneInv(g)'
    BY <1>4, LoneBridgeStep
  <1>5. ASSUME NEW p \in Proc, Die(p) PROVE LoneInv(g)'
    BY <1>5, LoneStartDie
  <1> QED BY <1>1, <1>2, <1>3, <1>4, <1>5 DEF Next

LEMMA InitOnly == Init => OnlyInv
  <1> SUFFICES ASSUME Init PROVE OnlyInv
    OBVIOUS
  <1>1. PICK s \in Scenarios : commits = s.commits /\ gitRefs = s.gitRefs /\ wd = s.wd /\ todo = s.todo
    BY DEF Init
  <1>2. ScenarioOK(s)
    BY <1>1
  <1>3. objects = {} /\ cmap = {} /\ made = {} /\ promoted = {} /\ used = {} /\ proc = [p \in Proc |-> Idle]
    BY DEF Init
  <1>4. PromoMsgs \cap UserMsgs = {}
    <2>1. \A u \in PromoMsgs : \E d \in todo : d.op = "promote" /\ u = d.msg
      BY <1>3 DEF PromoMsgs
    <2>2. \A u \in UserMsgs : (\E d \in todo : d.op = "commit" /\ u = d.msg) \/ \E g \in Repo : \E c \in commits[g] : u = c.msg
      BY DEF UserMsgs, Theirs
    <2>3. ASSUME NEW u \in PromoMsgs, u \in UserMsgs PROVE FALSE
      <3>1. PICK d \in todo : d.op = "promote" /\ u = d.msg
        BY <2>1
      <3>2. ~ \E e \in todo : e.op = "commit" /\ u = e.msg
        BY <1>1, <1>2, <3>1 DEF ScenarioOK
      <3>3. ~ \E g \in Repo : \E c \in commits[g] : u = c.msg
        BY <1>1, <1>2, <3>1 DEF ScenarioOK
      <3> QED BY <2>2, <2>3, <3>2, <3>3
    <2> QED BY <2>3
  <1>5. \A p \in Proc : LoneBridge(p)
    BY <1>3 DEF LoneBridge, At, Idle
  <1>6. \A g \in Repo : LoneInv(g)
    BY <1>3, <1>4, <1>5 DEF LoneInv, Settled
  <1> QED BY <1>3, <1>6, FS_EmptySet DEF OnlyInv

LEMMA NextOnly == Inv /\ OnlyInv /\ [Next]_vars => OnlyInv'
  <1> SUFFICES ASSUME Inv, OnlyInv, [Next]_vars PROVE OnlyInv'
    OBVIOUS
  <1>1. used' = used \/ \E h \in Repo : used' = used \cup {h}
    <2>1. CASE UNCHANGED vars
      BY <2>1 DEF vars, history
    <2>2. ASSUME NEW d \in todo, User(d) PROVE used' = used
      BY <2>2 DEF User, GitCommit, Promote
    <2>3. ASSUME NEW d \in todo, NEW p \in Proc, Start(p, d) PROVE \E h \in Repo : used' = used \cup {h}
      BY <2>3 DEF Start, Inv, TodoOK
    <2>4. ASSUME NEW p \in Proc, Bridge(p) PROVE used' = used
      BY <2>4 DEF Bridge, ImportWalk, ImportCommit, ImportLink, ImportBranches, ReadBranch, WriteRef, ImportHead, ImportFiles,
             ImportFilled, ExportList, ExportBranch, ExportChangeset, ExportLink, ExportRef, ExportHead,
             WatchHead, WatchLook, history
    <2>5. ASSUME NEW p \in Proc, Die(p) PROVE used' = used
      BY <2>5 DEF Die
    <2> QED BY <2>1, <2>2, <2>3, <2>4, <2>5 DEF Next
  <1>2. IsFiniteSet(used') /\ used' \subseteq Repo /\ used \subseteq used'
    BY <1>1, FS_AddElement DEF OnlyInv
  <1>3. ASSUME NEW g \in Repo, used' \subseteq {g} PROVE LoneInv(g)'
    BY <1>2, <1>3, LoneNext DEF OnlyInv
  <1> QED BY <1>2, <1>3 DEF OnlyInv

(* A commit is imported as one changeset.                                  *)
LEMMA OneImport ==
  ASSUME Inv, NEW x \in objects, NEW y \in objects, x.git # {}, x.git = y.git
  PROVE  x = y
  <1>1. IsChangeset(x) /\ IsChangeset(y)
    BY DEF Inv, GppOK
  <1>2. PICK g \in Repo : \E c \in commits[g] : ImportOf(c, x)
    BY <1>1 DEF IsChangeset, Native
  <1>3. PICK c \in commits[g] : ImportOf(c, x)
    BY <1>2
  <1>4. ImportOf(c, y)
    BY <1>1, <1>3 DEF IsChangeset, Native, ImportOf
  <1>5. PICK s, t, q : s = x.parents /\ t = y.parents /\ q = c.parents
    OBVIOUS
  <1>6. q \in Seq(commits[g]) /\ s \in Seq(objects) /\ t \in Seq(objects) /\ Len(s) = Len(q) /\ Len(t) = Len(q)
    BY <1>1, <1>3, <1>4, <1>5 DEF Inv, GitOK, IsCommit, IsChangeset, ImportOf
  <1>7. ASSUME NEW i \in DOMAIN q PROVE s[i] = t[i]
    <2>1. PICK a, b, d : a = s[i] /\ b = t[i] /\ d = q[i]
      OBVIOUS
    <2>2. <<d, a>> \in cmap /\ <<d, b>> \in cmap /\ <<d, a>>[1] = <<d, b>>[1]
      BY <1>3, <1>4, <1>5, <1>7, <2>1 DEF ImportOf
    <2>3. <<d, a>> = <<d, b>>
      BY <2>2 DEF Inv, MapOK
    <2> QED BY <2>1, <2>3
  <1>8. s = t
    BY <1>6, <1>7
  <1>9. PICK m, r, h : m = x.msg /\ m = y.msg /\ r = x.tree /\ r = y.tree /\ h = x.git /\ h = y.git
    BY <1>3, <1>4 DEF ImportOf
  <1> QED BY <1>1, <1>5, <1>8, <1>9 DEF IsChangeset

LEMMA ImportsOnceFollows == Inv /\ OnlyInv => ImportsOnce
  <1> SUFFICES ASSUME Inv, OnlyInv PROVE ImportsOnce
    OBVIOUS
  <1>1. ASSUME Cardinality(used) = 1 PROVE \A x \in objects : x.git \cap made = {}
    <2>1. PICK g : used = {g}
      BY <1>1, FS_Singleton DEF OnlyInv
    <2>2. g \in Repo /\ LoneInv(g)
      BY <2>1 DEF OnlyInv
    <2> QED BY <2>2 DEF LoneInv
  <1> QED BY <1>1, OneImport DEF ImportsOnce

THEOREM NothingComesTwice == Spec => []ImportsOnce
  BY InitInv, NextInv, InitOnly, NextOnly, ImportsOnceFollows, PTL DEF Spec
=============================================================================
