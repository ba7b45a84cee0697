---------------------------- MODULE ContentStore ----------------------------
(***************************************************************************)
(* What the object store of gpp-core promises to the layers above it: an   *)
(* object is either absent or readable, it becomes readable in one step,   *)
(* and it stays readable.  ObjectStore implements this promise with a      *)
(* temporary file and a rename.                                            *)
(***************************************************************************)
CONSTANT Id

VARIABLE stored   \* what a reader finds under each id

Absent  == "absent"
Present == "present"
Corrupt == "corrupt"  \* a file is there, but its body does not hash to the id

Init == stored = [i \in Id |-> Absent]

Put(i) ==
  /\ stored[i] = Absent
  /\ stored' = [stored EXCEPT ![i] = Present]

Next == \E i \in Id : Put(i)

Spec == Init /\ [][Next]_stored
=============================================================================
