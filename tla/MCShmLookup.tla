---------------------------- MODULE MCShmLookup ----------------------------
(* Small instances of ShmLookup. *)
EXTENDS ShmLookup, TLC

CONSTANTS c1, c2, c3, w1, w2, w3

TwoClients == {c1, c2}
ThreeClients == {c1, c2, c3}
TwoWords == {w1, w2}
OneKnown == {w1}

\* Builds in which a second call finds both handles, or any of them.
Kept == {{"sem", "shm"}}
AnyHandles == SUBSET {"sem", "shm"}

NoEvents == {}
AllEvents == EventKind
LeaveOnly == {"leave"}

Symmetry == Permutations(Client)
=============================================================================
