---------------------------- MODULE SnapshotStore ----------------------------
(***************************************************************************)
(* What building promises to a user of the indexes: the files of a         *)
(* snapshot appear in one step, the whole commit unless the build was cut  *)
(* short; a snapshot may be published again until it is listed in the      *)
(* catalogue, and never changes from then on.                              *)
(***************************************************************************)
CONSTANTS Snapshots,  \* a source, a product and a commit
          TreeOf      \* the files of a snapshot: <<path, content>>

VARIABLES published,  \* the edition of each snapshot: {files}, or {}
          cut,        \* snapshots whose edition comes from a build cut short
          listed      \* snapshots the catalogue calls ready

Init ==
  /\ published = [s \in Snapshots |-> {}]
  /\ cut = {}
  /\ listed = {}

Publish(s, edition) ==
  /\ s \notin listed
  /\ published' = [published EXCEPT ![s] = {edition}]
  /\ \/ edition = TreeOf[s] /\ cut' = cut \ {s}
     \/ cut' = cut \cup {s}
  /\ UNCHANGED listed

List(s) ==
  /\ published[s] # {}
  /\ listed' = listed \cup {s}
  /\ UNCHANGED <<published, cut>>

Next ==
  \E s \in Snapshots :
    \/ \E edition \in SUBSET TreeOf[s] : Publish(s, edition)
    \/ List(s)

Spec == Init /\ [][Next]_<<published, cut, listed>>
==============================================================================
