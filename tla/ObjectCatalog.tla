---------------------------- MODULE ObjectCatalog ----------------------------
(***************************************************************************)
(* What the object store promises to the rest of wowdoc: a write-once      *)
(* catalogue from object keys (a kind and a SHA-256) to pack segments.  It *)
(* grows by whole batches.  A batch goes into one pack that holds nothing  *)
(* else, and it never gives a second location to a key that has one.       *)
(***************************************************************************)
CONSTANTS Keys,   \* object keys: kind and content hash
          Packs   \* identities of pack segments

VARIABLE location \* set of <<key, pack>> pairs

Located == {entry[1] : entry \in location}
Used    == {entry[2] : entry \in location}

Init == location = {}

(* One publication: a non-empty batch of new keys enters through one pack. *)
PublishBatch(pack, batch) ==
  /\ batch # {}
  /\ pack \notin Used
  /\ batch \cap Located = {}
  /\ location' = location \cup (batch \X {pack})

Next == \E pack \in Packs, batch \in SUBSET Keys : PublishBatch(pack, batch)

Spec == Init /\ [][Next]_location
==============================================================================
