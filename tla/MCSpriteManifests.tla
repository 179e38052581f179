-------------------------- MODULE MCSpriteManifests --------------------------
(* Small instances of SpriteManifests. *)
EXTENDS SpriteManifests, TLC

CONSTANTS a1, a2, k1, k2

\* One manifest; manifests without a chunk in common; and an album that got an image appended:
\* the first, full chunk is that of the manifest before.
MCOne == k1 :> {"c1", "c2"}
MCApart == k1 :> {"c1", "c2"} @@ k2 :> {"c3"}
MCShared == k1 :> {"c1", "c2"} @@ k2 :> {"c1", "c3"}

MCTogether == {{a} : a \in Albums} \cup {Albums}

(* Either two albums of one manifest, with the troubles; or one album that turns from one *)
(* manifest to another.  The steps this leaves out are requests, changes and troubles,    *)
(* which no fairness asks for.                                                            *)
TwoManifests == k2 \in DOMAIN manifest \cup DOMAIN build \cup {want[a] : a \in Albums}
TwoAlbums ==
  \/ want[a2] = k2
  \/ \E r \in Requests : req[r].pc # "idle" /\ req[r].album = a2
  \/ \E k \in DOMAIN manifest : a2 \in manifest[k]
TwoOfOne == TwoManifests => Troubles = 0 /\ ~TwoAlbums

=============================================================================
