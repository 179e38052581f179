----------------------------- MODULE MCLabelCache -----------------------------
(* Small instances of LabelCache. *)
EXTENDS LabelCache

CONSTANTS a1, a2

TwoAlbums == {a1, a2}
OneAlbum == {a1}
TwoInOrder == <<a1, a2>>
OneInOrder == <<a1>>
NoFeatured == <<>>
FeaturedA2 == <<a2>>

MCPage == {page(a1)}
MCParts == {main, preview(a1)}
MCMain == {main}

=============================================================================
