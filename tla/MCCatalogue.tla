----------------------------- MODULE MCCatalogue -----------------------------
EXTENDS Catalogue, TLC

CONSTANTS x, t1, t2, t3, a1, a2

(* One artist with three tracks for two albums.                             *)
MCTrack == {t1, t2, t3}
MCAlbum == {a1, a2}
MCBy    == [o \in MCTrack \cup MCAlbum |-> x]

MCSymmetry == Permutations(Request) \cup Permutations(MCTrack) \cup Permutations(MCAlbum)

=============================================================================
