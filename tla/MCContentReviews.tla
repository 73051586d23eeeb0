-------------------------- MODULE MCContentReviews --------------------------
EXTENDS ContentReviews, TLC

CONSTANTS u, t1, a1

(* One artist with a track and an album.                                    *)
MCTrack == {t1}
MCAlbum == {a1}
MCBy == [x \in {t1, a1} |-> u]

ImageSymmetry == Permutations(Image)

=============================================================================
