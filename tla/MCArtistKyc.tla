---------------------------- MODULE MCArtistKyc ----------------------------
(* ArtistKyc for TLC. *)
EXTENDS ArtistKyc, TLC

KycSymmetry == Permutations(Account) \cup Permutations(Request)
=============================================================================
