------------------------------ MODULE MCAccounts ------------------------------
EXTENDS Accounts, TLC

MCSymmetry == Permutations(User) \cup Permutations(Email) \cup Permutations(Username)
              \cup Permutations(Token) \cup Permutations(Request)

=============================================================================
