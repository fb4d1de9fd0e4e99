------------------------ MODULE MCInstallationTokens ------------------------
(***************************************************************************)
(* Small instances of InstallationTokens for TLC.                          *)
(***************************************************************************)
EXTENDS InstallationTokens, TLC

TokenSymmetry == Permutations(Threads) \cup Permutations(Repos)

=============================================================================
