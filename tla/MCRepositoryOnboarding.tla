----------------------- MODULE MCRepositoryOnboarding -----------------------
(***************************************************************************)
(* Small instances of RepositoryOnboarding for TLC.                        *)
(***************************************************************************)
EXTENDS RepositoryOnboarding, TLC

CONSTANTS ann, ivy, orgRepo, annRepo, kit, org, annAccount

\* ann owns annRepo; ivy is the instructor and has linked no account.
LinkedAccount == [u \in Users |-> IF u = ann THEN annAccount ELSE None]
OwnerOf == [x \in Repos |-> IF x = annRepo THEN annAccount ELSE org]

Do(op, u, x) == [op |-> op, user |-> u, repo |-> x]

\* ann nominates two candidates and the kit, records attempts and verifies; ivy
\* resets, names the project and may not verify ann's repository.
TeamRequests ==
  {Do("connect", ann, annRepo), Do("connect", ann, orgRepo), Do("connect", ann, kit),
   Do("verify", ann, None), Do("attempt", ann, None), Do("verify", ivy, None),
   Do("connect", ivy, kit), Do("reset", ivy, None), Do("reset", ann, None),
   Do("confirm", ivy, None)}

RequestSymmetry == Permutations(Requests)

=============================================================================
