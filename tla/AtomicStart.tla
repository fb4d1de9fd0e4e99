----------------------------- MODULE AtomicStart -----------------------------
(***************************************************************************)
(* What POST /reviews/start promises a team: a request key opens at most   *)
(* one review session, identical evidence is frozen once (but for the      *)
(* demonstration a team without a repository reviews), and what the        *)
(* team said about a finding of a frozen snapshot changes only by a        *)
(* dispute, a disposition or a selection for discussion.  There are no     *)
(* locks, GitHub calls or transactions here; ReviewStart has them.         *)
(***************************************************************************)
EXTENDS Integers, Sequences

CONSTANTS Findings, Commits, Demo, Phases, Keys, Statuses, None

VARIABLES
  frozen,   \* the evidence_snapshots rows of the team, oldest first
  opened    \* for each used key, the snapshot its session discusses

NoRows == [f \in Findings |-> "none"]

\* Two rows describe the same evidence.
SameEvidence(a, b) == a.phase = b.phase /\ a.commit = b.commit /\ a.contract = b.contract

Init == frozen = << >> /\ opened = [k \in Keys |-> 0]

\* A session opens on an existing row, or on new evidence nobody froze before.
Begin(n, marked) ==
  /\ n \in DOMAIN marked
  /\ \/ /\ DOMAIN marked = DOMAIN frozen
        /\ \A m \in DOMAIN frozen \ {n} : marked[m] = frozen[m]
        /\ SameEvidence(marked[n], frozen[n])
        /\ \A f \in Findings :
             marked[n].found[f] # frozen[n].found[f] => frozen[n].found[f] \in {"none", "open"}
     \/ /\ n = Len(frozen) + 1 /\ marked = Append(frozen, marked[n])
        /\ marked[n].commit = Demo \/ \A m \in DOMAIN frozen : ~SameEvidence(frozen[m], marked[n])
  /\ frozen' = marked
  /\ \/ \E k \in Keys : opened[k] = 0 /\ opened' = [opened EXCEPT ![k] = n]
     \/ UNCHANGED opened

\* The team decides about a finding.
Decide(n, f, st) ==
  /\ frozen' = [frozen EXCEPT ![n].found[f] = st]
  /\ UNCHANGED opened

Next ==
  \/ \E n \in 1 .. Len(frozen') : Begin(n, frozen')
  \/ \E n \in DOMAIN frozen, f \in Findings, st \in Statuses : Decide(n, f, st)

Spec == Init /\ [][Next]_<<frozen, opened>>

=============================================================================
