--------------------------- MODULE MCStudioAccess ---------------------------
(***************************************************************************)
(* A course owner and a student, the default term and the next one.        *)
(***************************************************************************)
EXTENDS StudioAccess, TLC

CONSTANTS owner, student, fall, spring

AdminRequest(op, t, u, v) == [op |-> op, term |-> t, user |-> u, value |-> v]

AdminRequests ==
  {AdminRequest("create", spring, None, None), AdminRequest("open", spring, None, None),
   AdminRequest("default", fall, None, None)}
  \cup {AdminRequest("status", t, None, s) : t \in {spring}, s \in {"active", "archived"}}
  \cup {AdminRequest("status", fall, None, "archived")}
  \cup {AdminRequest("roster", fall, None, {student}), AdminRequest("roster", fall, owner, {}),
        AdminRequest("student", fall, student, "active"),
        AdminRequest("staff", spring, student, "ta")}

AccountSymmetry == Permutations(Accounts) \cup Permutations(Handlers)
=============================================================================
