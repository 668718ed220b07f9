-------------------------- MODULE RunStateMachine --------------------------
(***************************************************************************)
(* The centralized Run state machine of STEWARD (state_machine.py).  Every *)
(* writer of a Run and every verifier of a Run ledger consults this one    *)
(* relation, so it is a module of constant definitions that the others     *)
(* extend.                                                                 *)
(***************************************************************************)

RunStatus == {"created", "scanning", "scanned", "planning", "planned",
              "applying", "applied", "verifying", "verified", "partial",
              "failed", "cancelled", "rolling_back", "rolled_back"}

\* ALLOWED[s] is the set of statuses a Run in status s may move to.
ALLOWED ==
  [created      |-> {"scanning", "planning", "applying", "verifying",
                     "rolling_back", "cancelled", "failed"},
   scanning     |-> {"scanned", "partial", "cancelled", "failed"},
   scanned      |-> {"planning", "verifying", "failed"},
   planning     |-> {"planned", "cancelled", "failed"},
   planned      |-> {"applying", "cancelled", "failed"},
   applying     |-> {"applied", "partial", "failed"},
   applied      |-> {"verifying", "rolling_back", "failed"},
   verifying    |-> {"verified", "partial", "failed"},
   verified     |-> {"rolling_back"},
   partial      |-> {"verifying", "rolling_back", "failed"},
   failed       |-> {"rolling_back"},
   cancelled    |-> {},
   rolling_back |-> {"rolled_back", "partial", "failed"},
   rolled_back  |-> {}]

validate_transition(from, to) == to \in ALLOWED[from]
=============================================================================
