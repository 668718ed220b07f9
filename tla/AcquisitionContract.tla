------------------------ MODULE AcquisitionContract ------------------------
(***************************************************************************)
(* What supported Snapshot acquisition promises of each Run, with no files *)
(* and no index: a Run is opened, then either abandoned without a Snapshot *)
(* or given exactly one, and a Run that has one can only end verified.  A  *)
(* Snapshot is reported only for a Run that ended verified.                *)
(* SnapshotAcquisition is shown to implement this specification.           *)
(***************************************************************************)
CONSTANTS Runs, SnapshotStatus, None

VARIABLES phase,     \* phase[r]: how far Run r has come
          snapshot,  \* snapshot[r]: status of its Snapshot
          reported   \* reported[r]: Snapshot status reported for it

contractVars == <<phase, snapshot, reported>>

ContractInit ==
  /\ phase = [r \in Runs |-> "absent"]
  /\ snapshot = [r \in Runs |-> None]
  /\ reported = [r \in Runs |-> None]

Open(r) ==
  /\ phase[r] = "absent"
  /\ phase' = [phase EXCEPT ![r] = "open"]
  /\ UNCHANGED <<snapshot, reported>>

Abandon(r, how) ==
  /\ phase[r] = "open"
  /\ phase' = [phase EXCEPT ![r] = how]
  /\ UNCHANGED <<snapshot, reported>>

Take(r, c) ==
  /\ phase[r] = "open"
  /\ phase' = [phase EXCEPT ![r] = "observed"]
  /\ snapshot' = [snapshot EXCEPT ![r] = c]
  /\ UNCHANGED reported

Verify(r) ==
  /\ phase[r] = "observed"
  /\ phase' = [phase EXCEPT ![r] = "verified"]
  /\ UNCHANGED <<snapshot, reported>>

Announce(r) ==
  /\ phase[r] = "verified"
  /\ reported' = [reported EXCEPT ![r] = snapshot[r]]
  /\ UNCHANGED <<phase, snapshot>>

ContractNext ==
  \E r \in Runs :
    \/ Open(r) \/ Verify(r) \/ Announce(r)
    \/ \E how \in {"failed", "cancelled"} : Abandon(r, how)
    \/ \E c \in SnapshotStatus : Take(r, c)

ContractSpec == ContractInit /\ [][ContractNext]_contractVars
=============================================================================
