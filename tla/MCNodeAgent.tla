---------------------------- MODULE MCNodeAgent ----------------------------
(* Drive d1 on device p1 holds volumes v20 and v30 (listener_test.go's     *)
(* scenario) and is the node's only device.  One worker, the matcher's    *)
(* contract.                                                               *)
EXTENDS NodeAgent

CONSTANTS v20, v30, d1, p1, sda, u1, w1

MCVolumes == {v20, v30}
MCCapacity == [v \in MCVolumes |-> IF v = v20 THEN 20 ELSE 30]
MCVolumeDrive == [v \in MCVolumes |-> d1]
MCInitialDevice ==
  [p \in {p1} |-> [name |-> sda, size |-> 100, fsuuid |-> u1,
                   mount |-> Managed(u1), readOnly |-> FALSE]]
MCDriveOf == [id \in {d1} |-> p1]

(* The matcher's contract: of the listed drives, exactly those recorded   *)
(* for this physical device.                                               *)
ContractMatcher(ds, candidates, dv, p) == {id \in candidates : ds[id].dev = p}
=============================================================================
