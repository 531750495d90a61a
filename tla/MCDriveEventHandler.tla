------------------------- MODULE MCDriveEventHandler -------------------------
(* Two physical devices: p1 carries drive d1 with volumes of 20 and 30     *)
(* units in use, p2 has no drive yet.  Sizes 100 and 40 (40 is below the   *)
(* minimum supported size of 50 and shrinks p1 below its allocation), one  *)
(* filesystem uuid, three mount points.  d2..d4 are the uuids add() can    *)
(* give to new records.                                                    *)
EXTENDS DriveEventHandler

CONSTANTS v20, v30, d1, d2, d3, d4, p1, p2, sda, sdb, u1, w1, w2

MCVolumes == {v20, v30}
MCCapacity == [v \in MCVolumes |-> IF v = v20 THEN 20 ELSE 30]
MCVolumeDrive == [v \in MCVolumes |-> d1]
MCInitialDevice ==
  [p \in {p1, p2} |->
     [name |-> IF p = p1 THEN sda ELSE sdb, size |-> 100, fsuuid |-> u1,
      mount |-> IF p = p1 THEN Managed(u1) ELSE NoMount, readOnly |-> FALSE]]
MCDriveOf == [id \in {d1, d2, d3, d4} |-> IF id = d1 THEN p1 ELSE NoDevice]

(* findMatchingDrive as written: a stub that never finds a match.          *)
StubMatcher(ds, candidates, dv, p) == {}

(* The matcher's contract: of the listed drives, exactly those recorded   *)
(* for this physical device.                                               *)
ContractMatcher(ds, candidates, dv, p) == {id \in candidates : ds[id].dev = p}
=============================================================================
