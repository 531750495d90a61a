------------------------ MODULE MCVolumeEventHandler ------------------------
(* Two volumes of 20 and 30 units on a drive of 100, the scenario of        *)
(* pkg/listener2/listener_test.go; two runs may stop half-way and the     *)
(* node server may publish twice.                                          *)
EXTENDS VolumeEventHandler

CONSTANTS v20, v30, d1, p1, sda, u1

MCVolumes == {v20, v30}
MCCapacity == [v \in MCVolumes |-> IF v = v20 THEN 20 ELSE 30]
MCVolumeDrive == [v \in MCVolumes |-> d1]
MCInitialDevice ==
  [p \in {p1} |-> [name |-> sda, size |-> 100, fsuuid |-> u1,
                   mount |-> Managed(u1), readOnly |-> FALSE]]
MCDriveOf == [id \in {d1} |-> p1]
=============================================================================
