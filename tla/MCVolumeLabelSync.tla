-------------------------- MODULE MCVolumeLabelSync --------------------------
(* Two volumes of this node on the drive and one of another node; the      *)
(* drive is found under sda, sdb and sdc.                                  *)
EXTENDS VolumeLabelSync

CONSTANTS v1, v2, v3, sda, sdb, sdc, n1, n2

MCVolumeNode == [v \in {v1, v2, v3} |-> IF v = v3 THEN n2 ELSE n1]
=============================================================================
