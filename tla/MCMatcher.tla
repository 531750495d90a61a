----------------------------- MODULE MCMatcher ------------------------------
(***************************************************************************)
(* Identities for checking Matcher: the partition number, the uevent      *)
(* serial, the WWID, the uevent filesystem uuid and the logical block     *)
(* size vary over an empty and one or two set values, and the partition   *)
(* table UUID (which only the drafts read) over empty and one value; every *)
(* other property the matchers read is empty on both sides.  The          *)
(* partition-table and filesystem types are empty throughout, so          *)
(* strings.ToLower and sys.FSTypeEqual are needed on "" only.              *)
(***************************************************************************)
EXTENDS Matcher

StringProps == {"UeventSerial", "WWID", "Model", "Vendor", "PartUUID", "DMUUID",
                "MDUUID", "UeventFSUUID", "FSUUID", "Serial", "PTUUID", "PTType", "FSType"}

MCIdentities ==
  {[p \in StringProps \cup {"Partition", "LogicalBlockSize"} |->
      CASE p = "Partition"        -> part
        [] p = "LogicalBlockSize" -> lbs
        [] p = "UeventSerial"     -> serial
        [] p = "WWID"             -> wwid
        [] p = "UeventFSUUID"     -> fsuuid
        [] p = "PTUUID"           -> ptuuid
        [] OTHER                  -> ""] :
     part \in {0, 1}, serial \in {"", "s1", "s2"}, wwid \in {"", "w1"},
     fsuuid \in {"", "f1"}, lbs \in {0, 512}, ptuuid \in {"", "t1"}}

MCToLower(t) == CASE t = "" -> ""

MCFSTypeEqual(t1, t2) == t1 = t2

=============================================================================
