------------------------------ MODULE Matcher ------------------------------
(***************************************************************************)
(* The identity matcher of pkg/uevent/match.go, the version of lines      *)
(* 383-693: the ordered matcher list, the per-property decision tables,   *)
(* getMatchingDrives' loop over the listed drives and matchers, and       *)
(* runMatcher's aggregate decision.  Each matcher returns (match,         *)
(* consider): consider means "inconclusive, try the next matcher".        *)
(*                                                                         *)
(* The identity of a device or a drive is a function from the properties  *)
(* the matchers read to their values: strings ("" is empty) and, for the  *)
(* partition number and the logical block size, integers (0 is empty).    *)
(* The device's value is always the matcher's first argument (alpha).     *)
(*                                                                         *)
(* match.go also holds two older drafts, modelled here too; version says  *)
(* which one runs.  "generic" (lines 17-179) has the same runMatcher and   *)
(* getMatchingDrives loop over its own list of genericMatcher-style       *)
(* matchers, with the drive's value as alpha.  "split" (lines 196-366) has *)
(* only splitByMatch, which sorts each drive by the first kind of identity *)
(* it records into matched, unmatched or neither.                          *)
(***************************************************************************)
EXTENDS Integers, FiniteSets, Sequences, SequencesExt

CONSTANTS
  Identities,      \* the identities a device or a drive record can have
  Versions,        \* the versions of match.go: "matchers", "generic", "split"
  ToLower(_),      \* strings.ToLower on the partition-table types used
  FSTypeEqual(_, _) \* sys.FSTypeEqual (outside the sources)

ASSUME Versions \subseteq {"matchers", "generic", "split"}

VARIABLES
  device,      \* the device runMatcher is called with
  drives,      \* the listed drives, in List order
  di,          \* index of the drive getMatchingDrives is at
  mi,          \* index of the matcher it is at
  matchedFn,   \* the matchers that decided the current drive
  matchList,   \* the named result map; "nil" until made
  matched,     \* matchedDrives: indices into drives
  mpc,         \* "match", "record", "done", "panicked"
  result,      \* runMatcher's return
  version,     \* the version of match.go that runs
  split        \* splitByMatch's return: [matched, unmatched] drive indices

vars == <<device, drives, di, mi, matchedFn, matchList, matched, mpc, result, version, split>>

(* The matcher list, lines 399-427, in order: each entry is the decision  *)
(* table it applies and the property it reads (lines 479-601).            *)
Matchers ==
  << <<"partition", "Partition">>,    <<"immutable", "UeventSerial">>,
     <<"immutable", "WWID">>,         <<"immutable", "Model">>,
     <<"immutable", "Vendor">>,       <<"immutable", "PartUUID">>,
     <<"immutable", "DMUUID">>,       <<"immutable", "MDUUID">>,
     <<"fs", "UeventFSUUID">>,        <<"fs", "FSUUID">>,
     <<"immutable", "Serial">>,       <<"size", "LogicalBlockSize">> >>

Decision(match, consider) == [match |-> match, consider |-> consider]

(* partitionNumberMatcher, lines 479-481: never inconclusive.              *)
PartitionNumberMatcher(alpha, beta) == Decision(alpha = beta, FALSE)

(* immutablePropertyMatcher, lines 536-552.                                 *)
ImmutablePropertyMatcher(alpha, beta) ==
  CASE alpha = "" /\ beta = ""  -> Decision(FALSE, TRUE)
    [] alpha = "" /\ beta # ""  -> Decision(FALSE, FALSE)
    [] alpha # "" /\ beta = ""  -> Decision(FALSE, TRUE)
    [] alpha # "" /\ beta # ""  -> Decision(alpha = beta, FALSE)

(* fsPropertyMatcher, lines 579-597: only equal non-empty values decide.   *)
FsPropertyMatcher(alpha, beta) ==
  IF alpha # "" /\ beta # "" /\ alpha = beta THEN Decision(TRUE, FALSE)
  ELSE Decision(FALSE, TRUE)

(* sizeMatcher, lines 607-625: the same rule with 0 as empty.              *)
SizeMatcher(alpha, beta) ==
  IF alpha # 0 /\ beta # 0 /\ alpha = beta THEN Decision(TRUE, FALSE)
  ELSE Decision(FALSE, TRUE)

(* One matcher of the list on a device and a drive, lines 479-601.         *)
ApplyMatcher(m, dev, drv) ==
  LET alpha == dev[m[2]]
      beta == drv[m[2]]
  IN CASE m[1] = "partition" -> PartitionNumberMatcher(alpha, beta)
       [] m[1] = "immutable" -> ImmutablePropertyMatcher(alpha, beta)
       [] m[1] = "fs"        -> FsPropertyMatcher(alpha, beta)
       [] m[1] = "size"      -> SizeMatcher(alpha, beta)

(* The "generic" draft's list, lines 34-53 (the drive's value is alpha).  *)
GenericMatchers ==
  << <<"generic", "FSUUID">>,      <<"generic", "UeventFSUUID">>,
     <<"generic", "Serial">>,      <<"generic", "UeventSerial">>,
     <<"emptyOrEqual", "WWID">>,   <<"generic", "Model">>,
     <<"generic", "Vendor">>,      <<"emptyOrEqual", "DMUUID">>,
     <<"emptyOrEqual", "MDUUID">>, <<"emptyOrEqual", "PartUUID">>,
     <<"partTable", "PTUUID">> >>

(* genericMatcher, lines 155-167: an empty alpha is inconclusive; an equal *)
(* one is a match but still returns cont; an unequal one ends the loop.    *)
GenericMatcher(alpha, beta) ==
  IF alpha = "" THEN Decision(FALSE, TRUE) ELSE Decision(alpha = beta, alpha = beta)

(* isDOSPTType and ptTypeEqual, lines 96-103 and 169-179 (and 205-224).    *)
IsDOSPTType(t) == t \in {"dos", "msdos", "mbr"}

PtTypeEqual(t1, t2) ==
  LET l1 == ToLower(t1)
      l2 == ToLower(t2)
  IN l1 = l2 \/ (IsDOSPTType(l1) /\ IsDOSPTType(l2))

(* The draft's matchers, lines 105-151: the generic ones, the "empty or     *)
(* equal" ones (wwid, dm, md, partition uuid) that return (ok, ok), and    *)
(* partitionTableUUIDMatcher.                                              *)
ApplyGenericMatcher(m, dev, drv) ==
  LET alpha == drv[m[2]]
      beta == dev[m[2]]
      ptOK == \/ drv.PTUUID = "" \/ drv.PTUUID = dev.PTUUID
              \/ drv.PTType = "" \/ PtTypeEqual(drv.PTType, dev.PTType)
  IN CASE m[1] = "generic"      -> GenericMatcher(alpha, beta)
       [] m[1] = "emptyOrEqual" -> Decision(alpha \in {"", beta}, alpha \in {"", beta})
       [] m[1] = "partTable"    -> Decision(ptOK, ptOK)

MatcherList == IF version = "generic" THEN GenericMatchers ELSE Matchers

Apply(m, dev, drv) ==
  IF version = "generic" THEN ApplyGenericMatcher(m, dev, drv) ELSE ApplyMatcher(m, dev, drv)

(* The "split" draft, lines 226-315: which identity a drive records, and   *)
(* whether the device agrees with it; every check compares the partition  *)
(* number first.                                                           *)
EmptyOrEqual(drv, dev, props) == \A p \in props : drv[p] \in {"", dev[p]}

IsHWInfoAvailable(drv) == drv.WWID # "" \/ drv.Serial # "" \/ drv.UeventSerial # ""
MatchDeviceHWInfo(drv, dev) ==
  drv.Partition = dev.Partition /\ EmptyOrEqual(drv, dev, {"WWID", "Serial", "UeventSerial", "Model", "Vendor"})

IsDMMDUUIDAvailable(drv) == drv.DMUUID # "" \/ drv.MDUUID # ""
MatchDeviceDMMDUUID(drv, dev) ==
  drv.Partition = dev.Partition /\ EmptyOrEqual(drv, dev, {"DMUUID", "MDUUID"})

IsPTUUIDAvailable(drv) == drv.Partition <= 0 /\ drv.PTUUID # ""
MatchDevicePTUUID(drv, dev) ==
  drv.Partition = dev.Partition /\ drv.PTUUID = dev.PTUUID /\ PtTypeEqual(drv.PTType, dev.PTType)

IsPartUUIDAvailable(drv) == drv.Partition > 0 /\ drv.PartUUID # ""
MatchDevicePartUUID(drv, dev) ==
  drv.Partition = dev.Partition /\ drv.PartUUID = dev.PartUUID

IsFSUUIDAvailable(drv) == drv.FSUUID # "" \/ drv.UeventFSUUID # ""
MatchDeviceFSUUID(drv, dev) ==
  /\ drv.Partition = dev.Partition
  /\ drv.FSUUID = dev.FSUUID /\ drv.UeventFSUUID = dev.UeventFSUUID
  /\ FSTypeEqual(drv.FSType, dev.FSType)

(* One iteration of splitByMatch's loop, lines 318-362: the first kind of  *)
(* identity the drive records decides; a drive with none is in neither.    *)
SplitClass(drv, dev) ==
  LET verdict(ok) == IF ok THEN "matched" ELSE "unmatched"
  IN CASE IsHWInfoAvailable(drv)   -> verdict(MatchDeviceHWInfo(drv, dev))
       [] IsDMMDUUIDAvailable(drv) -> verdict(MatchDeviceDMMDUUID(drv, dev))
       [] IsPTUUIDAvailable(drv)   -> verdict(MatchDevicePTUUID(drv, dev))
       [] IsPartUUIDAvailable(drv) -> verdict(MatchDevicePartUUID(drv, dev))
       [] IsFSUUIDAvailable(drv)   -> verdict(MatchDeviceFSUUID(drv, dev))
       [] OTHER                    -> "neither"

(* splitByMatch, lines 317-366.                                            *)
SplitByMatch(drvs, dev) ==
  LET idx == [j \in 1..Len(drvs) |-> j]
  IN [matched   |-> SelectSeq(idx, LAMBDA j : SplitClass(drvs[j], dev) = "matched"),
      unmatched |-> SelectSeq(idx, LAMBDA j : SplitClass(drvs[j], dev) = "unmatched")]

-----------------------------------------------------------------------------
Init ==
  /\ device \in Identities
  /\ drives \in UNION {[1..n -> Identities] : n \in 1..2}
  /\ di = 1
  /\ mi = 1
  /\ matchedFn = <<>>
  /\ matchList = "nil"
  /\ matched = <<>>
  /\ mpc = "match"
  /\ result = "none"
  /\ version \in Versions
  /\ split = [matched |-> <<>>, unmatched |-> <<>>]

(* The inner loop, lines 454-464: an inconclusive matcher moves on; a     *)
(* conclusive one records a match (if it is one) and the matcher, and     *)
(* ends the loop.                                                          *)
MatchStep ==
  /\ version # "split"
  /\ mpc = "match"
  /\ di <= Len(drives)
  /\ mi <= Len(MatcherList)
  /\ LET r == Apply(MatcherList[mi], device, drives[di])
     IN IF r.consider
        THEN /\ mi' = mi + 1
             /\ UNCHANGED <<matchedFn, matched, mpc>>
        ELSE /\ matched' = IF r.match THEN Append(matched, di) ELSE matched
             /\ matchedFn' = Append(matchedFn, mi)
             /\ mpc' = "record"
             /\ UNCHANGED mi
  /\ UNCHANGED <<device, drives, di, matchList, result, version, split>>

(* Every matcher was inconclusive: the inner loop ends with nothing.       *)
Exhausted ==
  /\ version # "split"
  /\ mpc = "match"
  /\ di <= Len(drives)
  /\ mi > Len(MatcherList)
  /\ mpc' = "record"
  /\ UNCHANGED <<device, drives, di, mi, matchedFn, matchList, matched, result, version, split>>

(* matchList[drive] = matchedFn, line 465.  matchList is the named result *)
(* of getMatchingDrives and is never made: assigning to a nil map panics. *)
Record ==
  /\ mpc = "record"
  /\ IF matchList = "nil"
     THEN /\ mpc' = "panicked"
          /\ UNCHANGED <<di, mi, matchedFn, matchList>>
     ELSE /\ matchList' = (di :> matchedFn) @@ matchList
          /\ di' = di + 1
          /\ mi' = 1
          /\ matchedFn' = <<>>
          /\ mpc' = "match"
  /\ UNCHANGED <<device, drives, matched, result, version, split>>

(* runMatcher, lines 429-449, once the drive loop ends.                    *)
Conclude ==
  /\ version # "split"
  /\ mpc = "match"
  /\ di > Len(drives)
  /\ result' = CASE Len(matched) = 1 -> <<"drive", matched[1]>>
                 [] Len(matched) = 0 -> "errNoMatchFound"
                 [] OTHER            -> "tooManyMatches"
  /\ mpc' = "done"
  /\ UNCHANGED <<device, drives, di, mi, matchedFn, matchList, matched, version, split>>

(* The "split" draft: splitByMatch over the listed drives, in one step.    *)
Split ==
  /\ version = "split"
  /\ mpc = "match"
  /\ split' = SplitByMatch(drives, device)
  /\ mpc' = "done"
  /\ UNCHANGED <<device, drives, di, mi, matchedFn, matchList, matched, result, version>>

Next == MatchStep \/ Exhausted \/ Record \/ Conclude \/ Split

Spec == Init /\ [][Next]_vars

-----------------------------------------------------------------------------
(* Spec section 4.4: every matcher has one decision table, with the drive  *)
(* recorded value as alpha and the device's as beta; an empty side is      *)
(* inconclusive, equal values match, unequal ones do not.  The first       *)
(* conclusive matcher decides a drive; one matched drive is the answer,    *)
(* none is "no match", more is an ambiguity.                               *)
IsEmpty(p, v) == IF p \in {"Partition", "LogicalBlockSize"} THEN v = 0 ELSE v = ""

RefDecides(m, dev, drv) == ~IsEmpty(m[2], dev[m[2]]) /\ ~IsEmpty(m[2], drv[m[2]])

(* The ordered list the reference runs: the version's own list, and for   *)
(* the "split" draft, which has none, the precedence of spec section 4.4:  *)
(* hardware identity, then software identity, then the block size.         *)
RefOrder ==
  CASE version = "matchers" -> Matchers
    [] version = "generic"  -> GenericMatchers
    [] version = "split"    ->
         [i \in 1..12 |-> <<"spec", <<"Partition", "Serial", "UeventSerial", "WWID", "Model",
                                      "Vendor", "PTUUID", "PartUUID", "DMUUID", "MDUUID",
                                      "FSUUID", "UeventFSUUID">>[i]>>]

(* The first conclusive matcher for a drive, 0 when every one is           *)
(* inconclusive.                                                            *)
RefDecider(dev, drv) == SelectInSeq(RefOrder, LAMBDA m : RefDecides(m, dev, drv))

RefMatches(dev, drv) ==
  LET i == RefDecider(dev, drv)
  IN i # 0 /\ dev[RefOrder[i][2]] = drv[RefOrder[i][2]]

RefResult(dev, drvs) ==
  LET ms == {j \in 1..Len(drvs) : RefMatches(dev, drvs[j])}
  IN CASE Cardinality(ms) = 1 -> <<"drive", CHOOSE j \in ms : TRUE>>
       [] ms = {}             -> "errNoMatchFound"
       [] OTHER               -> "tooManyMatches"

(* Matched and unmatched drives as the spec classifies them; a drive on    *)
(* which every matcher is inconclusive is in neither.                      *)
RefSplit(dev, drvs) ==
  [matched   |-> {j \in 1..Len(drvs) : RefMatches(dev, drvs[j])},
   unmatched |-> {j \in 1..Len(drvs) : RefDecider(dev, drvs[j]) # 0 /\ ~RefMatches(dev, drvs[j])}]

(* runMatcher returns for every device and list of drives, and what it     *)
(* returns is the spec's decision; splitByMatch sorts the drives as the    *)
(* spec does.  This is about getMatchingDrives' loop and its matchList     *)
(* write (lines 451-468 and 77-94), the matcher lists and decision tables  *)
(* (lines 399-625 and 34-179), runMatcher (lines 429-449 and 55-75), and   *)
(* splitByMatch with its identity checks (lines 226-366).                  *)
RunMatcherMeetsContract ==
  /\ mpc # "panicked"
  /\ mpc = "done" /\ version # "split" => result = RefResult(device, drives)
  /\ mpc = "done" /\ version = "split" =>
       /\ ToSet(split.matched) = RefSplit(device, drives).matched
       /\ ToSet(split.unmatched) = RefSplit(device, drives).unmatched

=============================================================================
