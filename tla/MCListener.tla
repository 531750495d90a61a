----------------------------- MODULE MCListener -----------------------------
(***************************************************************************)
(* Datagrams for checking Listener.  Payloads combine SUBSYSTEM (block or *)
(* net) with ACTION (add, or bind, an action parseUdevData rejects); the  *)
(* special ones add remove and change, a MAJOR that is not a number, a    *)
(* duplicated key, a bare key and an empty field.  Headers: every way the *)
(* header checks can fail, on one payload.  DEVPATH and MD_UUID values   *)
(* are sequences of path elements and of characters; MD_UUIDs come in   *)
(* mdadm's colon form (32 hex digits) and as 20 hex digits with one     *)
(* dash, the length normalizeUUID leaves.                                 *)
(***************************************************************************)
EXTENDS Listener

Pair(k, v) == <<k, v>>

Hex(n) == [i \in 1..n |-> CASE i % 3 = 0 -> "a" [] i % 3 = 1 -> "b" [] OTHER -> "c"]

ColonUUID == FlattenSeq(<<Hex(8), <<":">>, Hex(8), <<":">>, Hex(8), <<":">>, Hex(8)>>)

ShortUUID == Hex(10) \o <<"-">> \o Hex(10)

SdaPath == Pair("DEVPATH", <<"devices", "block", "sda">>)

CorePayloads ==
  {<<Pair("SUBSYSTEM", s), Pair("ACTION", a), SdaPath, Pair("MAJOR", "8"), Pair("MINOR", "0")>> :
     s \in {"block", "net"}, a \in {"add", "bind"}}

SpecialPayloads ==
  { \* a MAJOR that is not a number, on an action parseUdevData rejects:
    \* which of the two checks comes first decides the outcome
    <<Pair("SUBSYSTEM", "net"), Pair("ACTION", "bind"), SdaPath, Pair("MAJOR", "x"),
      Pair("MINOR", "0")>>,
    \* ACTION written twice: the last value counts
    <<Pair("SUBSYSTEM", "net"), Pair("ACTION", "change"), Pair("MAJOR", "8"),
      Pair("MINOR", "0"), Pair("ACTION", "remove")>>,
    \* MAJOR without '='
    <<Pair("SUBSYSTEM", "net"), Pair("ACTION", "remove"), <<"MAJOR">>, Pair("MINOR", "0")>>,
    \* an empty field, no SUBSYSTEM
    <<<<>>, Pair("ACTION", "remove"), Pair("MAJOR", "8")>>,
    \* SUBSYSTEM=block written over by SUBSYSTEM=net
    <<Pair("SUBSYSTEM", "block"), Pair("ACTION", "add"), Pair("MAJOR", "8"),
      Pair("MINOR", "0"), Pair("SUBSYSTEM", "net")>>,
    \* a partition number and an mdadm UUID
    <<Pair("SUBSYSTEM", "net"), Pair("ACTION", "change"), SdaPath, Pair("MAJOR", "8"),
      Pair("MINOR", "0"), Pair("ID_PART_ENTRY_NUMBER", "8"), Pair("MD_UUID", ColonUUID)>>,
    \* ID_PART_ENTRY_NUMBER present without a value
    <<Pair("SUBSYSTEM", "net"), Pair("ACTION", "add"), SdaPath, Pair("MAJOR", "8"),
      Pair("MINOR", "0"), <<"ID_PART_ENTRY_NUMBER">>>>,
    \* an MD UUID of 20 digits after stripping
    <<Pair("SUBSYSTEM", "net"), Pair("ACTION", "remove"), SdaPath, Pair("MAJOR", "8"),
      Pair("MINOR", "0"), Pair("MD_UUID", ShortUUID)>> }

WellFormed(fields) ==
  [len |-> "full", sig |-> TRUE, magic |-> TRUE, offset |-> "inside", fields |-> fields]

BadHeaders ==
  LET p == <<Pair("SUBSYSTEM", "net"), Pair("ACTION", "remove")>>
  IN { [WellFormed(p) EXCEPT !.sig = FALSE],
       [WellFormed(p) EXCEPT !.magic = FALSE],
       [WellFormed(p) EXCEPT !.offset = "low"],
       [WellFormed(p) EXCEPT !.offset = "beyond"],
       [WellFormed(p) EXCEPT !.len = "lt12"],
       [WellFormed(p) EXCEPT !.len = "lt17"] }

MCDatagrams ==
  {WellFormed(f) : f \in CorePayloads \cup SpecialPayloads} \cup BadHeaders

\* Lengths up to just over three pages: both sides of every page boundary.
MCDatagramSizes == 0..13

MCAtoiOf == [v \in {"0", "8"} |-> IF v = "0" THEN 0 ELSE 8]

=============================================================================
