------------------------------ MODULE Listener ------------------------------
(***************************************************************************)
(* The event socket listener and wire decoder of pkg/uevent/listener.go,  *)
(* the version of lines 307-536 (udev.Data events for the Change/Delete   *)
(* handler).  One goroutine owns the socket: Run's loop checks the        *)
(* context, calls getNextDeviceUEvent, which reads datagrams until one    *)
(* decodes (parse, then parseUdevData), and pushes it onto the queue.     *)
(* An error other than errNonDeviceEvent ends Run.                        *)
(*                                                                         *)
(* The other two versions of the file (lines 1-290 and 538-830) run the  *)
(* same loop but decode into a deviceEvent (unmarshalDeviceUevent, and    *)
(* its copy parseAndLoadEventData); build says which version runs.        *)
(*                                                                         *)
(* A datagram is abstracted to what parse tells apart: its length class   *)
(* (shorter than 12 bytes, shorter than 17, or long enough), whether it   *)
(* starts with the libudev signature, whether bytes 8-11 hold the magic,  *)
(* where the offset byte points, and the NUL-separated fields from the    *)
(* offset on.  A field is <<>> (empty), <<key>> (no '='), or <<key, val>> *)
(* (SplitN at the first '=').                                              *)
(***************************************************************************)
EXTENDS Integers, Sequences, SequencesExt, TLC

CONSTANTS
  Datagrams,     \* the datagrams udevd can multicast on the uevent group
  Builds,        \* versions of listener.go: "udevData" and/or "deviceEvent"
  Numerals,      \* the field values strconv.Atoi accepts
  AtoiOf,        \* AtoiOf[v]: the integer strconv.Atoi makes of v
  MaxDatagrams,  \* how many datagrams the environment sends
  PageSize,      \* os.Getpagesize(), in bytes
  DatagramSizes  \* the datagram lengths, in bytes, msgPeek is checked on

ASSUME /\ AtoiOf \in [Numerals -> Int] /\ MaxDatagrams \in Nat
       /\ Builds \subseteq {"udevData", "deviceEvent"}
       /\ PageSize \in Nat \ {0} /\ DatagramSizes \subseteq Nat

VARIABLES
  socket,    \* datagrams sent and not yet read
  sent,      \* how many datagrams have been sent
  received,  \* history: every datagram the loop has read, in order
  queue,     \* listener.queue: [src |-> index into received, data]
  lpc,       \* Run: "select" (loop head), "read" (in getNextDeviceUEvent),
             \* "stopped" (returned an error), "panicked"
  stopErr,   \* the error Run returned
  build,     \* the version of listener.go that runs
  canceled,  \* ctx is done
  pushedAtCancel \* history: Len(queue) when ctx was canceled

vars == <<socket, sent, received, queue, lpc, stopErr, build, canceled, pushedAtCancel>>

NoErr == "none"

(* Go's map lookup: a missing key reads as "".                             *)
Lookup(m, k) == IF k \in DOMAIN m THEN m[k] ELSE ""

(* One field into the event map (lines 434-442): an empty field is         *)
(* skipped, a bare key maps to "", KEY=VAL overwrites KEY.                 *)
DecodeField(event, field) ==
  CASE Len(field) = 0 -> event
    [] Len(field) = 1 -> (field[1] :> "") @@ event
    [] Len(field) = 2 -> (field[1] :> field[2]) @@ event

(* The loop over bytes.Split(msg[offset:], fieldDelimiter), lines 431-444. *)
RECURSIVE Decode(_, _)
Decode(fields, event) ==
  IF fields = <<>> THEN event
  ELSE Decode(Tail(fields), DecodeField(event, Head(fields)))

ParseResult(status, err, event) == [status |-> status, err |-> err, event |-> event]

(* Mutant of Parse: the magic number is never compared.                   *)
ParseSkippingMagic(d) ==
  CASE ~d.sig              -> ParseResult("error", "signature", <<>>)
    [] d.len # "full"      -> ParseResult("panic", NoErr, <<>>)
    [] d.offset = "low"    -> ParseResult("error", "offset_low", <<>>)
    [] d.offset = "beyond" -> ParseResult("error", "offset_beyond", <<>>)
    [] OTHER               -> ParseResult("ok", NoErr, Decode(d.fields, <<>>))

(* parse, lines 413-445.  binary.BigEndian.Uint32(msg[8:]) on fewer than   *)
(* 12 bytes and msg[16] on fewer than 17 are out-of-range slice reads: a   *)
(* runtime panic.                                                          *)
Parse(d) ==
  CASE ~d.sig              -> ParseResult("error", "signature", <<>>)
    [] d.len = "lt12"      -> ParseResult("panic", NoErr, <<>>)
    [] ~d.magic            -> ParseResult("error", "magic", <<>>)
    [] d.len = "lt17"      -> ParseResult("panic", NoErr, <<>>)
    [] d.offset = "low"    -> ParseResult("error", "offset_low", <<>>)
    [] d.offset = "beyond" -> ParseResult("error", "offset_beyond", <<>>)
    [] OTHER               -> ParseResult("ok", NoErr, Decode(d.fields, <<>>))

Outcome(status, err, data) == [status |-> status, err |-> err, data |-> data]

(* Mutant of ParseUdevData: the error of the udev data read is dropped    *)
(* and the nil result is pushed.                                           *)
ParseUdevDataIgnoringReadError(d, found) ==
  LET r == Parse(d)
      m == r.event
      major == Lookup(m, "MAJOR")
      minor == Lookup(m, "MINOR")
  IN CASE r.status # "ok" -> Outcome(r.status, r.err, <<>>)
       [] Lookup(m, "SUBSYSTEM") = "block" -> Outcome("skip", NoErr, <<>>)
       [] Lookup(m, "ACTION") \in {"add", "change"} ->
            IF major \notin Numerals \/ minor \notin Numerals
            THEN Outcome("error", "atoi", <<>>)
            ELSE IF found THEN Outcome("ok", NoErr, <<"run", AtoiOf[major], AtoiOf[minor]>>)
                 ELSE Outcome("ok", NoErr, <<"nil">>)
       [] Lookup(m, "ACTION") = "remove" ->
            IF found THEN Outcome("ok", NoErr, <<"event", m>>)
            ELSE Outcome("ok", NoErr, <<"nil">>)
       [] OTHER -> Outcome("error", "action", <<>>)

(* parseUdevData, lines 447-475.  found is the outcome of the file read    *)
(* behind udev.ReadRunUdevData (add, change) or of                         *)
(* udev.EventMapToUdevData (remove): both can return an error.             *)
ParseUdevData(d, found) ==
  LET r == Parse(d)
      m == r.event
      major == Lookup(m, "MAJOR")
      minor == Lookup(m, "MINOR")
  IN CASE r.status # "ok" -> Outcome(r.status, r.err, <<>>)
       [] Lookup(m, "SUBSYSTEM") = "block" -> Outcome("skip", NoErr, <<>>)
       [] Lookup(m, "ACTION") \in {"add", "change"} ->
            IF major \notin Numerals \/ minor \notin Numerals
            THEN Outcome("error", "atoi", <<>>)
            ELSE IF found THEN Outcome("ok", NoErr, <<"run", AtoiOf[major], AtoiOf[minor]>>)
                 ELSE Outcome("error", "udev_data", <<>>)
       [] Lookup(m, "ACTION") = "remove" ->
            IF found THEN Outcome("ok", NoErr, <<"event", m>>)
            ELSE Outcome("error", "udev_data", <<>>)
       [] OTHER -> Outcome("error", "action", <<>>)

(* DEVPATH and MD_UUID values are sequences (of path elements, of          *)
(* characters); a missing key reads as "", the empty sequence.             *)
SeqValue(m, k) == IF k \in DOMAIN m THEN m[k] ELSE <<>>

(* filepath.Base: "." for "", otherwise the last path element.            *)
PathBase(p) == IF p = <<>> THEN "." ELSE Last(p)

(* Mutant of NormalizeUUID: a value of exactly 20 characters is regrouped.*)
NormalizeUUIDAtTwenty(uuid) ==
  LET u == Remove(Remove(uuid, ":"), "-")
  IN IF Len(u) >= 20
     THEN FlattenSeq(<<SubSeq(u, 1, 8), <<"-">>, SubSeq(u, 9, 12), <<"-">>,
                       SubSeq(u, 13, 16), <<"-">>, SubSeq(u, 17, 20), <<"-">>,
                       SubSeq(u, 21, Len(u))>>)
     ELSE uuid

(* normalizeUUID, lines 178-183: drop every ':' and '-', and when more     *)
(* than 20 characters are left, dash them as 8-4-4-4-rest.                 *)
NormalizeUUID(uuid) ==
  LET u == Remove(Remove(uuid, ":"), "-")
  IN IF Len(u) > 20
     THEN FlattenSeq(<<SubSeq(u, 1, 8), <<"-">>, SubSeq(u, 9, 12), <<"-">>,
                       SubSeq(u, 13, 16), <<"-">>, SubSeq(u, 17, 20), <<"-">>,
                       SubSeq(u, 21, Len(u))>>)
     ELSE uuid

DeviceEvent(m) ==
  [path      |-> PathBase(SeqValue(m, "DEVPATH")),
   major     |-> AtoiOf[Lookup(m, "MAJOR")],
   minor     |-> AtoiOf[Lookup(m, "MINOR")],
   action    |-> Lookup(m, "ACTION"),
   partition |-> IF "ID_PART_ENTRY_NUMBER" \in DOMAIN m
                 THEN AtoiOf[m["ID_PART_ENTRY_NUMBER"]] ELSE 0,
   mduuid    |-> NormalizeUUID(SeqValue(m, "MD_UUID"))]

(* unmarshalDeviceUevent, lines 185-244.  The name == "" test can never    *)
(* hold (filepath.Base never returns "").  The case list reads "add,       *)
(* change, delete", where delete is Go's builtin and the switch is left    *)
(* unclosed, so the file does not compile as written; the model reads the *)
(* third case as the remove the file declares and the statements after the *)
(* default return as following the switch.  The ID_* fields that are      *)
(* copied verbatim are left out; MD_UUID is normalised.                    *)
UnmarshalDeviceUevent(d) ==
  LET r == Parse(d)
      m == r.event
  IN CASE r.status # "ok" -> Outcome(r.status, r.err, <<>>)
       [] Lookup(m, "SUBSYSTEM") = "block" -> Outcome("skip", NoErr, <<>>)
       [] PathBase(SeqValue(m, "DEVPATH")) = "" -> Outcome("error", "devpath", <<>>)
       [] Lookup(m, "MAJOR") \notin Numerals -> Outcome("error", "atoi", <<>>)
       [] Lookup(m, "MINOR") \notin Numerals -> Outcome("error", "atoi", <<>>)
       [] Lookup(m, "ACTION") \notin {"add", "change", "remove"} ->
            Outcome("error", "action", <<>>)
       [] "ID_PART_ENTRY_NUMBER" \in DOMAIN m /\ m["ID_PART_ENTRY_NUMBER"] \notin Numerals ->
            Outcome("error", "atoi", <<>>)
       [] OTHER -> Outcome("ok", NoErr, DeviceEvent(m))

(* parseAndLoadEventData, lines 615-687: the same decoding as a method     *)
(* filling a DeviceEvent (with utils.NormalizeUUID for MD_UUID).           *)
ParseAndLoadEventData(d) == UnmarshalDeviceUevent(d)

(* What getNextDeviceUEvent decodes a datagram with, in each version       *)
(* (lines 126-142, 395-411 and 729-746); found is the outcome of the      *)
(* udev data read, which only the udevData version makes.                  *)
DecodeEvent(d, found) ==
  IF build = "udevData" THEN ParseUdevData(d, found) ELSE ParseAndLoadEventData(d)

-----------------------------------------------------------------------------
Init ==
  /\ socket = <<>>
  /\ sent = 0
  /\ received = <<>>
  /\ queue = <<>>
  /\ lpc = "select"
  /\ stopErr = NoErr
  /\ build \in Builds
  /\ canceled = FALSE
  /\ pushedAtCancel = 0

(* udevd multicasts a datagram.                                            *)
Deliver(d) ==
  /\ sent < MaxDatagrams
  /\ socket' = Append(socket, d)
  /\ sent' = sent + 1
  /\ UNCHANGED <<received, queue, lpc, stopErr, build, canceled, pushedAtCancel>>

(* The enclosing context is canceled.                                      *)
Cancel ==
  /\ ~canceled
  /\ canceled' = TRUE
  /\ pushedAtCancel' = Len(queue)
  /\ UNCHANGED <<socket, sent, received, queue, lpc, stopErr, build>>

(* Mutant of Select: "break" in the Done case leaves only the select, and  *)
(* the loop selects again without ever returning.                          *)
SelectBreakOnDone ==
  /\ lpc = "select"
  /\ IF canceled THEN UNCHANGED <<lpc, stopErr>>
                 ELSE lpc' = "read" /\ UNCHANGED stopErr
  /\ UNCHANGED <<socket, sent, received, queue, build, canceled, pushedAtCancel>>

(* Mutant of Select: the default branch is taken even when ctx is done.    *)
SelectIgnoringCancel ==
  /\ lpc = "select"
  /\ lpc' = "read"
  /\ UNCHANGED <<stopErr, socket, sent, received, queue, build, canceled, pushedAtCancel>>

(* The select at the head of Run's loop, lines 381-385: the only place the *)
(* context is looked at.                                                   *)
Select ==
  /\ lpc = "select"
  /\ IF canceled THEN lpc' = "stopped" /\ stopErr' = "canceled"
                 ELSE lpc' = "read" /\ UNCHANGED stopErr
  /\ UNCHANGED <<socket, sent, received, queue, build, canceled, pushedAtCancel>>

(* One iteration of getNextDeviceUEvent (lines 395-411): ReadMsg consumes  *)
(* the next datagram whole (msgPeek grows its buffer until the datagram   *)
(* fits, msgRead takes it), then parseUdevData.  errNonDeviceEvent loops; *)
(* a decoded event returns to Run, which pushes it (line 390) and goes    *)
(* back to the select; any other error ends Run (lines 387-389).          *)
Receive ==
  /\ lpc = "read"
  /\ socket # <<>>
  /\ \E found \in BOOLEAN :
       LET d == Head(socket)
           r == DecodeEvent(d, found)
       IN /\ socket' = Tail(socket)
          /\ received' = Append(received, d)
          /\ CASE r.status = "skip"  -> UNCHANGED <<queue, lpc, stopErr>>
               [] r.status = "ok"    ->
                    /\ queue' = Append(queue, [src |-> Len(received) + 1, data |-> r.data])
                    /\ lpc' = "select"
                    /\ UNCHANGED stopErr
               [] r.status = "error" -> lpc' = "stopped" /\ stopErr' = r.err /\ UNCHANGED queue
               [] r.status = "panic" -> lpc' = "panicked" /\ UNCHANGED <<queue, stopErr>>
  /\ UNCHANGED <<sent, build, canceled, pushedAtCancel>>

(* Recvfrom on a datagram socket copies at most len(buf) bytes of the     *)
(* next datagram and returns how many it copied (no MSG_TRUNC is passed). *)
Recvd(size, len) == IF size < len THEN size ELSE len

(* Mutant of PeekBufferLength: the loop stops once the peek fills the     *)
(* buffer (n <= len(buf)) instead of when it falls short of it.           *)
PeekBufferLengthFillStops(size, len) == IF Recvd(size, len) <= len THEN len ELSE len + PageSize

(* msgPeek (lines 477-493): peek with a buffer of len bytes, and while the *)
(* peek fills it, try again with a buffer one page longer.  The result is  *)
(* the length of the buffer msgPeek returns.                               *)
RECURSIVE PeekBufferLength(_, _)
PeekBufferLength(size, len) ==
  IF Recvd(size, len) < len THEN len ELSE PeekBufferLength(size, len + PageSize)

(* ReadMsg (lines 495-522): msgPeek from one page, then msgRead consumes   *)
(* the datagram into that buffer and cuts it to the n Recvfrom returned.   *)
ReadMsgLength(size) == Recvd(size, PeekBufferLength(size, PageSize))

(* Recvfrom in msgPeek or msgRead fails (ENOBUFS after an overrun, ...):   *)
(* ReadMsg returns the error and Run ends, lines 477-522.                  *)
RecvFails ==
  /\ lpc = "read"
  /\ lpc' = "stopped"
  /\ stopErr' = "recv"
  /\ UNCHANGED <<socket, sent, received, queue, build, canceled, pushedAtCancel>>

Next ==
  \/ \E d \in Datagrams : Deliver(d)
  \/ Cancel
  \/ Select
  \/ Receive
  \/ RecvFails

Spec == Init /\ [][Next]_vars

(* Run's loop is one goroutine that never waits except in Recvfrom: the   *)
(* select at its head is always taken, and a read returns once a datagram *)
(* is there.  udevd, the canceler and socket errors get no fairness.      *)
FairSpec == Spec /\ WF_vars(Select) /\ WF_vars(Receive)

-----------------------------------------------------------------------------
(* The wire contract of spec section 4.1, written independently of parse:  *)
(* the class of a datagram, and its key/value mapping with the last write  *)
(* winning.                                                                 *)
RefClass(d) ==
  CASE ~d.sig              -> "signature"
    [] d.len # "full"      -> "length"
    [] ~d.magic            -> "magic"
    [] d.offset = "low"    -> "offset_low"
    [] d.offset = "beyond" -> "offset_beyond"
    [] OTHER               -> "ok"

RefDecode(fields) ==
  LET keys == {fields[i][1] : i \in {j \in 1..Len(fields) : Len(fields[j]) > 0}}
      last(k) == fields[SelectLastInSeq(fields, LAMBDA f : Len(f) > 0 /\ f[1] = k)]
  IN [k \in keys |-> IF Len(last(k)) = 1 THEN "" ELSE last(k)[2]]

(* UUID normalisation of spec section 4.3: with ':' and '-' stripped, a    *)
(* value longer than 20 characters is regrouped 8-4-4-4-12 with dashes;    *)
(* a shorter one passes unchanged.                                         *)
RECURSIVE Grouped(_, _)
Grouped(s, sizes) ==
  IF sizes = <<>> THEN s
  ELSE SubSeq(s, 1, Head(sizes)) \o <<"-">> \o
       Grouped(SubSeq(s, Head(sizes) + 1, Len(s)), Tail(sizes))

RefNormalizeUUID(u) ==
  LET hex == SelectSeq(u, LAMBDA c : c \notin {":", "-"})
  IN IF Len(hex) > 20 THEN Grouped(hex, <<8, 4, 4, 4>>) ELSE u

(* The event the spec expects of a datagram: the udev data of the         *)
(* udevData version (the run-file record of major:minor for add and       *)
(* change, the event map for remove), or the Device fields of sections    *)
(* 4.1-4.3 in the deviceEvent version (numeric major, minor and partition, *)
(* 0 when there is none, and the normalised MD UUID).                      *)
RefData(d) ==
  LET m == RefDecode(d.fields)
  IN CASE build = "deviceEvent" ->
            [path      |-> PathBase(SeqValue(m, "DEVPATH")),
             major     |-> AtoiOf[m["MAJOR"]],
             minor     |-> AtoiOf[m["MINOR"]],
             action    |-> m["ACTION"],
             partition |-> IF "ID_PART_ENTRY_NUMBER" \in DOMAIN m
                           THEN AtoiOf[m["ID_PART_ENTRY_NUMBER"]] ELSE 0,
             mduuid    |-> RefNormalizeUUID(SeqValue(m, "MD_UUID"))]
       [] Lookup(m, "ACTION") \in {"add", "change"} ->
            <<"run", AtoiOf[Lookup(m, "MAJOR")], AtoiOf[Lookup(m, "MINOR")]>>
       [] OTHER -> <<"event", m>>

(* A block-device event the handler must see (spec section 4.2): a valid   *)
(* datagram of SUBSYSTEM block with one of the three actions.              *)
IsBlockDeviceEvent(d) ==
  LET m == RefDecode(d.fields)
  IN /\ RefClass(d) = "ok"
     /\ Lookup(m, "SUBSYSTEM") = "block"
     /\ Lookup(m, "ACTION") \in {"add", "change", "remove"}

UdevData ==
  {<<"run", a, b>> : a, b \in Range(AtoiOf)}
    \cup {<<"event", RefDecode(d.fields)>> : d \in Datagrams}

DeviceEvents ==
  [path : STRING, major : Int, minor : Int, action : {"add", "change", "remove"},
   partition : Int, mduuid : Seq(STRING)]

(* Every variable has its type; every queued event is udev data.           *)
TypeOK ==
  /\ socket \in Seq(Datagrams)
  /\ received \in Seq(Datagrams)
  /\ sent \in 0..MaxDatagrams
  /\ lpc \in {"select", "read", "stopped", "panicked"}
  /\ canceled \in BOOLEAN
  /\ pushedAtCancel \in 0..Len(queue)
  /\ build \in Builds
  /\ \A i \in 1..Len(queue) :
       /\ queue[i].src \in Nat \ {0}
       /\ queue[i].data \in IF build = "udevData" THEN UdevData ELSE DeviceEvents

(* What Run pushes is what the wire contract says the datagrams hold: each *)
(* queued event comes from a datagram that passed every header check, it   *)
(* is what that datagram's key/value mapping (last write winning) says:   *)
(* the run-file read of its major:minor or the map itself (udevData), or  *)
(* its numeric and normalised Device fields (deviceEvent); events are      *)
(* queued in the order the datagrams were read.  This is about parse's     *)
(* field loop and header checks, parseUdevData, unmarshalDeviceUevent and *)
(* normalizeUUID, and the read/push order of Run.                          *)
QueueDecodesReceived ==
  /\ \A i \in 1..Len(queue) :
       /\ queue[i].src \in 1..Len(received)
       /\ RefClass(received[queue[i].src]) = "ok"
       /\ queue[i].data = RefData(received[queue[i].src])
  /\ \A i \in 1..Len(queue) - 1 : queue[i].src < queue[i + 1].src

(* No block-device event is dropped by the read loop: every one the loop   *)
(* has read is on the queue, unless it is the datagram on which Run        *)
(* stopped.  This is about the SUBSYSTEM test of parseUdevData (line 453)  *)
(* and the errNonDeviceEvent skip of getNextDeviceUEvent (line 404).       *)
NoBlockEventSkipped ==
  \A i \in 1..Len(received) :
    IsBlockDeviceEvent(received[i]) =>
      \/ \E j \in 1..Len(queue) : queue[j].src = i
      \/ i = Len(received) /\ lpc \in {"stopped", "panicked"}

(* Once ctx is canceled, Run returns (or has panicked), unless it is       *)
(* blocked in Recvfrom with no datagram to read: the loop must come back  *)
(* to the select at its head (lines 381-385), and the select must return  *)
(* ctx.Err() rather than go round again.                                   *)
CancelEventuallyEndsRun ==
  canceled ~> (lpc \in {"stopped", "panicked"} \/ (lpc = "read" /\ socket = <<>>))

(* Whenever Run is in getNextDeviceUEvent, the ReadMsg it calls hands the *)
(* decoder the whole datagram, whatever its length: msgPeek's growth loop  *)
(* stops only on a peek that leaves room, so no datagram of one page or    *)
(* more is cut at a page boundary (spec 4.2: the buffer grows a page at a  *)
(* time until the full datagram fits).  This is what lets Receive take a   *)
(* datagram whole.                                                         *)
PeekReadsWholeDatagram ==
  lpc = "read" => \A size \in DatagramSizes : ReadMsgLength(size) = size

(* Cancellation is seen within one event: once ctx is done, Run pushes at  *)
(* most the one event getNextDeviceUEvent was already reading, and after   *)
(* that returns ctx.Err() at the loop head.  Any number of skipped or      *)
(* decoded datagrams may lie between the cancel and the read's return, so  *)
(* this is about the select of Run (lines 381-385) being taken before      *)
(* every call of getNextDeviceUEvent, and the push (line 390) going back   *)
(* to it.                                                                   *)
AtMostOnePushAfterCancel ==
  canceled => Len(queue) <= pushedAtCancel + 1

=============================================================================
