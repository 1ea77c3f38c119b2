-------------------------- MODULE StreamPublisher --------------------------
(***************************************************************************)
(* StreamPublisherImpl (MoQSession.cpp 62-790): the writer of one          *)
(* unidirectional data stream, either a subgroup stream or the stream of a *)
(* FETCH response (mode).  The application drives it through the           *)
(* SubgroupConsumer or FetchConsumer interface; the transport may fail a   *)
(* write or fire the STOP_SENDING cancellation callback.                   *)
(*                                                                         *)
(* The writer is the record sp.  Each interface method is an operator from *)
(* sp to sp, composed the way the C++ calls its private helpers, so an     *)
(* action is the whole method.  Payloads are abstracted to their length;   *)
(* what the transport receives is the sequence sp.wire of header, object   *)
(* and payload-chunk records.                                              *)
(***************************************************************************)
EXTENDS Integers, Sequences, SequencesExt, FiniteSetsExt

CONSTANTS
  Modes,         \* constructors that may build the writer: "subgroup", "fetch"
  ObjectIds,     \* object ids the application publishes
  Groups,        \* group ids of a fetch response
  Lengths,       \* object lengths and payload chunk lengths (bytes)
  WriteCanFail,  \* whether writeStreamData may return an error
  MaxCalls,      \* bound on the number of application calls
  AppStopsAtEnd  \* the application makes no call after one of its own calls
                 \* ended the stream (FIN written, or an error that reset it)

ASSUME Modes \subseteq {"subgroup", "fetch"}
ASSUME ObjectIds \subseteq Nat /\ Groups \subseteq Nat /\ Lengths \subseteq Nat
ASSUME WriteCanFail \in BOOLEAN /\ MaxCalls \in Nat /\ AppStopsAtEnd \in BOOLEAN

VARIABLES
  sp,     \* the StreamPublisherImpl and what its transport stream received
  calls,  \* number of application calls made so far
  appDone, \* a call of the application has ended the stream
  mode     \* the constructor that built the writer

vars == <<sp, calls, appDone, mode>>

\* std::numeric_limits<uint64_t>::max(), the "no object yet" id.
Sentinel == -1
\* An empty folly::Optional<uint64_t> currentLengthRemaining_.
NoLength == -1

Statuses == {"NORMAL", "OBJECT_NOT_EXIST", "GROUP_NOT_EXIST", "END_OF_GROUP",
             "END_OF_TRACK_AND_GROUP"}

HeaderRec == [kind |-> "header"]
\* writeObject(writeBuf_, streamType_, header_, payload): the object header
\* as encoded from header_, with `meant` the status the API call publishes.
ObjRec(s, length, bytes, meant) ==
  [kind |-> "object", group |-> s.group, id |-> s.id, status |-> s.status,
   length |-> length, bytes |-> bytes, meant |-> meant]
PayloadRec(n) == [kind |-> "payload", bytes |-> n]

\* Constructors: the header_ of the fetch constructor, which the subgroup
\* constructor reuses after setGroupAndSubgroup(groupID, subgroupID).
InitialSP ==
  [handle |-> "open", group |-> 0, id |-> Sentinel, status |-> "NORMAL",
   remaining |-> NoLength, headerPending |-> TRUE, wire |-> <<>>,
   ended |-> "open", completions |-> 0, stopSent |-> FALSE,
   crashed |-> FALSE]

(***************************************************************************)
(* Private helpers                                                         *)
(***************************************************************************)

\* onStreamComplete(): publisher_->onStreamComplete(header_).
onStreamComplete(s) == [s EXCEPT !.completions = @ + 1]

\* reset(error): drop the write handle, resetStream on the transport if there
\* was one, and always notify the publisher.  currentLengthRemaining_ and
\* header_ are left as they are.
reset(s) ==
  onStreamComplete(
    IF s.handle = "open"
    THEN [s EXCEPT !.handle = "null", !.ended = "reset"]
    ELSE s)

\* Fault model: a FIN does not notify the publisher.
writeToStreamNoComplete(s, items, finStream, writeOk) ==
  LET s1 == IF finStream THEN [s EXCEPT !.handle = "null"] ELSE s
      out == IF s.headerPending THEN <<HeaderRec>> \o items ELSE items
  IN  IF s.handle = "null" THEN [s1 EXCEPT !.crashed = TRUE]
      ELSE IF writeOk
      THEN [s1 EXCEPT !.wire = @ \o out, !.headerPending = FALSE,
                      !.ended = IF finStream THEN "fin" ELSE @]
      ELSE reset([s1 EXCEPT !.headerPending = FALSE])

\* Fault model: writeHandle_ is kept after the FIN was written.
writeToStreamKeepsHandle(s, items, finStream, writeOk) ==
  LET out == IF s.headerPending THEN <<HeaderRec>> \o items ELSE items
  IN  IF s.handle = "null" THEN [s EXCEPT !.crashed = TRUE]
      ELSE IF writeOk
      THEN LET s2 == [s EXCEPT !.wire = @ \o out, !.headerPending = FALSE,
                               !.ended = IF finStream THEN "fin" ELSE @]
           IN  IF finStream THEN onStreamComplete(s2) ELSE s2
      ELSE reset([s EXCEPT !.headerPending = FALSE])

\* writeToStream(finStream), with writeOk the transport's answer.  The local
\* copy of writeHandle_ is dereferenced whatever its value: with a null
\* handle the process dereferences nullptr (crashed).
writeToStream(s, items, finStream, writeOk) ==
  LET s1 == IF finStream THEN [s EXCEPT !.handle = "null"] ELSE s
      out == IF s.headerPending THEN <<HeaderRec>> \o items ELSE items
  IN  IF s.handle = "null" THEN [s1 EXCEPT !.crashed = TRUE]
      ELSE IF writeOk
      THEN LET s2 == [s1 EXCEPT !.wire = @ \o out, !.headerPending = FALSE,
                                !.ended = IF finStream THEN "fin" ELSE @]
           IN  IF finStream THEN onStreamComplete(s2) ELSE s2
      ELSE reset([s1 EXCEPT !.headerPending = FALSE])

\* Fault model: the check that the object id advances is missing.
validatePublishNoIdCheck(s, objectID) ==
  CASE s.remaining # NoLength -> [ok |-> FALSE, sp |-> reset(s)]
    [] s.handle = "null" -> [ok |-> FALSE, sp |-> s]
    [] OTHER -> [ok |-> TRUE, sp |-> s]

\* Fault model: the check for an object still in progress is missing.
validatePublishNoInProgressCheck(s, objectID) ==
  CASE s.id # Sentinel /\ objectID <= s.id -> [ok |-> FALSE, sp |-> reset(s)]
    [] s.handle = "null" -> [ok |-> FALSE, sp |-> s]
    [] OTHER -> [ok |-> TRUE, sp |-> s]

\* validatePublish(objectID): no object in progress, the id advances, the
\* handle is still there; the first two failures reset the stream.
validatePublish(s, objectID) ==
  CASE s.remaining # NoLength -> [ok |-> FALSE, sp |-> reset(s)]
    [] s.id # Sentinel /\ objectID <= s.id -> [ok |-> FALSE, sp |-> reset(s)]
    [] s.handle = "null" -> [ok |-> FALSE, sp |-> s]
    [] OTHER -> [ok |-> TRUE, sp |-> s]

\* Fault model: header_.id is set one past the object written.
writeCurrentObjectOffByOne(s, objectID, length, bytes, meant, finStream, writeOk) ==
  LET s1 == [s EXCEPT !.id = objectID]
  IN  writeToStream([s1 EXCEPT !.id = objectID + 1],
                    <<ObjRec(s1, length, bytes, meant)>>, finStream, writeOk)

\* writeCurrentObject(objectID, length, payload, finStream).
writeCurrentObject(s, objectID, length, bytes, meant, finStream, writeOk) ==
  LET s1 == [s EXCEPT !.id = objectID]
  IN  writeToStream(s1, <<ObjRec(s1, length, bytes, meant)>>, finStream, writeOk)

\* validateObjectPublishAndUpdateState(payload, finStream): result is
\* "DONE", "IN_PROGRESS" or "ERROR".
validateObjectPublishAndUpdateState(s, length, finStream) ==
  IF s.remaining = NoLength THEN [res |-> "ERROR", sp |-> s]
  ELSE IF length > s.remaining THEN [res |-> "ERROR", sp |-> reset(s)]
  ELSE LET left == s.remaining - length
       IN  IF left = 0
           THEN [res |-> "DONE", sp |-> [s EXCEPT !.remaining = NoLength]]
           ELSE IF finStream
           THEN [res |-> "ERROR", sp |-> reset([s EXCEPT !.remaining = left])]
           ELSE [res |-> "IN_PROGRESS", sp |-> [s EXCEPT !.remaining = left]]

\* setGroupAndSubgroup(groupID, subgroupID) of the fetch methods.
setGroupAndSubgroup(s, groupID) ==
  IF groupID < s.group THEN [ok |-> FALSE, sp |-> s]
  ELSE [ok |-> TRUE,
        sp |-> [s EXCEPT !.id = IF groupID > s.group THEN Sentinel ELSE @,
                         !.group = groupID]]

(***************************************************************************)
(* Interface methods (SubgroupConsumer and FetchConsumer overrides)        *)
(***************************************************************************)

\* object(objectID, payload, finStream): header_.status is not touched.
object(s, objectID, length, finStream, writeOk) ==
  LET v == validatePublish(s, objectID)
  IN  IF ~v.ok THEN v.sp
      ELSE writeCurrentObject(v.sp, objectID, length, length, "NORMAL",
                              finStream, writeOk)

\* publishStatus(objectID, status, finStream).
publishStatus(s, objectID, status, finStream, writeOk) ==
  LET v == validatePublish(s, objectID)
  IN  IF ~v.ok THEN v.sp
      ELSE writeCurrentObject([v.sp EXCEPT !.status = status], objectID, 0, 0,
                              status, finStream, writeOk)

\* beginObject(objectId, length, initialPayload).
beginObject(s, objectID, length, initial, writeOk) ==
  LET v == validatePublish(s, objectID)
      u == validateObjectPublishAndUpdateState(
             [v.sp EXCEPT !.remaining = length], initial, FALSE)
  IN  IF ~v.ok THEN v.sp
      ELSE IF u.res = "ERROR" THEN u.sp
      ELSE writeCurrentObject(u.sp, objectID, length, initial, "NORMAL",
                              FALSE, writeOk)

\* objectPayload(payload, finStream).
objectPayload(s, length, finStream, writeOk) ==
  LET u == validateObjectPublishAndUpdateState(s, length, finStream)
  IN  IF u.res = "ERROR" THEN u.sp
      ELSE writeToStream(u.sp, <<PayloadRec(length)>>, finStream, writeOk)

\* endOfSubgroup(): fails and resets if an object is still open.
endOfSubgroup(s, writeOk) ==
  IF s.remaining # NoLength THEN reset(s)
  ELSE writeToStream(s, <<>>, TRUE, writeOk)

\* endOfFetch(): CANCELLED once the write handle is gone.
endOfFetch(s, writeOk) ==
  IF s.handle = "null" THEN s ELSE endOfSubgroup(s, writeOk)

\* Fault model: the fetch overrides leave header_.status as it was.
AsNormalMissing(s) == s

\* The FetchConsumer methods: setGroupAndSubgroup, then the method above,
\* applied to Grouped(s, groupID); a call for an older group changes nothing.
\* object and beginObject also set header_.status = NORMAL first.
Grouped(s, groupID) == setGroupAndSubgroup(s, groupID).sp

WithGroup(s, groupID, result) ==
  IF setGroupAndSubgroup(s, groupID).ok THEN result ELSE s

AsNormal(s) == [s EXCEPT !.status = "NORMAL"]

-----------------------------------------------------------------------------
(***************************************************************************)
(* Actions                                                                 *)
(***************************************************************************)

Init ==
  /\ sp = InitialSP
  /\ calls = 0
  /\ appDone = FALSE
  /\ mode \in Modes

WriteOutcomes == IF WriteCanFail THEN BOOLEAN ELSE {TRUE}

\* An application call of the writer: next[ok] is the writer after the call
\* when the transport's writes succeed (ok) or fail.
AppCall(next) ==
  /\ ~sp.crashed
  /\ calls < MaxCalls
  /\ AppStopsAtEnd => ~appDone
  /\ calls' = calls + 1
  /\ \E ok \in WriteOutcomes : sp' = next[ok]
  /\ appDone' = (sp'.handle = "null")
  /\ UNCHANGED mode

Object ==
  \E id \in ObjectIds, len \in Lengths, fin \in BOOLEAN :
    AppCall([ok \in WriteOutcomes |-> object(sp, id, len, fin, ok)])

ObjectNotExists ==
  \E id \in ObjectIds, fin \in BOOLEAN :
    AppCall([ok \in WriteOutcomes |-> publishStatus(sp, id, "OBJECT_NOT_EXIST", fin, ok)])

BeginObject ==
  \E id \in ObjectIds, len, init \in Lengths :
    AppCall([ok \in WriteOutcomes |-> beginObject(sp, id, len, init, ok)])

ObjectPayload ==
  \E len \in Lengths, fin \in BOOLEAN :
    AppCall([ok \in WriteOutcomes |-> objectPayload(sp, len, fin, ok)])

\* endOfGroup(id) and endOfTrackAndGroup(id) of SubgroupConsumer.
EndOfGroup ==
  \E id \in ObjectIds, st \in {"END_OF_GROUP", "END_OF_TRACK_AND_GROUP"} :
    AppCall([ok \in WriteOutcomes |-> publishStatus(sp, id, st, TRUE, ok)])

EndOfSubgroup == AppCall([ok \in WriteOutcomes |-> endOfSubgroup(sp, ok)])

FetchObject ==
  \E g \in Groups, id \in ObjectIds, len \in Lengths, fin \in BOOLEAN :
    AppCall([ok \in WriteOutcomes |->
      WithGroup(sp, g, object(AsNormal(Grouped(sp, g)), id, len, fin, ok))])

FetchObjectNotExists ==
  \E g \in Groups, id \in ObjectIds, fin \in BOOLEAN :
    AppCall([ok \in WriteOutcomes |->
      WithGroup(sp, g, publishStatus(Grouped(sp, g), id, "OBJECT_NOT_EXIST", fin, ok))])

\* groupNotExists(g, sg, fin) publishes status GROUP_NOT_EXIST as object 0.
FetchGroupNotExists ==
  \E g \in Groups, fin \in BOOLEAN :
    AppCall([ok \in WriteOutcomes |->
      WithGroup(sp, g, publishStatus(Grouped(sp, g), 0, "GROUP_NOT_EXIST", fin, ok))])

FetchBeginObject ==
  \E g \in Groups, id \in ObjectIds, len, init \in Lengths :
    AppCall([ok \in WriteOutcomes |->
      WithGroup(sp, g, beginObject(AsNormal(Grouped(sp, g)), id, len, init, ok))])

\* endOfGroup(g, sg, id, fin) and endOfTrackAndGroup(g, sg, id).
FetchEndOfGroup ==
  \E g \in Groups, id \in ObjectIds, fin \in BOOLEAN :
    \/ AppCall([ok \in WriteOutcomes |->
         WithGroup(sp, g, publishStatus(Grouped(sp, g), id, "END_OF_GROUP", fin, ok))])
    \/ AppCall([ok \in WriteOutcomes |->
         WithGroup(sp, g, publishStatus(Grouped(sp, g), id, "END_OF_TRACK_AND_GROUP", TRUE, ok))])

EndOfFetch == AppCall([ok \in WriteOutcomes |-> endOfFetch(sp, ok)])

\* reset(error) called by the application.
Reset == AppCall([ok \in WriteOutcomes |-> reset(sp)])

\* The CancellationCallback on the write handle's token (peer STOP_SENDING):
\* it runs once, and resets the stream if the handle is still there.
StopSending ==
  /\ ~sp.crashed /\ ~sp.stopSent
  /\ sp' = LET s == [sp EXCEPT !.stopSent = TRUE]
           IN  IF s.handle = "open" THEN reset(s) ELSE s
  /\ UNCHANGED <<calls, appDone, mode>>

SubgroupNext ==
  \/ Object \/ ObjectNotExists \/ BeginObject \/ ObjectPayload
  \/ EndOfGroup \/ EndOfSubgroup \/ Reset \/ StopSending

FetchNext ==
  \/ FetchObject \/ FetchObjectNotExists \/ FetchGroupNotExists
  \/ FetchBeginObject \/ ObjectPayload \/ FetchEndOfGroup \/ EndOfFetch
  \/ Reset \/ StopSending

Next == IF mode = "subgroup" THEN SubgroupNext ELSE FetchNext

Spec == Init /\ [][Next]_vars

-----------------------------------------------------------------------------
(***************************************************************************)
(* Properties of what the transport stream carries                         *)
(***************************************************************************)

TypeOK ==
  /\ sp.handle \in {"open", "null"}
  /\ sp.group \in Groups \cup {0}
  /\ sp.id \in ObjectIds \cup {0, Sentinel}
  /\ sp.status \in Statuses
  /\ sp.remaining \in Lengths \cup {NoLength}
  /\ sp.ended \in {"open", "fin", "reset"}
  /\ sp.completions \in Nat
  /\ {sp.headerPending, sp.stopSent, sp.crashed} \subseteq BOOLEAN
  /\ calls \in 0..MaxCalls
  /\ appDone \in BOOLEAN
  /\ mode \in Modes

Wire == sp.wire
ObjectAt == {i \in DOMAIN Wire : Wire[i].kind = "object"}
\* Index of the first object record after i, or one past the end.
NextObject(i) ==
  LET later == {j \in ObjectAt : j > i}
  IN  IF later = {} THEN Len(Wire) + 1 ELSE Min(later)
\* Bytes of the object at i: its initial payload and the chunks after it.
BytesOf(i) ==
  FoldLeft(LAMBDA acc, r : acc + r.bytes, 0, SubSeq(Wire, i, NextObject(i) - 1))

\* Object ids on a stream strictly increase, and on a fetch stream the group
\* never goes back (validatePublish, setGroupAndSubgroup): a reader can
\* rely on the order whatever the application called in between.
WireObjectIdsIncrease ==
  \A i, j \in ObjectAt :
    i < j => \/ Wire[i].group < Wire[j].group
             \/ Wire[i].group = Wire[j].group /\ Wire[i].id < Wire[j].id

\* Every object carries exactly the bytes its header declares: no chunk
\* overruns it, and it is complete before the next object or a FIN
\* (currentLengthRemaining_ accounting across beginObject, objectPayload,
\* endOfSubgroup).  Only a reset stream may end inside an object.
ObjectLengthAccounting ==
  \A i \in ObjectAt :
    /\ BytesOf(i) <= Wire[i].length
    /\ (NextObject(i) <= Len(Wire) \/ sp.ended = "fin")
         => BytesOf(i) = Wire[i].length

\* Every object goes out with the status the call published: object and
\* beginObject send NORMAL objects, the status methods their status
\* (header_.status is shared by all writes of the stream).
WireStatusAsPublished ==
  \A i \in ObjectAt : Wire[i].status = Wire[i].meant

\* The same for the fetch writer, whose object and beginObject set
\* header_.status to NORMAL before they write.
FetchWireStatusAsPublished == mode = "fetch" => WireStatusAsPublished

\* Once the writer has dropped its write handle (FIN written, reset, or
\* STOP_SENDING) it has told its publisher (onStreamComplete), so the
\* TrackPublisher / FetchPublisher does not keep an ended stream.
StreamReleasedOnEnd ==
  sp.handle = "null" => sp.completions >= 1

\* After the transport stream got its FIN or was reset, no later call puts
\* anything more on it.
NoDataAfterStreamEnd ==
  [][sp.ended # "open" => sp'.wire = sp.wire]_vars

\* A call made after the stream ended leaves it alone: no interface method
\* dereferences the write handle after the writer set it to nullptr
\* (writeToStream after FIN, reset or STOP_SENDING), and the publisher is
\* told of the end once (a second onStreamComplete reaches
\* PublisherImpl::fetchComplete with session_ already nullptr).
EndedStreamUntouched == ~sp.crashed /\ sp.completions <= 1
=============================================================================
