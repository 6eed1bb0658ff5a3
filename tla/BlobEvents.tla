----------------------------- MODULE BlobEvents -----------------------------
(***************************************************************************)
(* pytusk/core/chain/events.py: the object a Walrus event names, taken out *)
(* of the BCS bytes of a Sui event.  The fields of the envelope and of the *)
(* payload follow each other without names, so that every length has to be *)
(* right for the bytes read to be those of the object ID.                  *)
(*                                                                         *)
(* Bytes are numbers; offsets count from 0, as in the code.  <<>> stands   *)
(* for None, Malformed for an offset that could not be found.              *)
(***************************************************************************)
EXTENDS Integers, Sequences, SequencesExt

Malformed == -1

LOCAL Total(layout) == FoldLeft(LAMBDA sum, field : sum + field[2], 0, layout)

(* Fields in the order of the Move declaration, each with its width. *)
EVENT_LAYOUTS ==
  [BlobRegistered |-> <<<<"epoch", 4>>, <<"blob_id", 32>>, <<"size", 8>>,
                        <<"encoding_type", 1>>, <<"end_epoch", 4>>, <<"deletable", 1>>,
                        <<"object_id", 32>>>>,
   BlobCertified  |-> <<<<"epoch", 4>>, <<"blob_id", 32>>, <<"end_epoch", 4>>,
                        <<"deletable", 1>>, <<"object_id", 32>>, <<"is_extension", 1>>>>,
   BlobDeleted    |-> <<<<"epoch", 4>>, <<"blob_id", 32>>, <<"end_epoch", 4>>,
                        <<"object_id", 32>>, <<"was_certified", 1>>>>,
   InvalidBlobID  |-> <<<<"epoch", 4>>, <<"blob_id", 32>>>>]

-----------------------------------------------------------------------------
(* The envelope. *)

(* <<value, next offset>>; at most six bytes, the last one below 128. *)
read_uleb(raw, offset) ==
  LET ends == {i \in offset .. offset + 5 : i < Len(raw) /\ raw[i + 1] < 128}
      last == CHOOSE i \in ends : \A j \in ends : i <= j
      value[i \in offset .. last] ==
        (raw[i + 1] % 128) + (IF i = last THEN 0 ELSE 128 * value[i + 1])
  IN  IF offset = Malformed \/ ends = {} THEN <<>> ELSE <<value[offset], last + 1>>

skip_uleb_bytes(raw, offset) ==
  LET read == read_uleb(raw, offset)
  IN  IF read = <<>> \/ read[1] + read[2] > Len(raw) THEN Malformed ELSE read[1] + read[2]

skip_fixed(raw, offset, width) ==
  IF offset = Malformed \/ offset + width > Len(raw) THEN Malformed ELSE offset + width

(* Package, module name, sender and address, two more names, no type parameters;
   then the payload, which takes all the rest. *)
event_payload(raw) ==
  LET named      == skip_uleb_bytes(raw, skip_fixed(raw, 0, 32))
      addressed  == skip_fixed(raw, named, 64)
      parameters == read_uleb(raw, skip_uleb_bytes(raw, skip_uleb_bytes(raw, addressed)))
      length     == read_uleb(raw, parameters[2])
  IN  IF \/ parameters = <<>> \/ parameters[1] /= 0
         \/ length = <<>> \/ length[1] + length[2] /= Len(raw)
        THEN <<>>
      ELSE SubSeq(raw, length[2] + 1, Len(raw))

-----------------------------------------------------------------------------
(* The object ID: a payload that is not as long as its layout is not read. *)

(* Broken: bytes after the last known field are taken for none of its business. *)
object_id_of_prefix(event_type, raw) ==
  LET layout  == EVENT_LAYOUTS[event_type]
      payload == event_payload(raw)
      ids     == {f \in DOMAIN layout : layout[f][1] = "object_id"}
      field   == CHOOSE f \in ids : TRUE
      offset  == Total(SubSeq(layout, 1, field - 1))
  IN  IF \/ event_type \notin DOMAIN EVENT_LAYOUTS
         \/ Len(payload) < Total(layout) \/ ids = {}
        THEN <<>>
      ELSE SubSeq(payload, offset + 1, offset + layout[field][2])

event_object_id(event_type, raw) ==
  LET layout  == EVENT_LAYOUTS[event_type]
      payload == event_payload(raw)
      ids     == {f \in DOMAIN layout : layout[f][1] = "object_id"}
      field   == CHOOSE f \in ids : TRUE
      offset  == Total(SubSeq(layout, 1, field - 1))
  IN  IF \/ event_type \notin DOMAIN EVENT_LAYOUTS
         \/ Len(payload) /= Total(layout) \/ ids = {}
        THEN <<>>
      ELSE SubSeq(payload, offset + 1, offset + layout[field][2])

(* The reader answers with the events of the transaction, or not at all (<<>>). *)
fetch_event_object_id(answer, event_seq) ==
  IF answer = <<>> \/ event_seq < 0 \/ event_seq >= Len(answer[1]) THEN <<>>
  ELSE event_object_id(answer[1][event_seq + 1].event_type,
                       answer[1][event_seq + 1].contents)
=============================================================================
