----------------------------- MODULE BinImport -----------------------------
(***************************************************************************)
(* Import of a binary map of IDs and values: thingset_import_data,         *)
(* thingset_import_report, thingset_import_record and the progressive      *)
(* import, which is given the map in chunks (src/thingset_bin.c and        *)
(* src/thingset.c).  One import at a time: the lock of the context, which  *)
(* ThingsetContext models, is held throughout.                             *)
(*                                                                         *)
(* A message is a sequence of cells.  A cell is the head of a CBOR item or *)
(* one character of a string, so that a chunk can end inside of an item:   *)
(*   "uint" n          the number n                                        *)
(*   "str" n           n cells "char" follow                               *)
(*   "list" n          n items follow                                      *)
(*   "map" n           n IDs follow, each with an item                     *)
(*   "report"          the first byte of a report                          *)
(* The decoder of zcbor is modelled by what src/thingset_bin.c sees of it: *)
(* a call that fails leaves position and element count as they were.       *)
(***************************************************************************)
EXTENDS Integers, Sequences, FiniteSets, SequencesExt, FiniteSetsExt

CONSTANTS
    Objects,           \* IDs of the data objects
    Type,              \* "num", "str" or "array" (of numbers)
    Capacity,          \* largest number; size of the buffer with its
                       \*   terminator; max_elements
    Writable,          \* objects the auth_flags of the call may write
    RecordItems,       \* children of the endpoint of thingset_import_record
    InitData,          \* data as sequences of numbers
    MaxId,             \* UINT16_MAX
    Subset,            \* the ID of the reports thingset_import_report takes
    Maps,              \* sequences of items the peer sends
    Entries,           \* functions of the API that are used
    Lost,              \* how many cells may be missing at the end of a message
    MinChunk,          \* smallest chunk, but for the last
    MaxChunk,          \* the caller's buffer
    CallerCountsCells  \* the caller goes on until it has passed everything

ASSUME ConstantsAssumption ==
    /\ Objects \subseteq 1 .. MaxId
    /\ Type \in [Objects -> {"num", "str", "array"}]
    /\ Capacity \in [Objects -> Nat]
    /\ Writable \subseteq Objects /\ RecordItems \subseteq Objects
    /\ MaxId \in Nat /\ MaxChunk \in Nat
    /\ InitData \in [Objects -> Seq(Nat)]
    /\ Subset \in 1 .. MaxId
    /\ Entries \subseteq {"data", "report", "record", "progressively"}
    /\ Lost \subseteq Nat
    /\ MinChunk \in 1 .. MaxChunk
    /\ CallerCountsCells \in BOOLEAN

VARIABLES
    entry,    \* the function called
    items,    \* what the peer wanted to say
    stream,   \* the cells of it that have arrived
    pos,      \* cells the caller has passed on
    size,     \* cells in the chunk; decoder->payload_end - msg
    dec,      \* ts->decoder: payload - msg, and elem_count
    saved,    \* the local variable "state", a copy of the decoder
    parsed,   \* successfully_parsed_bytes
    lastId,   \* the caller's *last_id
    data,     \* the application's variables
    pc,       \* "caller", "loop", "child", "end"
    status,   \* what the latest call returned
    cut       \* some call was given less than the item it began with;
              \*   no part of the code

import == <<pos, size, dec, saved, parsed, lastId>>
vars == <<entry, items, stream, pos, size, dec, saved, parsed, lastId, data, pc,
          status, cut>>

----------------------------------------------------------------------------
(***************************************************************************)
(* Messages.                                                               *)
(***************************************************************************)

Cells == [k : {"uint", "str", "char", "list", "map", "report"}, n : Nat]
Head1(kind, n) == [k |-> kind, n |-> n]

EncodeItem(i) == <<Head1("uint", i.id)>> \o i.value
EncodeMap(is) ==
    <<Head1("map", Len(is))>> \o FlattenSeq([j \in DOMAIN is |-> EncodeItem(is[j])])
Encode(e, is) ==
    IF e = "report" THEN <<Head1("report", 0), Head1("uint", Subset)>> \o EncodeMap(is)
                    ELSE EncodeMap(is)

(* Where the map starts, and where the item j of it ends. *)
MapStart(e) == IF e = "report" THEN 2 ELSE 0
EndOfItem(e, is, j) == MapStart(e) + Len(EncodeMap(SubSeq(is, 1, j)))

(* What item i means: its value goes to its object if the object can take  *)
(* it, and it is passed by otherwise.                                      *)
Numbers(cells) == [j \in 1 .. Len(cells) - 1 |-> cells[j + 1].n]
Fits(o, value) ==
    CASE Type[o] = "num" -> value[1].k = "uint" /\ value[1].n <= Capacity[o]
      [] Type[o] = "str" -> value[1].k = "str" /\ value[1].n < Capacity[o]
      [] Type[o] = "array" -> /\ value[1].k = "list" /\ value[1].n <= Capacity[o]
                              /\ \A j \in 2 .. Len(value) : value[j].k = "uint"
Meaning(value) == IF value[1].k = "uint" THEN <<value[1].n>> ELSE Numbers(value)

(* A value of the kind of its object, if that is one of os, fits it.  A    *)
(* string that is too long and a list that is or that holds other things   *)
(* than numbers do not leave the decoder where the other values that       *)
(* cannot be taken leave it.                                               *)
WellSized(is, os) ==
    \A j \in DOMAIN is :
        LET o == is[j].id
        IN  /\ o \in os
            /\ <<Type[o], is[j].value[1].k>> \in {<<"str", "str">>, <<"array", "list">>}
            => Fits(o, is[j].value)

(* *last_id tells the items of a map apart. *)
ToldApart(is) ==
    \A j \in DOMAIN is : is[j].id # 0 /\ (j > 1 => is[j].id # is[j - 1].id)

Effect(d, i, takers) ==
    IF i.id \in takers /\ Fits(i.id, i.value)
    THEN [d EXCEPT ![i.id] = Meaning(i.value)]
    ELSE d

----------------------------------------------------------------------------
(***************************************************************************)
(* zcbor.                                                                  *)
(***************************************************************************)

NoItem == -1
Chunk == SubSeq(stream, pos + 1, pos + size)

Chars(c) == IF c.k = "str" THEN c.n ELSE 0
Children(c) == CASE c.k = "list" -> c.n [] c.k = "map" -> 2 * c.n [] OTHER -> 0

(* Where the item after the first p cells of s ends, or NoItem if s does.  *)
ItemEnd(s, p) ==
    LET end[q \in Nat] == [todo \in Nat |->
            IF todo = 0 THEN (IF q <= Len(s) THEN q ELSE NoItem)
            ELSE IF q >= Len(s) THEN NoItem
            ELSE end[q + 1 + Chars(s[q + 1])][todo - 1 + Children(s[q + 1])]]
    IN  end[p][1]

(* A value of a map is one item, whatever it holds. *)
IsItem(cells) ==
    /\ cells \in Seq(Cells) /\ cells # <<>>
    /\ cells[1].k \in {"uint", "str", "list", "map"}
    /\ ItemEnd(cells, 0) = Len(cells)
ASSUME MapsAssumption ==
    \A is \in Maps : /\ is \in Seq([id : Nat, value : Seq(Cells)])
                     /\ \A j \in DOMAIN is : IsItem(is[j].value)

State(p, n) == [payload |-> p, elem |-> n]
After(d, p) == State(p, d.elem - 1)

(* The next cell is there, the list or map goes on, and it is of the kind. *)
At(d, kind) ==
    /\ d.elem > 0 /\ d.payload < size
    /\ Chunk[d.payload + 1].k = kind
Cell(d) == Chunk[d.payload + 1]

(* zcbor_uint32_decode, zcbor_any_skip *)
Uint(d) == After(d, d.payload + 1)
SkipsBeyond(d) == d.elem > 0   \* mutant of CanSkip
CanSkip(d) == d.elem > 0 /\ ItemEnd(Chunk, d.payload) # NoItem
Skip(d) == After(d, ItemEnd(Chunk, d.payload))

----------------------------------------------------------------------------
(***************************************************************************)
(* bin_deserialize_value: whether it returned 0, the decoder and the data  *)
(* after it.  A string is consumed before its length is looked at.  The    *)
(* elements of an array are stored as they come, as many as it can hold    *)
(* and as are numbers; the decoder stays where the last of them was, also  *)
(* when the list goes on, which is an error only if there was another.     *)
(***************************************************************************)
Result(ok, d, value) == [ok |-> ok, dec |-> d, value |-> value]

DecodeNum(o, d) ==
    IF At(d, "uint") /\ Cell(d).n <= Capacity[o]
    THEN Result(TRUE, Uint(d), <<Cell(d).n>>)
    ELSE Result(FALSE, d, data[o])

DecodeStr(o, d) ==
    IF At(d, "str") /\ CanSkip(d)
    THEN LET fits == Cell(d).n < Capacity[o]
         IN  Result(fits, Skip(d),
                    IF fits THEN Numbers(SubSeq(Chunk, d.payload + 1, Skip(d).payload))
                            ELSE data[o])
    ELSE Result(FALSE, d, data[o])

DecodeArray(o, d) ==
    IF At(d, "list")
    THEN LET first == d.payload + 1
             Element(j) == first + j <= size /\ Chunk[first + j].k = "uint"
             index == Max({k \in 0 .. Min({Cell(d).n, Capacity[o]}) :
                               \A j \in 1 .. k : Element(j)})
         IN  Result(index \in {Cell(d).n, Capacity[o]}, After(d, first + index),
                    [j \in 1 .. index |-> Chunk[first + j].n])
    ELSE Result(FALSE, d, data[o])

DeserializeValue(o, d) ==
    CASE Type[o] = "num" -> DecodeNum(o, d)
      [] Type[o] = "str" -> DecodeStr(o, d)
      [] Type[o] = "array" -> DecodeArray(o, d)

Store(o, result) == data' = [data EXCEPT ![o] = result.value]

----------------------------------------------------------------------------
Init ==
    /\ entry \in Entries
    /\ items \in Maps
    /\ \E n \in Lost : LET s == Encode(entry, items)
                       IN  n < Len(s) /\ stream = SubSeq(s, 1, Len(s) - n)
    /\ pos = 0 /\ size = 0 /\ dec = State(0, 1) /\ saved = State(0, 1)
    /\ parsed = 0 /\ lastId = 0
    /\ data = InitData
    /\ pc = "caller" /\ status = "none" /\ cut = FALSE

Return(ret) ==
    /\ status' = ret
    /\ pc' = IF ret = "more" THEN "caller" ELSE "end"

(***************************************************************************)
(* The functions that are given the whole map.                             *)
(***************************************************************************)

(* bin_decoder_init, the checks of thingset_bin_import_report, and         *)
(* deserialize_map_start.                                                  *)
ImportWhole ==
    /\ entry # "progressively" /\ pc = "caller"
    /\ size' = Len(stream)
    /\ LET start == MapStart(entry)
           header == \A j \in 1 .. start : stream[j] = Encode(entry, items)[j]
       IN  IF /\ start < Len(stream) /\ header
              /\ stream[start + 1].k = "map"
           THEN /\ dec' = State(start + 1, 2 * stream[start + 1].n)
                /\ pc' = IF entry = "record" THEN "child" ELSE "loop"
                /\ UNCHANGED status
           ELSE Return("error") /\ UNCHANGED dec
    /\ UNCHANGED <<entry, items, stream, pos, saved, parsed, lastId, data, cut>>

(* One round of the loop in thingset_bin_import_data.  zcbor_any_skip may  *)
(* fail; nobody looks.                                                     *)
ImportItem ==
    /\ entry \in {"data", "report"} /\ pc = "loop"
    /\ At(dec, "uint")
    /\ LET id == Cell(dec).n
           result == DeserializeValue(id, Uint(dec))
           failed == IF id \in Writable THEN result.dec ELSE Uint(dec)
       IN  /\ IF id \in Writable THEN Store(id, result) ELSE UNCHANGED data
           /\ dec' = IF id \in Writable /\ result.ok THEN result.dec
                     ELSE IF CanSkip(failed) THEN Skip(failed) ELSE failed
    /\ UNCHANGED <<entry, items, stream, pos, size, saved, parsed, lastId, pc, status, cut>>

(* No other ID: bin_deserialize_finish. *)
ImportFinish ==
    /\ entry \in {"data", "report"} /\ pc = "loop"
    /\ ~At(dec, "uint")
    /\ Return(IF dec.payload = size THEN "ok" ELSE "error")
    /\ UNCHANGED <<entry, items, stream, import, data, cut>>

(***************************************************************************)
(* The loop of thingset_import_record.  An item the database does not know *)
(* is skipped; one of another object, an ID beyond 16 bits and a value     *)
(* that does not decode end the import.                                    *)
(***************************************************************************)
(* thingset_common_prepare_record_element: the number of elements of an    *)
(* array is set in a copy of its descriptor and so stays what it was.      *)
StoreInRecord(o, result) ==
    data' = [data EXCEPT ![o] =
                IF Type[o] = "array" /\ result.dec # Uint(dec)
                THEN [j \in DOMAIN @ |-> IF j <= Len(result.value) THEN result.value[j] ELSE @[j]]
                ELSE result.value]

RecordOver == dec.payload = size \/ dec.elem = 0
RecordItem ==
    /\ pc = "child" /\ ~RecordOver
    /\ IF At(dec, "uint") /\ Cell(dec).n \in RecordItems
       THEN LET result == DeserializeValue(Cell(dec).n, Uint(dec))
            IN  /\ StoreInRecord(Cell(dec).n, result)
                /\ dec' = result.dec
                /\ IF result.ok THEN UNCHANGED <<pc, status>> ELSE Return("error")
       ELSE /\ UNCHANGED data
            /\ IF At(dec, "uint") /\ Cell(dec).n <= MaxId /\ Cell(dec).n \notin Objects
               THEN /\ dec' = IF CanSkip(Uint(dec)) THEN Skip(Uint(dec)) ELSE Uint(dec)
                    /\ UNCHANGED <<pc, status>>
               ELSE Return("error") /\ UNCHANGED dec
    /\ UNCHANGED <<entry, items, stream, pos, size, saved, parsed, lastId, cut>>

RecordFinish ==
    /\ pc = "child" /\ RecordOver
    /\ Return("ok")
    /\ UNCHANGED <<entry, items, stream, import, data, cut>>

----------------------------------------------------------------------------
(***************************************************************************)
(* The progressive import.  The caller passes the cells from pos on, as    *)
(* many as it likes to; only its last chunk may be smaller than MinChunk.  *)
(***************************************************************************)
Sizes == {n \in 1 .. MaxChunk : n <= Len(stream) - pos /\ (n >= MinChunk \/ n = Len(stream) - pos)}

(* The call holds all of the item it begins with, at first with the header. *)
HoldsAnItem(n) ==
    LET first == IF lastId = 0 THEN 2 ELSE 0
        id == ItemEnd(stream, pos + (IF lastId = 0 THEN 1 ELSE 0))
        value == IF id = NoItem THEN NoItem ELSE ItemEnd(stream, id)
    IN  value # NoItem /\ value <= pos + n

(* thingset_import_data_progressively down to the loop.  *last_id tells a  *)
(* first call, which decodes the start of the map.  The decoder is made    *)
(* anew from its position, its element count and the size of the chunk.    *)
ProgressiveCall(n) ==
    /\ entry = "progressively" /\ pc = "caller"
    /\ n \in Sizes
    /\ size' = n
    /\ parsed' = 0
    /\ cut' = (cut \/ ~HoldsAnItem(n))
    /\ IF lastId = 0 /\ stream[pos + 1].k # "map"
       THEN Return("error") /\ UNCHANGED <<dec, saved>>
       ELSE /\ dec' = IF lastId = 0 THEN State(1, 2 * stream[pos + 1].n) ELSE dec
            /\ saved' = dec'
            /\ pc' = "loop"
            /\ UNCHANGED status
    /\ UNCHANGED <<entry, items, stream, pos, lastId, data>>

Progressing == entry = "progressively" /\ pc = "loop" /\ At(dec, "uint")
NextId == Cell(dec).n
Value == DeserializeValue(NextId, Uint(dec))

(* Mutant: the whole chunk counts as consumed. *)
EndOfChunk(ret) ==
    /\ pos' = pos + size
    /\ dec' = [dec EXCEPT !.payload = 0]
    /\ Return(IF ret = "ok" /\ CallerCountsCells /\ pos' < Len(stream) THEN "more" ELSE ret)

(* A call that does not fail ends: the caller will begin its next one with *)
(* the first cell that was not consumed, and the decoder goes back to the  *)
(* start of the buffer.                                                    *)
EndOfCall(ret) ==
    /\ pos' = pos + parsed
    /\ dec' = [dec EXCEPT !.payload = 0]
    /\ Return(IF ret = "ok" /\ CallerCountsCells /\ pos' < Len(stream) THEN "more" ELSE ret)

(* The value of a known object decodes. *)
ImportValue ==
    /\ Progressing /\ NextId \in Writable
    /\ Value.ok
    /\ Store(NextId, Value)
    /\ dec' = Value.dec /\ saved' = Value.dec
    /\ parsed' = Value.dec.payload
    /\ lastId' = NextId
    /\ UNCHANGED <<entry, items, stream, pos, size, pc, status, cut>>

(* Mutants of AskForMore and SkipUnknown: the ID is not remembered, the     *)
(* count is not corrected, what was skipped does not count as consumed.     *)
AskAgain ==
    /\ Progressing /\ NextId \in Writable
    /\ ~Value.ok /\ NextId # lastId
    /\ Store(NextId, Value)
    /\ pos' = pos + parsed
    /\ dec' = State(0, saved.elem)
    /\ Return("more")
    /\ UNCHANGED <<entry, items, stream, size, saved, parsed, lastId, cut>>

SkipWithoutCount ==
    /\ Progressing /\ NextId \notin Writable /\ NextId <= MaxId
    /\ IF CanSkip(Uint(dec))
       THEN dec' = Skip(Uint(dec)) /\ parsed' = dec'.payload
       ELSE dec' = Uint(dec) /\ UNCHANGED parsed
    /\ saved' = dec'
    /\ lastId' = NextId
    /\ UNCHANGED <<entry, items, stream, pos, size, data, pc, status, cut>>

SkipUnused ==
    /\ Progressing /\ NextId \notin Writable /\ NextId <= MaxId
    /\ dec' = IF CanSkip(Uint(dec)) THEN Skip(Uint(dec)) ELSE State(dec.payload + 1, saved.elem)
    /\ saved' = dec'
    /\ lastId' = NextId
    /\ UNCHANGED <<entry, items, stream, pos, size, parsed, data, pc, status, cut>>

(* It does not, and it is not the object the last call ended with: perhaps *)
(* the value is cut in two.  The element count becomes that before the ID. *)
AskForMore ==
    /\ Progressing /\ NextId \in Writable
    /\ ~Value.ok /\ NextId # lastId
    /\ Store(NextId, Value)
    /\ pos' = pos + parsed
    /\ dec' = State(0, saved.elem)
    /\ lastId' = NextId
    /\ Return("more")
    /\ UNCHANGED <<entry, items, stream, size, saved, parsed, cut>>

(* It is: the value is skipped, or the import given up. *)
SkipStuck ==
    /\ Progressing /\ NextId \in Writable
    /\ ~Value.ok /\ NextId = lastId
    /\ Store(NextId, Value)
    /\ IF CanSkip(Value.dec)
       THEN /\ dec' = Skip(Value.dec) /\ saved' = dec'
            /\ parsed' = dec'.payload
            /\ UNCHANGED <<pc, status>>
       ELSE Return("error") /\ UNCHANGED <<dec, saved, parsed>>
    /\ UNCHANGED <<entry, items, stream, pos, size, lastId, cut>>

(* An unknown object, or one that must not be written: its value is passed *)
(* by.  If that fails the ID stays consumed and the count is corrected.    *)
SkipUnknown ==
    /\ Progressing /\ NextId \notin Writable /\ NextId <= MaxId
    /\ IF CanSkip(Uint(dec))
       THEN dec' = Skip(Uint(dec)) /\ parsed' = dec'.payload
       ELSE dec' = State(dec.payload + 1, saved.elem) /\ UNCHANGED parsed
    /\ saved' = dec'
    /\ lastId' = NextId
    /\ UNCHANGED <<entry, items, stream, pos, size, data, pc, status, cut>>

(* An ID beyond 16 bits: its value is left to be decoded as the next ID. *)
PassWideId ==
    /\ Progressing /\ NextId > MaxId
    /\ dec' = Uint(dec)
    /\ UNCHANGED <<entry, items, stream, pos, size, saved, parsed, lastId, data, pc,
                   status, cut>>

(* No other ID in the chunk. *)
ProgressiveReturn ==
    /\ entry = "progressively" /\ pc = "loop"
    /\ ~At(dec, "uint")
    /\ IF parsed = 0
       THEN Return("error") /\ UNCHANGED <<pos, dec>>
       ELSE EndOfCall(IF dec.payload = size THEN "ok" ELSE "more")
    /\ UNCHANGED <<entry, items, stream, size, saved, parsed, lastId, data, cut>>

----------------------------------------------------------------------------
Next ==
    \/ ImportWhole \/ ImportItem \/ ImportFinish
    \/ RecordItem \/ RecordFinish
    \/ \E n \in 1 .. MaxChunk : ProgressiveCall(n)
    \/ ImportValue \/ AskForMore \/ SkipStuck \/ SkipUnknown \/ PassWideId
    \/ ProgressiveReturn

Over == pc = "end" /\ UNCHANGED vars

Spec == Init /\ [][Next \/ Over]_vars

(* The caller goes on with an import it has begun, and no loop waits. *)
FairSpec == Spec /\ WF_vars(Next)

----------------------------------------------------------------------------
(***************************************************************************)
(* Properties.                                                             *)
(***************************************************************************)

States == [payload : 0 .. Len(stream), elem : Int]

TypeOK ==
    /\ entry \in Entries /\ items \in Maps
    /\ stream \in Seq(Cells)
    /\ pos \in 0 .. Len(stream)
    /\ size \in 0 .. Len(stream)
    /\ dec \in States /\ saved \in States
    /\ parsed \in 0 .. Len(stream)
    /\ lastId \in Nat
    /\ data \in [Objects -> Seq(Nat)]
    /\ pc \in {"caller", "loop", "child", "end"}
    /\ status \in {"none", "more", "ok", "error"}
    /\ cut \in BOOLEAN

(* Items of the map that lie before the place the decoder has got to. *)
Dealt ==
    Max({0} \cup {j \in DOMAIN items : EndOfItem(entry, items, j) <= pos + dec.payload})

(***************************************************************************)
(* Between two chunks the decoder and the caller agree on where the import *)
(* has got to: the caller passes the rest from the first cell of an item   *)
(* on (or from the header), and the element count kept in the decoder is   *)
(* that of the items to come, an ID and a value each, although a value cut *)
(* in two has been decoded in part and its ID twice.  IDs beyond 16 bits   *)
(* are excepted: the count goes wrong with them.                           *)
(***************************************************************************)
ShortIds == \A j \in DOMAIN items : items[j].id <= MaxId
ResumesAtAnItem ==
    pc = "caller" /\ lastId # 0 /\ ShortIds =>
        /\ pos \in {0, EndOfItem(entry, items, Dealt)}
        /\ dec.elem = 2 * (Len(items) - Dealt)

(***************************************************************************)
(* A progressive import fails only if some chunk was smaller than the item *)
(* it began with, or if the first item of all does not fit its object: the *)
(* retry then meets the header of the map, which is decoded only once.     *)
(***************************************************************************)
FirstDoesNotFit ==
    /\ items # <<>> /\ items[1].id \in Writable
    /\ ~Fits(items[1].id, items[1].value)
FailsOnlyIfCut ==
    entry = "progressively" /\ ShortIds /\ status = "error" => cut \/ FirstDoesNotFit

(***************************************************************************)
(* Whatever the function and however the map is cut into chunks, the items *)
(* take effect one after the other and success means all of them have.     *)
(***************************************************************************)
Takers == IF entry = "record" THEN RecordItems ELSE Writable
Outcome == IF pc = "end" THEN status ELSE "busy"
Stream == INSTANCE ImportStream WITH
    allowed <- Takers, next <- Dealt, contents <- data, outcome <- Outcome
ImportsTheItems == Stream!StreamSpec

(***************************************************************************)
(* Success means that the whole map has been imported: include/thingset.h  *)
(* says "0 for success, 1 if more data is required".                       *)
(***************************************************************************)
SuccessMeansComplete == status = "ok" => Dealt = Len(items)

(* However small the chunks are, the import comes to an end. *)
ImportEnds == <>(pc = "end")
=============================================================================
