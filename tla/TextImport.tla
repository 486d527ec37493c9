----------------------------- MODULE TextImport -----------------------------
(***************************************************************************)
(* How text mode reads the JSON payload of an UPDATE or EXEC request and   *)
(* of thingset_import_record (src/thingset_txt.c with the callers in       *)
(* src/thingset_common.c and src/thingset.c): jsmn makes a flat list of    *)
(* tokens of it, and ts->tok_pos moves over them.  Nothing in the list     *)
(* tells where a nested value ends but the number of its elements, which   *)
(* the code does not look at.                                              *)
(*                                                                         *)
(* A token has a kind: "obj", "arr", "str" or "prim".  n is the number of  *)
(* a "prim" (0 for true, false and null, as strtoul has it) or the length  *)
(* of a "str", whose text s is a name or some other string without digits. *)
(***************************************************************************)
EXTENDS Integers, Sequences, FiniteSets, SequencesExt, FiniteSetsExt

CONSTANTS
    Objects,      \* names of the items of the endpoint
    Type,         \* "num", "str" or "array" (of numbers)
    Modulus,      \* 2^width of the number or of the elements
    Capacity,     \* size of the buffer of a string with its terminator;
                  \*   max_elements
    Writable,     \* the objects ts->auth_flags may write
    Parameters,   \* the children of the function EXEC calls
    InitData,     \* data as sequences of numbers
    MaxLong,      \* the largest number strtoul knows
    MaxTokens,    \* size of ts->tokens
    Messages,     \* sequences of items the peer sends
    Broken,       \* whether the text may be no JSON
    Left,         \* ts->tok_count as earlier messages left it
    StaleTokens,  \* what their tokens show of the text of this message
    Entries       \* "update", "exec", "record"

Text == {""} \cup STRING  \* "" where the text does not matter
TokenSet == [k : {"obj", "arr", "str", "prim"}, s : Text, n : Nat]

(* The tokens of a value; numbers and strings are one token. *)
IsValue(v) == v # <<>> /\ (v[1].k \in {"prim", "str"} => Len(v) = 1)

(* What the variable of an object can hold. *)
Holds(o, d) ==
    /\ d \in Seq(Nat)
    /\ Type[o] # "str" => \A j \in 1 .. Len(d) : d[j] < Modulus[o]
    /\ Type[o] = "array" => Len(d) <= Capacity[o]

ASSUME ConstantsAssumption ==
    /\ Objects \subseteq STRING \ {""}
    /\ Type \in [Objects -> {"num", "str", "array"}]
    /\ Modulus \in [Objects -> Nat \ {0}] /\ Capacity \in [Objects -> Nat \ {0}]
    /\ MaxLong \in Nat /\ \A o \in Objects : Modulus[o] <= MaxLong
    /\ Writable \subseteq Objects
    /\ Parameters \in Seq(Objects)
    /\ InitData \in [Objects -> Seq(Nat)] /\ \A o \in Objects : Holds(o, InitData[o])
    /\ \A m \in Messages : /\ m \in Seq([id : STRING, value : Seq(TokenSet)])
                           /\ \A j \in 1 .. Len(m) : IsValue(m[j].value)
    /\ MaxTokens \in Nat
    /\ Broken \subseteq BOOLEAN /\ Left \subseteq 0 .. MaxTokens
    /\ StaleTokens \subseteq TokenSet
    /\ Entries \subseteq {"update", "exec", "record"}

VARIABLES
    entry,    \* what the payload is read for
    items,    \* what the peer wanted to say
    parses,   \* whether the text is JSON
    tokens,   \* ts->tokens[0 .. ts->tok_count - 1]
    pos,      \* ts->tok_pos
    object,   \* the local variable of thingset_common_update
    param,    \* parameters of EXEC that have been decoded
    data,     \* the application's variables
    pc,       \* "parse", "start", "check", "write", "params", "record", "done"
    status    \* "none", "ok" or "error"

vars == <<entry, items, parses, tokens, pos, object, param, data, pc, status>>
message == <<entry, items, parses>>

Token(kind, text, number) == [k |-> kind, s |-> text, n |-> number]

----------------------------------------------------------------------------
(***************************************************************************)
(* The tokens of a message.                                                *)
(***************************************************************************)
Key(i) == Token("str", i.id, 1)
Pair(e, i) == IF e = "exec" THEN i.value ELSE <<Key(i)>> \o i.value
Root(e, is) == Token(IF e = "exec" THEN "arr" ELSE "obj", "", Len(is))
Tokens(e, is) == <<Root(e, is)>> \o FlattenSeq([j \in DOMAIN is |-> Pair(e, is[j])])

(* The tokens up to the end of item j. *)
EndOfItem(e, is, j) == Len(Tokens(e, SubSeq(is, 1, j)))

Init ==
    /\ entry \in Entries /\ items \in Messages
    /\ parses \in {~b : b \in Broken}
    /\ \E n \in Left : \E stale \in StaleTokens : tokens = [j \in 1 .. n |-> stale]
    /\ pos = 0 /\ object = "" /\ param = 0
    /\ data = InitData
    /\ pc = "parse" /\ status = "none"

Answer(result) == pc' = "done" /\ status' = result

(***************************************************************************)
(* txt_parse_payload.  A request that is no JSON or has too many tokens is *)
(* refused; txt_deserialize_payload_reset, which is all that               *)
(* thingset_import_record calls, does not look at the result.  Then        *)
(* tok_count is as it was and the tokens up to the error are new.          *)
(***************************************************************************)
Fresh(n) == [j \in DOMAIN tokens |-> IF j <= n THEN Tokens(entry, items)[j] ELSE tokens[j]]

Parse ==
    /\ pc = "parse"
    /\ pos' = 0
    /\ LET count == Len(Tokens(entry, items))
       IN  IF parses /\ count <= MaxTokens
           THEN tokens' = Tokens(entry, items) /\ pc' = "start" /\ UNCHANGED status
           ELSE IF entry = "record"
           THEN /\ \E n \in 0 .. Min({count, MaxTokens}) : tokens' = Fresh(n)
                /\ pc' = "start" /\ UNCHANGED status
           ELSE Answer("error") /\ UNCHANGED tokens
    /\ UNCHANGED <<message, object, param, data>>

----------------------------------------------------------------------------
(***************************************************************************)
(* Values.                                                                 *)
(***************************************************************************)
AtEnd(p) == p >= Len(tokens)
At(p, kind) == ~AtEnd(p) /\ tokens[p + 1].k = kind
Simple(p) == At(p, "prim") \/ At(p, "str")

(* strtoul: there is no number in the text of a string. *)
Number(p) == IF At(p, "prim") THEN tokens[p + 1].n ELSE 0
OutOfRange(p) == Number(p) > MaxLong

(* What the variable holds after it: the width cuts a number off, and      *)
(* strtoul gives its largest number for one that is out of range.          *)
NarrowNot(o, p) == IF OutOfRange(p) THEN MaxLong ELSE Number(p)  \* mutant of Narrow
Narrow(o, p) == IF OutOfRange(p) THEN Modulus[o] - 1 ELSE Number(p) % Modulus[o]

Result(ok, p, value) == [ok |-> ok, pos |-> p, value |-> value]

DecodeNum(o, p) ==
    IF Simple(p)
    THEN Result(~OutOfRange(p), IF OutOfRange(p) THEN p ELSE p + 1, <<Narrow(o, p)>>)
    ELSE Result(FALSE, p, data[o])

DecodeStr(o, p) ==
    IF At(p, "str") /\ tokens[p + 1].n < Capacity[o]
    THEN Result(TRUE, p + 1, <<tokens[p + 1].n>>)
    ELSE Result(FALSE, p, data[o])

(* The elements go into the array one by one until it is full, one of them *)
(* fails or there are no more tokens.  KeepsCount: num_elements stays what *)
(* it was, in the check of UPDATE and in a record, where it is set in a    *)
(* copy of the array.                                                      *)
Elements(o, p) ==
    Max({k \in 0 .. Capacity[o] : \A j \in p .. p + k - 1 : Simple(j) /\ ~OutOfRange(j)})

Overwrite(old, new) == [j \in DOMAIN old |-> IF j <= Len(new) THEN new[j] ELSE old[j]]

KeepsCount == pc # "write" /\ pc # "params"

DecodeArray(o, p) ==
    IF At(p, "arr")
    THEN LET index == Elements(o, p + 1)
             next == p + 1 + index
             failed == index < Capacity[o] /\ Simple(next)
             stored == [j \in 1 .. (IF failed THEN index + 1 ELSE index) |-> Narrow(o, p + j)]
         IN  Result(index = Capacity[o] \/ AtEnd(next), next,
                    IF KeepsCount THEN Overwrite(data[o], stored)
                                  ELSE SubSeq(stored, 1, index))
    ELSE Result(FALSE, p, data[o])

DeserializeValue(o, p) ==
    CASE Type[o] = "num" -> DecodeNum(o, p)
      [] Type[o] = "str" -> DecodeStr(o, p)
      [] Type[o] = "array" -> DecodeArray(o, p)

(* The value behind the key at pos. *)
Named == tokens[pos + 1].s
Known == At(pos, "str") /\ Named \in Objects
Value == DeserializeValue(Named, pos + 1)

Store(o, value) == data' = [data EXCEPT ![o] = value]

----------------------------------------------------------------------------
(***************************************************************************)
(* thingset_common_update.                                                 *)
(***************************************************************************)
MapStart ==
    /\ pc = "start" /\ entry # "exec"
    /\ IF At(0, "obj") THEN /\ pos' = 1
                            /\ pc' = IF entry = "update" THEN "check" ELSE "record"
                            /\ UNCHANGED status
                       ELSE Answer("error") /\ UNCHANGED pos
    /\ UNCHANGED <<message, tokens, object, param, data>>

(* Mutant: the check writes to every object. *)
CheckStores(o, value) == Store(o, value)

(* The dummy has room for a number; a string is not copied. *)
CheckStore(o, value) == IF Type[o] = "array" THEN Store(o, value) ELSE UNCHANGED data

CheckItem ==
    /\ pc = "check" /\ ~AtEnd(pos)
    /\ IF Known /\ Named \in Writable
       THEN /\ object' = Named
            /\ CheckStore(Named, Value.value)
            /\ pos' = Value.pos
            /\ IF Value.ok THEN UNCHANGED <<pc, status>> ELSE Answer("error")
       ELSE Answer("error") /\ UNCHANGED <<object, data, pos>>
    /\ UNCHANGED <<message, tokens, param>>

(* The payload is parsed once more, which sets tok_pos. *)
CheckDone ==
    /\ pc = "check" /\ AtEnd(pos)
    /\ pos' = 1 /\ pc' = "write"
    /\ UNCHANGED <<message, tokens, object, param, data, status>>

(* An error of deserialize_child is not looked at: the value would go to   *)
(* the object of the item before.                                          *)
WriteItem ==
    /\ pc = "write" /\ ~AtEnd(pos)
    /\ object' = IF Known THEN Named ELSE object
    /\ LET value == DeserializeValue(object', IF Known THEN pos + 1 ELSE pos)
       IN  /\ Store(object', value.value)
           /\ pos' = value.pos
           /\ IF value.ok THEN UNCHANGED <<pc, status>> ELSE Answer("error")
    /\ UNCHANGED <<message, tokens, param>>

WriteDone ==
    /\ pc = "write" /\ AtEnd(pos)
    /\ Answer("ok")
    /\ UNCHANGED <<message, tokens, pos, object, param, data>>

----------------------------------------------------------------------------
(***************************************************************************)
(* thingset_common_exec: without a list there must be nothing at all.      *)
(***************************************************************************)
ListStart ==
    /\ pc = "start" /\ entry = "exec"
    /\ IF At(0, "arr") \/ tokens = <<>>
       THEN pos' = Min({1, Len(tokens)}) /\ pc' = "params" /\ UNCHANGED status
       ELSE Answer("error") /\ UNCHANGED pos
    /\ UNCHANGED <<message, tokens, object, param, data>>

Decoded == DeserializeValue(Parameters[param + 1], pos)

ExecParameter ==
    /\ pc = "params" /\ param < Len(Parameters)
    /\ Store(Parameters[param + 1], Decoded.value)
    /\ pos' = Decoded.pos
    /\ IF Decoded.ok THEN param' = param + 1 /\ UNCHANGED <<pc, status>>
                     ELSE Answer("error") /\ UNCHANGED param
    /\ UNCHANGED <<message, tokens, object>>

ExecCallAnyway ==  \* mutant of ExecCall: nobody looks for more parameters
    /\ pc = "params" /\ param = Len(Parameters)
    /\ Answer("ok")
    /\ UNCHANGED <<message, tokens, pos, object, param, data>>

ExecCall ==
    /\ pc = "params" /\ param = Len(Parameters)
    /\ Answer(IF AtEnd(pos) THEN "ok" ELSE "error")
    /\ UNCHANGED <<message, tokens, pos, object, param, data>>

----------------------------------------------------------------------------
(***************************************************************************)
(* thingset_import_record.  deserialize_child leaves tok_pos at a name it  *)
(* does not know, so that deserialize_skip passes by the name.             *)
(***************************************************************************)
Unknown == At(pos, "str") /\ Named \notin Objects

RecordLoops ==  \* mutant of RecordItem: an unknown name is not passed by
    /\ pc = "record" /\ ~AtEnd(pos)
    /\ IF Known
       THEN /\ Store(Named, Value.value)
            /\ pos' = Value.pos
            /\ IF Value.ok THEN UNCHANGED <<pc, status>> ELSE Answer("error")
       ELSE /\ UNCHANGED <<data, pos>>
            /\ IF Unknown THEN UNCHANGED <<pc, status>> ELSE Answer("error")
    /\ UNCHANGED <<message, tokens, object, param>>

RecordGoesOn ==  \* mutant of RecordItem: the next item after an error
    /\ pc = "record" /\ ~AtEnd(pos)
    /\ IF Known
       THEN Store(Named, Value.value) /\ pos' = Value.pos /\ UNCHANGED <<pc, status>>
       ELSE /\ UNCHANGED data
            /\ IF Unknown THEN pos' = pos + 1 /\ UNCHANGED <<pc, status>>
                          ELSE Answer("error") /\ UNCHANGED pos
    /\ UNCHANGED <<message, tokens, object, param>>

RecordItem ==
    /\ pc = "record" /\ ~AtEnd(pos)
    /\ IF Known
       THEN /\ Store(Named, Value.value)
            /\ pos' = Value.pos
            /\ IF Value.ok THEN UNCHANGED <<pc, status>> ELSE Answer("error")
       ELSE /\ UNCHANGED data
            /\ IF Unknown THEN pos' = pos + 1 /\ UNCHANGED <<pc, status>>
                          ELSE Answer("error") /\ UNCHANGED pos
    /\ UNCHANGED <<message, tokens, object, param>>

RecordDone ==
    /\ pc = "record" /\ AtEnd(pos)
    /\ Answer("ok")
    /\ UNCHANGED <<message, tokens, pos, object, param, data>>

----------------------------------------------------------------------------
Next ==
    \/ Parse \/ MapStart \/ ListStart
    \/ CheckItem \/ CheckDone \/ WriteItem \/ WriteDone
    \/ ExecParameter \/ ExecCall
    \/ RecordItem \/ RecordDone

Over == pc = "done" /\ UNCHANGED vars

(* These functions are loops that nothing interrupts. *)
Spec == Init /\ [][Next \/ Over]_vars /\ WF_vars(Next)

----------------------------------------------------------------------------
(***************************************************************************)
(* Properties.                                                             *)
(***************************************************************************)
TypeOK ==
    /\ entry \in Entries /\ parses \in BOOLEAN
    /\ tokens \in Seq(TokenSet) /\ Len(tokens) <= MaxTokens
    /\ pos \in 0 .. Len(tokens)
    /\ object \in Objects \cup {""}
    /\ param \in 0 .. Len(Parameters)
    /\ data \in [Objects -> Seq(Nat)] /\ \A o \in Objects : Holds(o, data[o])
    /\ pc \in {"parse", "start", "check", "write", "params", "record", "done"}
    /\ status \in {"none", "ok", "error"}

(* The object an item is for, and the value if its object can take it.     *)
Target(j) == IF entry = "exec" THEN (IF j <= Len(Parameters) THEN Parameters[j] ELSE "")
                               ELSE items[j].id
Numbers(value) == [k \in 1 .. Len(value) - 1 |-> value[k + 1].n]
Fits(o, value) ==
    CASE Type[o] = "num" -> value[1].k = "prim" /\ value[1].n < Modulus[o]
      [] Type[o] = "str" -> value[1].k = "str" /\ value[1].n < Capacity[o]
      [] Type[o] = "array" -> /\ value[1].k = "arr" /\ Len(value) - 1 <= Capacity[o]
                              /\ \A k \in 2 .. Len(value) :
                                    value[k].k = "prim" /\ value[k].n < Modulus[o]
Meaning(o, value) == IF Type[o] = "array" THEN Numbers(value) ELSE <<value[1].n>>

(***************************************************************************)
(* Messages the tokens of which cannot be taken for something else: no     *)
(* string or number out of range where a number is expected, no array that *)
(* leaves room for the tokens behind it, no item unknown to a record and   *)
(* no array in a record whose number of elements has to change.            *)
(***************************************************************************)
Clear(j) ==
    LET o == Target(j)
        value == items[j].value
    IN  /\ o \in Objects => /\ Type[o] # "str" => Fits(o, value) \/ ~(\E k \in DOMAIN value : value[k].k \in {"prim", "str"})
                            /\ Type[o] = "array" /\ Len(value) - 1 < Capacity[o] => j = Len(items)
                            /\ Type[o] = "array" /\ entry = "record" => Len(value) - 1 = Len(InitData[o])
        /\ o \notin Objects => entry # "record"
Regular == parses /\ \A j \in DOMAIN items : Clear(j)

Effect(d, i, takers) ==
    IF i.id \in takers /\ Fits(i.id, i.value)
    THEN [d EXCEPT ![i.id] = Meaning(i.id, i.value)]
    ELSE d
Naming(o, n) == {j \in 1 .. n : Target(j) = o}
Applied ==
    [o \in Objects |->
        IF Naming(o, Len(items)) = {} THEN InitData[o]
        ELSE Meaning(o, items[Max(Naming(o, Len(items)))].value)]

(***************************************************************************)
(* A request or an import that succeeds has given every object its item    *)
(* names the value it carries, and no other object has changed.            *)
(***************************************************************************)
SuccessIsComplete ==
    Regular /\ status = "ok" =>
        /\ \A j \in DOMAIN items : Target(j) \in Objects /\ Fits(Target(j), items[j].value)
        /\ data = Applied

(***************************************************************************)
(* The write pass of UPDATE finds what the check pass has found: once the  *)
(* check has accepted a message, however its tokens were taken, the write  *)
(* pass fails nowhere and reads every value for an object it may write.    *)
(***************************************************************************)
TwoPassesAgree ==
    /\ entry = "update" /\ pc = "write" /\ ~AtEnd(pos) =>
          Known /\ Named \in Writable /\ Value.ok
    /\ entry = "update" /\ (\E o \in Objects : Type[o] # "array" /\ data[o] # InitData[o]) =>
          status # "error"

(***************************************************************************)
(* A record import deals with one item after the other, changes nothing    *)
(* but the object of the item it is at, and succeeds only at the end.      *)
(***************************************************************************)
Dealt == Max({0} \cup {j \in DOMAIN items : EndOfItem(entry, items, j) <= pos})
Outcome == IF pc = "done" THEN status ELSE "busy"
Stream == INSTANCE ImportStream WITH
    allowed <- Objects, next <- Dealt, contents <- data, outcome <- Outcome
RecordTakesItems ==
    [][entry = "record" /\ Regular => Stream!StreamNext]_<<Dealt, data, Outcome>>

(* "Unknown data items are silently ignored" (include/thingset.h:1899):    *)
(* a record import fails only because of an item it knows.                 *)
UnknownIsIgnored ==
    entry = "record" /\ parses /\ status = "error" =>
        \E j \in DOMAIN items : items[j].id \in Objects /\ ~Fits(items[j].id, items[j].value)

(* What is no JSON changes nothing and is answered with an error, as       *)
(* txt_parse_payload returns it (src/thingset_txt.c:458).                  *)
MalformedIsRefused ==
    ~parses => status # "ok" /\ data = InitData

(* Every request is answered, every import returns. *)
TextEnds == <>(pc = "done")
=============================================================================
