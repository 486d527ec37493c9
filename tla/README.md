# Formal model of the ThingSet node library (C)

The library gives remote peers access to variables of a device. An application
hands it an array of *data objects* (groups, values, arrays, functions, subsets,
records) and passes it requests in text (JSON) or binary (CBOR) form; it also
exports reports of a subset of the objects and imports such data, in one piece
or in chunks. This directory holds TLA+ modules that model the library, TLC
configurations that check them on small instances, and TLAPS proofs that hold
for every instance.

## Inventory

| component | source | state | operations |
|---|---|---|---|
| context: lock and entry points | `src/thingset.c:68-553` | `lock`, `msg*`, `rsp*`, `api`, `endpoint` of `struct thingset_context` | `process_message`, `export_subsets(_progressively, _abort)`, `export_item`, `import_data(_progressively, _end)`, `import_report`, `import_record`, `report_path` |
| setters | `src/thingset.c:555-565` | `auth_flags`, `update_subsets`, `update_cb` | `set_authentication`, `set_update_callback`; **no lock** |
| requests | `src/thingset_common.c` | the application's data, `object->subsets` | GET, FETCH, UPDATE, EXEC, CREATE, DELETE, with group callbacks |
| object database | `src/thingset.c:56-66, 567-773` | the array and its lookup buckets (constant after init) | lookup by name, ID and path; path of an object |
| iteration | `src/thingset.c:256-271` | none; **no lock** | `iterate_subsets` |
| binary mode | `src/thingset_bin.c` | encoder and decoder position, element count | serialise, deserialise, progressive export and import, report |
| text mode | `src/thingset_txt.c` | `tokens`, `tok_count`, `tok_pos`, `rsp_pos` | the same without the progressive functions |
| data macros and types | `include/thingset.h` | none | initialisers |
| jsmn, zcbor | `lib/jsmn.h`, external | none kept | parser, codec |

How they interact: an entry point takes the lock, points `msg` and `rsp` at its
caller's buffers, selects the text or binary API and calls through it the
shared request code, which looks objects up, reads and writes the application's
variables, and calls the application back (group callbacks around reads and
writes, `update_cb` after an UPDATE). A progressive export or import *keeps the
lock between calls* until it ends; whether a call continues a session is read
off a cursor the caller keeps (`*index`, `*last_id`).

What makes each of them correct, and hard:

* **Context.** Mutual exclusion, every path gives the lock exactly once, the
  buffers belong to the call that works, a chunked export is a snapshot and
  complete, a continued session does not wait for its own lock. Hard because of
  timeouts, error exits, and sessions spread over calls with other threads in
  between.
* **Requests.** The check pass of UPDATE has no effect, success means that
  everything was written, callbacks come in their order, the update callback runs
  for exactly the watched items, access rights hold although authentication may
  change at any step, a function sees its parameters. Hard because of two passes
  over a payload, partial failure, and setters without a lock.
* **Binary import.** However a map is cut into chunks its items take effect one
  after the other; unknown, forbidden and misfitting ones are passed by. Hard
  because the position and the element count of the decoder survive from one
  call to the next and have to be put back together.
* **Text cursor.** Each value consumes its tokens and no others, and the two
  passes of an UPDATE agree on them. Hard because the token list is flat and
  the code moves over it by counting values, not tokens.
* **Text report.** Every object stands in the map of its group. Hard because the
  maps are opened and closed by looking at neighbours only.
* **Lookup and iteration.** A path and an ID of the same object agree, buckets
  agree with the linear search, and an iteration is complete although CREATE and
  DELETE change the subset meanwhile.

`PROJECT.json` lists each hazard at its line with the properties that cover it.

## Modules

| module | models | composed with |
|---|---|---|
| `ThingsetContext` | the lock, all entry points, progressive sessions | refines `SerialContext` |
| `SerialContext` | *abstract*: each call takes effect at one instant | |
| `Requests` | the six methods beside the setters | |
| `BinImport` | every import of a binary map, in any chunks | refines `ImportStream` |
| `TextImport` | token cursor: UPDATE, EXEC, record import | steps of `ImportStream` |
| `ImportStream` | *abstract*: items take effect in order, success at the end | |
| `ObjectDb` | buckets, lookup, paths, iteration beside CREATE and DELETE | |
| `TextReport` | nested report of a subset | extends `ObjectDb` |
| `MC...` | values of the constants for TLC | |
| `...Proofs` | theorems, see below | |

Definitions whose comment calls them a mutant are altered copies of the action
after them, used to see that a property notices the change; no specification
contains them.

### ThingsetContext (core)

Threads (`Threads`) call the entry points (`Ops`). A thread is at `pc[t]`:
`idle`, `take` (arguments checked or not, waiting in `k_sem_take`), `setup`
(lock taken, fields being assigned), `work` (the loop over objects), `open`
(a progressive call has returned and kept the lock), `returned`.

| code | action |
|---|---|
| arguments checked before the lock | `RejectArguments` |
| `k_sem_take`, its timeout of 1 s | `Take`, `TimeOut` |
| assignments to `msg`, `rsp`, `rsp_pos`, format switch | `ProcessMessage`, `ExportSubsets`, `ExportItem`, `ReportPath`, `ExportProgressively`, `ImportData`, `ImportReport`, `ImportRecord`, `ImportProgressively` |
| loop over objects, one read or write per step | `ReadObject`, `DropObject`, `ReadDone`, `ReadFails`, `WriteObject`, `WriteDone` |
| one chunk of an export | `ExportObject`, `ExportChunkFull`, `ExportFails`, `ExportDone` |
| one chunk of an import | `ImportObject`, `ImportStuck`, `ImportSkip`, `ImportSkipFails`, `ImportFails`, `ImportChunkDone` |
| the caller between two chunks | `NextChunk`, `ExportAbort`, `ImportEnd` |

Abstracted: what a message says is the set of objects it names (`scope`) and the
values it carries; whether a value fits the response or decodes is open at each
step. The variable `base` (the data when the lock was last taken) records the
past and is no part of the code.

Three constants say what the application and the peer are assumed to do.
`CallersCheckFormat`: `export_subsets` is called only with formats it has a case
for. `CallersKeepBuffer`: each chunk comes with the buffer of the first.
`UnknownIds`: IDs in messages that belong to no object. With each assumption
dropped something breaks: a lock that is never given (run `context_bad_format`),
a later chunk written to the buffer of the first call, as `thingset.c:138` looks
at `buf` only when `*index` is 0 (`BuffersCurrent` fails), and, with ID 0 in
`UnknownIds`, a session taken for a new one that waits for its own lock
(`thingset.c:279`, `ContinuationKeepsLock` fails).

### SerialContext (abstract)

What a caller may rely on: a database, and calls that are invoked, take effect
at one instant (`Read`, `Write`, or `ReadFails`), and respond. `ThingsetContext`
implements it through `INSTANCE SerialContext WITH ...`: the abstract database
is `base` while a writer is inside and `data` otherwise, so a call takes effect
when it gives the lock back. This is the property `CallsAreAtomic`, checked by
TLC and proved in `ContextRefinementProofs`.

### Requests

One request at a time on a database given by constants (`Type`, `Parent`,
`ReadRoles`, ...). `pc` is the place in the function; `Receive` is the dispatch
of `thingset_*_process`, `Respond` the end of it.

| code in `thingset_common.c` | action |
|---|---|
| `thingset_common_get`, `_serialize_group` | `Get` (`GetGroup`, `GetValue`) |
| `thingset_common_fetch` | `Names`, `Fetch`, `FetchItem` |
| `thingset_common_update` | `Update`, `UpdateCheck` (one item), `PreWrite`, `UpdateWrite` (one item), `PostWrite`, `UpdateNotify`, `UpdateNotifyCall` |
| `thingset_common_exec` | `Exec`, `ExecParameter`, `ExecCall` |
| `thingset_common_create_delete` | `CreateDelete` |
| the setters of `thingset.c` | `SetAuthentication`, `SetUpdateSubsets`, `SetUpdateCb` |

A payload is a sequence of items; each names an object (or none) and has a form:
`good`, `bad` (does not decode), or `late` (passes the check of UPDATE, which
looks only at lengths, and does not decode: an invalid base64 string or escape).
An object of type array is written by the check already, because the dummy it is
decoded into shares the elements. A callback is whatever the object's pointer
says, since the code tests it for NULL only: `IsCalledBack`. A group callback may
return an error if `Vetoes`; it is assumed to leave data alone and not to call
the API. The history variables `log`, `base`, `auths`, `masks`, `watches`,
`accepted` are no part of the code. `update_cb` is tested and called in two steps,
because the setter has no lock and the compiler may load the pointer twice; a
registration replaced between its two stores, or during an UPDATE, can therefore
run a callback for data it was not registered for. With an empty payload the
callbacks of UPDATE and FETCH get the pointer `object` that no child has set:
`NoObject` in the log.

### BinImport

A message is a sequence of cells, one for the head of each CBOR item and one for
each character of a string, so that a chunk may end anywhere. The decoder is a
position and an element count (`dec`); the calls of zcbor are modelled by what
they do to both, a failed one leaving them as they were. Lists and maps inside
of a skipped value are walked by `ItemEnd`.

| code | action |
|---|---|
| `thingset_import_data`, `_import_report`, `_import_record` up to the loop | `ImportWhole` |
| loop of `thingset_bin_import_data` and its end | `ImportItem`, `ImportFinish` |
| loop of `thingset_import_record` | `RecordItem`, `RecordFinish` |
| one call of the progressive import, its setup and the map header | `ProgressiveCall` |
| the branches of its loop | `ImportValue`, `AskForMore`, `SkipStuck`, `SkipUnknown`, `PassWideId` |
| its end | `ProgressiveReturn` |

The caller passes what has not been consumed together with what follows, in
chunks of any size up to its buffer. `CallerCountsCells` says that it goes on
until all has been passed, whatever a call returns: a call returns 0 when its
chunk ends where an item ends, although the map goes on (`bin.c:899`). Without
that constant `SuccessMeansComplete`, the meaning `include/thingset.h` gives to
0, does not hold (two items and a chunk that ends between them).

### TextImport

The tokens of jsmn are a flat list; `pos` is `ts->tok_pos`. `tokens` ends at
`ts->tok_count`, which an error of jsmn leaves as the message before set it.
`DecodeArray` takes tokens until one does not decode or the array is full, as the
code does; integers are narrowed to their width. UPDATE is `CheckItem`,
`CheckDone`, `WriteItem`, `WriteDone`; EXEC is `ExecParameter`, `ExecCall`;
`thingset_import_record` is `RecordItem`, `RecordDone`.

### ObjectDb and TextReport

`AppendObject` is one round of the loop that fills the lookup buckets;
`ObjectById`, `ChildByName`, `EndpointByPath`, `EndpointById` and `PathOf` are
the functions of those names, as operators (recursive functions where the code
loops). `IterateSubsets` is one call of `thingset_iterate_subsets`, `ChangeSubset`
a CREATE or DELETE in between.

`TextReport` is one call of `txt_serialize_subsets`. Its state is what that keeps:
`ancestors`, the open maps (`AncestorsSize` is 2, as in the code), the size of the
buffer and the position in it, and `out`, the sequence of braces, commas and
objects written. How many bytes a name, a value or the header takes is open
(`Lengths`, `HeaderLengths`), positions are `size_t` (`SizeModulus`).

| code in `thingset_txt.c` | action or operator |
|---|---|
| `txt_serialize_report_header`, the first brace | `Start`, `HeaderTooLong` |
| a round of the loop: not in the subset, serialised, refused | `Skip`, `Serialize`, `Refuse` |
| closing and opening of maps, 717-747 | `Remaining`, `Opened`, `MapsOf` |
| `ancestors[depth++]` with `depth` 2 already | `Overflow` |
| `snprintf` of a name that does not fit | `NameTooLong` |
| a negative error added to `rsp_pos`, 748 | `Refused` |
| the check for room, 750, and `txt_serialize_finish` after an error | `Limit`, `EndRound`, `Failed` |
| the end, 755-764, with `txt_serialize_finish` | `CloseAll` |

Undefined writes end the model: `pc` is `overflow` after one behind `ancestors`
and `outside` after one before or behind the buffer, and nothing is said of what
follows. Neither counts as success. Both occur: `overflow` with objects no deeper
than two groups (run `database_levels`), `outside` whenever a report does not fit
because an object is refused, since `txt_serialize_finish` still writes to the
position the error was added to.

## Runs

| run | shows | bounds |
|---|---|---|
| `context` | exclusion, no leaked lock, own buffers, snapshots, refinement of `SerialContext`, isolation | 2 threads, every entry point, 2 objects, 2 values, unknown ID 9 |
| `context_live` | chunks add up, sessions continue, calls return, the lock comes free | 2 threads, 3 objects, 1 value |
| `requests` | all of `Requests`, with arrays, late errors, vetoes and setters | 10 objects, payloads of up to 2 items, 2 roles, 2 registrations |
| `import` | every import refines `ImportStream`, resumes at an item, fails only for a reason, ends | 4 objects, maps of up to 3 items, chunks of 1 to 5 cells |
| `text` | success is complete, passes agree, a record import takes item by item, all ends | 4 names and an unknown one, messages of up to 3 items |
| `database` | lookup, paths, iteration; nested reports and the room they take | several hundred databases of up to 7 objects, paths of up to 3 segments, `MaxDepth` 4, 3 buckets; buffers of 14 and 50 bytes |
| `context_bad_format` | *violated* `NoLockLeak`: `thingset_export_subsets` leaves the lock taken on an unknown format (`thingset.c:197`) | |
| `requests_array` | *violated* `CheckPassWritesNothing`: arrays are written by the check pass (`common.c:333`) | |
| `import_string` | *violated* `ImportsTheItems`: after a string that is too long the next ID is skipped and its value taken for an ID (`bin.c:654`, `bin.c:927`) | |
| `text_unknown` | *violated* `UnknownIsIgnored`: an unknown element makes a record import fail (`txt.c:826`) | |
| `text_malformed` | *violated* `MalformedIsRefused`: a record import of no JSON uses the token count of the message before (`txt.c:782`) | |
| `database_levels` | *violated* `TwoLevelsSupported`: with items in G/S, H and H/T, none deeper than two groups, H is put into G (`txt.c:718`) and then T behind the array of two ancestors (`txt.c:745`) | |

Why these bounds are enough to meet the interesting cases. All interference in
the context is between the holder of the lock and one other thread that takes,
waits, times out or misuses it, so two threads show it (and the proofs remove the
bound). Three objects give an export a first, a middle and a last chunk boundary;
two values tell "before" from "after" a write. Threads are interchangeable and
no liveness property is checked under symmetry. `Bufs = {1}` gives each thread
one buffer, so that callers keep it. In `Requests` two items per payload are
enough for a first that has been written when the second fails, for the same
object named twice and for a payload that reaches outside its group; two roles
and two subsets tell every access check and every notification apart. Histories
start afresh with each request. In `BinImport` an item is up to four cells, so
that a chunk of up to five ends inside of heads, strings, lists and nested maps,
between an ID and its value, and between items; three items give one that is
done, one that is cut and one to come. In `TextImport` numbers have three bits,
so that 9 and 20 are out of range, and strings one character of room. In
`ObjectDb` IDs share buckets, names occur twice, groups stand behind their
children, and a chain is as deep as `MaxDepth` (10 in the code) and deeper. For
reports a header takes no byte, as many as the small buffer has, or more; a name
or a value takes 4 or 7 bytes, so that a report ends at every place of a buffer
of 14, also between a name and its value, and mostly fits into one of 50. The two
error codes are those of an object that does not fit and of one without a
format; `SizeModulus` 1024 leaves more memory than buffer and code together
(`RoomAssumption`), as 2^32 does.

Deadlock is checked in every run but those of the database: an iteration or a
report that is over, in success, error or an undefined write, has no successor. `BinImport` and
`TextImport` say where a run may end (`Over`).

Where a property excepts a case the code gets it wrong or leaves it open, and
the comment above it says so: IDs beyond 16 bits in a progressive import
(`bin.c:846`), messages whose tokens can be taken for something else
(`txt.c:676`), numbers out of range in text mode (`txt.c:554`), arrays in
records whose number of elements would change (`common.c:60`), the report of an
empty subset, which is `}` (`txt.c:755`), the room for the report of an empty
database (`txt.c:750` is in the loop), a `-` below an object that has no elements
(`thingset.c:649`), and paths deeper than ten (`thingset.c:625`).

Other things the code does that a reader may not expect, in the models and
without a property: an export of subsets succeeds without an object that did not
fit (`bin.c:444`, `DropObject`); an UPDATE that fails in its write pass, or that
POST_WRITE refuses, notifies nobody of what it has written (`common.c:363`,
`common.c:373`); a GET of the parameter of a function calls that function
(`common.c:188`); FETCH of an item that fails has called PRE_READ and not
POST_READ (`common.c:243`); an import fails if its first chunk ends before its
first item does and the next still holds the map header (`bin.c:826`); a report
that does not fit writes outside of its buffer (`txt.c:748` with `txt.c:428`, also
`txt.c:743` and `txt.c:770`); `-` is accepted at the end of the path of a group
(`thingset.c:649`).

## Fairness

`FairSpec` of `ThingsetContext` gives each thread weak fairness on the steps it
takes inside the library: the scheduler keeps running it and no loop waits for
anything. Waiting for the lock is `LockStep`, which `TimeOut` keeps enabled, so
weak fairness is enough there: `k_sem_take` returns after
`THINGSET_CONTEXT_LOCK_TIMEOUT_MS`. Two assumptions are about the caller: it goes
on with an export it has begun (without ever having to abort), and it ends an
import at some time, which is strong fairness because new chunks keep disabling
and enabling the choice. Nobody has to make a call. `BinImport` and `TextImport`
have weak fairness on the whole of `Next`: their loops run without waiting, and
the caller goes on with the import it has begun. `ImportEnds` then says that no
sequence of chunk sizes makes a progressive import ask for more for ever, which
depends on the retry of `bin.c:853`. `Requests` and the database state safety
only; a report or an iteration is bounded by the array.

## Proofs

All theorems rest on the assumptions the modules state about their constants
(`ConstantsAssumption`, `MapsAssumption` of `BinImport`, `RoomAssumption` of
`TextReport`) and on what is said
below; nothing else is assumed. They cover every refinement, every invariant and
every safety action property the passing runs check.

**ThingsetContextProofs**, for any number of threads, objects, values, buffers:

* `TypeCorrect`: `TypeOK` is inductive once strengthened by where the buffers of
  a call are known (`TypeInv`).
* `ContextExclusive`: every step of a thread *moves* (`StepMoves`): it takes a
  free lock, gives the lock it holds, or leaves lock and holding as they are;
  exclusion follows from that alone.
* `ContextUndisturbed`: from exclusion and from what a thread outside may change.
* `ExportsAreSnapshots`: `ExportIsSnapshot` is not inductive: a writer's step is
  harmless only because no export is open, and `seen` must be empty before the
  lock is taken. `SnapshotInv` says so.
* `SessionsContinue`, `LockNeverLeaks`: assuming `CarefulCallers` (formats are
  checked and no message holds an unknown ID 0). `SessionInv` ties the cursors of
  an open session to its having made progress, so that a call that continues it
  never waits for the lock (`NoRestart`); the lock is then always accounted for.
* `ChunksAddUp`: the cursor of an export is 0 until it works, and everything asked
  for below it has been serialised (`ChunksInv`).
* `BuffersAreOwn`: assuming `CallersKeepBuffer`, the pointers set under the lock
  are those of the thread inside until it leaves (`PointedInv`).

**ContextRefinementProofs**: `ContextIsSerial`, `Spec => CallsAreAtomic` for
careful callers. `AccountInv` accounts for every difference between `data` and
`base` by an object and a value of the writer inside, and for every value seen by
the scope of its reader. Each step is then one of six kinds (`KindsOfStep`):
calls, refusals, returns and leaving are steps of `SerialContext`; taking the
lock and working under it are stutters.

**RequestsProofs** and **MethodProofs**, for any database, requests, roles,
registrations and payloads of any length:

* `RequestsTyped`: `TypeOK`, with `Place`: what is known of the request at each `pc`.
* `AccessGranted`: what a step relies on was granted at the step that tested it,
  and stays granted as `auths` only grows (`AccessInv`).
* `CallbacksInOrder`: `OrderInv` says which callbacks cannot have run yet at each
  `pc`; what is appended to `log` comes behind the rest.
* `OnlyArraysWritten`, `UpdateIsAtomic`: the check pass has found every item up to
  `pos` allowed and decodable (`CheckInv`), so the write pass can fail only on a
  late item; up to `pos` the data are those of the last item that names each
  object (`ApplyInv`).
* `ChangesAreNotified`, `NotifiedRightly`: `updated` is set exactly when an object
  written is watched, while no setter runs (`NotifyInv`); a setter in between
  breaks the equivalence but leaves a reason.
* `ParametersReachFunction`: parameters are different objects, so that writing one
  leaves those before it as they are (`ParameterInv`).
* `FetchBracketed`: each read has its PRE_READ right before it, and POST_READ comes
  with the last step only (`BracketInv`).

**ObjectDbProofs**, for any array of objects and any number of buckets:

* `LookupIsFirst` (buckets are sorted, hold only their own and are complete) and
  `IterationComplete` (the objects returned are in order and before the cursor,
  and none before it is missing) hold of any array.
* The others about addresses assume of the database what the macros of `thingset.h`
  leave to the application, stated in `ObjectDb`: IDs are unique and none is that
  of an overlay (`ProperIds`), parents lead to the root (`ProperParents`), and
  siblings have different names, none empty (`ProperNames`). `FoundIsNamed` also
  needs to know of a path that no object has a name that is read as an index
  (`ProperPaths`). TLC evaluates all four for the databases and paths of its runs
  (`ProperDatabasesAssumption`).
* `PartsHaveNoAddress` assumes `ProperIds` only.
* `PathsFindTheirObjects`, `ObjectsFoundAreNamed`: an object has exactly one
  `Chain` of ancestors from the root (`ChainExists`, `ChainUnique`), and its path is
  the names of the chain (`PathIsNames`). The rounds of
  `thingset_get_object_by_path` then follow the chain downwards (`NamesLeadBack`);
  conversely, what round k has reached is named by the k - 1 segments it has passed,
  or is the overlay `_Metadata`, below which there is no object (`WalkIsRight`).
  `DownTheTree` is the induction along parents these proofs use.
* `ReportTyped`, `ReportWellFormed`, `MembersReported`: these hold of databases of
  any depth because the third map is not pushed but leads to `overflow`, where
  nothing is claimed of the report; a nonempty subset is assumed. `ReportInv` says of the
  symbols written so far that they are a beginning of a report (`Piece`: no level
  is negative, symbols are separated) in which as many maps are open as there are
  ancestors, and that the objects written are the members before `next`. Each
  action appends closings, openings or an item, and the lemmas about pieces say
  what that does to levels and separation. Paths, which only give the maps their
  names, do not matter for it.
* `ReportEndsInside`: for any lengths and buffers. `RoomInv` says that before each
  round there is room for the braces of the open maps and the final zero, and that a
  position left by an error is beyond every limit: by `RoomAssumption` a negative
  error, modulo `SizeModulus`, is at least the size of the buffer (`RefusedOutside`),
  so that the check for room cannot miss it. `MembersReported` needs it, too.
* `ItemsStandUnderTheirPaths`: under the three assumptions on databases, an object
  stands in the maps its path names, and two ancestors are enough, if no path is
  longer than three and one map at most has to be closed between two objects. `NestInv` says that the maps open at the
  end of the response are those of `ancestors` (`Stack`), that these are the ancestors
  of the member written last (`MapsLeft`), and that every object written stands in the
  maps of its own. `MapsFit` is the heart of it: with the maps of one member open,
  closing and opening by the parents of the next leads to the maps of that.
  Without `OneLevelAtATime` it is false, as the run `database_levels` shows.

**TextImportProofs**, for any endpoint and any message:

* `TextTypes`: `tok_pos` stays among the tokens, and what is stored fits its
  variable, whatever the tokens are taken for (`TextInv`).
* `PassesAgree`: how far a pass moves over the tokens depends on the tokens and
  the database only, not on the data. The check pass collects the places it has
  been at, each known, writable, decodable and followed by another of them or by
  the end (`Checked`); they are the places of the write pass (`Accepted`).
* `SuccessComplete`, `RecordItems`: for regular messages `RegularInv` says that
  `pos` is where an item begins or ends and that the data are those of the items
  before it. Its lemmas say what each function consumes of the tokens of a value.
* `MalformedRefused`, and the two before: assuming `FirstMessage`, no tokens of an
  earlier message are left when a record is imported. The run `text_malformed`
  shows that this is needed.

**BinImportProofs**, for any database, any map and any way to cut it into chunks:

* The function in `ItemEnd` exists because each step of it consumes a cell; it is
  built from the end of the cells backwards. `EndInPart` says that the end of an
  item is found in a chunk where it is found in the message or not at all.
* `ImportTyped`: every position stays within the chunk, and every chunk within the
  message (`ImportInv`).
* `ProgressResumes`: `ProgressInv` knows three places. Between two calls the
  decoder is at the end of an item (`Resumed`) or the map is still to be begun;
  in the loop it is at the header of an item with the count of the items to come
  (`AtHeader`) or, after a skip that failed, behind an ID at the end of the chunk
  (`Behind`). `ValueDecodes` says for each type where the decoder is left by a
  value that is there as a whole, that is cut, or that does not fit.
* `ProgressFailsIfCut`: the import gives up only on a value that does not decode
  in a call that begins with its ID, and `*last_id` is that ID only if the call
  before has seen it.

* `ImportRefines`: the import implements `ImportStream`, with `Dealt` for `next`.
  In every state `StreamInv` places the decoder behind some item k or behind the
  ID of item k + 1 (`OnPlace`), which makes `Dealt` k. Functions that are given the
  whole map are between two items whenever they loop (`WholeInv`). A step that
  leaves item k + 1 behind is `Apply`, a value that is there in part makes it
  `Touch` or `Fail`, and a loop ends with success only behind the last item.

The last three assume `WellSized`: a string or a list in the map fits its object.
For strings the run `import_string` shows what happens otherwise; a list that is
too long leaves the decoder of zcbor in a state of which this repository says
nothing (`bin.c:719`). `ProgressFailsIfCut` also assumes `ToldApart`: no ID is 0
or that of the item before it, since the cursor could not tell them apart. Both
hold of the maps TLC uses (`ProperMapsAssumption`). `ImportRefines` assumes, as
the run does, that messages arrive as a whole (the loops do not tell a map that
ends early from one that is over), that the caller goes on until it has passed
everything, and that no array is received in a record, where the number of its
elements stays what it was (`common.c:60`). It is stated of behaviours whose
progressive map has IDs of 16 bits: a wide ID is passed without its value, which
is then read as an ID if it is a number.

**SequenceLemmas** has what these need of the library: least and greatest
elements, and the places of the parts of a flattened sequence. Inductions run over
the least element of a set of numbers, since theorems with an operator as
parameter cannot be used.

Only model-checked: liveness (`CallsReturn`, `LockComesFree`, `ImportEnds`,
`TextEnds`), which is out of the prover's reach; and the maps with a wide ID.

## Not modelled

* Formatting and parsing of floats, fractions and base64; names of types
  (`thingset.c:775-845`).
* GET of a single record and the callbacks of records (`common.c:106-158`), arrays
  of records in a binary import (`bin.c:735-766`), an array longer than its object
  in a binary import, where what zcbor does next is not in this repository.
* The `_Paths` and `_Metadata` overlays, which read names only; they are found by
  the lookup of `ObjectDb`.
* Sizes of responses below "fits or does not", but for the text report of a subset;
  there the value of an object is written in one step and refused as a whole,
  although an array, a list or the records in a report are written piece by piece,
  and the error of an element is added to the position within the value
  (`txt.c:320`).
* Macros, Zephyr sections, Kconfig other than as constants; jsmn and zcbor other
  than by what the code sees of them. `CONFIG_THINGSET_IMMUTABLE_OBJECTS` is off.
* Misuse of a session after an error (calling on with a non-zero cursor, aborting
  somebody else's export): a session ends at its first error. A group callback
  that calls the API.
