---------------------------- MODULE ImportStream ----------------------------
(***************************************************************************)
(* What importing a map of IDs and values promises, whatever the encoding  *)
(* and however the data are cut into chunks: the items take effect one     *)
(* after the other, an item that cannot be applied is passed by, and the   *)
(* import succeeds only when it has come to the end of the map.            *)
(***************************************************************************)
EXTENDS Naturals, Sequences

CONSTANTS
    Objects,         \* objects of the database
    Effect(_, _, _)  \* Effect(d, i, os): the data d after the item i, if
                     \*   the objects os may be written

VARIABLES
    items,     \* the items of the map
    allowed,   \* the objects the import may write
    next,      \* how many of them have been dealt with
    contents,  \* the data
    outcome    \* "busy", "ok" or "error"

streamVars == <<items, allowed, next, contents, outcome>>

(* The next item takes effect. *)
Apply ==
    /\ outcome = "busy" /\ next < Len(items)
    /\ contents' = Effect(contents, items[next + 1], allowed)
    /\ next' = next + 1
    /\ UNCHANGED <<items, allowed, outcome>>

(* Nothing but the object of the next item changes. *)
OnlyTheNext ==
    \A o \in Objects :
        contents'[o] # contents[o] => next < Len(items) /\ o = items[next + 1].id

(* The next item is an array that is there in part. *)
Touch ==
    /\ outcome = "busy"
    /\ OnlyTheNext
    /\ UNCHANGED <<items, allowed, next, outcome>>

Succeed ==
    /\ outcome = "busy" /\ next = Len(items)
    /\ outcome' = "ok"
    /\ UNCHANGED <<items, allowed, next, contents>>

Fail ==
    /\ outcome = "busy"
    /\ outcome' = "error"
    /\ OnlyTheNext
    /\ UNCHANGED <<items, allowed, next>>

StreamInit == next = 0 /\ outcome = "busy"
StreamNext == Apply \/ Touch \/ Succeed \/ Fail

StreamSpec == StreamInit /\ [][StreamNext]_streamVars
=============================================================================
