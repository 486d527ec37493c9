----------------------------- MODULE MCRequests -----------------------------
(***************************************************************************)
(* A small database for Requests: a group g with a callback, holding a     *)
(* value a anyone may use, a value m for the manufacturer and an array r;  *)
(* a group h without callback, holding b; a function f with a parameter p; *)
(* and a subset object s.                                                  *)
(***************************************************************************)
EXTENDS Requests, TLC

CONSTANTS root, g, h, a, b, m, r, f, p, s, none, nocb, cb1, cb2, usr, mfr, nvm, live

MCObjects == {root, g, h, a, b, m, r, f, p, s}
MCType == (root :> "group") @@ (g :> "group") @@ (h :> "group") @@ (a :> "value")
          @@ (b :> "value") @@ (m :> "value") @@ (r :> "array") @@ (f :> "fn")
          @@ (p :> "value") @@ (s :> "subset")
MCParent == (root :> none) @@ (g :> root) @@ (h :> root) @@ (a :> g) @@ (m :> g)
            @@ (r :> g) @@ (b :> h) @@ (f :> root) @@ (p :> f) @@ (s :> root)
MCReadRoles == [o \in MCObjects |-> IF o = m THEN {mfr} ELSE {usr, mfr}]
MCWriteRoles == [o \in MCObjects |-> IF o = m THEN {mfr} ELSE
                                     IF o \in {a, b, r, f, p} THEN {usr, mfr} ELSE {}]
MCSubsetOf == [o \in MCObjects |-> IF o = s THEN {nvm} ELSE {}]
MCParameters == [o \in MCObjects |-> IF o = f THEN <<p>> ELSE <<>>]
MCHasCallback == {g}
MCValues == 0 .. 1
MCInitData == [o \in MCObjects |-> 0]
MCInitSubsets == [o \in MCObjects |-> IF o = a THEN {nvm} ELSE IF o = m THEN {live} ELSE {}]
MCInitAuth == {usr}
MCAuths == {{usr}, {usr, mfr}}
WatchNvm == [subsets |-> {nvm}, cb |-> cb1]
WatchLive == [subsets |-> {live}, cb |-> cb2]
WatchNothing == [subsets |-> {}, cb |-> nocb]
NoRegistrations == {}
MCRegistrations == {WatchLive, WatchNothing}

It(o, form, v) == [object |-> o, form |-> form, val |-> v]
Rq(method, o, items) == [method |-> method, endpoint |-> o, opens |-> TRUE, items |-> items]
NotOpening(method, o) == [method |-> method, endpoint |-> o, opens |-> FALSE,
                          items |-> <<It(none, "good", 0)>>]

Gets == {Rq("get", o, <<>>) : o \in {g, a, f, p}}
Fetches == {Rq("names", g, <<>>), NotOpening("fetch", g), Rq("fetch", a, <<>>),
            Rq("fetch", g, <<It(a, "good", 0), It(m, "good", 0)>>),
            Rq("fetch", g, <<It(a, "good", 0), It(none, "good", 0)>>),
            Rq("fetch", root, <<It(g, "good", 0)>>)}
Updates == {NotOpening("update", g),
            Rq("update", g, <<It(a, "good", 1), It(m, "good", 1)>>),
            Rq("update", g, <<It(m, "good", 0), It(a, "good", 0)>>),
            Rq("update", g, <<It(a, "good", 1), It(m, "bad", 0)>>),
            Rq("update", g, <<It(a, "good", 1), It(b, "good", 1)>>),
            Rq("update", g, <<It(a, "good", 0), It(a, "good", 1)>>),
            Rq("update", h, <<It(b, "good", 0)>>),
            Rq("update", root, <<It(s, "good", 1)>>)}
Execs == {NotOpening("exec", f), Rq("exec", a, <<>>), Rq("exec", f, <<>>),
          Rq("exec", f, <<It(none, "good", 1)>>), Rq("exec", f, <<It(none, "bad", 0)>>),
          Rq("exec", f, <<It(none, "good", 0), It(none, "good", 0)>>)}
Subsets == {Rq("create", s, <<It(a, "good", 0)>>), Rq("delete", s, <<It(a, "good", 0)>>),
            Rq("create", s, <<>>),
            Rq("create", s, <<It(none, "good", 0)>>), Rq("create", r, <<>>),
            Rq("delete", root, <<>>)}
LateUpdate == {Rq("update", g, <<It(a, "late", 0)>>),
               Rq("update", g, <<It(a, "good", 1), It(m, "late", 0)>>)}
LateExec == {Rq("exec", f, <<It(none, "late", 1)>>)}
ArrayUpdate == {Rq("update", g, <<It(r, "good", 1), It(a, "bad", 0)>>),
                Rq("update", g, <<It(r, "bad", 0)>>),
                Rq("update", g, <<It(r, "good", 0), It(a, "good", 1)>>)}

EveryRequest == Gets \cup Fetches \cup Updates \cup Subsets \cup Execs
                \cup LateUpdate \cup LateExec \cup ArrayUpdate \cup {Rq("get", none, <<>>)}
=============================================================================
