---------------------------- MODULE MCRuntimeBuild ---------------------------
(* Instances of RuntimeBuild for TLC: two backends with operations whose paths *)
(* overlap, share shapes under other parameter names, and are spelled with   *)
(* and without a trailing slash; every choice of what to expose, and how.    *)
EXTENDS RuntimeBuild

MCParams == {"{id}", "{uid}", "{}"}
MCUnescape(s) == CASE s = "x%2Fy" -> "x/y" [] s = "x%252Fy" -> "x%2Fy" [] OTHER -> s
MCPathEscape(v) == CASE v = "x/y" -> "x%2Fy" [] v = "x%2Fy" -> "x%252Fy" [] OTHER -> v
MCEncodePath(s) == IF s = "x%2Fy" THEN "x%252Fy" ELSE s
MCCategory(m) == CASE m \in {"cors", "listed"} -> 0 [] m = "auth" -> 1 [] m = "limit" -> 2
MCAllowMethods(m) == IF m = "listed" THEN {"GET", "PUT"} ELSE {}

Op(backend, id, method, segs, slash, hidden) ==
  [backend |-> backend, id |-> id, method |-> method,
   path |-> [segs |-> segs, slash |-> slash], hidden |-> hidden]

MCOps ==
  {Op("p", 1, "GET", <<"a", "{id}">>, FALSE, FALSE),
   Op("p", 2, "PUT", <<"a", "{uid}">>, FALSE, FALSE),
   Op("p", 3, "GET", <<"{id}", "b">>, TRUE, FALSE),
   Op("p", 4, "GET", <<"a", "b", "{id}">>, FALSE, FALSE),
   Op("q", 5, "OPTIONS", <<"a", "{id}">>, FALSE, TRUE),
   Op("q", 6, "GET", <<"{uid}", "{id}">>, TRUE, TRUE)}

Entry(backend, include, exclude, strip, prefix, middleware, overrides) ==
  [backend |-> backend, include |-> include, exclude |-> exclude, strip |-> strip,
   prefix |-> prefix, middleware |-> middleware, overrides |-> overrides]

NoOverrides == [i \in {} |-> NoOverride]
OneOverride(o) == [i \in {1} |-> o]
At(segs, slash) == [NoOverride EXCEPT !.path = {[segs |-> segs, slash |-> slash]}]

MCFirst ==
  {Entry("p", inc, exc, strip, prefix, mw, ov) :
     inc    \in SUBSET (1..4),
     exc    \in {{}, {2}},
     strip  \in {<<>>, <<"a">>},
     prefix \in {<<>>, <<"b">>},
     mw     \in {<<>>, <<"auth", "cors">>},
     ov     \in {NoOverrides,
                 OneOverride([NoOverride EXCEPT !.disabled = TRUE]),
                 OneOverride([NoOverride EXCEPT !.middleware = {<<"listed">>}]),
                 OneOverride(At(<<"b", "{id}", "{uid}">>, FALSE)),
                 OneOverride(At(<<"b", "{uid}">>, FALSE)),
                 OneOverride(At(<<"a", "b", "{id}">>, TRUE))}}

MCRest ==
  {<<>>,
   <<Entry("q", {6}, {}, <<>>, <<>>, <<"limit", "listed", "cors">>, NoOverrides)>>,
   <<Entry("q", {}, {}, <<>>, <<>>, <<>>, NoOverrides)>>}

MCConfigs == {[ops |-> MCOps, expose |-> <<e>> \o rest] : e \in MCFirst, rest \in MCRest}

MCSegments == {"a", "b", "x", "x%2Fy"}
MCPaths ==
  {<<>>} \cup {<<s>> : s \in MCSegments} \cup (MCSegments \X MCSegments)
    \cup {<<"b", "x", "a">>, <<"b", "x%2Fy", "x">>, <<"a", "b", "x">>, <<"a", "x", "b">>, <<"b", "a", "x">>,
          <<"a", "", "b">>, <<"b", "b", "x">>, <<"b", "x", "b">>, <<"b", "a", "b", "x">>}
=============================================================================
