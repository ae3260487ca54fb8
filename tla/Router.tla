------------------------------- MODULE Router -------------------------------
(***************************************************************************)
(* The path router (internal/router/router.go).                            *)
(*                                                                         *)
(* A template is [segs, slash]: its segments, and whether it is spelled    *)
(* with a trailing slash, which splitPath drops.  The tree is the set of   *)
(* its handlers; a node is a prefix of their shapes.                       *)
(***************************************************************************)
EXTENDS Naturals, SequencesExt, FiniteSets

CONSTANTS
  ParamSegments,   \* the template segments that are parameters: "{id}", ...
  Unescape(_),     \* url.PathUnescape of a path segment
  PathEscape(_),   \* url.PathEscape of a value
  EncodePath(_)    \* url.URL.EscapedPath of a segment of a URL.Path

EmptySegment == ""

\* The parameter child of a node, and normalise's spelling of any parameter.
ParamChild == "{}"

\* It is one itself: of the empty name.
ASSUME ParamChildIsParam == ParamChild \in ParamSegments

\* paramName: a parameter segment; its name is the segment itself.
IsParam(seg) == seg \in ParamSegments

\* normalise: one spelling for all templates that match the same paths.
Shape(t) == [i \in DOMAIN t.segs |-> IF IsParam(t.segs[i]) THEN ParamChild ELSE t.segs[i]]

\* The places of the parameters of a shape, in order.
Places(shape) ==
  LET P == {i \in DOMAIN shape : shape[i] = ParamChild}
  IN  [k \in 1..Cardinality(P) |-> CHOOSE i \in P : Cardinality({j \in P : j <= i}) = k]

\* What a sequence has at these places.
AtPlaces(shape, s) == [k \in DOMAIN Places(shape) |-> s[Places(shape)[k]]]

ParamNames(t) == AtPlaces(Shape(t), t.segs)

-----------------------------------------------------------------------------
Handlers(tree, node) == {e \in tree : e.shape = node}
Nodes(tree) == {<<>>} \cup UNION {Prefixes(e.shape) : e \in tree}
Methods(tree, node) == {e.method : e \in Handlers(tree, node)}

\* A variant: only the same spelling is a duplicate.
ConflictsByText(tree, method, t) ==
  \E e \in tree : e.method = method /\ e.payload.route.path = t

\* A variant: one route for a path, whatever its method.
ConflictsOnPath(tree, method, t) == Handlers(tree, Shape(t)) # {}

\* A duplicate: the node already has a handler for the method.
Conflicts(tree, method, t) == method \in Methods(tree, Shape(t))

\* Add of a template that conflicts with none.
Added(tree, method, t, payload) ==
  tree \cup {[shape |-> Shape(t), method |-> method, names |-> ParamNames(t), payload |-> payload]}

\* A variant: a static child that exists is final.
WalkWithoutBacktrack(tree, segs) ==
  LET nodes == Nodes(tree)
      walk[node \in nodes] ==
        IF Len(node) = Len(segs)
        THEN IF Handlers(tree, node) = {} THEN {} ELSE {node}
        ELSE LET seg == segs[Len(node) + 1]
                 down(child) == IF Append(node, child) \in nodes THEN walk[Append(node, child)] ELSE {}
             IN  IF Append(node, seg) \in nodes THEN down(seg)
                 ELSE IF seg # EmptySegment THEN down(ParamChild) ELSE {}
  IN  walk[<<>>]

\* walk: down the static child if it leads to a handler, otherwise down the parameter
\* child, which takes any segment but an empty one.  The node it ends at, if it does.
Walk(tree, segs) ==
  LET nodes == Nodes(tree)
      walk[node \in nodes] ==
        IF Len(node) = Len(segs)
        THEN IF Handlers(tree, node) = {} THEN {} ELSE {node}
        ELSE LET seg == segs[Len(node) + 1]
                 down(child) == IF Append(node, child) \in nodes THEN walk[Append(node, child)] ELSE {}
                 static == IF seg # ParamChild THEN down(seg) ELSE {}
             IN  IF static # {} THEN static
                 ELSE IF seg # EmptySegment THEN down(ParamChild) ELSE {}
  IN  walk[<<>>]

\* HEAD falls back to GET.
Effective(methods, method) ==
  IF method = "HEAD" /\ "HEAD" \notin methods THEN "GET" ELSE method

\* Match: the handler and the values under its own parameter names; a path of the
\* tree without the method is "not allowed", any other path "missing".
Match(tree, method, segs) ==
  LET w    == Walk(tree, segs)
      node == CHOOSE n \in w : TRUE
      ms   == Methods(tree, node)
      m    == Effective(ms, method)
  IN  IF w = {} THEN [result |-> "missing"]
      ELSE IF m \notin ms THEN [result |-> "not allowed", allow |-> ms]
      ELSE LET e == CHOOSE e \in Handlers(tree, node) : e.method = m
               values == AtPlaces(node, segs)   \* what walk's parameter children took
           IN  [result  |-> "found",
                payload |-> e.payload,
                allow   |-> ms,
                params  |-> [i \in 1..Len(e.names) |->
                               [name |-> e.names[i], value |-> Unescape(values[i])]]]

-----------------------------------------------------------------------------
\* Params.Get: the first of that name.
Get(params, name) == params[Min({i \in DOMAIN params : params[i].name = name})].value

\* substituteParams: the upstream path, segment by segment, values escaped again.
Substitute(segs, params) ==
  [i \in DOMAIN segs |-> IF \E j \in DOMAIN params : params[j].name = segs[i]
                         THEN PathEscape(Get(params, segs[i])) ELSE segs[i]]

-----------------------------------------------------------------------------
(* What the router promises, said of the templates alone. *)

Fits(shape, segs) ==
  /\ Len(shape) = Len(segs)
  /\ \A i \in DOMAIN segs : shape[i] = segs[i] \/ (shape[i] = ParamChild /\ segs[i] # EmptySegment)

\* Static beats parameter at the first segment where two shapes differ.
Beats(s, u) ==
  \E i \in DOMAIN s : /\ u[i] = ParamChild /\ s[i] # ParamChild
                      /\ \A j \in 1..(i - 1) : s[j] = u[j]

Best(shapes, segs) ==
  LET fit == {s \in shapes : Fits(s, segs)}
  IN  {s \in fit : \A u \in fit \ {s} : Beats(s, u)}
=============================================================================
