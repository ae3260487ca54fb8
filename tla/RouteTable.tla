----------------------------- MODULE RouteTable -----------------------------
(***************************************************************************)
(* From configuration to routes: routetable.Build selects and places the   *)
(* operations, runtime.Build binds each route with its chain to the router *)
(* and adds the pre-flight routes, and requests are matched.               *)
(*                                                                         *)
(* Routes are bound in the order of a sort by text; here in any order.     *)
(* Globs are the sets of operations they select.                           *)
(***************************************************************************)
EXTENDS Router

CONSTANTS
  Configs,      \* the configurations with their specs: ops and expose, see MC
  Category(_),  \* of a middleware: its place in the chain
  AllowMethods(_),  \* of a CORS middleware: its allow_methods, empty when not configured
  Paths         \* the paths that requests ask for: sequences of segments

RequestMethods == {"GET", "HEAD", "PUT", "OPTIONS"}

Templates == [segs : Seq(STRING), slash : BOOLEAN]

Middlewares == {names \in Seq(STRING) : \A i \in DOMAIN names : Category(names[i]) \in Nat}

ASSUME ConfigsAssumption ==
  /\ Paths \subseteq Seq(STRING)
  /\ \A c \in Configs :
       /\ \A op \in c.ops : op.path \in Templates
       /\ \A i \in DOMAIN c.expose : LET e == c.expose[i] IN
            /\ e.prefix \in Seq(STRING) /\ e.strip \in Seq(STRING)
            /\ e.middleware \in Middlewares
            /\ \A o \in DOMAIN e.overrides : /\ e.overrides[o].path \subseteq Templates
                                           /\ e.overrides[o].middleware \subseteq Middlewares

\* The paths of requests are escaped the way PathEscape does it.
ASSUME PathsAreCanonical ==
  \A p \in Paths : \A i \in DOMAIN p : PathEscape(Unescape(p[i])) = p[i]

\* net/url: a segment escaped once more is read back as it was, and one without escapes
\* is left alone.
ASSUME EncodePathEscapes ==
  \A p \in Paths : \A i \in DOMAIN p :
    /\ Unescape(EncodePath(p[i])) = p[i]
    /\ PathEscape(p[i]) = p[i] => EncodePath(p[i]) = p[i]

VARIABLES
  cfg,      \* the configuration being built
  phase,    \* how far the build is, or how it ended
  table,    \* the routes of the table
  tree,     \* the router
  todo      \* what the current loop has left: routes, then paths

vars == <<cfg, phase, table, tree, todo>>

Init ==
  /\ cfg \in Configs
  /\ phase = "select"
  /\ table = {} /\ tree = {} /\ todo = {}

-----------------------------------------------------------------------------
(* routetable.Build *)

\* selects: no include pattern means all.
Selects(op, e) == (e.include = {} \/ op.id \in e.include) /\ op.id \notin e.exclude

\* stripPrefix: whole segments only.
Strip(t, prefix) ==
  IF IsPrefix(prefix, t.segs)
  THEN [t EXCEPT !.segs = SubSeq(@, Len(prefix) + 1, Len(@))]
  ELSE t

\* joinPath: the root adds nothing, not even its slash.
Join(prefix, t) ==
  IF t.segs = <<>> THEN [segs |-> prefix, slash |-> FALSE]
                   ELSE [t EXCEPT !.segs = prefix \o @]

NoOverride == [disabled |-> FALSE, path |-> {}, middleware |-> {}]

Override(op, e) == IF op.id \in DOMAIN e.overrides THEN e.overrides[op.id] ELSE NoOverride

\* An optional setting: a set of at most one value.
Or(option, default) == IF option = {} THEN default ELSE CHOOSE x \in option : TRUE

\* An override replaces the middleware of the entry.
Middleware(op, e) == Or(Override(op, e).middleware, e.middleware)

Route(op, e) ==
  [op         |-> op,
   method     |-> op.method,
   path       |-> Or(Override(op, e).path, Join(e.prefix, Strip(op.path, e.strip))),
   middleware |-> Middleware(op, e),
   hidden     |-> op.hidden]

Exposed(e) == {op \in cfg.ops : op.backend = e.backend /\ Selects(op, e) /\ ~Override(op, e).disabled}

\* The expose entries' routes, an entry's index with each: entries may repeat one.
Routes == UNION {{[entry |-> i, route |-> Route(op, cfg.expose[i])] : op \in Exposed(cfg.expose[i])} :
                   i \in DOMAIN cfg.expose}

\* A variant: only the parameters in number.
ParamsAgreeInNumber(r) == Len(ParamNames(r.op.path)) <= Len(ParamNames(r.path))

\* checkParams: the gateway path provides what the upstream path needs.
ParamsAgree(r) == Range(ParamNames(r.op.path)) \subseteq Range(ParamNames(r.path))

SamePlace(r, s) == r.method = s.method /\ r.path = s.path

Selectable ==
  /\ \A i \in DOMAIN cfg.expose : Exposed(cfg.expose[i]) # {}
  /\ \A x \in Routes : ParamsAgree(x.route)
  /\ \A x, y \in Routes : SamePlace(x.route, y.route) => x = y

\* The expose loop and its checks; the table it leaves is sorted, which is no matter here.
Select ==
  /\ phase = "select"
  /\ IF Selectable
     THEN /\ table' = {x.route : x \in Routes}
          /\ todo' = table'
          /\ phase' = "bind"
     ELSE UNCHANGED <<table, todo>> /\ phase' = "refused"
  /\ UNCHANGED <<cfg, tree>>

\* A variant: the methods of the whole table.
AllowedAnywhere(path) == {r.method : r \in table}

\* AllowedMethods: those of the routes with the same path, by its text.
AllowedMethods(path) == {r.method : r \in {s \in table : s.path = path}}

\* The published document: what is given to the merger.
Document == {[method |-> r.method, path |-> r.path] : r \in {s \in table : ~s.hidden}}

-----------------------------------------------------------------------------
(* runtime.Build *)

\* Assemble: by category, and in configuration order within one.
Assemble(names) ==
  LET before(i, j) == \/ Category(names[i]) < Category(names[j])
                      \/ Category(names[i]) = Category(names[j]) /\ i <= j
      position(i)  == Cardinality({j \in DOMAIN names : before(j, i)})
  IN  [k \in DOMAIN names |-> names[CHOOSE i \in DOMAIN names : position(i) = k]]

Bound(r) == [route |-> r, chain |-> Assemble(r.middleware)]

HasCORS(r) == \E i \in DOMAIN r.middleware : Category(r.middleware[i]) = 0

\* The paths that need an OPTIONS route of the gateway's own, by their text.
PreflightPaths ==
  {p \in {r.path : r \in table} :
     /\ "OPTIONS" \notin AllowedMethods(p)
     /\ \E r \in table : r.path = p /\ HasCORS(r)}

\* ForRoute of a CORS middleware: the methods it is configured to advertise, or else
\* those of the path.
Advertised(mw, path) ==
  IF AllowMethods(mw) # {} THEN AllowMethods(mw) ELSE AllowedMethods(path) \cup {"OPTIONS"}

\* One turn of the loop over the table.
Bind ==
  /\ phase = "bind"
  /\ \E r \in todo :
       IF Conflicts(tree, r.method, r.path)
       THEN phase' = "refused" /\ UNCHANGED <<tree, todo>>
       ELSE /\ tree' = Added(tree, r.method, r.path, Bound(r))
            /\ todo' = todo \ {r}
            /\ UNCHANGED phase
  /\ UNCHANGED <<cfg, table>>

BindEnds ==
  /\ phase = "bind" /\ todo = {}
  /\ phase' = "preflight"
  /\ todo' = PreflightPaths
  /\ UNCHANGED <<cfg, table, tree>>

\* The pre-flight route of a path: the CORS middleware of all its routes, in front of
\* the answer that lists the methods.
Preflight(p) ==
  [route |-> [method |-> "OPTIONS", path |-> p],
   chain |-> SetToSeq(UNION {{r.middleware[i] : i \in {j \in DOMAIN r.middleware : Category(r.middleware[j]) = 0}} :
                               r \in {s \in table : s.path = p}})]

\* One turn of addPreflightRoutes.
AddPreflight ==
  /\ phase = "preflight"
  /\ \E p \in todo :
       IF Conflicts(tree, "OPTIONS", p)
       THEN phase' = "refused" /\ UNCHANGED <<tree, todo>>
       ELSE /\ tree' = Added(tree, "OPTIONS", p, Preflight(p))
            /\ todo' = todo \ {p}
            /\ UNCHANGED phase
  /\ UNCHANGED <<cfg, table>>

PreflightEnds ==
  /\ phase = "preflight" /\ todo = {}
  /\ phase' = "serving"
  /\ UNCHANGED <<cfg, table, tree, todo>>

\* buildUpstreamRequest, after the path of the host: what substituteParams escaped is
\* made the URL's Path, without a RawPath, and so it is escaped again as it is sent.
UpstreamURL(route, params) ==
  LET path == Substitute(route.op.path.segs, params)
  IN  [i \in DOMAIN path |-> EncodePath(path[i])]

-----------------------------------------------------------------------------
(* Properties. *)

\* The routes of the table whose template matches a path best, by the text of the
\* router's package comment alone: "static-beats-parameter".
BestRoutes(segs) ==
  {r \in table : Shape(r.path) \in Best({Shape(s.path) : s \in table}, segs)}

\* A request is answered by the route that a reader of the configuration expects, in
\* whatever order the routes were added: the best match for its path, if that has the
\* method (HEAD standing for GET), with the middleware of its own operation, CORS
\* first; OPTIONS is the gateway's own where CORS needs it; else 405 with the methods
\* of that path, and 404 only where no template matches.
AnswersAsConfigured ==
  phase = "serving" =>
    \A segs \in Paths, method \in RequestMethods :
      LET m    == Match(tree, method, segs)
          best == BestRoutes(segs)
          ms   == {r.method : r \in best}
          eff  == Effective(ms, method)
      IN  IF best = {} THEN m.result = "missing"
          ELSE IF eff \in ms
          THEN /\ m.result = "found"
               /\ m.payload.route \in best /\ m.payload.route.method = eff
               /\ LET c == m.payload.chain IN
                  /\ Range(c) = Range(m.payload.route.middleware)
                  /\ \A i, j \in DOMAIN c : i < j => Category(c[i]) <= Category(c[j])
          ELSE IF method = "OPTIONS" /\ \E r \in best : HasCORS(r)
          THEN m.result = "found" /\ m.payload.route \notin table
          ELSE m.result = "not allowed" /\ ms \subseteq m.allow /\ method \notin m.allow

\* The upstream is asked for the path of the operation, segment for segment, with the
\* segments of the request in the places of their parameters, whatever route shares the
\* router's nodes: a segment without escapes is sent as the client sent it.  One with
\* escapes is still one segment, but the upstream decodes the client's escaped text
\* from it ("x%2Fy") and not the value (x/y), because it is escaped twice.
AsksForTheResource ==
  phase = "serving" =>
    \A segs \in Paths, method \in RequestMethods :
      LET m == Match(tree, method, segs) IN
      m.result = "found" /\ m.payload.route \in table =>
        LET r  == m.payload.route
            up == UpstreamURL(r, m.params)
        IN  /\ Len(up) = Len(r.op.path.segs)
            /\ \A i \in DOMAIN up :
                 IF IsParam(r.op.path.segs[i])
                 THEN \E j \in DOMAIN segs : /\ r.path.segs[j] = r.op.path.segs[i]
                                             /\ Unescape(up[i]) = segs[j]
                                             /\ Unescape(segs[j]) = segs[j] => up[i] = segs[j]
                 ELSE up[i] = EncodePath(r.op.path.segs[i])

\* The document and the router agree (the package comment: "A route that is not
\* served cannot appear in the document, and a route that is served always does unless
\* hidden"): every documented operation is found under its own path, and whatever is
\* found is documented, hidden by its tags, or a pre-flight route.
DocumentIsServed ==
  phase = "serving" =>
    /\ \A d \in Document :
         \E segs \in Paths : LET m == Match(tree, d.method, segs) IN
           m.result = "found" /\ m.payload.route.method = d.method /\ m.payload.route.path = d.path
    /\ \A e \in tree : LET r == e.payload.route IN
         \/ [method |-> r.method, path |-> r.path] \in Document
         \/ r \in table /\ r.op.hidden
         \/ r.method = "OPTIONS" /\ r.path \in PreflightPaths

\* Where CORS is in a chain, the pre-flight request finds a route, and what the
\* middleware advertises is served at the very path the request asked for: each of
\* AllowedMethods, and OPTIONS.  The exception is a middleware with allow_methods, which
\* advertises its list whatever the path serves, although the comment on ForRoute says
\* that it "can never advertise a method the gateway does not actually serve".
AdvertisedIsServed ==
  phase = "serving" =>
    \A segs \in Paths, method \in RequestMethods :
      LET m == Match(tree, method, segs) IN
      m.result = "found" =>
        \A i \in DOMAIN m.payload.chain : Category(m.payload.chain[i]) = 0 =>
          /\ Match(tree, "OPTIONS", segs).result = "found"
          /\ AllowMethods(m.payload.chain[i]) = {} =>
               \A a \in Advertised(m.payload.chain[i], m.payload.route.path) :
                 Match(tree, a, segs).result = "found"

\* A build is refused for a reason: an entry that selects nothing, a parameter the
\* upstream needs and the gateway path lacks, two routes of one method and shape, or
\* two pre-flight routes of one shape; and with none of these it is not refused,
\* whatever the order.  A parameter that only the gateway path has is no reason, although
\* the comments want "exactly the parameters its upstream path does" (Build) and "the
\* same set" (checkParams).
RefusedForAReason ==
  LET clash(S, Eq(_, _)) == \E x, y \in S : x # y /\ Eq(x, y)
      bad == \/ ~Selectable
             \/ clash({x.route : x \in Routes}, LAMBDA r, s : r.method = s.method /\ Shape(r.path) = Shape(s.path))
             \/ clash(PreflightPaths, LAMBDA p, q : Shape(p) = Shape(q))
             \/ \E p \in PreflightPaths, r \in table : r.method = "OPTIONS" /\ Shape(r.path) = Shape(p)
  IN  /\ phase = "refused" => bad
      /\ phase = "serving" => ~bad
=============================================================================
