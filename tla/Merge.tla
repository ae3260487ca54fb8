-------------------------------- MODULE Merge --------------------------------
(***************************************************************************)
(* The OpenAPI merge (internal/oas/merge.go): the components that the      *)
(* exposed operations need are imported under new names, and identical     *)
(* ones are collapsed.                                                     *)
(*                                                                         *)
(* A component is its kind, for all it holds beside references, and its    *)
(* references in order; the sections of a document do not influence each   *)
(* other and there is one.  A reference may point into a component: it has *)
(* a tail.  A name is a sequence of parts that are written together, so    *)
(* that "User" numbered 2 and "User2" are one text.  The code goes through *)
(* Go maps, and through lists sorted by text, in any order here.           *)
(***************************************************************************)
EXTENDS Naturals, SequencesExt

CONSTANTS
  Inputs,      \* sets of specs and operations, see MC
  Letters,     \* the parts that names are made of
  Capital(_),  \* a part of a name with its first letter in upper case
  Itoa(_)      \* a number in digits

Refs == [name : Seq(Letters), tail : BOOLEAN]
Bodies == [kind : STRING, refs : Seq(Refs)]

\* What refers to nothing of its own yet.
NoNode == [kind |-> "none", refs |-> <<>>]

\* The components of an input: compKey.
Keys(input) ==
  UNION {{[spec |-> s, name |-> n] : n \in DOMAIN input.specs[s].comps} : s \in DOMAIN input.specs}

ASSUME InputsAssumption ==
  /\ \A part \in Letters : Capital(part) \in Letters
  /\ \A input \in Inputs :
       /\ IsFiniteSet(DOMAIN input.specs)
       /\ \A s \in DOMAIN input.specs :
            /\ input.specs[s].namespace \in Seq(Letters)
            /\ IsFiniteSet(DOMAIN input.specs[s].comps)
            /\ \A n \in DOMAIN input.specs[s].comps :
                 /\ n \in Seq(Letters) /\ input.specs[s].comps[n] \in Bodies
                 /\ input.specs[s].comps[n].kind # NoNode.kind
       /\ \A i \in DOMAIN input.ops : input.ops[i].spec \in DOMAIN input.specs /\ input.ops[i].refs \in Seq(Refs)
       /\ \A a, b \in 1..(Cardinality(Keys(input)) + 1) :
            Itoa(a) \in Seq(Letters) \ {<<>>} /\ (Itoa(a) = Itoa(b) => a = b)

VARIABLES
  in,        \* the input: specs, ops, dedupe
  stage,     \* where run is
  merger,    \* imported, comps, queue
  built,     \* the references of the operations built so far
  groups,    \* the groups of identical components that dedupe has left
  aliases    \* what dedupe renamed

mergeVars == <<in, stage, merger, built, groups, aliases>>

Empty == [x \in {} |-> x]
Put(f, x, v) == [y \in DOMAIN f \cup {x} |-> IF y = x THEN v ELSE f[y]]

MergeInit ==
  /\ in \in Inputs
  /\ stage = "operations"
  /\ merger = [imported |-> Empty, comps |-> Empty, queue |-> <<>>]
  /\ built = Empty
  /\ groups = {}
  /\ aliases = Empty

-----------------------------------------------------------------------------
(* Import. *)

Source(key) == in.specs[key.spec].comps[key.name]
Key(spec, ref) == [spec |-> spec, name |-> ref.name]
Dangling(spec, refs) == \E i \in DOMAIN refs : Key(spec, refs[i]) \notin Keys(in)

Capitalise(name) == IF name = <<>> THEN name ELSE <<Capital(Head(name))>> \o Tail(name)

\* The names to publish a component under: its own after the namespace, and that numbered.
Numbered(key, n) ==
  in.specs[key.spec].namespace \o Capitalise(key.name) \o (IF n = 1 THEN <<>> ELSE Itoa(n))

\* The first that is not taken.
FreeName(mm, key) ==
  Numbered(key, Min({n \in 1..(Cardinality(DOMAIN mm.comps) + 1) : Numbered(key, n) \notin DOMAIN mm.comps}))

\* enqueue: reserve a name and schedule the component for copying, once.
Enqueue(mm, key) ==
  IF key \in DOMAIN mm.imported THEN mm
  ELSE LET p == FreeName(mm, key)
       IN  [imported |-> Put(mm.imported, key, p),
            comps    |-> Put(mm.comps, p, [base |-> key.name, node |-> NoNode]),
            queue    |-> Append(mm.queue, key)]

\* resolveRef for each reference of a node of the spec.
Resolved(spec, refs) ==
  LET after[i \in 0..Len(refs)] == IF i = 0 THEN merger ELSE Enqueue(after[i - 1], Key(spec, refs[i]))
  IN  after[Len(refs)]

\* rewriteRefs with the published names.
Renamed(mm, spec, refs) ==
  [i \in DOMAIN refs |-> [name |-> mm.imported[Key(spec, refs[i])], tail |-> refs[i].tail]]

Copy(mm, key) ==
  [base |-> key.name,
   node |-> [kind |-> Source(key).kind, refs |-> Renamed(mm, key.spec, Source(key).refs)]]

Fail == stage' = "failed" /\ UNCHANGED <<in, merger, built, groups, aliases>>

\* buildOperation for one operation.
BuildOperation ==
  /\ stage = "operations"
  /\ \E i \in DOMAIN in.ops \ DOMAIN built :
       LET op == in.ops[i] IN
       IF Dangling(op.spec, op.refs) THEN Fail
       ELSE /\ merger' = Resolved(op.spec, op.refs)
            /\ built' = Put(built, i, Renamed(merger', op.spec, op.refs))
            /\ UNCHANGED <<in, stage, groups, aliases>>

OperationsEnd ==
  /\ stage = "operations" /\ DOMAIN built = DOMAIN in.ops
  /\ stage' = "drain"
  /\ UNCHANGED <<in, merger, built, groups, aliases>>

\* A variant: what a copied component needs is taken from those already there.
DrainOnce ==
  /\ stage = "drain" /\ merger.queue # <<>>
  /\ LET key == Head(merger.queue)
         mm  == Resolved(key.spec, Source(key).refs)
     IN  IF Dangling(key.spec, Source(key).refs) THEN Fail
         ELSE /\ merger' = [imported |-> merger.imported,
                            comps    |-> Put(merger.comps, merger.imported[key], Copy(mm, key)),
                            queue    |-> Tail(merger.queue)]
              /\ UNCHANGED <<in, stage, built, groups, aliases>>

\* drainQueue: copy one component and schedule what it refers to.
Drain ==
  /\ stage = "drain" /\ merger.queue # <<>>
  /\ LET key == Head(merger.queue)
         mm  == Resolved(key.spec, Source(key).refs)
     IN  IF Dangling(key.spec, Source(key).refs) THEN Fail
         ELSE /\ merger' = [imported |-> mm.imported,
                            comps    |-> Put(mm.comps, mm.imported[key], Copy(mm, key)),
                            queue    |-> Tail(mm.queue)]
              /\ UNCHANGED <<in, stage, built, groups, aliases>>

-----------------------------------------------------------------------------
(* Dedupe. *)

\* A variant: references are not followed.
Shallow(name) == [kind |-> merger.comps[name].node.kind, cycle |-> 0, refs |-> <<>>]

\* hashComponent and canonical: the component with each reference replaced by what it
\* points at; one to a component further up the stack by its distance.  The component
\* is the last on its path.
Hash(name) ==
  LET nodes == {p \in DOMAIN merger.comps : merger.comps[p].node # NoNode}
      hash[path \in Seq(nodes) \ {<<>>}] ==
        LET p     == path[Len(path)]
            refs  == merger.comps[p].node.refs
            up    == Len(path) - Min({i \in DOMAIN path : path[i] = p})
            to(q) == IF q \in nodes THEN hash[Append(path, q)]
                     ELSE [kind |-> "missing", cycle |-> 0, refs |-> q]
        IN  IF up > 0
            THEN [kind |-> "cycle", cycle |-> up, refs |-> <<>>]
            ELSE [kind |-> merger.comps[p].node.kind, cycle |-> 0,
                  refs |-> [i \in DOMAIN refs |-> [to |-> to(refs[i].name), tail |-> refs[i].tail]]]
  IN  hash[<<name>>]

OfBase(base) == {p \in DOMAIN merger.comps : merger.comps[p].base = base}

\* A variant: two that agree are enough.
UncontestedByTwo(names) == Cardinality(names) >= 2

\* All that want the base name, and at least two, agree.
Uncontested(names) ==
  Cardinality(names) >= 2 /\ \A p \in names : names = OfBase(merger.comps[p].base)

Groups ==
  LET hash == [p \in DOMAIN merger.comps |-> Hash(p)]
      same(p) == {q \in OfBase(merger.comps[p].base) : hash[q] = hash[p]}
  IN  {g \in {same(p) : p \in DOMAIN merger.comps} : Uncontested(g)}

DrainEnds ==
  /\ stage = "drain" /\ merger.queue = <<>>
  /\ stage' = "dedupe"
  /\ groups' = (IF in.dedupe THEN Groups ELSE {})
  /\ UNCHANGED <<in, merger, built, aliases>>

\* One group: its components give way to one under the bare name, unless that is taken.
Collapse ==
  /\ stage = "dedupe"
  /\ \E g \in groups : \E keep \in g :
       /\ groups' = groups \ {g}
       /\ LET target == Capitalise(merger.comps[keep].base) IN
          IF target \in DOMAIN merger.comps THEN UNCHANGED <<merger, aliases>>
          ELSE /\ aliases' = [p \in DOMAIN aliases \cup g |-> IF p \in g THEN target ELSE aliases[p]]
               /\ merger' = [imported |-> merger.imported,
                             comps    |-> Put([p \in DOMAIN merger.comps \ g |-> merger.comps[p]], target, merger.comps[keep]),
                             queue    |-> merger.queue]
  /\ UNCHANGED <<in, stage, built>>

\* rewriteRefs with the aliases, which name whole components only.
Aliased(refs) ==
  [i \in DOMAIN refs |->
     [name |-> IF refs[i].name \in DOMAIN aliases /\ ~refs[i].tail THEN aliases[refs[i].name] ELSE refs[i].name,
      tail |-> refs[i].tail]]

Rewritten(c) == [base |-> c.base, node |-> [kind |-> c.node.kind, refs |-> Aliased(c.node.refs)]]

\* applyAliases, the operations, and assemble.
Assembled ==
  /\ stage = "dedupe" /\ groups = {}
  /\ stage' = "done"
  /\ merger' = [imported |-> merger.imported,
                comps    |-> [p \in DOMAIN merger.comps |-> Rewritten(merger.comps[p])],
                queue    |-> merger.queue]
  /\ built' = [i \in DOMAIN built |-> Aliased(built[i])]
  /\ UNCHANGED <<in, groups, aliases>>

MergeNext == BuildOperation \/ OperationsEnd \/ Drain \/ DrainEnds \/ Collapse \/ Assembled

MergeSpec == MergeInit /\ [][MergeNext]_mergeVars

-----------------------------------------------------------------------------
(* Properties. *)

\* Components that refer to each other only.
Closed(keys) == \A k \in keys : \A i \in DOMAIN Source(k).refs : Key(k.spec, Source(k).refs[i]) \in keys

\* Those that the operations refer to.
Roots ==
  UNION {{Key(in.ops[i].spec, in.ops[i].refs[j]) : j \in DOMAIN in.ops[i].refs} : i \in DOMAIN in.ops}

\* What the operations need, said of the specs alone: the least closed set.
Needed ==
  {k \in Keys(in) : \A keys \in SUBSET Keys(in) : Roots \subseteq keys /\ Closed(keys) => k \in keys}

\* Exactly what is needed is imported: everything the exposed operations reach, and
\* nothing of the operations that are hidden or not exposed; each under a name of its
\* own, until identical ones are collapsed.
ImportsWhatIsNeeded ==
  /\ stage \in {"dedupe", "done"} => DOMAIN merger.imported = Needed
  /\ \A k, l \in DOMAIN merger.imported : merger.imported[k] = merger.imported[l] => k = l

\* References of the document stand for those of a spec, when components do as said by alike.
Stand(alike, spec, refs, published) ==
  /\ DOMAIN refs = DOMAIN published
  /\ \A i \in DOMAIN refs :
       /\ refs[i].tail = published[i].tail
       /\ \/ refs[i].tail /\ published[i].name \in DOMAIN aliases
          \/ <<Key(spec, refs[i]), published[i].name>> \in alike

\* The source components and the published ones that nothing tells apart in n steps; as
\* many as they are together tell any two apart that differ.
Alike ==
  LET steps == 2 * Cardinality(Needed)
      alike[n \in 0..steps] ==
        IF n = 0 THEN Needed \X DOMAIN merger.comps
        ELSE LET nearer == alike[n - 1]
             IN  {a \in nearer :
                    /\ Source(a[1]).kind = merger.comps[a[2]].node.kind
                    /\ Stand(nearer, a[1].spec, Source(a[1]).refs, merger.comps[a[2]].node.refs)}
  IN  alike[steps]

\* The document means what the specs meant (the comment on dedupe: "two components match
\* only when their entire reachable subgraphs match"): from every operation, through
\* any number of references and cycles, the published components are those of its own
\* backend, to the last detail, whichever were collapsed and in whatever order.  Only a
\* reference that points into a component is not rewritten when that component is
\* collapsed: it is left dangling, or to whatever takes the name.
MeaningIsKept ==
  stage = "done" =>
    \A i \in DOMAIN in.ops : Stand(Alike, in.ops[i].spec, in.ops[i].refs, built[i])

\* A bare name is given only if nobody contests it: every component of that base name,
\* of whatever backend, is the one published under it.
BareNameIsAgreed ==
  stage = "done" =>
    \A k, l \in DOMAIN merger.imported :
      k.name = l.name /\ merger.imported[k] \in DOMAIN aliases =>
        /\ merger.imported[l] \in DOMAIN aliases
        /\ aliases[merger.imported[l]] = aliases[merger.imported[k]]
=============================================================================
