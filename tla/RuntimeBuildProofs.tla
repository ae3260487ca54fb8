------------------------- MODULE RuntimeBuildProofs -------------------------
(***************************************************************************)
(* Proofs about what runtime.Build makes: the route table, the router and  *)
(* the resources of a runtime, for any configurations, middleware,         *)
(* backends and paths; and the merged document, for any specs.             *)
(***************************************************************************)
EXTENDS RuntimeBuild, Merge, FiniteSetTheorems, SequenceTheorems, TLAPS

-----------------------------------------------------------------------------
(* The router's search: with its backtrack it finds the best template. *)

Text == STRING \cup {ParamChild}

\* Every set of numbers has a least one.
LEMMA LeastNatural ==
  ASSUME NEW T, T \subseteq Nat, T # {}
  PROVE  \E x \in T : \A y \in T : x <= y
<1> DEFINE R == {ss \in Nat \X Nat : ss[1] < ss[2]}
<1>1. IsWellFoundedOn(R, Nat)
  BY NatLessThanWellFounded, Zenon DEF OpToRel
<1> HIDE DEF R
<1>2. \E x \in T : \A y \in T : <<y, x>> \notin R
  BY <1>1, WFMin
<1>3. \A x, y \in Nat : <<y, x>> \notin R => x <= y
  BY DEF R
<1> QED BY <1>2, <1>3

Suits(c, seg) == c = seg \/ (c = ParamChild /\ seg # EmptySegment)

\* The shapes below a node that the rest of the path fits, and the best of them.
Under(S, segs, node) ==
  {s \in S :
     /\ Len(s) = Len(segs)
     /\ \A i \in 1..Len(segs) : IF i <= Len(node) THEN s[i] = node[i] ELSE Suits(s[i], segs[i])}

Top(S, segs, node) ==
  {s \in Under(S, segs, node) : \A u \in Under(S, segs, node) \ {s} : Beats(s, u)}

\* One call of walk, with f for the calls it makes, in a tree with the nodes N.
Turn(N, S, segs, f, node) ==
  IF Len(node) = Len(segs)
  THEN IF node \in S THEN {node} ELSE {}
  ELSE LET seg == segs[Len(node) + 1]
           down(child) == IF Append(node, child) \in N THEN f[Append(node, child)] ELSE {}
           static == IF seg # ParamChild THEN down(seg) ELSE {}
       IN  IF static # {} THEN static
           ELSE IF seg # EmptySegment THEN down(ParamChild) ELSE {}

\* The best fit is the top of the whole tree.
LEMMA BestIsTop ==
  ASSUME NEW S, NEW segs \in Seq(Text)
  PROVE  Best(S, segs) = Top(S, segs, <<>>)
<1>1. ASSUME NEW s PROVE Fits(s, segs) <=> /\ Len(s) = Len(segs)
                                           /\ \A i \in 1..Len(segs) : Suits(s[i], segs[i])
  <2>1. DOMAIN segs = 1..Len(segs) OBVIOUS
  <2> QED BY <2>1 DEF Fits, Suits
<1>2. \A i \in 1..Len(segs) : ~(i <= Len(<<>>)) OBVIOUS
<1>3. \A s : s \in {x \in S : Fits(x, segs)} <=> s \in Under(S, segs, <<>>)
  BY <1>1, <1>2 DEF Under
<1>4. {s \in S : Fits(s, segs)} = Under(S, segs, <<>>)
  BY <1>3
<1> QED BY <1>4 DEF Best, Top

\* At the end of the path.
LEMMA TopAtEnd ==
  ASSUME NEW S, S \subseteq Seq(Text), NEW segs \in Seq(Text),
         NEW node \in Seq(Text), Len(node) = Len(segs)
  PROVE  /\ Under(S, segs, node) = IF node \in S THEN {node} ELSE {}
         /\ Top(S, segs, node) = IF node \in S THEN {node} ELSE {}
<1>1. \A s \in Under(S, segs, node) : s = node
  <2> TAKE s \in Under(S, segs, node)
  <2>1. s \in Seq(Text) /\ Len(s) = Len(node) BY DEF Under
  <2>2. \A i \in 1..Len(node) : s[i] = node[i] BY DEF Under
  <2> QED BY <2>1, <2>2
<1>2. node \in Under(S, segs, node) <=> node \in S
  BY DEF Under
<1>3. Under(S, segs, node) = IF node \in S THEN {node} ELSE {}
  BY <1>1, <1>2 DEF Under
<1> QED BY <1>3 DEF Top

Child(node, c, x) ==
  /\ c \in Seq(Text) /\ Len(c) = Len(node) + 1
  /\ c[Len(node) + 1] = x
  /\ \A i \in 1..Len(node) : c[i] = node[i]

\* The parameter child is a segment, and not the empty one.
LEMMA ParamIsText == ParamChild \in Text /\ ParamChild # EmptySegment
<1>1. ParamChild # EmptySegment BY Zenon DEF ParamChild, EmptySegment
<1> QED BY <1>1 DEF Text

\* One segment more is a child.
LEMMA AppendIsChild ==
  ASSUME NEW node \in Seq(Text), NEW x \in Text
  PROVE  Child(node, Append(node, x), x)
BY AppendProperties DEF Child

\* Before the end: a node's child holds what is below the node and goes that way.
LEMMA UnderChild ==
  ASSUME NEW S, NEW segs \in Seq(Text), NEW node \in Seq(Text), Len(node) < Len(segs),
         NEW x, Suits(x, segs[Len(node) + 1]), NEW c, Child(node, c, x)
  PROVE  \A s : s \in Under(S, segs, c) <=> s \in Under(S, segs, node) /\ s[Len(node) + 1] = x
<1> DEFINE n == Len(node)
<1>1. n \in Nat /\ n + 1 \in 1..Len(segs) /\ Len(segs) \in Nat
  OBVIOUS
<1>2. Len(c) = n + 1 /\ c[n + 1] = x /\ \A i \in 1..n : c[i] = node[i]
  BY DEF Child
<1> HIDE DEF n
<1>3. ASSUME NEW s, Len(s) = Len(segs)
      PROVE  (\A i \in 1..Len(segs) : IF i <= n + 1 THEN s[i] = c[i] ELSE Suits(s[i], segs[i]))
               <=> /\ \A i \in 1..Len(segs) : IF i <= n THEN s[i] = node[i] ELSE Suits(s[i], segs[i])
                   /\ s[n + 1] = x
  <2>1. \A i \in 1..Len(segs) : i <= n + 1 => i = n + 1 \/ (i <= n /\ i \in 1..n) BY <1>1
  <2>2. \A i \in 1..Len(segs) : i <= n => i <= n + 1 /\ i # n + 1 BY <1>1
  <2>3. n + 1 <= n + 1 /\ ~(n + 1 <= n) BY <1>1
  <2>4. Suits(x, segs[n + 1]) BY DEF n
  <2> QED BY <1>1, <1>2, <2>1, <2>2, <2>3, <2>4
<1>4. \A s : s \in Under(S, segs, c) <=> s \in Under(S, segs, node) /\ s[n + 1] = x
  BY <1>2, <1>3 DEF Under, n
<1> QED BY <1>4 DEF n

\* What fits below a node fits below its static child or its parameter child.
LEMMA UnderChildren ==
  ASSUME NEW S, NEW segs \in Seq(Text), NEW node \in Seq(Text), Len(node) < Len(segs),
         NEW a, Child(node, a, segs[Len(node) + 1]), NEW b, Child(node, b, ParamChild)
  PROVE  LET seg == segs[Len(node) + 1] IN
         Under(S, segs, node) =
           (IF seg # ParamChild THEN Under(S, segs, a) ELSE {})
             \cup (IF seg # EmptySegment THEN Under(S, segs, b) ELSE {})
<1> DEFINE n == Len(node)
           seg == segs[n + 1]
           U == Under(S, segs, node)
<1>1. n + 1 \in 1..Len(segs) /\ ~(n + 1 <= n)
  OBVIOUS
<1>2. \A s \in U : Suits(s[n + 1], seg)
  BY <1>1 DEF Under
<1>3. Under(S, segs, a) = {s \in U : s[n + 1] = seg}
  <2>1. PICK x : x = segs[Len(node) + 1] OBVIOUS
  <2>2. Suits(x, segs[Len(node) + 1]) /\ Child(node, a, x) BY <2>1 DEF Suits
  <2>3. \A s : s \in Under(S, segs, a) <=> s \in Under(S, segs, node) /\ s[Len(node) + 1] = x
    BY <2>2, UnderChild
  <2> QED BY <2>1, <2>3
<1>4. seg # EmptySegment => Under(S, segs, b) = {s \in U : s[n + 1] = ParamChild}
  BY UnderChild DEF Suits
<1> HIDE DEF n, seg, U
<1>5. \A s \in U : s[n + 1] = seg \/ (s[n + 1] = ParamChild /\ seg # EmptySegment)
  BY <1>2 DEF Suits
<1> DEFINE A == Under(S, segs, a)
           B == Under(S, segs, b)
<1> HIDE DEF A, B
<1>6. A = {s \in U : s[n + 1] = seg} /\ (seg # EmptySegment => B = {s \in U : s[n + 1] = ParamChild})
  BY <1>3, <1>4 DEF A, B
<1>7. CASE seg = EmptySegment
  <2>1. A = U BY <1>5, <1>6, <1>7
  <2> QED BY <1>7, <2>1, ParamIsText DEF A, B, U, seg, n
<1>8. CASE seg = ParamChild
  <2>1. B = U BY <1>5, <1>6, <1>8, ParamIsText
  <2> QED BY <1>8, <2>1, ParamIsText DEF A, B, U, seg, n
<1>9. CASE seg # EmptySegment /\ seg # ParamChild
  <2>1. U = A \cup B BY <1>5, <1>6, <1>9
  <2> QED BY <1>9, <2>1 DEF A, B, U, seg, n
<1> QED BY <1>7, <1>8, <1>9

\* The static child beats the parameter child.
LEMMA StaticBeats ==
  ASSUME NEW s \in Seq(Text), NEW u \in Seq(Text), Len(s) = Len(u), NEW n \in Nat, n < Len(s),
         s[n + 1] # ParamChild, u[n + 1] = ParamChild, \A i \in 1..n : s[i] = u[i]
  PROVE  Beats(s, u) /\ ~Beats(u, s) /\ s # u
<1>1. Beats(s, u)
  <2>1. n + 1 \in DOMAIN s /\ (n + 1) - 1 = n OBVIOUS
  <2> QED BY <2>1 DEF Beats
<1>2. ~Beats(u, s)
  <2> SUFFICES ASSUME NEW i \in DOMAIN u, s[i] = ParamChild, u[i] # ParamChild,
                      \A j \in 1..(i - 1) : u[j] = s[j]
               PROVE  FALSE
    BY DEF Beats
  <2>1. i \in 1..Len(u) OBVIOUS
  <2>2. ~(i <= n) BY <2>1
  <2>3. i # n + 1 OBVIOUS
  <2>4. n + 1 \in 1..(i - 1) BY <2>1, <2>2, <2>3
  <2> QED BY <2>4
<1> QED BY <1>1, <1>2

\* Where all of A beat all of B, B does not matter.
LEMMA TopOfUnion ==
  ASSUME NEW A, NEW B, A # {}, \A s \in A, u \in B : Beats(s, u) /\ ~Beats(u, s) /\ s # u
  PROVE  {s \in A \cup B : \A u \in (A \cup B) \ {s} : Beats(s, u)} = {s \in A : \A u \in A \ {s} : Beats(s, u)}
<1>1. ASSUME NEW s \in B PROVE ~ \A u \in (A \cup B) \ {s} : Beats(s, u)
  OBVIOUS
<1>2. ASSUME NEW s \in A
      PROVE  (\A u \in (A \cup B) \ {s} : Beats(s, u)) <=> (\A u \in A \ {s} : Beats(s, u))
  OBVIOUS
<1> QED BY <1>1, <1>2

\* The best below a node is the best below its static child if anything fits there,
\* otherwise the best below its parameter child: the equation of walk.
LEMMA TopOfChildren ==
  ASSUME NEW S, S \subseteq Seq(Text), NEW segs \in Seq(Text),
         NEW node \in Seq(Text), Len(node) < Len(segs),
         NEW a, Child(node, a, segs[Len(node) + 1]), NEW b, Child(node, b, ParamChild)
  PROVE  LET seg == segs[Len(node) + 1] IN
         Top(S, segs, node) =
           IF seg # ParamChild /\ Under(S, segs, a) # {} THEN Top(S, segs, a)
           ELSE IF seg # EmptySegment THEN Top(S, segs, b) ELSE {}
<1> DEFINE n == Len(node)
           seg == segs[n + 1]
           U == Under(S, segs, node)
           A == Under(S, segs, a)
           B == Under(S, segs, b)
<1>1. U = (IF seg # ParamChild THEN A ELSE {}) \cup (IF seg # EmptySegment THEN B ELSE {})
  BY UnderChildren
<1>2. ASSUME seg # ParamChild, NEW s \in A, NEW u \in B PROVE Beats(s, u) /\ ~Beats(u, s) /\ s # u
  <2>1. /\ s \in Seq(Text) /\ u \in Seq(Text) /\ Len(s) = Len(segs) /\ Len(u) = Len(segs)
    BY DEF Under
  <2>2. n \in Nat /\ n < Len(s) /\ n + 1 \in 1..Len(segs) /\ \A i \in 1..n : i \in 1..Len(segs) BY <2>1
  <2>3. Len(a) = n + 1 /\ Len(b) = n + 1 /\ a[n + 1] = seg /\ b[n + 1] = ParamChild /\ \A i \in 1..n : a[i] = b[i]
    BY DEF Child
  <2>4. (\A i \in 1..Len(segs) : i <= n + 1 => s[i] = a[i]) /\ (\A i \in 1..Len(segs) : i <= n + 1 => u[i] = b[i])
    BY <2>3 DEF Under
  <2> HIDE DEF n, A, B
  <2>5. s[n + 1] = seg /\ u[n + 1] = ParamChild BY <2>2, <2>3, <2>4
  <2>6. \A i \in 1..n : s[i] = u[i] BY <2>2, <2>3, <2>4
  <2> QED BY <1>2, <2>1, <2>2, <2>5, <2>6, StaticBeats
<1>3. /\ Top(S, segs, node) = {s \in U : \A u \in U \ {s} : Beats(s, u)}
      /\ Top(S, segs, a) = {s \in A : \A u \in A \ {s} : Beats(s, u)}
      /\ Top(S, segs, b) = {s \in B : \A u \in B \ {s} : Beats(s, u)}
  BY DEF Top
<1>4. U = {} => Top(S, segs, node) = {}
  BY DEF Top
<1> HIDE DEF U, A, B
<1>5. CASE seg # ParamChild /\ A # {}
  <2>1. CASE seg # EmptySegment
    <3>1. U = A \cup B BY <1>1, <1>5, <2>1
    <3>2. \A s \in A, u \in B : Beats(s, u) /\ ~Beats(u, s) /\ s # u BY <1>2, <1>5
    <3> QED BY <1>3, <1>5, <3>1, <3>2, TopOfUnion DEF A
  <2>2. CASE seg = EmptySegment BY <1>1, <1>3, <1>5, <2>2 DEF A
  <2> QED BY <2>1, <2>2
<1>6. CASE ~(seg # ParamChild /\ A # {})
  <2>1. U = IF seg # EmptySegment THEN B ELSE {} BY <1>1, <1>6
  <2>2. CASE seg # EmptySegment BY <1>3, <1>6, <2>1, <2>2 DEF A
  <2>3. CASE seg = EmptySegment BY <1>4, <1>6, <2>1, <2>3 DEF A
  <2> QED BY <2>2, <2>3
<1> QED BY <1>5, <1>6

\* Where something fits, something fits best.
LEMMA SomethingIsBest ==
  ASSUME NEW S, S \subseteq Seq(Text), NEW segs \in Seq(Text),
         NEW node \in Seq(Text), Len(node) <= Len(segs), Under(S, segs, node) # {}
  PROVE  Top(S, segs, node) # {}
<1> DEFINE Lacks(m) == Under(S, segs, m) # {} /\ Top(S, segs, m) = {}
           K == {k \in Nat : \E m \in Seq(Text) : Len(m) + k = Len(segs) /\ Lacks(m)}
<1> SUFFICES ASSUME Lacks(node) PROVE FALSE
  OBVIOUS
<1> HIDE DEF Lacks
<1>1. Len(segs) - Len(node) \in K OBVIOUS
<1>2. PICK k \in K : \A l \in K : k <= l BY <1>1, LeastNatural
<1>3. PICK m \in Seq(Text) : Len(m) + k = Len(segs) /\ Lacks(m) OBVIOUS
<1>a. k \in Nat OBVIOUS
<1>b. \A c \in Seq(Text), l \in Nat : Len(c) + l = Len(segs) /\ Lacks(c) => l \in K OBVIOUS
<1> HIDE DEF K
<1>4. k # 0
  <2> SUFFICES ASSUME k = 0 PROVE FALSE
    OBVIOUS
  <2>1. Len(m) = Len(segs) BY <1>3
  <2>2. /\ Under(S, segs, m) = IF m \in S THEN {m} ELSE {}
        /\ Top(S, segs, m) = IF m \in S THEN {m} ELSE {}
    BY <2>1, TopAtEnd
  <2> QED BY <1>3, <2>2 DEF Lacks
<1>5. Len(m) < Len(segs) /\ k - 1 \in Nat BY <1>3, <1>4, <1>a
<1> DEFINE seg == segs[Len(m) + 1]
<1>6. seg \in Text BY <1>5
<1> HIDE DEF seg
<1>7. PICK a : Child(m, a, seg) BY <1>6, AppendIsChild
<1>8. PICK b : Child(m, b, ParamChild) BY AppendIsChild, ParamIsText
<1>9. ASSUME NEW x, NEW c, Child(m, c, x) PROVE ~Lacks(c)
  <2>1. c \in Seq(Text) /\ Len(c) = Len(m) + 1 BY <1>9 DEF Child
  <2>2. Len(c) + (k - 1) = Len(segs) BY <1>3, <1>a, <2>1
  <2>3. Lacks(c) => k - 1 \in K BY <1>5, <1>b, <2>1, <2>2
  <2>4. k - 1 \notin K BY <1>2, <1>a, <1>5
  <2> QED BY <2>3, <2>4
<1>10. ~Lacks(a) /\ ~Lacks(b) BY <1>7, <1>8, <1>9
<1>11. Top(S, segs, m) =
        IF seg # ParamChild /\ Under(S, segs, a) # {} THEN Top(S, segs, a)
        ELSE IF seg # EmptySegment THEN Top(S, segs, b) ELSE {}
  BY <1>5, <1>7, <1>8, TopOfChildren DEF seg
<1>12. Under(S, segs, m) =
         (IF seg # ParamChild THEN Under(S, segs, a) ELSE {}) \cup (IF seg # EmptySegment THEN Under(S, segs, b) ELSE {})
  BY <1>5, <1>7, <1>8, UnderChildren DEF seg
<1> QED BY <1>3, <1>10, <1>11, <1>12 DEF Lacks

\* The best shapes solve the equation that defines walk.
LEMMA TopIsATurn ==
  ASSUME NEW S, S \subseteq Seq(Text), NEW segs \in Seq(Text),
         NEW N, N \subseteq Seq(Text), \A m \in Seq(Text) \ N : Len(m) <= Len(segs) => Under(S, segs, m) = {},
         NEW f, NEW node \in N, Len(node) <= Len(segs),
         \A m \in N : Len(m) = Len(node) + 1 /\ Len(m) <= Len(segs) => f[m] = Top(S, segs, m)
  PROVE  Turn(N, S, segs, f, node) = Top(S, segs, node)
<1>1. node \in Seq(Text) OBVIOUS
<1>2. CASE Len(node) = Len(segs) BY <1>1, <1>2, TopAtEnd DEF Turn
<1>3. CASE Len(node) # Len(segs)
  <2>1. Len(node) < Len(segs) BY <1>1, <1>3
  <2> DEFINE seg == segs[Len(node) + 1]
             down(c) == IF Append(node, c) \in N THEN f[Append(node, c)] ELSE {}
             static == IF seg # ParamChild THEN down(seg) ELSE {}
             A == Append(node, seg)
             B == Append(node, ParamChild)
  <2>2. Turn(N, S, segs, f, node) = IF static # {} THEN static ELSE IF seg # EmptySegment THEN down(ParamChild) ELSE {}
    BY <1>3 DEF Turn
  <2>3. seg \in Text BY <1>1, <2>1
  <2>4. Child(node, A, seg) /\ Child(node, B, ParamChild) BY <2>3, AppendIsChild, ParamIsText
  <2>5. ASSUME NEW c, NEW x, Child(node, c, x)
        PROVE  LET d == IF c \in N THEN f[c] ELSE {} IN
               d = Top(S, segs, c) /\ (d # {} <=> Under(S, segs, c) # {})
    <3>1. c \in Seq(Text) /\ Len(c) = Len(node) + 1 BY <2>5 DEF Child
    <3>2. Len(c) <= Len(segs) BY <1>1, <2>1, <3>1
    <3>3. Top(S, segs, c) # {} <=> Under(S, segs, c) # {}
      BY <3>1, <3>2, SomethingIsBest DEF Top
    <3>4. CASE c \in N
      <4>1. f[c] = Top(S, segs, c) BY <3>1, <3>2, <3>4
      <4> QED BY <3>3, <3>4, <4>1
    <3>5. CASE c \notin N
      <4>1. Under(S, segs, c) = {} BY <3>1, <3>2, <3>5
      <4> QED BY <3>3, <3>5, <4>1
    <3> QED BY <3>4, <3>5
  <2>6. /\ down(seg) = Top(S, segs, A) /\ (down(seg) # {} <=> Under(S, segs, A) # {})
        /\ down(ParamChild) = Top(S, segs, B)
    BY <2>4, <2>5
  <2>7. static = IF seg # ParamChild THEN down(seg) ELSE {} OBVIOUS
  <2> HIDE DEF down, static, A, B, seg
  <2>8. Top(S, segs, node) =
          IF seg # ParamChild /\ Under(S, segs, A) # {} THEN Top(S, segs, A)
          ELSE IF seg # EmptySegment THEN Top(S, segs, B) ELSE {}
    BY <1>1, <2>1, <2>4, TopOfChildren DEF seg
  <2> QED BY <2>2, <2>6, <2>7, <2>8
<1> QED BY <1>2, <1>3

\* The nodes of a tree are the prefixes of its shapes.
LEMMA NodesOfTree ==
  ASSUME NEW T, \A e \in T : e.shape \in Seq(Text)
  PROVE  /\ Nodes(T) \subseteq Seq(Text) /\ <<>> \in Nodes(T)
         /\ \A e \in T, k \in Nat : k <= Len(e.shape) => SubSeq(e.shape, 1, k) \in Nodes(T)
<1>1. ASSUME NEW e \in T PROVE Prefixes(e.shape) \subseteq Seq(Text) BY DEF Prefixes
<1>2. ASSUME NEW e \in T, NEW k \in Nat, k <= Len(e.shape) PROVE SubSeq(e.shape, 1, k) \in Prefixes(e.shape)
  BY <1>2 DEF Prefixes
<1>3. <<>> \in Seq(Text) OBVIOUS
<1> QED BY <1>1, <1>2, <1>3 DEF Nodes

\* walk, for every tree and every path: it returns the best of the shapes that fit,
\* static beating parameter at the first segment where two differ; nothing if none fits.
THEOREM WalkFindsTheBest ==
  ASSUME NEW T, \A e \in T : e.shape \in Seq(Text), NEW segs \in Seq(Text)
  PROVE  Walk(T, segs) = Best({e.shape : e \in T}, segs)
<1> DEFINE S == {e.shape : e \in T}
           N == Nodes(T)
           Solves(f) == f = [node \in N |-> Turn(N, S, segs, f, node)]
           W == [node \in N |-> IF Len(node) <= Len(segs) THEN Top(S, segs, node) ELSE {}]
<1>1. Walk(T, segs) = (CHOOSE f : Solves(f))[<<>>]
  <2> DEFINE call(f, node) ==
        IF Len(node) = Len(segs)
        THEN IF Handlers(T, node) = {} THEN {} ELSE {node}
        ELSE LET seg == segs[Len(node) + 1]
                 down(child) == IF Append(node, child) \in N THEN f[Append(node, child)] ELSE {}
                 static == IF seg # ParamChild THEN down(seg) ELSE {}
             IN  IF static # {} THEN static
                 ELSE IF seg # EmptySegment THEN down(ParamChild) ELSE {}
  <2>1. \A node : Handlers(T, node) = {} <=> node \notin S BY DEF Handlers
  <2>2. \A f, node : call(f, node) = Turn(N, S, segs, f, node) BY <2>1 DEF Turn
  <2>3. Walk(T, segs) = (CHOOSE f : f = [node \in N |-> call(f, node)])[<<>>] BY DEF Walk
  <2> HIDE DEF call, N, S
  <2>4. \A f : [node \in N |-> call(f, node)] = [node \in N |-> Turn(N, S, segs, f, node)] BY <2>2
  <2> QED BY <2>3, <2>4
<1>2. /\ S \subseteq Seq(Text) /\ N \subseteq Seq(Text) /\ <<>> \in N
      /\ \A s \in S, k \in Nat : k <= Len(s) => SubSeq(s, 1, k) \in N
  BY NodesOfTree
<1>3. \A m \in Seq(Text) \ N : Len(m) <= Len(segs) => Under(S, segs, m) = {}
  <2> HIDE DEF S, N
  <2> SUFFICES ASSUME NEW m \in Seq(Text), Len(m) <= Len(segs), NEW s \in Under(S, segs, m) PROVE m \in N
    OBVIOUS
  <2>1. s \in S /\ s \in Seq(Text) /\ Len(s) = Len(segs) BY <1>2 DEF Under
  <2>2. \A i \in 1..Len(m) : s[i] = m[i] BY DEF Under
  <2>3. m = SubSeq(s, 1, Len(m)) /\ Len(m) \in Nat /\ Len(m) <= Len(s) BY <2>1, <2>2
  <2>4. SubSeq(s, 1, Len(m)) \in N BY <1>2, <2>1, <2>3
  <2> QED BY <2>3, <2>4
<1> HIDE DEF S, N
<1>5. Solves(W)
  <2> SUFFICES ASSUME NEW node \in N PROVE W[node] = Turn(N, S, segs, W, node)
    OBVIOUS
  <2>1. node \in Seq(Text) BY <1>2
  <2>2. CASE Len(node) <= Len(segs)
    <3>1. \A m \in N : Len(m) <= Len(segs) => W[m] = Top(S, segs, m) OBVIOUS
    <3> HIDE DEF W
    <3>2. Turn(N, S, segs, W, node) = Top(S, segs, node) BY <1>2, <1>3, <2>2, <3>1, TopIsATurn
    <3> QED BY <2>2, <3>1, <3>2
  <2>3. CASE ~(Len(node) <= Len(segs))
    <3>1. Len(node) # Len(segs) BY <2>1, <2>3
    <3>2. ASSUME NEW c, Append(node, c) \in N PROVE W[Append(node, c)] = {}
      <4>1. Len(Append(node, c)) = Len(node) + 1 BY <2>1
      <4>2. ~(Len(Append(node, c)) <= Len(segs)) BY <2>1, <2>3, <4>1
      <4> QED BY <3>2, <4>2
    <3>3. Turn(N, S, segs, W, node) = {} BY <3>1, <3>2 DEF Turn
    <3> QED BY <2>3, <3>3
  <2> QED BY <2>2, <2>3
<1> HIDE DEF W, Solves
<1>6. PICK g : Solves(g) /\ Walk(T, segs) = g[<<>>]
  <2>1. Solves(CHOOSE f : Solves(f)) BY <1>5, Zenon
  <2> QED BY <1>1, <2>1
<1>7. \A node \in N : g[node] = Turn(N, S, segs, g, node)
  BY <1>6 DEF Solves
<1>8. ASSUME NEW node \in N, Len(node) <= Len(segs) PROVE g[node] = Top(S, segs, node)
  <2> DEFINE Wrong(m) == g[m] # Top(S, segs, m)
             K == {k \in Nat : \E m \in N : Len(m) + k = Len(segs) /\ Wrong(m)}
  <2> SUFFICES ASSUME Wrong(node) PROVE FALSE
    OBVIOUS
  <2> HIDE DEF Wrong
  <2>1. Len(segs) - Len(node) \in K
    <3>1. Len(node) \in Nat /\ Len(segs) \in Nat BY <1>2
    <3> QED BY <1>8, <3>1
  <2>2. PICK k \in K : \A l \in K : k <= l BY <2>1, LeastNatural
  <2>3. PICK m \in N : Len(m) + k = Len(segs) /\ Wrong(m) OBVIOUS
  <2>4. k \in Nat /\ Len(m) \in Nat BY <1>2
  <2>a. \A c \in N, l \in Nat : Len(c) + l = Len(segs) /\ Wrong(c) => l \in K OBVIOUS
  <2> HIDE DEF K
  <2>5. ASSUME NEW c \in N, Len(c) = Len(m) + 1, Len(c) <= Len(segs) PROVE g[c] = Top(S, segs, c)
    <3>1. k - 1 \in Nat /\ Len(c) + (k - 1) = Len(segs) BY <2>3, <2>4, <2>5
    <3>2. k - 1 \notin K BY <2>2, <2>4, <3>1
    <3> QED BY <2>a, <3>1, <3>2 DEF Wrong
  <2>6. Len(m) <= Len(segs) BY <2>3, <2>4
  <2>7. Turn(N, S, segs, g, m) = Top(S, segs, m) BY <1>2, <1>3, <2>5, <2>6, TopIsATurn
  <2> QED BY <1>7, <2>3, <2>7 DEF Wrong
<1>9. g[<<>>] = Top(S, segs, <<>>)
  <2>1. Len(<<>>) <= Len(segs) OBVIOUS
  <2> QED BY <1>2, <1>8, <2>1
<1> QED BY <1>6, <1>9, BestIsTop DEF S
-----------------------------------------------------------------------------
(* What a build holds. *)

Early == {"stores", "guard", "instances", "specs", "table"}
Late  == {"specs", "table", "backends", "routes", "health", "live"}
Ended == {"failed", "closed"}

StageInv ==
  /\ step \in Early \cup Late \cup Ended \cup {"cleanup"}
  /\ step \in Early => phase = "select"
  /\ step = "backends" => phase = "bind"
  /\ step = "routes" => phase \in {"bind", "preflight"}
  /\ step \in {"health", "live"} => phase = "serving"

HeldInv ==
  /\ stores \in {{}, {"stores"}} /\ backends \subseteq Backends /\ out \subseteq Instances
  /\ instances \in {{}, Instances}
  /\ step \in {"stores", "guard"} => out = {}
  /\ step \in {"stores", "guard", "instances"} => instances = {}
  /\ step = "stores" => stores = {}
  /\ step \in Early => backends = {}
  /\ step \in Late \cup {"guard", "instances"} => stores = {"stores"}
  /\ step \in Late => instances = Instances /\ out = Instances
  /\ step \in {"routes", "health", "live"} => backends = Backends

\* Up to the hand-over all that was acquired is open; a build that has failed in
\* Registry.Build has closed its part, and knows of the rest.
LifeInv ==
  /\ life \in [Resources -> {"none", "open", "closed"}]
  /\ step \in Early \cup Late =>
       \A r \in Resources : life[r] = IF r \in out \cup backends \cup stores THEN "open" ELSE "none"
  /\ step = "cleanup" =>
       \A r \in Resources : life[r] = "open" <=> r \in instances \cup backends \cup stores
  /\ step \in Ended => \A r \in Resources : life[r] # "open"
  /\ checking = (step = "live")

BuildInv == StageInv /\ HeldInv /\ LifeInv

\* How Select moves the phase.
LEMMA SelectPhase == ASSUME Select PROVE phase = "select" /\ phase' \in {"bind", "refused"}
BY DEF Select

\* How the two loops move the phase.
LEMMA BindPhase ==
  ASSUME phase \in {"bind", "preflight"}, Bind \/ BindEnds \/ AddPreflight \/ PreflightEnds
  PROVE  phase' \in {"bind", "preflight", "serving", "refused"}
<1>1. CASE Bind BY <1>1 DEF Bind
<1>2. CASE BindEnds BY <1>2 DEF BindEnds
<1>3. CASE AddPreflight BY <1>3 DEF AddPreflight
<1>4. CASE PreflightEnds BY <1>4 DEF PreflightEnds
<1> QED BY <1>1, <1>2, <1>3, <1>4

LEMMA BuildInvInit == BuildInit => BuildInv
<1> SUFFICES ASSUME BuildInit PROVE BuildInv
  OBVIOUS
<1>1. StageInv BY DEF BuildInit, Init, StageInv, Early, Late, Ended
<1>2. HeldInv BY DEF BuildInit, HeldInv, Early, Late
<1>3. LifeInv BY DEF BuildInit, LifeInv, Early, Late, Ended
<1> QED BY <1>1, <1>2, <1>3 DEF BuildInv

LEMMA BuildInvStep == BuildInv /\ [BuildNext]_allVars => BuildInv'
<1> SUFFICES ASSUME BuildInv, [BuildNext]_allVars PROVE BuildInv'
  OBVIOUS
<1> USE DEF BuildInv, Early, Late, Ended
<1>1. CASE OpenStores
  BY <1>1, ResourcesApart DEF OpenStores, Open, StageInv, HeldInv, LifeInv, vars, Resources
<1>2. CASE BuildGuard
  BY <1>2 DEF BuildGuard, Passes, StageInv, HeldInv, LifeInv, vars, Resources
<1>3. CASE Construct
  BY <1>3, ResourcesApart DEF Construct, Open, StageInv, HeldInv, LifeInv, vars, Resources
<1>4. CASE ConstructFails
  <2>1. /\ step = "instances" /\ step' = "cleanup" /\ backends = {} /\ stores = {"stores"} /\ instances = {}
        /\ out \subseteq Instances /\ out' = out /\ phase' = phase /\ checking' = checking
        /\ backends' = backends /\ stores' = stores /\ instances' = instances
    BY <1>4 DEF ConstructFails, HeldInv, vars
  <2>2. \A r \in Resources : /\ r \in out => life[r] = "open" /\ life'[r] = "closed"
                             /\ r = "stores" => life[r] = "open" /\ life'[r] = "open"
                             /\ r \notin out /\ r # "stores" => life[r] = "none" /\ life'[r] = "none"
    <3> TAKE r \in Resources
    <3>1. life[r] = IF r \in out \cup backends \cup stores THEN "open" ELSE "none"
      BY <2>1 DEF LifeInv
    <3>2. life'[r] = IF r \notin out THEN life[r]
                     ELSE IF life[r] = "closed" THEN "closed twice" ELSE "closed"
      BY <1>4 DEF ConstructFails, Close
    <3>3. r \in out => r # "stores" BY <2>1, ResourcesApart
    <3> QED BY <2>1, <3>1, <3>2, <3>3
  <2>3. life' = [r \in Resources |-> life'[r]]
    BY <1>4 DEF ConstructFails, Close
  <2>4. LifeInv'
    <3>1. life' \in [Resources -> {"none", "open", "closed"}] BY <2>2, <2>3
    <3>2. \A r \in Resources : life'[r] = "open" <=> r \in instances' \cup backends' \cup stores'
      BY <2>1, <2>2, ResourcesApart
    <3> QED BY <2>1, <3>1, <3>2 DEF LifeInv
  <2> QED BY <2>1, <2>4 DEF StageInv, HeldInv
<1>5. CASE InstancesBuilt
  BY <1>5 DEF InstancesBuilt, StageInv, HeldInv, LifeInv, vars, Resources
<1>6. CASE FetchSpecs
  BY <1>6 DEF FetchSpecs, Passes, StageInv, HeldInv, LifeInv, vars, Resources
<1>7. CASE BuildTable
  BY <1>7, SelectPhase DEF BuildTable, StageInv, HeldInv, LifeInv, Resources
<1>8. CASE NewBackend
  BY <1>8, ResourcesApart DEF NewBackend, Open, StageInv, HeldInv, LifeInv, vars, Resources
<1>9. CASE BindRoutes
  BY <1>9, BindPhase DEF BindRoutes, StageInv, HeldInv, LifeInv, Resources
<1>10. CASE AssembleFails
  BY <1>10 DEF AssembleFails, StageInv, HeldInv, LifeInv, vars, Resources
<1>11. CASE Commit
  BY <1>11 DEF Commit, StageInv, HeldInv, LifeInv, vars, Resources
<1>12. CASE Cleanup
  BY <1>12 DEF Cleanup, Close, StageInv, HeldInv, LifeInv, vars, Resources
<1>13. CASE CloseRuntime
  BY <1>13 DEF CloseRuntime, Close, StageInv, HeldInv, LifeInv, vars, Resources
<1>14. CASE UNCHANGED allVars
  BY <1>14 DEF allVars, vars, buildVars, StageInv, HeldInv, LifeInv
<1> QED
  BY <1>1, <1>2, <1>3, <1>4, <1>5, <1>6, <1>7, <1>8, <1>9, <1>10, <1>11, <1>12, <1>13, <1>14
  DEF BuildNext

\* Nothing leaks, whatever is configured and wherever Build fails: what Registry.Build
\* closed itself it does not hand to the deferred function, and the rest is known to it.
THEOREM BuildLeaksNothing == BuildSpec => []NoBuildLeaks
<1>1. BuildInv => NoBuildLeaks
  BY DEF BuildInv, StageInv, HeldInv, LifeInv, NoBuildLeaks, Early, Late, Ended, Resources
<1> QED BY <1>1, BuildInvInit, BuildInvStep, PTL DEF BuildSpec
-----------------------------------------------------------------------------
(* What the tree holds, and why a build is refused. *)

RouteEntry(r) ==
  [shape |-> Shape(r.path), method |-> r.method, names |-> ParamNames(r.path), payload |-> Bound(r)]

PreflightEntry(p) ==
  [shape |-> Shape(p), method |-> "OPTIONS", names |-> ParamNames(p), payload |-> Preflight(p)]

RoutesApart(S) ==
  \A r, s \in S : r.method = s.method /\ Shape(r.path) = Shape(s.path) => r = s

PreflightsApart(P) ==
  /\ \A p, q \in P : Shape(p) = Shape(q) => p = q
  /\ \A p \in P, r \in table : ~(r.method = "OPTIONS" /\ Shape(r.path) = Shape(p))

AllRoutes == {x.route : x \in Routes}

Bad == ~Selectable \/ ~RoutesApart(AllRoutes) \/ ~PreflightsApart(PreflightPaths)

\* The tree is the routes bound so far, then all of them and the pre-flight routes so
\* far: in whatever order they came, and no two of a method and shape.
TreeInv ==
  /\ phase \in {"select", "bind", "preflight", "serving", "refused"}
  /\ phase = "select" => tree = {}
  /\ phase \in {"bind", "preflight", "serving"} => Selectable /\ table = AllRoutes
  /\ phase = "bind" =>
       /\ todo \subseteq table
       /\ tree = {RouteEntry(r) : r \in table \ todo}
       /\ RoutesApart(table \ todo)
  /\ phase \in {"preflight", "serving"} =>
       /\ RoutesApart(table)
       /\ todo \subseteq PreflightPaths
       /\ tree = {RouteEntry(r) : r \in table} \cup {PreflightEntry(p) : p \in PreflightPaths \ todo}
       /\ PreflightsApart(PreflightPaths \ todo)
  /\ phase = "serving" => todo = {}
  /\ phase = "refused" => Bad

\* What depends on the configuration and the table alone.
LEMMA TableFrame ==
  ASSUME cfg' = cfg
  PROVE  /\ AllRoutes' = AllRoutes /\ Selectable' = Selectable
         /\ table' = table => /\ PreflightPaths' = PreflightPaths
                              /\ \A p : PreflightEntry(p)' = PreflightEntry(p)
                              /\ Bad' = Bad
<1>1. Routes' = Routes /\ \A e : Exposed(e)' = Exposed(e)
  BY DEF Routes, Exposed
<1>2. AllRoutes' = AllRoutes /\ Selectable' = Selectable
  BY <1>1 DEF AllRoutes, Selectable
<1>3. ASSUME table' = table PROVE PreflightPaths' = PreflightPaths /\ \A p : PreflightEntry(p)' = PreflightEntry(p)
  BY <1>3 DEF PreflightPaths, AllowedMethods, PreflightEntry, Preflight
<1>4. ASSUME table' = table PROVE Bad' = Bad
  BY <1>2, <1>3, <1>4 DEF Bad, PreflightsApart, RoutesApart
<1> QED BY <1>2, <1>3, <1>4

\* Where the entries of routes and pre-flight routes are in the tree.
LEMMA EntryFields ==
  /\ \A r : RouteEntry(r).shape = Shape(r.path) /\ RouteEntry(r).method = r.method
  /\ \A p : PreflightEntry(p).shape = Shape(p) /\ PreflightEntry(p).method = "OPTIONS"
BY DEF RouteEntry, PreflightEntry

\* A conflict is an entry of the same method and shape.
LEMMA ConflictsIs ==
  ASSUME NEW tr, NEW m, NEW t
  PROVE  Conflicts(tr, m, t) <=> \E e \in tr : e.method = m /\ e.shape = Shape(t)
BY DEF Conflicts, Methods, Handlers

\* Select leaves an empty tree and all routes to add.
LEMMA SelectTree == ASSUME TreeInv, Select PROVE TreeInv'
<1>1. AllRoutes' = AllRoutes /\ Selectable' = Selectable BY TableFrame DEF Select
<1>2. phase = "select" /\ tree = {} /\ tree' = {} /\ cfg' = cfg BY DEF Select, TreeInv
<1>3. CASE Selectable
  <2>1. phase' = "bind" /\ table' = AllRoutes /\ todo' = table' BY <1>3 DEF Select, AllRoutes
  <2>2. RoutesApart(table' \ todo') BY <2>1 DEF RoutesApart
  <2>3. {RouteEntry(r) : r \in table' \ todo'} = {} BY <2>1
  <2> QED BY <1>1, <1>2, <1>3, <2>1, <2>2, <2>3 DEF TreeInv
<1>4. CASE ~Selectable
  <2>1. phase' = "refused" BY <1>4 DEF Select
  <2>2. Bad' BY <1>1, <1>4 DEF Bad
  <2> QED BY <2>1, <2>2 DEF TreeInv
<1> QED BY <1>3, <1>4

\* A route that conflicts with none goes into the tree; a conflict is a reason to
\* refuse.
LEMMA BindTree == ASSUME TreeInv, Bind PROVE TreeInv'
<1>1. /\ phase = "bind" /\ todo \subseteq table /\ cfg' = cfg /\ table' = table
      /\ tree = {RouteEntry(r) : r \in table \ todo}
      /\ RoutesApart(table \ todo) /\ Selectable /\ table = AllRoutes
  BY DEF Bind, TreeInv
<1>2. AllRoutes' = AllRoutes /\ Selectable' = Selectable /\ Bad' = Bad BY <1>1, TableFrame
<1>3. PICK r \in todo :
        IF Conflicts(tree, r.method, r.path)
        THEN phase' = "refused" /\ UNCHANGED <<tree, todo>>
        ELSE /\ tree' = Added(tree, r.method, r.path, Bound(r))
             /\ todo' = todo \ {r}
             /\ UNCHANGED phase
  BY DEF Bind
<1>4. Conflicts(tree, r.method, r.path) <=>
        \E s \in table \ todo : s.method = r.method /\ Shape(s.path) = Shape(r.path)
  <2>1. Conflicts(tree, r.method, r.path) <=>
          \E e \in tree : e.method = r.method /\ e.shape = Shape(r.path)
    BY ConflictsIs
  <2>2. \A e : e \in tree <=> \E s \in table \ todo : e = RouteEntry(s)
    BY <1>1
  <2>3. ASSUME NEW e \in tree, e.method = r.method, e.shape = Shape(r.path)
        PROVE  \E s \in table \ todo : s.method = r.method /\ Shape(s.path) = Shape(r.path)
    <3>1. PICK s \in table \ todo : e = RouteEntry(s) BY <2>2
    <3>2. RouteEntry(s).method = s.method /\ RouteEntry(s).shape = Shape(s.path) BY EntryFields
    <3> QED BY <2>3, <3>1, <3>2
  <2>4. ASSUME NEW s \in table \ todo, s.method = r.method, Shape(s.path) = Shape(r.path)
        PROVE  \E e \in tree : e.method = r.method /\ e.shape = Shape(r.path)
    <3>1. RouteEntry(s) \in tree BY <2>2
    <3>2. RouteEntry(s).method = s.method /\ RouteEntry(s).shape = Shape(s.path) BY EntryFields
    <3> QED BY <2>4, <3>1, <3>2
  <2> QED BY <2>1, <2>3, <2>4
<1>5. CASE Conflicts(tree, r.method, r.path)
  <2>1. ~RoutesApart(AllRoutes) BY <1>1, <1>3, <1>4, <1>5 DEF RoutesApart
  <2> QED BY <1>2, <1>3, <1>5, <2>1 DEF TreeInv, Bad
<1>6. CASE ~Conflicts(tree, r.method, r.path)
  <2>1. tree' = tree \cup {RouteEntry(r)} /\ todo' = todo \ {r} /\ phase' = "bind"
    BY <1>1, <1>3, <1>6 DEF Added, RouteEntry
  <2>2. table \ todo' = (table \ todo) \cup {r} /\ todo' \subseteq table BY <1>1, <1>3, <2>1
  <2>3. tree' = {RouteEntry(s) : s \in table \ todo'} BY <1>1, <2>1, <2>2
  <2>4. RoutesApart(table \ todo') BY <1>1, <1>4, <1>6, <2>2 DEF RoutesApart
  <2> QED BY <1>1, <1>2, <2>1, <2>2, <2>3, <2>4 DEF TreeInv
<1> QED BY <1>5, <1>6

\* When the routes are in, the pre-flight paths are left.
LEMMA BindEndsTree == ASSUME TreeInv, BindEnds PROVE TreeInv'
<1>1. /\ phase' = "preflight" /\ cfg' = cfg /\ table' = table /\ tree' = tree /\ todo' = PreflightPaths
      /\ tree = {RouteEntry(r) : r \in table} /\ RoutesApart(table) /\ Selectable /\ table = AllRoutes
  BY DEF BindEnds, TreeInv
<1>2. AllRoutes' = AllRoutes /\ Selectable' = Selectable /\ PreflightPaths' = PreflightPaths
  BY <1>1, TableFrame
<1>3. PreflightPaths \ todo' = {} BY <1>1
<1>4. PreflightsApart(PreflightPaths \ todo)' BY <1>2, <1>3 DEF PreflightsApart
<1>5. ({PreflightEntry(p) : p \in PreflightPaths \ todo})' = {} BY <1>2, <1>3
<1> QED BY <1>1, <1>2, <1>4, <1>5 DEF TreeInv

\* The same for a pre-flight route, which may also conflict with a route of the table.
LEMMA AddPreflightTree == ASSUME TreeInv, AddPreflight PROVE TreeInv'
<1>1. /\ phase = "preflight" /\ todo \subseteq PreflightPaths /\ cfg' = cfg /\ table' = table
      /\ tree = {RouteEntry(r) : r \in table} \cup {PreflightEntry(p) : p \in PreflightPaths \ todo}
      /\ RoutesApart(table) /\ Selectable /\ table = AllRoutes
      /\ PreflightsApart(PreflightPaths \ todo)
  BY DEF AddPreflight, TreeInv
<1>2. /\ AllRoutes' = AllRoutes /\ Selectable' = Selectable /\ PreflightPaths' = PreflightPaths
      /\ Bad' = Bad /\ \A q : PreflightEntry(q)' = PreflightEntry(q)
  BY <1>1, TableFrame
<1>3. PICK p \in todo :
        IF Conflicts(tree, "OPTIONS", p)
        THEN phase' = "refused" /\ UNCHANGED <<tree, todo>>
        ELSE /\ tree' = Added(tree, "OPTIONS", p, Preflight(p))
             /\ todo' = todo \ {p}
             /\ UNCHANGED phase
  BY DEF AddPreflight
<1>4. Conflicts(tree, "OPTIONS", p) <=>
        \/ \E s \in table : s.method = "OPTIONS" /\ Shape(s.path) = Shape(p)
        \/ \E q \in PreflightPaths \ todo : Shape(q) = Shape(p)
  <2>1. Conflicts(tree, "OPTIONS", p) <=> \E e \in tree : e.method = "OPTIONS" /\ e.shape = Shape(p)
    BY ConflictsIs
  <2>2. \A e : e \in tree <=> \/ \E s \in table : e = RouteEntry(s)
                            \/ \E q \in PreflightPaths \ todo : e = PreflightEntry(q)
    BY <1>1
  <2>3. ASSUME NEW s \in table, s.method = "OPTIONS", Shape(s.path) = Shape(p) PROVE Conflicts(tree, "OPTIONS", p)
    <3>1. RouteEntry(s) \in tree BY <2>2
    <3>2. RouteEntry(s).method = s.method /\ RouteEntry(s).shape = Shape(s.path) BY EntryFields
    <3> QED BY <2>1, <2>3, <3>1, <3>2
  <2>4. ASSUME NEW q \in PreflightPaths \ todo, Shape(q) = Shape(p) PROVE Conflicts(tree, "OPTIONS", p)
    <3>1. PreflightEntry(q) \in tree BY <2>2
    <3>2. PreflightEntry(q).shape = Shape(q) /\ PreflightEntry(q).method = "OPTIONS" BY EntryFields
    <3> QED BY <2>1, <2>4, <3>1, <3>2
  <2>5. ASSUME NEW e \in tree, e.method = "OPTIONS", e.shape = Shape(p)
        PROVE  \/ \E s \in table : s.method = "OPTIONS" /\ Shape(s.path) = Shape(p)
               \/ \E q \in PreflightPaths \ todo : Shape(q) = Shape(p)
    <3>1. CASE \E s \in table : e = RouteEntry(s)
      <4>1. PICK s \in table : e = RouteEntry(s) BY <3>1
      <4>2. RouteEntry(s).method = s.method /\ RouteEntry(s).shape = Shape(s.path) BY EntryFields
      <4> QED BY <2>5, <4>1, <4>2
    <3>2. CASE \E q \in PreflightPaths \ todo : e = PreflightEntry(q)
      <4>1. PICK q \in PreflightPaths \ todo : e = PreflightEntry(q) BY <3>2
      <4>2. PreflightEntry(q).shape = Shape(q) BY EntryFields
      <4> QED BY <2>5, <4>1, <4>2
    <3> QED BY <2>2, <3>1, <3>2
  <2> QED BY <2>1, <2>3, <2>4, <2>5
<1>5. CASE Conflicts(tree, "OPTIONS", p)
  <2>1. ~PreflightsApart(PreflightPaths) BY <1>1, <1>3, <1>4, <1>5 DEF PreflightsApart
  <2> QED BY <1>2, <1>3, <1>5, <2>1 DEF TreeInv, Bad
<1>6. CASE ~Conflicts(tree, "OPTIONS", p)
  <2>1. tree' = tree \cup {PreflightEntry(p)} /\ todo' = todo \ {p} /\ phase' = "preflight"
    BY <1>1, <1>3, <1>6 DEF Added, PreflightEntry
  <2>2. PreflightPaths \ todo' = (PreflightPaths \ todo) \cup {p} /\ todo' \subseteq PreflightPaths
    BY <1>1, <1>3, <2>1
  <2>3. tree' = {RouteEntry(s) : s \in table} \cup {PreflightEntry(q) : q \in PreflightPaths \ todo'}
    BY <1>1, <2>1, <2>2
  <2>4. {PreflightEntry(q) : q \in PreflightPaths \ todo'} = ({PreflightEntry(q) : q \in PreflightPaths \ todo})'
    BY <1>2
  <2>5. PreflightsApart(PreflightPaths \ todo)'
    BY <1>1, <1>2, <1>4, <1>6, <2>2 DEF PreflightsApart
  <2>6. RoutesApart(table)' BY <1>1 DEF RoutesApart
  <2> QED BY <1>1, <1>2, <2>1, <2>2, <2>3, <2>4, <2>5, <2>6 DEF TreeInv
<1> QED BY <1>5, <1>6

\* The other steps of Build leave the table and the tree alone.
LEMMA SameTree == ASSUME TreeInv, UNCHANGED <<cfg, table, tree, todo>>,
                         phase' = phase \/ PreflightEnds
                  PROVE  TreeInv'
<1>1. /\ AllRoutes' = AllRoutes /\ Selectable' = Selectable /\ PreflightPaths' = PreflightPaths
      /\ Bad' = Bad /\ \A q : PreflightEntry(q)' = PreflightEntry(q)
  BY TableFrame
<1>2. ({PreflightEntry(q) : q \in PreflightPaths \ todo})' = {PreflightEntry(q) : q \in PreflightPaths \ todo}
  BY <1>1
<1>3. PreflightsApart(PreflightPaths \ todo)' = PreflightsApart(PreflightPaths \ todo)
  BY <1>1 DEF PreflightsApart
<1>4. RoutesApart(table)' = RoutesApart(table) /\ RoutesApart(table \ todo)' = RoutesApart(table \ todo)
  BY DEF RoutesApart
<1>5. CASE phase' = phase BY <1>1, <1>2, <1>3, <1>4, <1>5 DEF TreeInv
<1>6. CASE PreflightEnds BY <1>1, <1>2, <1>3, <1>4, <1>6 DEF TreeInv, PreflightEnds
<1> QED BY <1>5, <1>6

LEMMA TreeInvInit == BuildInit => TreeInv
BY DEF BuildInit, Init, TreeInv

LEMMA TreeInvStep == TreeInv /\ [BuildNext]_allVars => TreeInv'
<1> SUFFICES ASSUME TreeInv, [BuildNext]_allVars PROVE TreeInv'
  OBVIOUS
<1>1. CASE BuildTable BY <1>1, SelectTree DEF BuildTable
<1>2. CASE BindRoutes
  <2>1. CASE Bind BY <2>1, BindTree
  <2>2. CASE BindEnds BY <2>2, BindEndsTree
  <2>3. CASE AddPreflight BY <2>3, AddPreflightTree
  <2>4. CASE PreflightEnds BY <2>4, SameTree DEF PreflightEnds
  <2> QED BY <1>2, <2>1, <2>2, <2>3, <2>4 DEF BindRoutes
<1>3. CASE UNCHANGED vars BY <1>3, SameTree DEF vars
<1>4. UNCHANGED vars \/ BuildTable \/ BindRoutes
  BY DEF BuildNext, allVars, OpenStores, BuildGuard, Passes, Construct, ConstructFails, InstancesBuilt,
         FetchSpecs, NewBackend, AssembleFails, Commit, Cleanup, CloseRuntime
<1> QED BY <1>1, <1>2, <1>3, <1>4

\* A build is refused for one of the reasons a reader of the configuration can see, and
\* never with none of them, whatever the order in which the routes were added.
THEOREM RefusalsHaveReasons == BuildSpec => []RefusedForAReason
<1>1. TreeInv => RefusedForAReason
  <2> SUFFICES ASSUME TreeInv PROVE RefusedForAReason
    OBVIOUS
  <2>1. phase = "refused" => Bad BY DEF TreeInv
  <2>2. phase = "serving" => ~Bad
    <3> SUFFICES ASSUME phase = "serving" PROVE ~Bad
      OBVIOUS
    <3>1. PreflightPaths \ todo = PreflightPaths BY DEF TreeInv
    <3> QED BY <3>1 DEF TreeInv, Bad
  <2> QED BY <2>1, <2>2 DEF RefusedForAReason, Bad, AllRoutes, RoutesApart, PreflightsApart
<1> QED BY <1>1, TreeInvInit, TreeInvStep, PTL DEF BuildSpec
-----------------------------------------------------------------------------
(* The chain: Assemble is a stable sort by category. *)

RankOf(P, B, i) == Cardinality({j \in P : <<j, i>> \in B})

\* Ranks in a finite order: each place is taken once.
LEMMA Ranking ==
  ASSUME NEW P, IsFiniteSet(P), NEW B, B \subseteq P \X P,
         \A i \in P : <<i, i>> \in B,
         \A i, j \in P : <<i, j>> \in B \/ <<j, i>> \in B,
         \A i, j \in P : <<i, j>> \in B /\ <<j, i>> \in B => i = j,
         \A i, j, k \in P : <<i, j>> \in B /\ <<j, k>> \in B => <<i, k>> \in B,
         NEW pos,
         \A i \in P : pos[i] = RankOf(P, B, i)
  PROVE  /\ \A k \in 1..Cardinality(P) : \E i \in P : pos[i] = k
         /\ \A i \in P : pos[i] \in 1..Cardinality(P)
         /\ \A i, j \in P : pos[i] < pos[j] => <<i, j>> \in B
         /\ \A i, j \in P : pos[i] = pos[j] => i = j
<1> DEFINE below(i) == {j \in P : <<j, i>> \in B}
           n == Cardinality(P)
<1>1. n \in Nat /\ IsFiniteSet(1..n) /\ Cardinality(1..n) = n
  BY FS_CardinalityType, FS_Interval
<1> HIDE DEF n
<1>2. ASSUME NEW i \in P PROVE IsFiniteSet(below(i)) /\ pos[i] = Cardinality(below(i)) /\ pos[i] \in 1..n
  <2>1. below(i) \in SUBSET P /\ i \in below(i) OBVIOUS
  <2>2. pos[i] = Cardinality(below(i)) BY DEF RankOf
  <2> HIDE DEF below
  <2>3. IsFiniteSet(below(i)) /\ Cardinality(below(i)) <= n BY <1>1, <2>1, FS_Subset DEF n
  <2>4. Cardinality(below(i)) \in Nat /\ Cardinality(below(i)) # 0 BY <2>1, <2>3, FS_CardinalityType, FS_EmptySet
  <2> QED BY <1>1, <2>2, <2>3, <2>4
<1>3. ASSUME NEW i \in P, NEW j \in P, <<i, j>> \in B, i # j PROVE pos[i] < pos[j]
  <2>1. below(i) \in SUBSET below(j) /\ j \in below(j) /\ j \notin below(i) BY <1>3
  <2>2. Cardinality(below(i)) <= Cardinality(below(j)) /\ Cardinality(below(i)) # Cardinality(below(j))
    <3> HIDE DEF below
    <3> QED BY <1>2, <2>1, FS_Subset
  <2> HIDE DEF below
  <2> QED BY <1>1, <1>2, <2>2
<1>4. \A i, j \in P : pos[i] = pos[j] => i = j
  <2> TAKE i, j \in P
  <2>1. pos[i] \in 1..n /\ pos[j] \in 1..n BY <1>2
  <2>2. <<i, j>> \in B \/ <<j, i>> \in B OBVIOUS
  <2>3. i # j => pos[i] < pos[j] \/ pos[j] < pos[i] BY <1>3, <2>2
  <2> QED BY <1>1, <2>1, <2>3
<1>5. [i \in P |-> pos[i]] \in Injection(P, 1..n)
  <2>1. [i \in P |-> pos[i]] \in [P -> 1..n] BY <1>2
  <2> QED BY <1>4, <2>1 DEF Injection, IsInjective
<1>6. [i \in P |-> pos[i]] \in Surjection(P, 1..n) BY <1>1, <1>5, FS_Injection DEF n
<1>7. \A k \in 1..n : \E i \in P : pos[i] = k BY <1>6 DEF Surjection
<1>8. ASSUME NEW i \in P, NEW j \in P, pos[i] < pos[j] PROVE <<i, j>> \in B
  <2>1. pos[i] \in 1..n /\ pos[j] \in 1..n BY <1>2
  <2>2. <<i, j>> \in B \/ <<j, i>> \in B OBVIOUS
  <2>3. i # j BY <1>1, <1>8, <2>1
  <2>4. <<j, i>> \in B => pos[j] < pos[i] BY <1>3, <2>3
  <2> QED BY <1>1, <1>8, <2>1, <2>2, <2>4
<1> QED BY <1>2, <1>4, <1>7, <1>8 DEF n

\* Assemble keeps the middleware and sorts it by category.
LEMMA AssembleSorts ==
  ASSUME NEW names \in Middlewares
  PROVE  LET c == Assemble(names) IN
         /\ Range(c) = Range(names)
         /\ DOMAIN c = DOMAIN names
         /\ \A i, j \in DOMAIN c : i < j => Category(c[i]) <= Category(c[j])
<1> DEFINE n == Len(names)
           cat(i) == Category(names[i])
           before(i, j) == \/ Category(names[i]) < Category(names[j])
                           \/ Category(names[i]) = Category(names[j]) /\ i <= j
           B == {ij \in (1..n) \X (1..n) : before(ij[1], ij[2])}
           pos == [i \in 1..n |-> Cardinality({j \in 1..n : <<j, i>> \in B})]
           at(k) == CHOOSE i \in DOMAIN names : Cardinality({j \in DOMAIN names : before(j, i)}) = k
<1>1. names \in Seq(STRING) /\ n \in Nat /\ DOMAIN names = 1..n /\ \A i \in 1..n : cat(i) \in Nat
  BY DEF Middlewares
<1>2. \A i, j \in 1..n : <<i, j>> \in B <=> cat(i) < cat(j) \/ (cat(i) = cat(j) /\ i <= j)
  OBVIOUS
<1>3. \A i \in 1..n : pos[i] = Cardinality({j \in DOMAIN names : before(j, i)})
  <2>1. \A i \in 1..n : {j \in 1..n : <<j, i>> \in B} = {j \in 1..n : before(j, i)} OBVIOUS
  <2> QED BY <1>1, <2>1
<1>4. Assemble(names) = [k \in 1..n |-> names[at(k)]]
  <2>1. Assemble(names) = [k \in DOMAIN names |-> names[at(k)]] BY DEF Assemble
  <2> HIDE DEF at
  <2> QED BY <1>1, <2>1
<1> HIDE DEF n, B, cat, at
<1>5. /\ \A k \in 1..n : \E i \in 1..n : pos[i] = k
      /\ \A i \in 1..n : pos[i] \in 1..n
      /\ \A i, j \in 1..n : pos[i] < pos[j] => <<i, j>> \in B
      /\ \A i, j \in 1..n : pos[i] = pos[j] => i = j
  <2>1. B \subseteq (1..n) \X (1..n) BY DEF B
  <2>2. \A i \in 1..n : <<i, i>> \in B BY <1>1, <1>2
  <2>3. \A i, j \in 1..n : <<i, j>> \in B \/ <<j, i>> \in B
    <3> TAKE i, j \in 1..n
    <3>1. cat(i) \in Nat /\ cat(j) \in Nat BY <1>1
    <3> QED BY <1>2, <3>1
  <2>4. \A i, j \in 1..n : <<i, j>> \in B /\ <<j, i>> \in B => i = j BY <1>1, <1>2
  <2>5. \A i, j, k \in 1..n : <<i, j>> \in B /\ <<j, k>> \in B => <<i, k>> \in B BY <1>1, <1>2
  <2>6. \A i \in 1..n : pos[i] = RankOf(1..n, B, i) BY DEF RankOf
  <2> HIDE DEF pos
  <2>7. IsFiniteSet(1..n) /\ Cardinality(1..n) = n BY <1>1, FS_Interval
  <2> DEFINE D == 1..n
  <2>8. /\ \A k \in 1..Cardinality(D) : \E i \in D : pos[i] = k
        /\ \A i \in D : pos[i] \in 1..Cardinality(D)
        /\ \A i, j \in D : pos[i] < pos[j] => <<i, j>> \in B
        /\ \A i, j \in D : pos[i] = pos[j] => i = j
    <3>1. /\ IsFiniteSet(D) /\ B \subseteq D \X D
          /\ \A i \in D : <<i, i>> \in B
          /\ \A i, j \in D : <<i, j>> \in B \/ <<j, i>> \in B
          /\ \A i, j \in D : <<i, j>> \in B /\ <<j, i>> \in B => i = j
          /\ \A i, j, k \in D : <<i, j>> \in B /\ <<j, k>> \in B => <<i, k>> \in B
          /\ \A i \in D : pos[i] = RankOf(D, B, i)
      BY <2>1, <2>2, <2>3, <2>4, <2>5, <2>6, <2>7
    <3> HIDE DEF D
    <3> QED BY <3>1, Ranking
  <2> QED BY <2>7, <2>8
<1> HIDE DEF pos
<1>6. \A k \in 1..n : at(k) \in 1..n /\ pos[at(k)] = k
  <2> TAKE k \in 1..n
  <2>1. PICK i \in 1..n : pos[i] = k BY <1>5
  <2>2. at(k) \in DOMAIN names /\ Cardinality({j \in DOMAIN names : before(j, at(k))}) = k
    BY <1>1, <1>3, <2>1 DEF at
  <2> QED BY <1>1, <1>3, <2>2
<1>7. \A i \in 1..n : \E k \in 1..n : at(k) = i
  <2> TAKE i \in 1..n
  <2>1. pos[i] \in 1..n BY <1>5
  <2>2. at(pos[i]) \in 1..n /\ pos[at(pos[i])] = pos[i] BY <1>6, <2>1
  <2> QED BY <1>5, <2>1, <2>2
<1>8. DOMAIN Assemble(names) = 1..n /\ \A k \in 1..n : Assemble(names)[k] = names[at(k)] BY <1>4
<1>9. Range(Assemble(names)) = Range(names) BY <1>1, <1>6, <1>7, <1>8 DEF Range
<1>10. ASSUME NEW k \in 1..n, NEW l \in 1..n, k < l
       PROVE  Category(Assemble(names)[k]) <= Category(Assemble(names)[l])
  <2>1. <<at(k), at(l)>> \in B BY <1>5, <1>6, <1>10
  <2>2. at(k) \in 1..n /\ at(l) \in 1..n BY <1>6
  <2>3. cat(at(k)) \in Nat /\ cat(at(l)) \in Nat BY <1>1, <2>2
  <2>4. cat(at(k)) <= cat(at(l)) BY <1>2, <2>1, <2>2, <2>3
  <2> QED BY <1>8, <2>4 DEF cat
<1> QED BY <1>1, <1>8, <1>9, <1>10

-----------------------------------------------------------------------------
(* What the routes of a table are. *)

\* A template without its prefix is one.
LEMMA StripTypes ==
  ASSUME NEW t \in Templates, NEW prefix \in Seq(STRING)
  PROVE  Strip(t, prefix) \in Templates
<1>1. t.segs \in Seq(STRING) /\ t.slash \in BOOLEAN BY DEF Templates
<1>2. CASE IsPrefix(prefix, t.segs)
  <2>1. Len(prefix) \in Nat BY <1>1
  <2>2. SubSeq(t.segs, Len(prefix) + 1, Len(t.segs)) \in Seq(STRING) BY <1>1, <2>1
  <2> QED BY <1>1, <1>2, <2>2 DEF Strip, Templates
<1>3. CASE ~IsPrefix(prefix, t.segs) BY <1>3 DEF Strip
<1> QED BY <1>2, <1>3

\* A template behind a prefix is one.
LEMMA JoinTypes ==
  ASSUME NEW t \in Templates, NEW prefix \in Seq(STRING)
  PROVE  Join(prefix, t) \in Templates
<1>1. t.segs \in Seq(STRING) /\ t.slash \in BOOLEAN BY DEF Templates
<1>2. prefix \o t.segs \in Seq(STRING) BY <1>1
<1> QED BY <1>1, <1>2 DEF Join, Templates

\* A value or its default.
LEMMA OrTypes ==
  ASSUME NEW T, NEW option, option \subseteq T, NEW default \in T
  PROVE  Or(option, default) \in T
BY DEF Or

\* The routes of a configuration are well typed.
LEMMA RouteTypes ==
  ASSUME cfg \in Configs, NEW r \in AllRoutes
  PROVE  /\ r.path \in Templates /\ r.middleware \in Middlewares
         /\ DOMAIN r = {"op", "method", "path", "middleware", "hidden"}
         /\ r.op \in cfg.ops /\ r.op.path \in Templates
<1>1. PICK i \in DOMAIN cfg.expose : \E op \in Exposed(cfg.expose[i]) : r = Route(op, cfg.expose[i])
  BY DEF AllRoutes, Routes
<1> DEFINE e == cfg.expose[i]
<1>2. PICK op \in Exposed(e) : r = Route(op, e) BY <1>1
<1>3. op \in cfg.ops /\ op.path \in Templates BY ConfigsAssumption DEF Exposed
<1>4. /\ e.prefix \in Seq(STRING) /\ e.strip \in Seq(STRING) /\ e.middleware \in Middlewares
      /\ \A o \in DOMAIN e.overrides : /\ e.overrides[o].path \subseteq Templates
                                       /\ e.overrides[o].middleware \subseteq Middlewares
  BY ConfigsAssumption
<1> HIDE DEF e
<1>5. Override(op, e).path \subseteq Templates /\ Override(op, e).middleware \subseteq Middlewares
  <2>1. CASE op.id \in DOMAIN e.overrides BY <1>4, <2>1 DEF Override
  <2>2. CASE op.id \notin DOMAIN e.overrides BY <2>2 DEF Override, NoOverride
  <2> QED BY <2>1, <2>2
<1>6. Join(e.prefix, Strip(op.path, e.strip)) \in Templates BY <1>3, <1>4, StripTypes, JoinTypes
<1>7. Or(Override(op, e).path, Join(e.prefix, Strip(op.path, e.strip))) \in Templates
  BY <1>5, <1>6, OrTypes
<1>8. Middleware(op, e) \in Middlewares BY <1>4, <1>5, OrTypes DEF Middleware
<1> QED BY <1>2, <1>3, <1>7, <1>8 DEF Route

\* A shape has a segment for each of its template's.
LEMMA ShapeTypes ==
  ASSUME NEW t \in Templates
  PROVE  /\ Shape(t) \in Seq(Text) /\ Len(Shape(t)) = Len(t.segs)
         /\ \A i \in 1..Len(t.segs) : Shape(t)[i] = IF IsParam(t.segs[i]) THEN ParamChild ELSE t.segs[i]
<1>1. t.segs \in Seq(STRING) BY DEF Templates
<1>2. DOMAIN t.segs = 1..Len(t.segs) /\ Len(t.segs) \in Nat BY <1>1
<1>3. \A i \in 1..Len(t.segs) : t.segs[i] \in Text BY <1>1 DEF Text
<1>4. Shape(t) = [i \in 1..Len(t.segs) |-> IF IsParam(t.segs[i]) THEN ParamChild ELSE t.segs[i]]
  BY <1>2 DEF Shape
<1>5. Shape(t) \in [1..Len(t.segs) -> Text] BY <1>3, <1>4, ParamIsText
<1> QED BY <1>2, <1>4, <1>5

\* Request paths are sequences of segments.
LEMMA PathTypes == Paths \subseteq Seq(Text)
<1>1. Seq(STRING) \subseteq Seq(Text) BY SeqMonotonic DEF Text
<1> QED BY <1>1, ConfigsAssumption

-----------------------------------------------------------------------------
(* What Match answers. *)

NodeOf(T, segs) == CHOOSE n \in Walk(T, segs) : TRUE

ParamsOf(e, node, segs) ==
  [i \in 1..Len(e.names) |-> [name |-> e.names[i], value |-> Unescape(AtPlaces(node, segs)[i])]]

\* What Match returns, by the node Walk ends at.
LEMMA MatchIs ==
  ASSUME NEW T, NEW method, NEW segs
  PROVE  LET m == Match(T, method, segs)
             ms == Methods(T, NodeOf(T, segs))
             eff == Effective(ms, method)
         IN  /\ Walk(T, segs) = {} => m.result = "missing"
             /\ Walk(T, segs) # {} /\ eff \notin ms => m.result = "not allowed" /\ m.allow = ms
             /\ Walk(T, segs) # {} /\ eff \in ms =>
                  /\ m.result = "found"
                  /\ \E e \in T : /\ e.shape = NodeOf(T, segs) /\ e.method = eff
                                  /\ m.payload = e.payload
                                  /\ m.params = ParamsOf(e, NodeOf(T, segs), segs)
<1> DEFINE node == NodeOf(T, segs)
           ms == Methods(T, node)
           eff == Effective(ms, method)
           e == CHOOSE x \in Handlers(T, node) : x.method = eff
           found == [result  |-> "found",
                     payload |-> e.payload,
                     allow   |-> ms,
                     params  |-> ParamsOf(e, node, segs)]
<1>1. Match(T, method, segs) =
        IF Walk(T, segs) = {} THEN [result |-> "missing"]
        ELSE IF eff \notin ms THEN [result |-> "not allowed", allow |-> ms]
        ELSE found
  BY DEF Match, NodeOf, ParamsOf
<1>2. eff \in ms => e \in Handlers(T, node) /\ e.method = eff
  <2> SUFFICES ASSUME eff \in ms PROVE e \in Handlers(T, node) /\ e.method = eff
    OBVIOUS
  <2>1. PICK x \in Handlers(T, node) : x.method = eff BY DEF Methods
  <2> HIDE DEF eff, ms, node
  <2> QED BY <2>1
<1>3. found.result = "found" /\ found.payload = e.payload /\ found.params = ParamsOf(e, node, segs) OBVIOUS
<1> HIDE DEF e, eff, ms, node, found
<1>4. CASE Walk(T, segs) = {} BY <1>1, <1>4
<1>5. CASE Walk(T, segs) # {} /\ eff \notin ms
  <2>1. Match(T, method, segs) = [result |-> "not allowed", allow |-> ms] BY <1>1, <1>5
  <2> DEFINE refusal == [result |-> "not allowed", allow |-> ms]
  <2>a. refusal.result = "not allowed" OBVIOUS
  <2>b. refusal.allow = ms OBVIOUS
  <2>c. Match(T, method, segs) = refusal BY <2>1
  <2> HIDE DEF refusal
  <2>2. Match(T, method, segs).result = "not allowed" /\ Match(T, method, segs).allow = ms BY <2>a, <2>b, <2>c
  <2> QED BY <1>5, <2>2 DEF eff, ms, node
<1>6. CASE Walk(T, segs) # {} /\ eff \in ms
  <2>1. Match(T, method, segs) = found BY <1>1, <1>6
  <2>2. e \in T /\ e.shape = node /\ e.method = eff BY <1>2, <1>6 DEF Handlers
  <2>3. \E x \in T : /\ x.shape = node /\ x.method = eff
                     /\ Match(T, method, segs).payload = x.payload
                     /\ Match(T, method, segs).params = ParamsOf(x, node, segs)
    BY <1>3, <2>1, <2>2
  <2> QED BY <1>3, <1>6, <2>1, <2>3 DEF eff, ms, node
<1> QED BY <1>4, <1>5, <1>6 DEF eff, ms, node

\* A method of the node is found.
LEMMA MethodServed ==
  ASSUME NEW T, NEW method, NEW segs, Walk(T, segs) # {}, method \in Methods(T, NodeOf(T, segs))
  PROVE  Match(T, method, segs).result = "found"
<1>1. Effective(Methods(T, NodeOf(T, segs)), method) = method BY DEF Effective
<1> QED BY <1>1, MatchIs

\* What is found is an entry of the node.
LEMMA FoundEntry ==
  ASSUME NEW T, NEW method, NEW segs, Match(T, method, segs).result = "found"
  PROVE  /\ Walk(T, segs) # {}
         /\ \E e \in T : /\ e.shape = NodeOf(T, segs)
                         /\ Match(T, method, segs).payload = e.payload
                         /\ Match(T, method, segs).params = ParamsOf(e, NodeOf(T, segs), segs)
BY MatchIs

-----------------------------------------------------------------------------
(* A serving router. *)

ServingInv == TreeInv /\ cfg \in Configs

LEMMA ServingStep == ServingInv /\ [BuildNext]_allVars => ServingInv'
<1> SUFFICES ASSUME ServingInv, [BuildNext]_allVars PROVE cfg' = cfg
  BY TreeInvStep DEF ServingInv
<1>1. UNCHANGED vars \/ BuildTable \/ BindRoutes
  BY DEF BuildNext, allVars, OpenStores, BuildGuard, Passes, Construct, ConstructFails, InstancesBuilt,
         FetchSpecs, NewBackend, AssembleFails, Commit, Cleanup, CloseRuntime
<1> QED BY <1>1 DEF vars, BuildTable, Select, BindRoutes, Bind, BindEnds, AddPreflight, PreflightEnds

LEMMA ServingInvariant == BuildSpec => []ServingInv
<1>1. BuildInit => ServingInv BY TreeInvInit DEF BuildInit, Init, ServingInv
<1> QED BY <1>1, ServingStep, PTL DEF BuildSpec

\* A serving tree holds the routes of the table and the pre-flight routes, and nothing
\* else.
LEMMA ServingTree ==
  ASSUME ServingInv, phase = "serving"
  PROVE  /\ \A e : e \in tree <=> \/ \E r \in table : e = RouteEntry(r)
                                 \/ \E p \in PreflightPaths : e = PreflightEntry(p)
         /\ \A r \in table : r.path \in Templates /\ r.middleware \in Middlewares
         /\ \A p \in PreflightPaths : \E r \in table : r.path = p /\ HasCORS(r)
         /\ PreflightsApart(PreflightPaths)
<1>1. /\ tree = {RouteEntry(r) : r \in table} \cup {PreflightEntry(p) : p \in PreflightPaths \ todo}
      /\ todo = {} /\ table = AllRoutes /\ PreflightsApart(PreflightPaths \ todo)
  BY DEF ServingInv, TreeInv
<1>2. PreflightPaths \ todo = PreflightPaths BY <1>1
<1>3. \A r \in table : r.path \in Templates /\ r.middleware \in Middlewares
  BY <1>1, RouteTypes DEF ServingInv
<1>4. \A p \in PreflightPaths : \E r \in table : r.path = p /\ HasCORS(r) BY DEF PreflightPaths
<1> QED BY <1>1, <1>2, <1>3, <1>4

\* What the entries carry.
LEMMA Payloads ==
  /\ \A r : /\ RouteEntry(r).payload.route = r /\ RouteEntry(r).payload.chain = Assemble(r.middleware)
            /\ RouteEntry(r).names = ParamNames(r.path)
  /\ \A p : /\ PreflightEntry(p).payload.route = [method |-> "OPTIONS", path |-> p]
            /\ PreflightEntry(p).payload.route.path = p
BY DEF RouteEntry, PreflightEntry, Bound, Preflight

\* The methods of the path of a route with CORS are in the tree at the route's shape,
\* and so is OPTIONS.
LEMMA CORSIsAdvertised ==
  ASSUME ServingInv, phase = "serving", NEW r \in table, HasCORS(r),
         NEW a \in AllowedMethods(r.path) \cup {"OPTIONS"}
  PROVE  \E e \in tree : e.shape = Shape(r.path) /\ e.method = a
<1>1. CASE a \in AllowedMethods(r.path)
  <2>1. PICK s \in table : s.path = r.path /\ s.method = a BY <1>1 DEF AllowedMethods
  <2>2. RouteEntry(s) \in tree BY ServingTree
  <2> QED BY <2>1, <2>2, EntryFields
<1>2. CASE a = "OPTIONS" /\ a \notin AllowedMethods(r.path)
  <2>1. r.path \in PreflightPaths BY <1>2 DEF PreflightPaths
  <2>2. PreflightEntry(r.path) \in tree BY <2>1, ServingTree
  <2> QED BY <1>2, <2>2, EntryFields
<1> QED BY <1>1, <1>2

\* Where a chain has CORS the pre-flight request finds a route, and whatever a middleware
\* without allow_methods advertises is served at the path of the request: in every
\* configuration, every method of the routes with its path, and OPTIONS.
THEOREM AdvertisedMethodsAreServed == BuildSpec => []AdvertisedIsServed
<1>1. ServingInv => AdvertisedIsServed
  <2> SUFFICES ASSUME ServingInv, phase = "serving", NEW segs \in Paths, NEW method \in RequestMethods,
                      Match(tree, method, segs).result = "found",
                      NEW c \in DOMAIN Match(tree, method, segs).payload.chain,
                      Category(Match(tree, method, segs).payload.chain[c]) = 0,
                      NEW a \in AllowedMethods(Match(tree, method, segs).payload.route.path) \cup {"OPTIONS"}
               PROVE  Match(tree, a, segs).result = "found"
    BY DEF AdvertisedIsServed, Advertised
  <2>1. PICK e \in tree : e.shape = NodeOf(tree, segs) /\ Match(tree, method, segs).payload = e.payload
    BY FoundEntry
  <2>2. Walk(tree, segs) # {} BY FoundEntry
  <2>3. \E r \in table : HasCORS(r) /\ r.path = e.payload.route.path /\ Shape(r.path) = e.shape
    <3>1. CASE \E r \in table : e = RouteEntry(r)
      <4>1. PICK r \in table : e = RouteEntry(r) BY <3>1
      <4>2. e.payload.route = r /\ e.payload.chain = Assemble(r.middleware) /\ e.shape = Shape(r.path)
        BY <4>1, Payloads, EntryFields
      <4>3. r.middleware \in Middlewares BY ServingTree
      <4>4. PICK i \in DOMAIN Assemble(r.middleware) : Category(Assemble(r.middleware)[i]) = 0
        BY <2>1, <4>2
      <4>5. Range(Assemble(r.middleware)) = Range(r.middleware) BY <4>3, AssembleSorts
      <4>6. PICK j \in DOMAIN r.middleware : r.middleware[j] = Assemble(r.middleware)[i]
        BY <4>4, <4>5 DEF Range
      <4>7. HasCORS(r) BY <4>4, <4>6 DEF HasCORS
      <4> QED BY <4>2, <4>7
    <3>2. CASE \E p \in PreflightPaths : e = PreflightEntry(p)
      <4>1. PICK p \in PreflightPaths : e = PreflightEntry(p) BY <3>2
      <4>2. e.payload.route.path = p /\ e.shape = Shape(p) BY <4>1, Payloads, EntryFields
      <4> QED BY <4>2, ServingTree
    <3> QED BY <3>1, <3>2, ServingTree
  <2>4. \E x \in tree : x.shape = NodeOf(tree, segs) /\ x.method = a
    BY <2>1, <2>3, CORSIsAdvertised
  <2>5. a \in Methods(tree, NodeOf(tree, segs)) BY <2>4 DEF Methods, Handlers
  <2> QED BY <2>2, <2>5, MethodServed
<1> QED BY <1>1, ServingInvariant, PTL

\* No two shapes are both the best.
LEMMA BestIsOne ==
  ASSUME NEW S, S \subseteq Seq(Text), NEW segs \in Seq(Text), NEW s \in Best(S, segs), NEW u \in Best(S, segs)
  PROVE  s = u
<1> SUFFICES ASSUME s # u PROVE FALSE
  OBVIOUS
<1>1. Beats(s, u) /\ Beats(u, s) /\ s \in Seq(Text) /\ u \in Seq(Text) BY DEF Best
<1>2. PICK i \in DOMAIN s : u[i] = ParamChild /\ s[i] # ParamChild /\ \A j \in 1..(i - 1) : s[j] = u[j]
  BY <1>1 DEF Beats
<1>3. PICK k \in DOMAIN u : s[k] = ParamChild /\ u[k] # ParamChild /\ \A j \in 1..(k - 1) : u[j] = s[j]
  BY <1>1 DEF Beats
<1>4. i \in Nat /\ k \in Nat /\ i >= 1 /\ k >= 1 BY <1>1
<1>5. i # k BY <1>2, <1>3
<1>6. i \in 1..(k - 1) \/ k \in 1..(i - 1) BY <1>4, <1>5
<1> QED BY <1>2, <1>3, <1>6

\* The node a request reaches is the shape of the best routes.
LEMMA ServingNode ==
  ASSUME ServingInv, phase = "serving", NEW segs \in Paths
  PROVE  /\ Walk(tree, segs) = {} <=> BestRoutes(segs) = {}
         /\ Walk(tree, segs) # {} => \A r : r \in BestRoutes(segs) <=> r \in table /\ Shape(r.path) = NodeOf(tree, segs)
<1> DEFINE S == {Shape(r.path) : r \in table}
<1>1. S \subseteq Seq(Text) BY ServingTree, ShapeTypes
<1>2. {e.shape : e \in tree} = S
  <2>1. ASSUME NEW e \in tree PROVE e.shape \in S
    <3>1. CASE \E r \in table : e = RouteEntry(r) BY <3>1, EntryFields
    <3>2. CASE \E p \in PreflightPaths : e = PreflightEntry(p)
      <4>1. PICK p \in PreflightPaths : e = PreflightEntry(p) BY <3>2
      <4>2. PICK r \in table : r.path = p BY ServingTree
      <4> QED BY <4>1, <4>2, EntryFields
    <3> QED BY <3>1, <3>2, ServingTree
  <2>2. ASSUME NEW r \in table PROVE \E e \in tree : e.shape = Shape(r.path)
    <3>1. RouteEntry(r) \in tree BY ServingTree
    <3> QED BY <3>1, EntryFields
  <2> QED BY <2>1, <2>2
<1>3. Walk(tree, segs) = Best(S, segs)
  <2>1. \A e \in tree : e.shape \in Seq(Text) BY <1>1, <1>2
  <2>2. segs \in Seq(Text) BY PathTypes
  <2>3. Walk(tree, segs) = Best({e.shape : e \in tree}, segs) BY <2>1, <2>2, WalkFindsTheBest
  <2> QED BY <1>2, <2>3
<1>4. \A r : r \in BestRoutes(segs) <=> r \in table /\ Shape(r.path) \in Best(S, segs) BY DEF BestRoutes
<1>5. \A s \in Best(S, segs) : \E r \in table : Shape(r.path) = s BY DEF Best
<1> HIDE DEF S
<1>6. Walk(tree, segs) = {} <=> BestRoutes(segs) = {} BY <1>3, <1>4, <1>5
<1>7. ASSUME Walk(tree, segs) # {}, NEW s PROVE s \in Best(S, segs) <=> s = NodeOf(tree, segs)
  <2>1. NodeOf(tree, segs) \in Best(S, segs) BY <1>3, <1>7 DEF NodeOf
  <2>2. segs \in Seq(Text) BY PathTypes
  <2> QED BY <1>1, <2>1, <2>2, BestIsOne
<1> QED BY <1>4, <1>6, <1>7

\* Its handlers are those of the best routes, and a pre-flight handler where CORS needs one.
LEMMA ServingHandlers ==
  ASSUME ServingInv, phase = "serving", NEW segs \in Paths, Walk(tree, segs) # {}
  PROVE  LET best == BestRoutes(segs)
             ms == {r.method : r \in best}
             tms == Methods(tree, NodeOf(tree, segs))
         IN
         /\ ms \subseteq tms
         /\ \A x \in tms \ ms : x = "OPTIONS" /\ \E r \in best : HasCORS(r)
         /\ (\E r \in best : HasCORS(r)) => "OPTIONS" \in tms
         /\ \A e \in tree : e.shape = NodeOf(tree, segs) =>
              IF e.method \in ms THEN \E r \in best : e = RouteEntry(r)
                                 ELSE \E p \in PreflightPaths : e = PreflightEntry(p)
<1> DEFINE node == NodeOf(tree, segs)
           best == BestRoutes(segs)
           ms == {r.method : r \in best}
           tms == Methods(tree, node)
<1>1. \A r : r \in best <=> r \in table /\ Shape(r.path) = node BY ServingNode
<1>2. \A x : x \in tms <=> \E e \in tree : e.shape = node /\ e.method = x BY DEF Methods, Handlers
<1>3. \A x : x \in ms <=> \E r \in best : r.method = x OBVIOUS
<1> HIDE DEF node, best, ms, tms
<1>4. ms \subseteq tms
  <2> SUFFICES ASSUME NEW r \in best PROVE r.method \in tms
    BY <1>3
  <2>1. RouteEntry(r) \in tree BY <1>1, ServingTree
  <2> QED BY <1>1, <1>2, <2>1, EntryFields
<1>5. ASSUME NEW p \in PreflightPaths, Shape(p) = node
      PROVE  "OPTIONS" \notin ms /\ \E r \in best : HasCORS(r)
  <2>1. "OPTIONS" \notin ms BY <1>1, <1>3, <1>5, ServingTree DEF PreflightsApart
  <2>2. PICK r \in table : r.path = p /\ HasCORS(r) BY ServingTree
  <2> QED BY <1>1, <1>5, <2>1, <2>2
<1>6. ASSUME NEW e \in tree, e.shape = node
      PROVE  \/ e.method \in ms /\ \E r \in best : e = RouteEntry(r)
             \/ /\ e.method \notin ms /\ e.method = "OPTIONS" /\ \E r \in best : HasCORS(r)
                /\ \E p \in PreflightPaths : e = PreflightEntry(p)
  <2>1. CASE \E r \in table : e = RouteEntry(r)
    <3>1. PICK r \in table : e = RouteEntry(r) BY <2>1
    <3>2. Shape(r.path) = node /\ e.method = r.method BY <1>6, <3>1, EntryFields
    <3> QED BY <1>1, <1>3, <3>1, <3>2
  <2>2. CASE \E p \in PreflightPaths : e = PreflightEntry(p)
    <3>1. PICK p \in PreflightPaths : e = PreflightEntry(p) BY <2>2
    <3>2. Shape(p) = node /\ e.method = "OPTIONS" BY <1>6, <3>1, EntryFields
    <3> QED BY <1>5, <3>1, <3>2
  <2> QED BY <2>1, <2>2, ServingTree
<1>7. ASSUME NEW r \in best, HasCORS(r) PROVE "OPTIONS" \in tms
  <2>1. r \in table /\ Shape(r.path) = node BY <1>1
  <2>2. \E e \in tree : e.shape = Shape(r.path) /\ e.method = "OPTIONS"
    BY <1>7, <2>1, CORSIsAdvertised
  <2> QED BY <1>2, <2>1, <2>2
<1> QED BY <1>2, <1>4, <1>6, <1>7 DEF node, best, ms, tms

\* A pre-flight route does not change what HEAD stands for.
LEMMA SameEffective ==
  ASSUME NEW ms, NEW tms, ms \subseteq tms, \A x \in tms \ ms : x = "OPTIONS", NEW method
  PROVE  Effective(tms, method) = Effective(ms, method)
BY DEF Effective

\* A pre-flight route is none of the table's.
LEMMA PreflightNotInTable ==
  ASSUME ServingInv, phase = "serving", NEW p PROVE [method |-> "OPTIONS", path |-> p] \notin table
<1>1. table = AllRoutes BY DEF ServingInv, TreeInv
<1>2. \A r \in table : DOMAIN r = {"op", "method", "path", "middleware", "hidden"}
  BY <1>1, RouteTypes DEF ServingInv
<1>3. "op" \notin DOMAIN [method |-> "OPTIONS", path |-> p] OBVIOUS
<1> QED BY <1>2, <1>3

\* Every request gets the answer that a reader of the configuration expects, for every
\* configuration that is not refused, every path and every order of adding the routes.
THEOREM RequestsGetWhatIsConfigured == BuildSpec => []AnswersAsConfigured
<1>1. ServingInv => AnswersAsConfigured
  <2> SUFFICES ASSUME ServingInv, phase = "serving", NEW segs \in Paths, NEW method \in RequestMethods
               PROVE  LET m    == Match(tree, method, segs)
                          best == BestRoutes(segs)
                          ms   == {r.method : r \in best}
                          eff  == Effective(ms, method)
                      IN  IF best = {} THEN m.result = "missing"
                          ELSE IF eff \in ms
                          THEN /\ m.result = "found"
                               /\ m.payload.route \in best /\ m.payload.route.method = eff
                               /\ LET c == m.payload.chain IN
                                  /\ Range(c) = Range(m.payload.route.middleware)
                                  /\ \A i, j \in DOMAIN c : i < j => Category(c[i]) <= Category(c[j])
                          ELSE IF method = "OPTIONS" /\ \E r \in best : HasCORS(r)
                          THEN m.result = "found" /\ m.payload.route \notin table
                          ELSE m.result = "not allowed" /\ ms \subseteq m.allow /\ method \notin m.allow
    BY DEF AnswersAsConfigured
  <2> DEFINE m    == Match(tree, method, segs)
             best == BestRoutes(segs)
             ms   == {r.method : r \in best}
             tms  == Methods(tree, NodeOf(tree, segs))
             eff  == Effective(ms, method)
  <2>1. CASE best = {}
    <3>1. Walk(tree, segs) = {} BY <2>1, ServingNode
    <3>2. m.result = "missing" BY <3>1, MatchIs
    <3> QED BY <2>1, <3>2
  <2>2. ASSUME best # {} PROVE Walk(tree, segs) # {} BY <2>2, ServingNode
  <2>3. ASSUME best # {}
        PROVE  /\ ms \subseteq tms
               /\ \A x \in tms \ ms : x = "OPTIONS" /\ \E r \in best : HasCORS(r)
               /\ (\E r \in best : HasCORS(r)) => "OPTIONS" \in tms
               /\ \A e \in tree : e.shape = NodeOf(tree, segs) =>
                    IF e.method \in ms THEN \E r \in best : e = RouteEntry(r)
                                       ELSE \E p \in PreflightPaths : e = PreflightEntry(p)
    <3>1. Walk(tree, segs) # {} BY <2>2, <2>3
    <3> QED BY <3>1, ServingHandlers
  <2>4. ASSUME best # {} PROVE Effective(tms, method) = eff BY <2>3, <2>4, SameEffective
  <2>5. ASSUME best # {}
        PROVE  /\ eff \notin tms => m.result = "not allowed" /\ m.allow = tms
               /\ eff \in tms => /\ m.result = "found"
                                 /\ \E e \in tree : /\ e.shape = NodeOf(tree, segs) /\ e.method = eff
                                                    /\ m.payload = e.payload
    <3>1. Walk(tree, segs) # {} BY <2>2, <2>5
    <3>2. Effective(tms, method) = eff BY <2>4, <2>5
    <3> HIDE DEF eff
    <3> QED BY <3>1, <3>2, MatchIs
  <2>6. best \subseteq table BY DEF BestRoutes
  <2> HIDE DEF m, best, tms
  <2>7. CASE best # {} /\ eff \in ms
    <3>1. eff \in tms BY <2>3, <2>7
    <3> HIDE DEF eff, ms
    <3>2. PICK e \in tree : e.shape = NodeOf(tree, segs) /\ e.method = eff /\ m.payload = e.payload
      BY <2>5, <2>7, <3>1
    <3>3. PICK r \in best : e = RouteEntry(r) BY <2>3, <2>7, <3>2
    <3>4. m.payload.route = r /\ r.method = eff /\ m.payload.chain = Assemble(r.middleware)
      BY <3>2, <3>3, Payloads, EntryFields
    <3>5. r.middleware \in Middlewares BY <2>6, ServingTree
    <3>6. /\ Range(Assemble(r.middleware)) = Range(r.middleware)
          /\ \A i, j \in DOMAIN Assemble(r.middleware) :
               i < j => Category(Assemble(r.middleware)[i]) <= Category(Assemble(r.middleware)[j])
      BY <3>5, AssembleSorts
    <3>7. m.result = "found" BY <2>5, <2>7, <3>1
    <3>8. LET c == m.payload.chain IN
            /\ Range(c) = Range(m.payload.route.middleware)
            /\ \A i, j \in DOMAIN c : i < j => Category(c[i]) <= Category(c[j])
      BY <3>4, <3>6
    <3> QED BY <2>7, <3>4, <3>7, <3>8 DEF m, best, ms, eff
  <2>8. CASE best # {} /\ eff \notin ms /\ method = "OPTIONS" /\ \E r \in best : HasCORS(r)
    <3>1. eff = "OPTIONS" BY <2>8 DEF Effective
    <3>2. eff \in tms BY <2>3, <2>8, <3>1
    <3> HIDE DEF eff, ms
    <3>3. PICK e \in tree : e.shape = NodeOf(tree, segs) /\ e.method = eff /\ m.payload = e.payload
      BY <2>5, <2>8, <3>2
    <3>4. PICK p \in PreflightPaths : e = PreflightEntry(p) BY <2>3, <2>8, <3>3
    <3>5. m.payload.route = [method |-> "OPTIONS", path |-> p] BY <3>3, <3>4, Payloads
    <3>6. m.payload.route \notin table BY <3>5, PreflightNotInTable
    <3>7. m.result = "found" BY <2>5, <2>8, <3>2
    <3> QED BY <2>8, <3>6, <3>7 DEF m, best, ms, eff
  <2>9. CASE best # {} /\ eff \notin ms /\ ~(method = "OPTIONS" /\ \E r \in best : HasCORS(r))
    <3>1. eff = "OPTIONS" <=> method = "OPTIONS" BY DEF Effective
    <3>2. eff \notin tms BY <2>3, <2>9, <3>1
    <3>3. m.result = "not allowed" /\ m.allow = tms BY <2>5, <2>9, <3>2
    <3>4. ms \subseteq tms BY <2>3, <2>9
    <3>5. method \notin tms
      <4>1. method \notin ms BY <2>9 DEF Effective
      <4> HIDE DEF eff, ms
      <4> QED BY <2>3, <2>9, <4>1
    <3> HIDE DEF eff, ms
    <3> QED BY <2>9, <3>3, <3>4, <3>5 DEF m, best, ms, eff
  <2> QED BY <2>1, <2>7, <2>8, <2>9
<1> QED BY <1>1, ServingInvariant, PTL

-----------------------------------------------------------------------------
(* The parameters. *)

ParamPlaces(shape) == {i \in DOMAIN shape : shape[i] = ParamChild}

\* Places enumerates them.
LEMMA PlacesAre ==
  ASSUME NEW shape \in Seq(Text)
  PROVE  /\ DOMAIN Places(shape) = 1..Cardinality(ParamPlaces(shape))
         /\ Cardinality(ParamPlaces(shape)) \in Nat
         /\ \A k \in DOMAIN Places(shape) : Places(shape)[k] \in ParamPlaces(shape)
         /\ \A i \in ParamPlaces(shape) : \E k \in DOMAIN Places(shape) : Places(shape)[k] = i
<1> DEFINE P == ParamPlaces(shape)
           n == Cardinality(P)
           B == {ij \in P \X P : ij[1] <= ij[2]}
           pos == [i \in P |-> Cardinality({j \in P : <<j, i>> \in B})]
           at(k) == CHOOSE i \in P : Cardinality({j \in P : j <= i}) = k
<1>1. P \subseteq 1..Len(shape) /\ Len(shape) \in Nat BY DEF ParamPlaces
<1>2. IsFiniteSet(P)
  <2>1. IsFiniteSet(1..Len(shape)) BY <1>1, FS_Interval
  <2> HIDE DEF P
  <2> QED BY <1>1, <2>1, FS_Subset
<1>3. Places(shape) = [k \in 1..n |-> at(k)] BY DEF Places, ParamPlaces
<1> HIDE DEF P
<1>4. n \in Nat BY <1>2, FS_CardinalityType
<1> HIDE DEF n
<1>5. \A i \in P : pos[i] = Cardinality({j \in P : j <= i})
  <2>1. \A i \in P : {j \in P : <<j, i>> \in B} = {j \in P : j <= i} OBVIOUS
  <2> QED BY <2>1
<1>6. /\ \A k \in 1..n : \E i \in P : pos[i] = k
      /\ \A i \in P : pos[i] \in 1..n
      /\ \A i, j \in P : pos[i] = pos[j] => i = j
  <2>1. \A i, j \in P : <<i, j>> \in B <=> i <= j OBVIOUS
  <2>2. B \subseteq P \X P OBVIOUS
  <2> HIDE DEF B
  <2>3. \A i \in P : <<i, i>> \in B BY <1>1, <2>1
  <2>4. \A i, j \in P : <<i, j>> \in B \/ <<j, i>> \in B
    <3> TAKE i, j \in P
    <3>1. i <= j \/ j <= i BY <1>1
    <3> QED BY <2>1, <3>1
  <2>5. \A i, j \in P : <<i, j>> \in B /\ <<j, i>> \in B => i = j BY <1>1, <2>1
  <2>6. \A i, j, k \in P : <<i, j>> \in B /\ <<j, k>> \in B => <<i, k>> \in B BY <1>1, <2>1
  <2>7. \A i \in P : pos[i] = RankOf(P, B, i) BY DEF RankOf
  <2> HIDE DEF pos
  <2>8. /\ \A k \in 1..Cardinality(P) : \E i \in P : pos[i] = k
        /\ \A i \in P : pos[i] \in 1..Cardinality(P)
        /\ \A i, j \in P : pos[i] < pos[j] => <<i, j>> \in B
        /\ \A i, j \in P : pos[i] = pos[j] => i = j
    <3>1. /\ IsFiniteSet(P) /\ B \subseteq P \X P
          /\ \A i \in P : <<i, i>> \in B
          /\ \A i, j \in P : <<i, j>> \in B \/ <<j, i>> \in B
          /\ \A i, j \in P : <<i, j>> \in B /\ <<j, i>> \in B => i = j
          /\ \A i, j, k \in P : <<i, j>> \in B /\ <<j, k>> \in B => <<i, k>> \in B
          /\ \A i \in P : pos[i] = RankOf(P, B, i)
      BY <1>2, <2>2, <2>3, <2>4, <2>5, <2>6, <2>7
    <3> QED BY <3>1, Ranking
  <2> QED BY <2>8 DEF n
<1> HIDE DEF pos
<1>7. \A k \in 1..n : at(k) \in P /\ pos[at(k)] = k
  <2> TAKE k \in 1..n
  <2>1. PICK i \in P : pos[i] = k BY <1>6
  <2>2. at(k) \in P /\ Cardinality({j \in P : j <= at(k)}) = k BY <1>5, <2>1
  <2> HIDE DEF at
  <2> QED BY <1>5, <2>2
<1> HIDE DEF at
<1>8. \A i \in P : \E k \in 1..n : at(k) = i
  <2> TAKE i \in P
  <2>1. pos[i] \in 1..n BY <1>6
  <2>2. at(pos[i]) \in P /\ pos[at(pos[i])] = pos[i] BY <1>7, <2>1
  <2> QED BY <1>6, <2>1, <2>2
<1>9. DOMAIN Places(shape) = 1..n /\ \A k \in 1..n : Places(shape)[k] = at(k) BY <1>3
<1> QED BY <1>4, <1>7, <1>8, <1>9 DEF P, n

\* The names of a template are its parameter segments.
LEMMA NamesAre ==
  ASSUME NEW t \in Templates
  PROVE  /\ DOMAIN ParamNames(t) = DOMAIN Places(Shape(t))
         /\ Len(ParamNames(t)) = Cardinality(ParamPlaces(Shape(t)))
         /\ \A k \in DOMAIN Places(Shape(t)) :
              /\ Places(Shape(t))[k] \in 1..Len(t.segs)
              /\ ParamNames(t)[k] = t.segs[Places(Shape(t))[k]]
              /\ IsParam(ParamNames(t)[k])
         /\ \A i \in 1..Len(t.segs) : IsParam(t.segs[i]) => t.segs[i] \in Range(ParamNames(t))
<1> DEFINE s == Shape(t)
           n == Cardinality(ParamPlaces(s))
<1>1. s \in Seq(Text) /\ Len(s) = Len(t.segs) /\ DOMAIN s = 1..Len(t.segs)
  BY ShapeTypes
<1>2. \A i \in 1..Len(t.segs) : i \in ParamPlaces(s) <=> IsParam(t.segs[i])
  <2>1. \A i \in 1..Len(t.segs) : s[i] = IF IsParam(t.segs[i]) THEN ParamChild ELSE t.segs[i] BY ShapeTypes
  <2>2. IsParam(ParamChild) BY ParamChildIsParam DEF IsParam
  <2> HIDE DEF s
  <2> QED BY <1>1, <2>1, <2>2 DEF ParamPlaces
<1>3. /\ DOMAIN Places(s) = 1..n /\ n \in Nat
      /\ \A k \in DOMAIN Places(s) : Places(s)[k] \in ParamPlaces(s)
      /\ \A i \in ParamPlaces(s) : \E k \in DOMAIN Places(s) : Places(s)[k] = i
  BY <1>1, PlacesAre
<1>4. ParamPlaces(s) \subseteq 1..Len(t.segs) BY <1>1 DEF ParamPlaces
<1>5. ParamNames(t) = [k \in DOMAIN Places(s) |-> t.segs[Places(s)[k]]] BY DEF ParamNames, AtPlaces
<1> HIDE DEF s, n
<1>6. DOMAIN ParamNames(t) = 1..n /\ \A k \in 1..n : ParamNames(t)[k] = t.segs[Places(s)[k]] BY <1>3, <1>5
<1>7. Len(ParamNames(t)) = n
  <2>1. ParamNames(t) = [k \in 1..n |-> t.segs[Places(s)[k]]] BY <1>3, <1>5
  <2> QED BY <1>3, <2>1
<1>8. \A k \in 1..n : Places(s)[k] \in 1..Len(t.segs) /\ IsParam(t.segs[Places(s)[k]])
  BY <1>2, <1>3, <1>4
<1>9. ASSUME NEW i \in 1..Len(t.segs), IsParam(t.segs[i]) PROVE t.segs[i] \in Range(ParamNames(t))
  <2>1. PICK k \in 1..n : Places(s)[k] = i BY <1>2, <1>3, <1>9
  <2> QED BY <1>6, <2>1 DEF Range
<1> QED BY <1>3, <1>6, <1>7, <1>8, <1>9 DEF s, n

\* The least of a set of numbers is one of them.
LEMMA LeastIsMin ==
  ASSUME NEW S, S \subseteq Nat, S # {}
  PROVE  Min(S) \in S
BY LeastNatural DEF Min

\* Params.Get finds a value under its name.
LEMMA GetFinds ==
  ASSUME NEW params, DOMAIN params \subseteq Nat, NEW name, \E k \in DOMAIN params : params[k].name = name
  PROVE  \E k \in DOMAIN params : params[k].name = name /\ Get(params, name) = params[k].value
<1> DEFINE K == {k \in DOMAIN params : params[k].name = name}
<1>1. Min(K) \in K BY LeastIsMin
<1>2. Get(params, name) = params[Min(K)].value BY DEF Get
<1> QED BY <1>1, <1>2

\* A request that reaches a route of the table reaches its shape.
LEMMA FoundRoute ==
  ASSUME ServingInv, phase = "serving", NEW segs \in Paths, NEW method,
         Match(tree, method, segs).result = "found", Match(tree, method, segs).payload.route \in table
  PROVE  LET r == Match(tree, method, segs).payload.route IN
         /\ Match(tree, method, segs).params = ParamsOf(RouteEntry(r), Shape(r.path), segs)
         /\ Len(Shape(r.path)) = Len(segs)
<1>1. PICK e \in tree : /\ e.shape = NodeOf(tree, segs)
                        /\ Match(tree, method, segs).payload = e.payload
                        /\ Match(tree, method, segs).params = ParamsOf(e, NodeOf(tree, segs), segs)
  BY FoundEntry
<1>2. ASSUME NEW p \in PreflightPaths, e = PreflightEntry(p) PROVE FALSE
  <2>1. e.payload.route = [method |-> "OPTIONS", path |-> p] BY <1>2, Payloads
  <2>2. e.payload.route \in table BY <1>1
  <2> QED BY <2>1, <2>2, PreflightNotInTable
<1>3. PICK r \in table : e = RouteEntry(r) BY <1>2, ServingTree
<1>4. Match(tree, method, segs).payload.route = r /\ NodeOf(tree, segs) = Shape(r.path)
  BY <1>1, <1>3, Payloads, EntryFields
<1>5. Walk(tree, segs) # {} BY FoundEntry
<1>6. r \in BestRoutes(segs) BY <1>4, <1>5, ServingNode
<1>7. Fits(Shape(r.path), segs) BY <1>6 DEF BestRoutes, Best
<1> QED BY <1>1, <1>3, <1>4, <1>7 DEF Fits

\* The upstream is asked for the path of the operation with the client's segments in the
\* places of their parameters, whatever routes share the nodes of the tree: for all
\* templates, names of parameters and canonical paths.  What had escapes is escaped twice.
THEOREM UpstreamIsAskedForTheResource == BuildSpec => []AsksForTheResource
<1>1. ServingInv => AsksForTheResource
  <2> SUFFICES ASSUME ServingInv, phase = "serving", NEW segs \in Paths, NEW method \in RequestMethods,
                      Match(tree, method, segs).result = "found",
                      NEW r \in table, r = Match(tree, method, segs).payload.route
               PROVE  LET up == UpstreamURL(r, Match(tree, method, segs).params) IN
                      /\ Len(up) = Len(r.op.path.segs)
                      /\ \A i \in DOMAIN up :
                           IF IsParam(r.op.path.segs[i])
                           THEN \E j \in DOMAIN segs : /\ r.path.segs[j] = r.op.path.segs[i]
                                                       /\ Unescape(up[i]) = segs[j]
                                                       /\ Unescape(segs[j]) = segs[j] => up[i] = segs[j]
                           ELSE up[i] = EncodePath(r.op.path.segs[i])
    BY DEF AsksForTheResource
  <2> DEFINE params == Match(tree, method, segs).params
             os == r.op.path.segs
             gs == r.path.segs
             at == Places(Shape(r.path))
             up == Substitute(os, params)
  <2>1. r.path \in Templates /\ r.op.path \in Templates /\ ParamsAgree(r)
    <3>1. r \in AllRoutes /\ Selectable BY DEF ServingInv, TreeInv
    <3> QED BY <3>1, RouteTypes DEF ServingInv, Selectable, AllRoutes
  <2>2. os \in Seq(STRING) /\ gs \in Seq(STRING) /\ segs \in Seq(STRING)
    BY <2>1, ConfigsAssumption DEF Templates
  <2>3. params = ParamsOf(RouteEntry(r), Shape(r.path), segs) /\ Len(gs) = Len(segs)
    BY <2>1, FoundRoute, ShapeTypes
  <2>4. /\ DOMAIN ParamNames(r.path) = DOMAIN at
        /\ DOMAIN at = 1..Len(ParamNames(r.path)) /\ Len(ParamNames(r.path)) \in Nat
        /\ \A k \in DOMAIN at : /\ at[k] \in 1..Len(gs) /\ ParamNames(r.path)[k] = gs[at[k]]
                                /\ IsParam(ParamNames(r.path)[k])
    BY <2>1, NamesAre, ShapeTypes, PlacesAre
  <2>5. /\ DOMAIN params = DOMAIN at
        /\ \A k \in DOMAIN at : params[k].name = gs[at[k]] /\ params[k].value = Unescape(segs[at[k]])
    <3>1. params = [k \in 1..Len(ParamNames(r.path)) |->
                      [name |-> ParamNames(r.path)[k], value |-> Unescape(AtPlaces(Shape(r.path), segs)[k])]]
      BY <2>3, Payloads DEF ParamsOf
    <3>2. \A k \in DOMAIN at : AtPlaces(Shape(r.path), segs)[k] = segs[at[k]] BY DEF AtPlaces
    <3> HIDE DEF params, at
    <3> QED BY <2>4, <3>1, <3>2
  <2>6. DOMAIN os = 1..Len(os) /\ DOMAIN segs = 1..Len(segs) /\ Len(os) \in Nat BY <2>2
  <2> HIDE DEF params, at
  <2>7. up = [i \in DOMAIN os |-> IF \E j \in DOMAIN params : params[j].name = os[i]
                                  THEN PathEscape(Get(params, os[i])) ELSE os[i]]
    BY DEF Substitute
  <2>8. DOMAIN up = 1..Len(os) /\ Len(up) = Len(os)
    <3> HIDE DEF up, os
    <3>1. DOMAIN up = 1..Len(os) BY <2>6, <2>7
    <3> QED BY <2>6, <3>1
  <2>9. ASSUME NEW i \in 1..Len(os), IsParam(os[i])
        PROVE  \E j \in DOMAIN segs : gs[j] = os[i] /\ up[i] = segs[j]
    <3>1. os[i] \in Range(ParamNames(r.path)) BY <2>1, <2>9, NamesAre DEF ParamsAgree
    <3>2. PICK k \in DOMAIN at : ParamNames(r.path)[k] = os[i] BY <2>4, <3>1 DEF Range
    <3>3. \E l \in DOMAIN params : params[l].name = os[i] BY <2>4, <2>5, <3>2
    <3>4. DOMAIN params \subseteq Nat BY <2>4, <2>5
    <3>5. PICK l \in DOMAIN params : params[l].name = os[i] /\ Get(params, os[i]) = params[l].value
      BY <3>3, <3>4, GetFinds
    <3>6. up[i] = PathEscape(params[l].value) BY <2>6, <2>7, <3>3, <3>5
    <3>7. at[l] \in DOMAIN segs /\ gs[at[l]] = os[i] /\ params[l].value = Unescape(segs[at[l]])
      BY <2>3, <2>4, <2>5, <2>6, <3>5
    <3>8. up[i] = segs[at[l]] BY <3>6, <3>7, PathsAreCanonical
    <3> QED BY <3>7, <3>8
  <2>10. ASSUME NEW i \in 1..Len(os), ~IsParam(os[i]) PROVE up[i] = os[i]
    <3>1. \A k \in DOMAIN params : IsParam(params[k].name) BY <2>4, <2>5
    <3>2. ~ \E k \in DOMAIN params : params[k].name = os[i] BY <2>10, <3>1
    <3> QED BY <2>6, <2>7, <3>2
  <2> DEFINE url == UpstreamURL(r, params)
  <2>11. url = [i \in DOMAIN up |-> EncodePath(up[i])] BY DEF UpstreamURL
  <2> HIDE DEF up, url, os, gs
  <2>12. DOMAIN url = 1..Len(os) /\ Len(url) = Len(os) /\ \A i \in 1..Len(os) : url[i] = EncodePath(up[i])
    <3>1. DOMAIN url = 1..Len(os) /\ \A i \in 1..Len(os) : url[i] = EncodePath(up[i]) BY <2>8, <2>11
    <3>2. url \in [1..Len(os) -> {url[i] : i \in 1..Len(os)}] BY <2>11, <3>1
    <3> QED BY <2>6, <3>1, <3>2
  <2>13. ASSUME NEW i \in 1..Len(os), IsParam(os[i])
         PROVE  \E j \in DOMAIN segs : /\ gs[j] = os[i] /\ Unescape(url[i]) = segs[j]
                                       /\ Unescape(segs[j]) = segs[j] => url[i] = segs[j]
    <3>1. PICK j \in DOMAIN segs : gs[j] = os[i] /\ up[i] = segs[j] BY <2>9, <2>13
    <3>2. url[i] = EncodePath(segs[j]) BY <2>12, <3>1
    <3>3. PathEscape(Unescape(segs[j])) = segs[j] BY PathsAreCanonical
    <3>4. Unescape(EncodePath(segs[j])) = segs[j] /\ (PathEscape(segs[j]) = segs[j] => EncodePath(segs[j]) = segs[j])
      BY EncodePathEscapes
    <3>5. Unescape(url[i]) = segs[j] BY <3>2, <3>4
    <3>6. Unescape(segs[j]) = segs[j] => url[i] = segs[j] BY <3>2, <3>3, <3>4
    <3> QED BY <3>1, <3>5, <3>6
  <2>14. ASSUME NEW i \in 1..Len(os), ~IsParam(os[i]) PROVE url[i] = EncodePath(os[i])
    BY <2>10, <2>12, <2>14
  <2>15. /\ Len(url) = Len(os)
         /\ \A i \in DOMAIN url : IF IsParam(os[i])
                                   THEN \E j \in DOMAIN segs : /\ gs[j] = os[i] /\ Unescape(url[i]) = segs[j]
                                                               /\ Unescape(segs[j]) = segs[j] => url[i] = segs[j]
                                   ELSE url[i] = EncodePath(os[i])
    BY <2>12, <2>13, <2>14
  <2> QED BY <2>15 DEF url, params, os, gs
<1> QED BY <1>1, ServingInvariant, PTL

-----------------------------------------------------------------------------
(* The document. *)

\* Every route has a request of its own: a path it fits with, at its parameters, segments
\* that no route the path fits has there.  Where Paths are all paths, there always is one.
HasFreshPaths ==
  phase = "serving" =>
    \A r \in table : \E segs \in Paths :
      /\ Fits(Shape(r.path), segs)
      /\ \A q \in table, i \in DOMAIN segs :
           Fits(Shape(q.path), segs) /\ Shape(r.path)[i] = ParamChild => Shape(q.path)[i] # segs[i]

\* Two shapes of one length differ somewhere first.
LEMMA FirstDifference ==
  ASSUME NEW s \in Seq(Text), NEW u \in Seq(Text), Len(s) = Len(u), s # u
  PROVE  \E i \in 1..Len(s) : s[i] # u[i] /\ \A j \in 1..(i - 1) : s[j] = u[j]
<1> DEFINE D == {i \in 1..Len(s) : s[i] # u[i]}
<1>1. D # {} OBVIOUS
<1>2. D \subseteq Nat OBVIOUS
<1>3. Len(s) \in Nat OBVIOUS
<1>4. PICK i \in D : \A j \in D : i <= j
  <2> HIDE DEF D
  <2> QED BY <1>1, <1>2, LeastNatural
<1>5. \A j \in 1..(i - 1) : j \in 1..Len(s) /\ ~(i <= j) BY <1>3
<1>6. \A j \in 1..(i - 1) : s[j] = u[j] BY <1>4, <1>5
<1> QED BY <1>6

\* A shape beats every other that fits a path of its own.
LEMMA FreshIsBest ==
  ASSUME NEW s \in Seq(Text), NEW u \in Seq(Text), NEW segs \in Seq(Text), s # u,
         Fits(s, segs), Fits(u, segs),
         \A i \in DOMAIN segs : s[i] = ParamChild => u[i] # segs[i]
  PROVE  Beats(s, u)
<1>1. Len(s) = Len(segs) /\ Len(u) = Len(segs) /\ DOMAIN segs = 1..Len(s) /\ DOMAIN s = 1..Len(s) BY DEF Fits
<1>2. PICK i \in 1..Len(s) : s[i] # u[i] /\ \A j \in 1..(i - 1) : s[j] = u[j] BY <1>1, FirstDifference
<1>3. s[i] = segs[i] \/ s[i] = ParamChild BY <1>1 DEF Fits
<1>4. u[i] = segs[i] \/ u[i] = ParamChild BY <1>1 DEF Fits
<1>5. u[i] = ParamChild /\ s[i] # ParamChild BY <1>1, <1>2, <1>3, <1>4
<1> QED BY <1>1, <1>2, <1>5 DEF Beats

\* The document and the router agree, for every configuration and every order of adding the
\* routes: what is documented is served, by the very route that the document names, and
\* what is served is documented, hidden or a pre-flight route.
THEOREM DocumentAndRouterAgree == BuildSpec /\ []HasFreshPaths => []DocumentIsServed
<1>1. ServingInv /\ HasFreshPaths => DocumentIsServed
  <2> SUFFICES ASSUME ServingInv, HasFreshPaths, phase = "serving"
               PROVE  /\ \A d \in Document :
                           \E segs \in Paths : LET m == Match(tree, d.method, segs) IN
                             m.result = "found" /\ m.payload.route.method = d.method /\ m.payload.route.path = d.path
                      /\ \A e \in tree : LET r == e.payload.route IN
                           \/ [method |-> r.method, path |-> r.path] \in Document
                           \/ r \in table /\ r.op.hidden
                           \/ r.method = "OPTIONS" /\ r.path \in PreflightPaths
    BY DEF DocumentIsServed
  <2>1. /\ RoutesApart(table)
        /\ \A r \in table : r.path \in Templates /\ Shape(r.path) \in Seq(Text)
    BY ServingTree, ShapeTypes DEF ServingInv, TreeInv
  <2>2. ASSUME NEW r \in table
        PROVE  \E segs \in Paths : /\ Match(tree, r.method, segs).result = "found"
                                   /\ Match(tree, r.method, segs).payload.route = r
    <3>1. PICK segs \in Paths :
            /\ Fits(Shape(r.path), segs)
            /\ \A q \in table, i \in DOMAIN segs :
                 Fits(Shape(q.path), segs) /\ Shape(r.path)[i] = ParamChild => Shape(q.path)[i] # segs[i]
      BY DEF HasFreshPaths
    <3>2. segs \in Seq(Text) BY PathTypes
    <3>3. ASSUME NEW q \in table, Fits(Shape(q.path), segs), Shape(q.path) # Shape(r.path)
          PROVE  Beats(Shape(r.path), Shape(q.path))
      BY <2>1, <3>1, <3>2, <3>3, FreshIsBest
    <3>4. r \in BestRoutes(segs) BY <3>1, <3>3 DEF BestRoutes, Best
    <3>5. Walk(tree, segs) # {} BY <3>4, ServingNode
    <3>6. Shape(r.path) = NodeOf(tree, segs) BY <3>4, <3>5, ServingNode
    <3>7. RouteEntry(r) \in tree BY ServingTree
    <3>8. r.method \in Methods(tree, NodeOf(tree, segs)) BY <3>6, <3>7, EntryFields DEF Methods, Handlers
    <3>9. Effective(Methods(tree, NodeOf(tree, segs)), r.method) = r.method BY <3>8 DEF Effective
    <3>10. /\ Match(tree, r.method, segs).result = "found"
           /\ \E e \in tree : /\ e.shape = NodeOf(tree, segs) /\ e.method = r.method
                              /\ Match(tree, r.method, segs).payload = e.payload
      BY <3>5, <3>8, <3>9, MatchIs
    <3>11. PICK e \in tree : /\ e.shape = NodeOf(tree, segs) /\ e.method = r.method
                             /\ Match(tree, r.method, segs).payload = e.payload
      BY <3>10
    <3>12. e = RouteEntry(r)
      <4>1. CASE \E q \in table : e = RouteEntry(q)
        <5>1. PICK q \in table : e = RouteEntry(q) BY <4>1
        <5>2. q.method = r.method /\ Shape(q.path) = Shape(r.path) BY <3>6, <3>11, <5>1, EntryFields
        <5>3. q = r BY <2>1, <5>2 DEF RoutesApart
        <5> QED BY <5>1, <5>3
      <4>2. CASE \E p \in PreflightPaths : e = PreflightEntry(p)
        <5>1. PICK p \in PreflightPaths : e = PreflightEntry(p) BY <4>2
        <5>2. r.method = "OPTIONS" /\ Shape(r.path) = Shape(p) BY <3>6, <3>11, <5>1, EntryFields
        <5> QED BY <5>2, ServingTree DEF PreflightsApart
      <4> QED BY <4>1, <4>2, ServingTree
    <3> QED BY <3>10, <3>11, <3>12, Payloads
  <2>3. ASSUME NEW d \in Document
        PROVE  \E segs \in Paths : LET m == Match(tree, d.method, segs) IN
                 m.result = "found" /\ m.payload.route.method = d.method /\ m.payload.route.path = d.path
    <3>1. PICK r \in table : d.method = r.method /\ d.path = r.path BY DEF Document
    <3> QED BY <2>2, <3>1
  <2>4. ASSUME NEW e \in tree
        PROVE  LET r == e.payload.route IN
               \/ [method |-> r.method, path |-> r.path] \in Document
               \/ r \in table /\ r.op.hidden
               \/ r.method = "OPTIONS" /\ r.path \in PreflightPaths
    <3>1. CASE \E r \in table : e = RouteEntry(r)
      <4>1. PICK r \in table : e = RouteEntry(r) BY <3>1
      <4>2. e.payload.route = r BY <4>1, Payloads
      <4>3. r.hidden = r.op.hidden
        <5>1. r \in AllRoutes BY DEF ServingInv, TreeInv
        <5> QED BY <5>1 DEF AllRoutes, Routes, Route
      <4>4. r.hidden \/ [method |-> r.method, path |-> r.path] \in Document BY DEF Document
      <4> QED BY <4>2, <4>3, <4>4
    <3>2. CASE \E p \in PreflightPaths : e = PreflightEntry(p)
      <4>1. PICK p \in PreflightPaths : e = PreflightEntry(p) BY <3>2
      <4>2. e.payload.route = [method |-> "OPTIONS", path |-> p] BY <4>1, Payloads
      <4>3. e.payload.route.path = p /\ e.payload.route.method = "OPTIONS" BY <4>2
      <4> QED BY <4>3
    <3> QED BY <3>1, <3>2, ServingTree
  <2> QED BY <2>3, <2>4
<1> QED BY <1>1, ServingInvariant, PTL

-----------------------------------------------------------------------------
(* The merge: names. *)

\* The first of some numbers is one of them.
LEMMA FirstNumber ==
  ASSUME NEW T, T \subseteq Nat, T # {}
  PROVE  Min(T) \in T /\ \A y \in T : Min(T) <= y
BY LeastNatural DEF Min

\* What follows a common beginning is the same if the whole is.
LEMMA ConcatCancels ==
  ASSUME NEW S, NEW a \in Seq(S), NEW b \in Seq(S), NEW c \in Seq(S), a \o b = a \o c
  PROVE  b = c
<1>1. Len(a \o b) = Len(a) + Len(b) /\ Len(a \o c) = Len(a) + Len(c)
  OBVIOUS
<1>2. Len(b) = Len(c) /\ Len(a) \in Nat /\ Len(b) \in Nat
  BY <1>1
<1>3. \A i \in 1..Len(b) : b[i] = (a \o b)[Len(a) + i] /\ c[i] = (a \o c)[Len(a) + i]
  BY <1>2
<1>4. QED
  BY <1>2, <1>3

\* A reference to a component names its spec and its name.
LEMMA KeyParts ==
  ASSUME NEW input, NEW k
  PROVE  k \in Keys(input) <=> \E s \in DOMAIN input.specs : \E n \in DOMAIN input.specs[s].comps :
                                 k = [spec |-> s, name |-> n]
BY DEF Keys

\* There are finitely many components.
LEMMA KeysFinite ==
  ASSUME NEW input \in Inputs
  PROVE  IsFiniteSet(Keys(input))
<1> DEFINE D(s) == DOMAIN input.specs[s].comps
           K(s) == {[spec |-> s, name |-> n] : n \in D(s)}
           S    == DOMAIN input.specs
<1>1. ASSUME NEW s \in S PROVE IsFiniteSet(K(s))
  <2> DEFINE f == [n \in D(s) |-> [spec |-> s, name |-> n]]
  <2>1. f \in Surjection(D(s), K(s))
    BY DEF Surjection
  <2>2. IsFiniteSet(D(s))
    BY InputsAssumption
  <2> HIDE DEF f, K, D
  <2>3. QED
    BY <2>1, <2>2, FS_Surjection
<1> DEFINE F == [s \in S |-> K(s)]
           KK == {K(s) : s \in S}
<1>2. F \in Surjection(S, KK)
  BY DEF Surjection
<1>3. IsFiniteSet(S)
  BY InputsAssumption
<1>4. Keys(input) = UNION KK
  BY DEF Keys
<1>5. \A T \in KK : IsFiniteSet(T)
  BY <1>1
<1> HIDE DEF F, KK, K, S
<1>6. IsFiniteSet(KK)
  BY <1>2, <1>3, FS_Surjection
<1>7. QED
  BY <1>4, <1>5, <1>6, FS_UNION

\* A component's source is what the assumption says of the specs.
LEMMA SourceType ==
  ASSUME in \in Inputs, NEW k \in Keys(in)
  PROVE  /\ Source(k).refs \in Seq(Refs)
         /\ Source(k).kind # NoNode.kind
         /\ k.spec \in DOMAIN in.specs
         /\ k.name \in Seq(Letters)
         /\ in.specs[k.spec].namespace \in Seq(Letters)
<1>1. k.spec \in DOMAIN in.specs /\ k.name \in DOMAIN in.specs[k.spec].comps
  BY KeyParts
<1>2. /\ in.specs[k.spec].comps[k.name] \in Bodies
      /\ in.specs[k.spec].comps[k.name].kind # NoNode.kind
      /\ k.name \in Seq(Letters)
      /\ in.specs[k.spec].namespace \in Seq(Letters)
  BY <1>1, InputsAssumption
<1>3. QED
  BY <1>1, <1>2 DEF Source, Bodies

\* toUpperFirst keeps a name a name.
LEMMA CapitaliseType ==
  ASSUME NEW name \in Seq(Letters)
  PROVE  Capitalise(name) \in Seq(Letters)
<1>1. CASE name = <<>>
  BY <1>1 DEF Capitalise
<1>2. CASE name # <<>>
  <2>1. Head(name) \in Letters /\ Tail(name) \in Seq(Letters)
    BY <1>2
  <2>2. Capital(Head(name)) \in Letters
    BY <2>1, InputsAssumption
  <2>3. <<Capital(Head(name))>> \in Seq(Letters)
    BY <2>2
  <2>4. QED
    BY <1>2, <2>1, <2>3 DEF Capitalise
<1>3. QED
  BY <1>1, <1>2

\* enqueue's loop ends at a name that is free.
LEMMA FreeNameIsFree ==
  ASSUME in \in Inputs, NEW mm, NEW key \in Keys(in), IsFiniteSet(DOMAIN mm.comps),
         Cardinality(DOMAIN mm.comps) <= Cardinality(Keys(in))
  PROVE  FreeName(mm, key) \notin DOMAIN mm.comps
<1> DEFINE C == DOMAIN mm.comps
           N == 1..(Cardinality(C) + 1)
           free == {n \in N : Numbered(key, n) \notin C}
           full == in.specs[key.spec].namespace \o Capitalise(key.name)
           digits(n) == IF n = 1 THEN <<>> ELSE Itoa(n)
<1>1. Cardinality(C) \in Nat /\ Cardinality(Keys(in)) \in Nat
  BY KeysFinite, FS_CardinalityType
<1>2. N \subseteq 1..(Cardinality(Keys(in)) + 1)
  BY <1>1
<1>3. full \in Seq(Letters)
  BY SourceType, CapitaliseType
<1>4. \A n \in N : digits(n) \in Seq(Letters)
  BY <1>2, InputsAssumption
<1>5. \A a, b \in N : digits(a) = digits(b) => a = b
  BY <1>2, InputsAssumption
<1>6. \A n \in N : Numbered(key, n) = full \o digits(n)
  BY DEF Numbered
<1>7. free # {}
  <2> SUFFICES ASSUME free = {} PROVE FALSE
    OBVIOUS
  <2> DEFINE f == [n \in N |-> Numbered(key, n)]
  <2>1. f \in [N -> C]
    OBVIOUS
  <2> HIDE DEF full, digits
  <2>2. \A a, b \in N : f[a] = f[b] => a = b
    BY <1>3, <1>4, <1>5, <1>6, ConcatCancels
  <2>3. 1 \in Int /\ Cardinality(C) + 1 \in Int
    BY <1>1
  <2>4. IsFiniteSet(N) /\ Cardinality(N) = Cardinality(C) + 1
    BY <1>1, <2>3, FS_Interval
  <2> HIDE DEF f, N
  <2>5. Cardinality(C) < Cardinality(N)
    BY <1>1, <2>4
  <2>6. \E x, y \in N : x # y /\ f[x] = f[y]
    BY <2>1, <2>4, <2>5, FS_PigeonHole
  <2>7. QED
    BY <2>2, <2>6
<1>8. free \subseteq Nat
  BY <1>1
<1>9. Min(free) \in free
  BY <1>7, <1>8, FirstNumber
<1>10. QED
  BY <1>9 DEF FreeName

-----------------------------------------------------------------------------
(* The merge: import. *)

\* The merger before dedupe: every imported component has a name of its own and its
\* place under it.
MergerOK(mm) ==
  /\ DOMAIN mm.imported \subseteq Keys(in)
  /\ \A k, l \in DOMAIN mm.imported : mm.imported[k] = mm.imported[l] => k = l
  /\ DOMAIN mm.comps = {mm.imported[k] : k \in DOMAIN mm.imported}
  /\ \A k \in DOMAIN mm.imported : mm.comps[mm.imported[k]].base = k.name
  /\ mm.queue \in Seq(DOMAIN mm.imported)

Queued(mm, k) == \E i \in 1..Len(mm.queue) : mm.queue[i] = k

\* From a to b names are only added, and each is queued.
Grown(a, b) ==
  /\ DOMAIN a.imported \subseteq DOMAIN b.imported
  /\ \A k \in DOMAIN a.imported :
       b.imported[k] = a.imported[k] /\ b.comps[b.imported[k]] = a.comps[a.imported[k]]
  /\ \A k \in DOMAIN b.imported : k \in DOMAIN a.imported \/ Queued(b, k)
  /\ \A k : Queued(a, k) => Queued(b, k)
  /\ a.queue # <<>> => b.queue # <<>> /\ Head(b.queue) = Head(a.queue)

\* Growing twice is growing.
LEMMA GrownTransitive ==
  ASSUME NEW a, NEW b, NEW c, Grown(a, b), Grown(b, c)
  PROVE  Grown(a, c)
BY DEF Grown

\* Each name taken belongs to one component, so the merger takes finitely many.
LEMMA CompsFinite ==
  ASSUME in \in Inputs, NEW mm, MergerOK(mm)
  PROVE  /\ IsFiniteSet(DOMAIN mm.comps)
         /\ Cardinality(DOMAIN mm.comps) <= Cardinality(Keys(in))
<1> DEFINE I == DOMAIN mm.imported
           C == DOMAIN mm.comps
           f == [k \in I |-> mm.imported[k]]
<1>1. IsFiniteSet(Keys(in)) /\ I \in SUBSET Keys(in)
  BY KeysFinite DEF MergerOK
<1>2. f \in Surjection(I, C)
  BY DEF Surjection, MergerOK
<1> HIDE DEF I, C, f
<1>3. IsFiniteSet(I) /\ Cardinality(I) <= Cardinality(Keys(in))
  BY <1>1, FS_Subset
<1>4. IsFiniteSet(C) /\ Cardinality(C) <= Cardinality(I)
  BY <1>2, <1>3, FS_Surjection
<1>5. Cardinality(C) \in Nat /\ Cardinality(I) \in Nat /\ Cardinality(Keys(in)) \in Nat
  BY <1>1, <1>3, <1>4, FS_CardinalityType
<1>6. QED
  BY <1>3, <1>4, <1>5 DEF C

\* enqueue adds one component at most, under a name of its own.
LEMMA EnqueueStep ==
  ASSUME in \in Inputs, NEW mm, MergerOK(mm), NEW key \in Keys(in)
  PROVE  /\ MergerOK(Enqueue(mm, key))
         /\ Grown(mm, Enqueue(mm, key))
         /\ DOMAIN Enqueue(mm, key).imported = DOMAIN mm.imported \cup {key}
<1>1. CASE key \in DOMAIN mm.imported
  <2>1. Enqueue(mm, key) = mm
    BY <1>1 DEF Enqueue
  <2>2. Grown(mm, mm)
    BY DEF Grown
  <2>3. QED
    BY <1>1, <2>1, <2>2
<1>2. CASE key \notin DOMAIN mm.imported
  <2> DEFINE p == FreeName(mm, key)
             nn == Enqueue(mm, key)
             c == [base |-> key.name, node |-> NoNode]
  <2>1. p \notin DOMAIN mm.comps
    BY CompsFinite, FreeNameIsFree
  <2>2. /\ nn.imported = Put(mm.imported, key, p)
        /\ nn.comps = Put(mm.comps, p, c)
        /\ nn.queue = Append(mm.queue, key)
    BY <1>2 DEF Enqueue
  <2>3. c.base = key.name
    OBVIOUS
  <2> HIDE DEF p, nn, c
  <2>4. /\ DOMAIN nn.imported = DOMAIN mm.imported \cup {key} /\ nn.imported[key] = p
        /\ \A k \in DOMAIN mm.imported : nn.imported[k] = mm.imported[k]
    BY <1>2, <2>2 DEF Put
  <2>5. /\ DOMAIN nn.comps = DOMAIN mm.comps \cup {p} /\ nn.comps[p] = c
        /\ \A q \in DOMAIN mm.comps : nn.comps[q] = mm.comps[q]
    BY <2>1, <2>2 DEF Put
  <2>6. \A k \in DOMAIN mm.imported : mm.imported[k] \in DOMAIN mm.comps
    BY DEF MergerOK
  <2>7. nn.queue \in Seq(DOMAIN nn.imported)
    <3>1. mm.queue \in Seq(DOMAIN nn.imported)
      BY <2>4 DEF MergerOK
    <3>2. QED
      BY <2>2, <2>4, <3>1
  <2>8. MergerOK(nn)
    <3>1. \A k, l \in DOMAIN nn.imported : nn.imported[k] = nn.imported[l] => k = l
      BY <2>1, <2>4, <2>6 DEF MergerOK
    <3>2. DOMAIN nn.comps = {nn.imported[k] : k \in DOMAIN nn.imported}
      BY <2>4, <2>5 DEF MergerOK
    <3>3. \A k \in DOMAIN nn.imported : nn.comps[nn.imported[k]].base = k.name
      BY <2>3, <2>4, <2>5, <2>6 DEF MergerOK
    <3>4. DOMAIN nn.imported \subseteq Keys(in)
      BY <2>4 DEF MergerOK
    <3>5. QED
      BY <2>7, <3>1, <3>2, <3>3, <3>4 DEF MergerOK
  <2>9. Grown(mm, nn)
    <3>1. mm.queue \in Seq(DOMAIN mm.imported)
      BY DEF MergerOK
    <3>2. /\ Len(nn.queue) = Len(mm.queue) + 1 /\ nn.queue[Len(nn.queue)] = key
          /\ \A i \in 1..Len(mm.queue) : nn.queue[i] = mm.queue[i]
          /\ Len(mm.queue) \in Nat
      BY <2>2, <3>1
    <3>3. Queued(nn, key) /\ \A k : Queued(mm, k) => Queued(nn, k)
      BY <3>2 DEF Queued
    <3>4. mm.queue # <<>> => nn.queue # <<>> /\ Head(nn.queue) = Head(mm.queue)
      BY <2>2, <3>1
    <3>5. QED
      BY <2>4, <2>5, <2>6, <3>3, <3>4 DEF Grown
  <2>10. QED
    BY <2>4, <2>8, <2>9 DEF nn
<1>3. QED
  BY <1>1, <1>2

\* resolveRef over the references of a node: all they name is imported, nothing else.
LEMMA ResolvedStep ==
  ASSUME in \in Inputs, MergerOK(merger), NEW spec, NEW refs \in Seq(Refs), ~Dangling(spec, refs)
  PROVE  /\ MergerOK(Resolved(spec, refs))
         /\ Grown(merger, Resolved(spec, refs))
         /\ DOMAIN Resolved(spec, refs).imported =
              DOMAIN merger.imported \cup {Key(spec, refs[i]) : i \in DOMAIN refs}
<1> DEFINE n == Len(refs)
           Value(f, i) == IF i = 0 THEN merger ELSE Enqueue(f[i - 1], Key(spec, refs[i]))
           Runs(f, j) == f = [i \in 0..j |-> Value(f, i)]
           Good(x, j) == /\ MergerOK(x) /\ Grown(merger, x)
                         /\ DOMAIN x.imported = DOMAIN merger.imported \cup {Key(spec, refs[i]) : i \in 1..j}
<1>1. n \in Nat /\ DOMAIN refs = 1..n
  OBVIOUS
<1>2. \A i \in 1..n : Key(spec, refs[i]) \in Keys(in)
  BY <1>1 DEF Dangling
<1>3. Resolved(spec, refs) = (CHOOSE f : Runs(f, n))[n]
  BY DEF Resolved
<1>4. \E f : Runs(f, n)
  <2> DEFINE B == {j \in 0..n : ~ \E f : Runs(f, j)}
  <2> SUFFICES ASSUME B # {} PROVE FALSE
    BY <1>1
  <2> HIDE DEF n
  <2>1. PICK j \in B : \A k \in B : j <= k
    <3>1. B \subseteq Nat
      BY <1>1
    <3> HIDE DEF B
    <3>2. QED
      BY <3>1, LeastNatural
  <2>2. CASE j = 0
    <3> DEFINE g == [i \in 0..0 |-> merger]
    <3>1. Runs(g, 0)
      OBVIOUS
    <3> HIDE DEF g, Runs
    <3>2. QED
      BY <2>2, <3>1
  <2>3. CASE j # 0
    <3>0. j \in 0..n
      BY <2>1
    <3>1. j - 1 \in 0..n /\ j - 1 \notin B /\ j \in Nat
      <4> HIDE DEF B
      <4> QED BY <1>1, <2>1, <2>3, <3>0
    <3>2. PICK f : Runs(f, j - 1)
      BY <3>1
    <3> DEFINE g == [i \in 0..j |-> Value(f, i)]
    <3>3. \A i \in 0..j : i # 0 => g[i - 1] = f[i - 1]
      BY <3>1, <3>2
    <3>4. ASSUME NEW i \in 0..j PROVE Value(g, i) = Value(f, i)
      <4> HIDE DEF g
      <4>1. CASE i = 0 BY <4>1
      <4>2. CASE i # 0
        <5>1. g[i - 1] = f[i - 1] BY <3>3, <4>2
        <5> QED BY <5>1
      <4> QED BY <4>1, <4>2
    <3>5. Runs(g, j)
      BY <3>4
    <3> HIDE DEF g, Runs
    <3>6. QED
      BY <2>1, <3>5
  <2>4. QED
    BY <2>2, <2>3
<1> DEFINE after == CHOOSE f : Runs(f, n)
<1> HIDE DEF n
<1>5. Runs(after, n)
  <2> HIDE DEF Runs
  <2>1. QED
    BY <1>4
<1> HIDE DEF after
<1>6. after[0] = merger /\ \A i \in 1..n : after[i] = Enqueue(after[i - 1], Key(spec, refs[i]))
  BY <1>1, <1>5
<1>7. \A j \in 0..n : Good(after[j], j)
  <2> DEFINE B == {j \in 0..n : ~Good(after[j], j)}
  <2> SUFFICES ASSUME B # {} PROVE FALSE
    OBVIOUS
  <2>1. PICK j \in B : \A k \in B : j <= k
    <3>1. B \subseteq Nat
      BY <1>1
    <3> HIDE DEF B
    <3>2. QED
      BY <3>1, LeastNatural
  <2>2. CASE j = 0
    <3>1. Grown(merger, merger)
      BY DEF Grown
    <3>2. Good(after[0], 0)
      BY <1>6, <3>1
    <3>3. QED
      BY <2>1, <2>2, <3>2
  <2>3. CASE j # 0
    <3>1. j - 1 \in 0..n /\ j - 1 \notin B /\ j \in 1..n
      BY <1>1, <2>1, <2>3
    <3>2. Good(after[j - 1], j - 1)
      BY <3>1
    <3> DEFINE x == after[j - 1]
               y == after[j]
               k == Key(spec, refs[j])
    <3>3. y = Enqueue(x, k) /\ k \in Keys(in) /\ MergerOK(x) /\ Grown(merger, x)
      BY <1>2, <1>6, <3>1, <3>2
    <3>4. DOMAIN x.imported = DOMAIN merger.imported \cup {Key(spec, refs[i]) : i \in 1..(j - 1)}
      BY <3>2
    <3>5. 1..j = 1..(j - 1) \cup {j}
      BY <1>1, <3>1
    <3> HIDE DEF x, y, k
    <3>6. MergerOK(y) /\ Grown(x, y) /\ DOMAIN y.imported = DOMAIN x.imported \cup {k}
      BY <3>3, EnqueueStep
    <3>7. Grown(merger, y)
      BY <3>3, <3>6, GrownTransitive
    <3>8. DOMAIN y.imported = DOMAIN merger.imported \cup {Key(spec, refs[i]) : i \in 1..j}
      BY <3>4, <3>5, <3>6 DEF k
    <3>9. Good(y, j)
      BY <3>6, <3>7, <3>8
    <3>10. QED
      BY <2>1, <3>9 DEF y
  <2>4. QED
    BY <2>2, <2>3
<1>8. Good(after[n], n) /\ Resolved(spec, refs) = after[n]
  BY <1>1, <1>3, <1>7 DEF after
<1>9. QED
  BY <1>1, <1>8

\* A component has been copied: what it refers to is imported, and its references are
\* to the published names.
Copied(mm, k) ==
  /\ \A i \in DOMAIN Source(k).refs : Key(k.spec, Source(k).refs[i]) \in DOMAIN mm.imported
  /\ mm.comps[mm.imported[k]] = Copy(mm, k)

OperationOK(mm, i, refs) ==
  /\ \A j \in DOMAIN in.ops[i].refs : Key(in.ops[i].spec, in.ops[i].refs[j]) \in DOMAIN mm.imported
  /\ refs = Renamed(mm, in.ops[i].spec, in.ops[i].refs)

NothingMore(mm) ==
  \A keys \in SUBSET Keys(in) : Roots \subseteq keys /\ Closed(keys) => DOMAIN mm.imported \subseteq keys

\* While operations are built and components copied.
Importing(mm, b) ==
  /\ MergerOK(mm)
  /\ \A k \in DOMAIN mm.imported : Queued(mm, k) \/ Copied(mm, k)
  /\ DOMAIN b \subseteq DOMAIN in.ops
  /\ \A i \in DOMAIN b : OperationOK(mm, i, b[i])
  /\ NothingMore(mm)

\* References that were resolved are written the same later.
LEMMA RenamedAsBefore ==
  ASSUME NEW a, NEW b, NEW spec, NEW refs,
         \A i \in DOMAIN refs : b.imported[Key(spec, refs[i])] = a.imported[Key(spec, refs[i])]
  PROVE  Renamed(b, spec, refs) = Renamed(a, spec, refs)
BY DEF Renamed

\* What is copied and built stays so when the merger grows.
LEMMA GrownKeeps ==
  ASSUME NEW a, NEW b, Grown(a, b)
  PROVE  /\ \A k \in DOMAIN a.imported : Copied(a, k) => Copied(b, k)
         /\ \A i, refs : OperationOK(a, i, refs) => OperationOK(b, i, refs)
<1>1. ASSUME NEW k \in DOMAIN a.imported, Copied(a, k) PROVE Copied(b, k)
  <2>1. \A i \in DOMAIN Source(k).refs :
          /\ Key(k.spec, Source(k).refs[i]) \in DOMAIN b.imported
          /\ b.imported[Key(k.spec, Source(k).refs[i])] = a.imported[Key(k.spec, Source(k).refs[i])]
    BY <1>1 DEF Copied, Grown
  <2>2. Renamed(b, k.spec, Source(k).refs) = Renamed(a, k.spec, Source(k).refs)
    BY <2>1, RenamedAsBefore
  <2>3. Copy(b, k) = Copy(a, k)
    BY <2>2 DEF Copy
  <2>4. b.comps[b.imported[k]] = a.comps[a.imported[k]]
    BY DEF Grown
  <2>5. QED
    BY <1>1, <2>1, <2>3, <2>4 DEF Copied
<1>2. ASSUME NEW i, NEW refs, OperationOK(a, i, refs) PROVE OperationOK(b, i, refs)
  <2>1. \A j \in DOMAIN in.ops[i].refs :
          /\ Key(in.ops[i].spec, in.ops[i].refs[j]) \in DOMAIN b.imported
          /\ b.imported[Key(in.ops[i].spec, in.ops[i].refs[j])] = a.imported[Key(in.ops[i].spec, in.ops[i].refs[j])]
    BY <1>2 DEF OperationOK, Grown
  <2>2. Renamed(b, in.ops[i].spec, in.ops[i].refs) = Renamed(a, in.ops[i].spec, in.ops[i].refs)
    BY <2>1, RenamedAsBefore
  <2>3. QED
    BY <1>2, <2>1, <2>2 DEF OperationOK
<1>3. QED
  BY <1>1, <1>2

\* What resolveRef adds while an operation or a component is copied is needed if that is.
LEMMA GrownImporting ==
  ASSUME in \in Inputs, Importing(merger, built), NEW spec, NEW refs \in Seq(Refs), ~Dangling(spec, refs),
         \A keys \in SUBSET Keys(in) :
           Roots \subseteq keys /\ Closed(keys) => \A i \in DOMAIN refs : Key(spec, refs[i]) \in keys
  PROVE  /\ Importing(Resolved(spec, refs), built) /\ Grown(merger, Resolved(spec, refs))
         /\ \A i \in DOMAIN refs : Key(spec, refs[i]) \in DOMAIN Resolved(spec, refs).imported
<1> DEFINE mm == Resolved(spec, refs)
<1>1. /\ MergerOK(mm) /\ Grown(merger, mm)
      /\ DOMAIN mm.imported = DOMAIN merger.imported \cup {Key(spec, refs[i]) : i \in DOMAIN refs}
  BY ResolvedStep DEF Importing
<1> HIDE DEF mm
<1>2. \A k \in DOMAIN mm.imported : Queued(mm, k) \/ Copied(mm, k)
  BY <1>1, GrownKeeps DEF Importing, Grown
<1>3. \A i \in DOMAIN built : OperationOK(mm, i, built[i])
  BY <1>1, GrownKeeps DEF Importing
<1>4. NothingMore(mm)
  BY <1>1 DEF Importing, NothingMore
<1>5. Importing(mm, built)
  BY <1>1, <1>2, <1>3, <1>4 DEF Importing
<1>6. QED
  BY <1>1, <1>5 DEF mm

\* buildOperation keeps the import right.
LEMMA OperationImports ==
  ASSUME in \in Inputs, Importing(merger, built), NEW i \in DOMAIN in.ops,
         ~Dangling(in.ops[i].spec, in.ops[i].refs)
  PROVE  LET mm == Resolved(in.ops[i].spec, in.ops[i].refs)
         IN  Importing(mm, Put(built, i, Renamed(mm, in.ops[i].spec, in.ops[i].refs)))
<1> DEFINE spec == in.ops[i].spec
           refs == in.ops[i].refs
           mm == Resolved(spec, refs)
           new == Renamed(mm, spec, refs)
           b == Put(built, i, new)
<1>1. refs \in Seq(Refs)
  BY InputsAssumption
<1>2. \A j \in DOMAIN refs : Key(spec, refs[j]) \in Roots
  BY DEF Roots
<1>3. Importing(mm, built) /\ \A j \in DOMAIN refs : Key(spec, refs[j]) \in DOMAIN mm.imported
  <2> HIDE DEF spec, refs, mm
  <2>1. ~Dangling(spec, refs)
    BY DEF spec, refs
  <2>2. \A keys \in SUBSET Keys(in) :
           Roots \subseteq keys /\ Closed(keys) => \A j \in DOMAIN refs : Key(spec, refs[j]) \in keys
    BY <1>2
  <2>3. QED
    BY <1>1, <2>1, <2>2, GrownImporting DEF mm
<1>4. OperationOK(mm, i, new)
  BY <1>3 DEF OperationOK
<1>5. DOMAIN b = DOMAIN built \cup {i} /\ \A j \in DOMAIN b : b[j] = IF j = i THEN new ELSE built[j]
  BY DEF Put
<1> HIDE DEF mm, new, b, spec, refs
<1>6. Importing(mm, b)
  BY <1>3, <1>4, <1>5 DEF Importing
<1>7. QED
  BY <1>6 DEF mm, new, b, spec, refs

\* drainQueue's copy of the component at the head of the queue, once its references are
\* resolved.
LEMMA CopyImports ==
  ASSUME NEW mm, Importing(mm, built), mm.queue # <<>>, NEW key, Head(mm.queue) = key,
         \A j \in DOMAIN Source(key).refs : Key(key.spec, Source(key).refs[j]) \in DOMAIN mm.imported,
         NEW nn,
         nn.imported = mm.imported,
         nn.comps = Put(mm.comps, mm.imported[key], Copy(mm, key)),
         nn.queue = Tail(mm.queue)
  PROVE  Importing(nn, built)
<1> DEFINE c == Copy(mm, key)
<1>5. key \in DOMAIN mm.imported
  BY DEF Importing, MergerOK
<1>6. mm.queue \in Seq(DOMAIN mm.imported) /\ mm.imported[key] \in DOMAIN mm.comps
  BY <1>5 DEF Importing, MergerOK
<1>7. /\ DOMAIN nn.comps = DOMAIN mm.comps /\ nn.comps[mm.imported[key]] = c
      /\ \A p \in DOMAIN mm.comps : p # mm.imported[key] => nn.comps[p] = mm.comps[p]
  BY <1>6 DEF Put
<1>8. c.base = key.name
  BY DEF Copy
<1>9. MergerOK(nn)
  <2>1. nn.queue \in Seq(DOMAIN nn.imported)
    <3>1. Tail(mm.queue) \in Seq(DOMAIN mm.imported)
      BY <1>6, HeadTailProperties
    <3>2. QED
      BY <3>1
  <2>2. \A k \in DOMAIN nn.imported : nn.comps[nn.imported[k]].base = k.name
    <3> HIDE DEF c
    <3>1. QED
      BY <1>5, <1>7, <1>8 DEF Importing, MergerOK
  <2>3. QED
    BY <1>7, <2>1, <2>2 DEF Importing, MergerOK
<1>10. \A k \in DOMAIN nn.imported : Copy(nn, k) = Copy(mm, k)
  BY DEF Copy, Renamed
<1>11. ASSUME NEW k \in DOMAIN nn.imported PROVE Queued(nn, k) \/ Copied(nn, k)
  <2>1. CASE k = key
    BY <1>7, <1>10, <2>1 DEF Copied
  <2>2. CASE k # key
    <3>1. CASE Queued(mm, k)
      <4>1. PICK i \in 1..Len(mm.queue) : mm.queue[i] = k
        BY <3>1 DEF Queued
      <4>2. i # 1 /\ Len(mm.queue) \in Nat
        BY <1>5, <1>6, <2>2, <4>1
      <4>3. i - 1 \in 1..Len(nn.queue) /\ nn.queue[i - 1] = k
        BY <1>5, <1>6, <4>1, <4>2
      <4>4. QED
        BY <4>3 DEF Queued
    <3>2. CASE Copied(mm, k)
      <4>1. mm.imported[k] # mm.imported[key] /\ mm.imported[k] \in DOMAIN mm.comps
        BY <1>5, <2>2 DEF Importing, MergerOK
      <4>2. nn.comps[nn.imported[k]] = mm.comps[mm.imported[k]]
        BY <1>7, <4>1
      <4>3. QED
        BY <1>10, <3>2, <4>2 DEF Copied
    <3>3. QED
      BY <3>1, <3>2 DEF Importing
  <2>3. QED
    BY <2>1, <2>2
<1>12. \A i \in DOMAIN built : OperationOK(nn, i, built[i])
  BY DEF Importing, OperationOK, Renamed
<1>13. NothingMore(nn)
  BY DEF Importing, NothingMore
<1>14. QED
  BY <1>9, <1>11, <1>12, <1>13 DEF Importing

\* One component more copied and out of the queue.
LEMMA DrainImports ==
  ASSUME in \in Inputs, Importing(merger, built), merger.queue # <<>>,
         ~Dangling(Head(merger.queue).spec, Source(Head(merger.queue)).refs)
  PROVE  LET mm == Resolved(Head(merger.queue).spec, Source(Head(merger.queue)).refs)
         IN  /\ Importing(mm, built) /\ mm.queue # <<>> /\ Head(mm.queue) = Head(merger.queue)
             /\ \A j \in DOMAIN Source(Head(merger.queue)).refs :
                  Key(Head(merger.queue).spec, Source(Head(merger.queue)).refs[j]) \in DOMAIN mm.imported
<1> DEFINE key == Head(merger.queue)
           refs == Source(key).refs
           mm == Resolved(key.spec, refs)
<1>1. key \in DOMAIN merger.imported /\ key \in Keys(in)
  BY DEF Importing, MergerOK
<1> HIDE DEF key
<1>2. refs \in Seq(Refs)
  BY <1>1, SourceType
<1>3. \A keys \in SUBSET Keys(in) :
        Roots \subseteq keys /\ Closed(keys) => \A j \in DOMAIN refs : Key(key.spec, refs[j]) \in keys
  BY <1>1 DEF Importing, NothingMore, Closed
<1>4. ~Dangling(key.spec, refs)
  BY DEF key
<1> HIDE DEF refs, mm
<1>5. /\ Importing(mm, built) /\ Grown(merger, mm)
      /\ \A j \in DOMAIN refs : Key(key.spec, refs[j]) \in DOMAIN mm.imported
  BY <1>2, <1>3, <1>4, GrownImporting DEF mm
<1>6. mm.queue # <<>> /\ Head(mm.queue) = key
  BY <1>5 DEF Grown, key
<1>7. QED
  BY <1>5, <1>6 DEF mm, refs, key

UniqueNames == \A k, l \in DOMAIN merger.imported : merger.imported[k] = merger.imported[l] => k = l

\* After the queue has run empty.
Imported ==
  /\ DOMAIN merger.imported \subseteq Keys(in)
  /\ Closed(DOMAIN merger.imported)
  /\ Roots \subseteq DOMAIN merger.imported
  /\ NothingMore(merger)

ImportInv ==
  /\ in \in Inputs
  /\ UniqueNames
  /\ stage \in {"operations", "drain"} => Importing(merger, built)
  /\ stage = "drain" => DOMAIN built = DOMAIN in.ops
  /\ stage \in {"dedupe", "done"} => Imported

\* The import invariant holds at first.
LEMMA ImportInit == MergeInit => ImportInv
<1> SUFFICES ASSUME MergeInit PROVE ImportInv
  OBVIOUS
<1>1. /\ in \in Inputs /\ stage = "operations" /\ merger.imported = Empty /\ merger.comps = Empty
      /\ merger.queue = <<>> /\ built = Empty
  BY DEF MergeInit
<1>2. DOMAIN Empty = {}
  BY DEF Empty
<1>3. MergerOK(merger)
  BY <1>1, <1>2 DEF MergerOK
<1>4. Importing(merger, built)
  BY <1>1, <1>2, <1>3 DEF Importing, NothingMore
<1>5. QED
  BY <1>1, <1>2, <1>4 DEF ImportInv, UniqueNames

\* The predicates depend on the input, which never changes.
LEMMA SameInput ==
  ASSUME in' = in
  PROVE  /\ Keys(in)' = Keys(in) /\ Roots' = Roots
         /\ \A k : Source(k)' = Source(k)
         /\ \A keys : Closed(keys)' <=> Closed(keys)
         /\ Importing(merger', built') => Importing(merger, built)'
<1>1. Keys(in)' = Keys(in) /\ Roots' = Roots
  BY DEF Roots
<1>2. \A k : Source(k)' = Source(k)
  BY DEF Source
<1>3. \A keys : Closed(keys)' <=> Closed(keys)
  BY <1>2 DEF Closed
<1>4. \A k : Copied(merger', k) => Copied(merger, k)'
  BY <1>2 DEF Copied, Copy, Renamed
<1>5. \A i, refs : OperationOK(merger', i, refs) => OperationOK(merger, i, refs)'
  BY DEF OperationOK, Renamed
<1>6. NothingMore(merger') => NothingMore(merger)'
  BY <1>1, <1>3 DEF NothingMore
<1>7. MergerOK(merger') => MergerOK(merger)'
  BY <1>1 DEF MergerOK
<1>8. \A k : Queued(merger', k) => Queued(merger, k)'
  BY DEF Queued
<1>9. Importing(merger', built') => Importing(merger, built)'
  BY <1>4, <1>5, <1>6, <1>7, <1>8 DEF Importing
<1>10. QED
  BY <1>1, <1>2, <1>3, <1>9

\* Every step keeps the import invariant.
LEMMA ImportStep == ImportInv /\ [MergeNext]_mergeVars => ImportInv'
<1> SUFFICES ASSUME ImportInv, [MergeNext]_mergeVars PROVE ImportInv'
  OBVIOUS
<1>1. ASSUME in' = in, Importing(merger', built'), stage' \in {"operations", "drain"},
             stage' = "drain" => DOMAIN built' = DOMAIN in.ops
      PROVE  ImportInv'
  <2>1. Importing(merger, built)'
    BY <1>1, SameInput
  <2>2. UniqueNames'
    BY <1>1 DEF Importing, MergerOK, UniqueNames
  <2>3. QED
    BY <1>1, <2>1, <2>2 DEF ImportInv
<1>2. ASSUME in' = in, merger'.imported = merger.imported, stage' \in {"dedupe", "done"}, Imported
      PROVE  ImportInv'
  <2>1. Imported'
    <3>1. Keys(in)' = Keys(in) /\ Roots' = Roots /\ \A keys : Closed(keys)' <=> Closed(keys)
      BY <1>2, SameInput
    <3>2. QED
      BY <1>2, <3>1 DEF Imported, NothingMore
  <2>2. UniqueNames'
    BY <1>2 DEF ImportInv, UniqueNames
  <2>3. QED
    BY <1>2, <2>1, <2>2 DEF ImportInv
<1>3. ASSUME Fail PROVE ImportInv'
  BY <1>3 DEF Fail, ImportInv, UniqueNames
<1>4. ASSUME BuildOperation PROVE ImportInv'
  <2>1. PICK i \in DOMAIN in.ops \ DOMAIN built :
          \/ Fail
          \/ /\ ~Dangling(in.ops[i].spec, in.ops[i].refs)
             /\ merger' = Resolved(in.ops[i].spec, in.ops[i].refs)
             /\ built' = Put(built, i, Renamed(merger', in.ops[i].spec, in.ops[i].refs))
             /\ in' = in /\ stage' = stage
    BY <1>4 DEF BuildOperation
  <2>2. stage = "operations" /\ Importing(merger, built) /\ in \in Inputs
    BY <1>4 DEF BuildOperation, ImportInv
  <2>3. CASE ~Fail
    <3>1. ~Dangling(in.ops[i].spec, in.ops[i].refs)
      BY <2>1, <2>3
    <3>2. Importing(merger', built')
      BY <2>1, <2>2, <2>3, <3>1, OperationImports
    <3>3. QED
      BY <1>1, <2>1, <2>2, <2>3, <3>2
  <2>4. QED
    BY <1>3, <2>3
<1>5. ASSUME OperationsEnd PROVE ImportInv'
  BY <1>1, <1>5 DEF OperationsEnd, ImportInv
<1>6. ASSUME Drain PROVE ImportInv'
  <2> DEFINE key == Head(merger.queue)
             mm == Resolved(key.spec, Source(key).refs)
  <2>1. stage = "drain" /\ Importing(merger, built) /\ in \in Inputs /\ DOMAIN built = DOMAIN in.ops
    BY <1>6 DEF Drain, ImportInv
  <2>2. CASE ~Fail
    <3> DEFINE comps == Put(mm.comps, mm.imported[key], Copy(mm, key))
               r == [imported |-> mm.imported, comps |-> comps, queue |-> Tail(mm.queue)]
    <3>0. /\ merger.queue # <<>> /\ ~Dangling(key.spec, Source(key).refs) /\ merger' = r
          /\ in' = in /\ stage' = stage /\ built' = built
      BY <1>6, <2>2, Zenon DEF Drain
    <3>1. /\ merger'.imported = mm.imported
          /\ merger'.comps = Put(mm.comps, mm.imported[key], Copy(mm, key))
          /\ merger'.queue = Tail(mm.queue)
      <4> HIDE DEF comps, mm, key
      <4>1. merger'.imported = mm.imported /\ merger'.comps = comps /\ merger'.queue = Tail(mm.queue)
        BY <3>0
      <4>2. QED
        BY <4>1 DEF comps
    <3>2. /\ Importing(mm, built) /\ mm.queue # <<>> /\ Head(mm.queue) = key
          /\ \A j \in DOMAIN Source(key).refs : Key(key.spec, Source(key).refs[j]) \in DOMAIN mm.imported
      BY <2>1, <3>0, DrainImports
    <3> HIDE DEF key, mm, comps, r
    <3>3. Importing(merger', built)
      BY <3>1, <3>2, CopyImports
    <3>4. QED
      BY <1>1, <2>1, <3>0, <3>3
  <2>3. QED
    BY <1>3, <2>2
<1>7. ASSUME DrainEnds PROVE ImportInv'
  <2>1. /\ stage = "drain" /\ merger.queue = <<>> /\ Importing(merger, built) /\ DOMAIN built = DOMAIN in.ops
        /\ in' = in /\ merger' = merger /\ stage' = "dedupe"
    BY <1>7 DEF DrainEnds, ImportInv
  <2>2. \A k : ~Queued(merger, k)
    BY <2>1 DEF Queued
  <2>3. Closed(DOMAIN merger.imported)
    BY <2>1, <2>2 DEF Importing, Copied, Closed
  <2>4. Roots \subseteq DOMAIN merger.imported
    BY <2>1 DEF Importing, OperationOK, Roots
  <2>5. Imported
    BY <2>1, <2>3, <2>4 DEF Imported, Importing, MergerOK
  <2>6. QED
    BY <1>2, <2>1, <2>5
<1>8. ASSUME Collapse \/ Assembled PROVE ImportInv'
  <2>1. in' = in /\ merger'.imported = merger.imported /\ stage = "dedupe" /\ stage' \in {"dedupe", "done"}
    <3>1. CASE Collapse
      <4>1. PICK g, keep :
              LET target == Capitalise(merger.comps[keep].base) IN
              IF target \in DOMAIN merger.comps THEN UNCHANGED <<merger, aliases>>
              ELSE merger' = [imported |-> merger.imported,
                         comps    |-> Put([p \in DOMAIN merger.comps \ g |-> merger.comps[p]], target, merger.comps[keep]),
                         queue    |-> merger.queue]
        BY <3>1 DEF Collapse
      <4>2. merger'.imported = merger.imported
        BY <4>1
      <4>3. QED
        BY <3>1, <4>2 DEF Collapse
    <3>2. CASE Assembled
      BY <3>2 DEF Assembled
    <3>3. QED
      BY <1>8, <3>1, <3>2
  <2>2. QED
    BY <1>2, <2>1 DEF ImportInv
<1>9. CASE UNCHANGED mergeVars
  <2>1. in' = in /\ merger' = merger /\ built' = built /\ stage' = stage
    BY <1>9 DEF mergeVars
  <2>2. CASE stage \in {"operations", "drain"}
    BY <1>1, <2>1, <2>2 DEF ImportInv
  <2>3. CASE stage \in {"dedupe", "done"}
    BY <1>2, <2>1, <2>3 DEF ImportInv
  <2>4. CASE stage \notin {"operations", "drain", "dedupe", "done"}
    BY <2>1, <2>4 DEF ImportInv, UniqueNames
  <2>5. QED
    BY <2>2, <2>3, <2>4
<1>10. QED
  BY <1>4, <1>5, <1>6, <1>7, <1>8, <1>9 DEF MergeNext

\* The import invariant always holds.
LEMMA ImportInvariant == MergeSpec => []ImportInv
BY ImportInit, ImportStep, PTL DEF MergeSpec

\* The merge imports exactly what the operations reach, each component under a name of
\* its own, for any specs and operations.
THEOREM NeededIsImported == MergeSpec => []ImportsWhatIsNeeded
<1>1. ImportInv => ImportsWhatIsNeeded
  <2> SUFFICES ASSUME ImportInv PROVE ImportsWhatIsNeeded
    OBVIOUS
  <2>1. ASSUME Imported PROVE DOMAIN merger.imported = Needed
    <3>1. DOMAIN merger.imported \subseteq Needed
      BY <2>1 DEF Imported, NothingMore, Needed
    <3>2. Needed \subseteq DOMAIN merger.imported
      BY <2>1 DEF Imported, Needed
    <3>3. QED
      BY <3>1, <3>2
  <2>2. QED
    BY <2>1 DEF ImportInv, UniqueNames, ImportsWhatIsNeeded
<1>2. QED
  BY <1>1, ImportInvariant, PTL

-----------------------------------------------------------------------------
(* The merge: fingerprints. *)

Ways(D) == Seq(D) \ {<<>>}
EndOf(path) == path[Len(path)]

\* Where the component at the end of a path is met first.
FirstMet(path) == Min({i \in DOMAIN path : path[i] = EndOf(path)})

HashTo(D, f, path, q) == IF q \in D THEN f[Append(path, q)] ELSE [kind |-> "missing", cycle |-> 0, refs |-> q]

\* One call of hashComponent, where f are the calls it makes.
HashCall(D, f, path) ==
  IF Len(path) - FirstMet(path) > 0
  THEN [kind |-> "cycle", cycle |-> Len(path) - FirstMet(path), refs |-> <<>>]
  ELSE [kind |-> merger.comps[EndOf(path)].node.kind, cycle |-> 0,
        refs |-> [i \in DOMAIN merger.comps[EndOf(path)].node.refs |->
                    [to   |-> HashTo(D, f, path, merger.comps[EndOf(path)].node.refs[i].name),
                     tail |-> merger.comps[EndOf(path)].node.refs[i].tail]]]

\* All its calls.
IsHash(D, f) == f = [path \in Ways(D) |-> HashCall(D, f, path)]

\* Where the end of a path was met first is a place on it.
LEMMA FirstIsFirst ==
  ASSUME NEW D, NEW path \in Ways(D)
  PROVE  /\ Len(path) \in Nat \ {0} /\ DOMAIN path = 1..Len(path)
         /\ FirstMet(path) \in 1..Len(path)
         /\ path[FirstMet(path)] = EndOf(path)
         /\ \A i \in 1..Len(path) : path[i] = EndOf(path) => FirstMet(path) <= i
<1> DEFINE T == {i \in DOMAIN path : path[i] = EndOf(path)}
<1>1. Len(path) \in Nat \ {0} /\ DOMAIN path = 1..Len(path)
  BY DEF Ways
<1>2. Len(path) \in T
  BY <1>1 DEF EndOf
<1>3. T \subseteq Nat
  BY <1>1
<1>4. Min(T) \in T /\ \A y \in T : Min(T) <= y
  BY <1>2, <1>3, FirstNumber
<1>5. QED
  BY <1>1, <1>4 DEF FirstMet

\* What a path has not gone through before its end.
Unseen(D, path) == {p \in D : \A i \in 1..(Len(path) - 1) : path[i] # p}

\* A path that goes on to a new component leaves fewer that are new.
LEMMA UnseenShrinks ==
  ASSUME NEW D, IsFiniteSet(D), NEW path \in Ways(D), Len(path) - FirstMet(path) <= 0, NEW q \in D
  PROVE  /\ Append(path, q) \in Ways(D)
         /\ Cardinality(Unseen(D, Append(path, q))) = Cardinality(Unseen(D, path)) - 1
<1> DEFINE p == EndOf(path)
           t == Append(path, q)
<1>1. Len(path) \in Nat \ {0} /\ path \in Seq(D) /\ p \in D
  BY FirstIsFirst DEF Ways, EndOf
<1>2. /\ t \in Ways(D) /\ Len(t) = Len(path) + 1
      /\ \A i \in 1..Len(path) : t[i] = path[i]
  BY <1>1 DEF Ways
<1>3. p \in Unseen(D, path)
  BY <1>1, FirstIsFirst DEF Unseen
<1>4. Unseen(D, t) = Unseen(D, path) \ {p}
  <2>1. 1..(Len(t) - 1) = 1..(Len(path) - 1) \cup {Len(path)}
    BY <1>1, <1>2
  <2> HIDE DEF t
  <2>2. QED
    BY <1>1, <1>2, <2>1 DEF Unseen, EndOf
<1>5. IsFiniteSet(Unseen(D, path))
  BY FS_Subset DEF Unseen
<1> HIDE DEF t, p
<1>6. Cardinality(Unseen(D, t)) = Cardinality(Unseen(D, path)) - 1
  BY <1>3, <1>4, <1>5, FS_RemoveElement
<1>7. QED
  BY <1>2, <1>6 DEF t

\* One call of canonical depends only on the calls it makes.
LEMMA HashCallSame ==
  ASSUME NEW D, NEW path, NEW f, NEW g,
         Len(path) - FirstMet(path) > 0 \/ \A q \in D : f[Append(path, q)] = g[Append(path, q)]
  PROVE  HashCall(D, f, path) = HashCall(D, g, path)
<1>1. CASE Len(path) - FirstMet(path) > 0
  BY <1>1 DEF HashCall
<1>2. CASE \A q \in D : f[Append(path, q)] = g[Append(path, q)]
  <2>1. \A q : HashTo(D, f, path, q) = HashTo(D, g, path, q)
    BY <1>2 DEF HashTo
  <2>2. QED
    BY <2>1 DEF HashCall
<1>3. QED
  BY <1>1, <1>2

\* The recursion of hashComponent is well founded: a path that comes back to one of its
\* components ends, and there are finitely many.
LEMMA HashExists ==
  ASSUME NEW D, IsFiniteSet(D)
  PROVE  \E f : f = [path \in Ways(D) |-> HashCall(D, f, path)]
<1> DEFINE rank(path) == Cardinality(Unseen(D, path))
           Layer(j) == {path \in Ways(D) : rank(path) < j}
           Solves(f, j) == f = [path \in Layer(j) |-> HashCall(D, f, path)]
           N == Cardinality(D) + 1
           B == {j \in 0..N : ~ \E f : Solves(f, j)}
<1>1. N \in Nat
  BY FS_CardinalityType
<1>2. \A path : rank(path) \in Nat /\ rank(path) < N
  <2>1. \A path : Unseen(D, path) \in SUBSET D
    BY DEF Unseen
  <2>2. \A path : IsFiniteSet(Unseen(D, path)) /\ Cardinality(Unseen(D, path)) <= Cardinality(D)
    BY <2>1, FS_Subset
  <2>3. \A path : Cardinality(Unseen(D, path)) \in Nat
    BY <2>2, FS_CardinalityType
  <2>4. Cardinality(D) \in Nat
    BY FS_CardinalityType
  <2>5. QED
    BY <2>2, <2>3, <2>4
<1> HIDE DEF N
<1>3. B = {}
  <2> SUFFICES ASSUME B # {} PROVE FALSE
    OBVIOUS
  <2>1. PICK j \in B : \A k \in B : j <= k
    <3>1. B \subseteq Nat
      BY <1>1
    <3> HIDE DEF B
    <3>2. QED
      BY <3>1, LeastNatural
  <2>2. CASE j = 0
    <3>1. Layer(0) = {}
      BY <1>2
    <3>2. Solves([path \in {} |-> 0], 0)
      <4> HIDE DEF Layer
      <4>1. QED
        BY <3>1
    <3> HIDE DEF Solves
    <3>3. QED
      BY <2>1, <2>2, <3>2
  <2>3. CASE j # 0
    <3>1. j - 1 \in 0..N /\ j - 1 \notin B /\ j \in Nat
      <4>1. j \in 0..N
        OBVIOUS
      <4> HIDE DEF B
      <4>2. QED
        BY <1>1, <2>1, <2>3, <4>1
    <3>2. PICK f : Solves(f, j - 1)
      BY <3>1
    <3> DEFINE g == [path \in Layer(j) |-> HashCall(D, f, path)]
    <3>3. Layer(j - 1) \subseteq Layer(j)
      BY <1>2, <3>1
    <3>4. ASSUME NEW path \in Layer(j) PROVE HashCall(D, g, path) = HashCall(D, f, path)
      <4>1. path \in Ways(D) /\ rank(path) < j
        OBVIOUS
      <4>2. Len(path) - FirstMet(path) \in Int
        BY <4>1, FirstIsFirst
      <4>3. CASE Len(path) - FirstMet(path) > 0
        BY <4>3, HashCallSame
      <4>4. CASE Len(path) - FirstMet(path) <= 0
        <5>1. ASSUME NEW q \in D PROVE g[Append(path, q)] = f[Append(path, q)]
          <6>1. Append(path, q) \in Ways(D) /\ rank(Append(path, q)) = rank(path) - 1
            BY <4>1, <4>4, UnseenShrinks
          <6>2. Append(path, q) \in Layer(j - 1)
            BY <1>2, <3>1, <4>1, <6>1
          <6> HIDE DEF Layer
          <6>3. QED
            BY <3>2, <3>3, <6>2
        <5> HIDE DEF g
        <5>2. QED
          BY <5>1, HashCallSame
      <4>5. QED
        BY <4>2, <4>3, <4>4
    <3>5. Solves(g, j)
      <4> HIDE DEF Layer
      <4>1. QED
        BY <3>4
    <3> HIDE DEF Solves, g
    <3>6. QED
      BY <2>1, <3>5
  <2>4. QED
    BY <2>2, <2>3
<1>4. Layer(N) = Ways(D)
  BY <1>2
<1>5. \E f : Solves(f, N)
  BY <1>1, <1>3
<1> HIDE DEF Layer
<1>6. QED
  BY <1>4, <1>5

\* The fingerprints satisfy canonical's recursion.
LEMMA HashSolves ==
  ASSUME IsFiniteSet(DOMAIN merger.comps), \A p \in DOMAIN merger.comps : merger.comps[p].node # NoNode
  PROVE  \E f : /\ IsHash(DOMAIN merger.comps, f)
                /\ \A p : Hash(p) = f[<<p>>]
<1> DEFINE D == {p \in DOMAIN merger.comps : merger.comps[p].node # NoNode}
           call(f, path) ==
             LET p     == path[Len(path)]
                 refs  == merger.comps[p].node.refs
                 up    == Len(path) - Min({i \in DOMAIN path : path[i] = p})
                 to(q) == IF q \in D THEN f[Append(path, q)]
                          ELSE [kind |-> "missing", cycle |-> 0, refs |-> q]
             IN  IF up > 0
                 THEN [kind |-> "cycle", cycle |-> up, refs |-> <<>>]
                 ELSE [kind |-> merger.comps[p].node.kind, cycle |-> 0,
                       refs |-> [i \in DOMAIN refs |-> [to |-> to(refs[i].name), tail |-> refs[i].tail]]]
           Solves(f) == f = [path \in Ways(D) |-> HashCall(D, f, path)]
<1>1. \A f, path : call(f, path) = HashCall(D, f, path)
  BY DEF HashCall, HashTo, FirstMet, EndOf
<1>2. \A p : Hash(p) = (CHOOSE f : f = [path \in Seq(D) \ {<<>>} |-> call(f, path)])[<<p>>]
  BY DEF Hash
<1>3. D = DOMAIN merger.comps
  OBVIOUS
<1> HIDE DEF call, D
<1>4. \A f : [path \in Seq(D) \ {<<>>} |-> call(f, path)] = [path \in Ways(D) |-> HashCall(D, f, path)]
  BY <1>1 DEF Ways
<1>5. \A p : Hash(p) = (CHOOSE f : Solves(f))[<<p>>]
  BY <1>2, <1>4
<1>6. \E f : Solves(f)
  BY <1>3, HashExists
<1>7. Solves(CHOOSE f : Solves(f))
  <2> HIDE DEF Solves
  <2>1. QED
    BY <1>6
<1>8. QED
  BY <1>3, <1>5, <1>7 DEF IsHash

Prefix(path, n) == [i \in 1..n |-> path[i]]

\* A path and what it goes on to.
LEMMA PrefixFacts ==
  ASSUME NEW D, NEW path \in Ways(D)
  PROVE  /\ Prefix(path, Len(path)) = path
         /\ \A n \in 1..Len(path) :
              /\ Prefix(path, n) \in Ways(D) /\ Len(Prefix(path, n)) = n
              /\ \A i \in 1..n : Prefix(path, n)[i] = path[i] /\ Prefix(Prefix(path, n), i) = Prefix(path, i)
         /\ \A q \in D : /\ Append(path, q) \in Ways(D) /\ Len(Append(path, q)) = Len(path) + 1
                         /\ EndOf(Append(path, q)) = q
                         /\ \A n \in 1..Len(path) : Prefix(Append(path, q), n) = Prefix(path, n)
<1>1. path \in Seq(D) /\ Len(path) \in Nat \ {0}
  BY DEF Ways
<1>2. Prefix(path, Len(path)) = path
  BY <1>1 DEF Prefix
<1>3. ASSUME NEW n \in 1..Len(path)
      PROVE  /\ Prefix(path, n) \in Ways(D) /\ Len(Prefix(path, n)) = n
             /\ \A i \in 1..n : Prefix(path, n)[i] = path[i] /\ Prefix(Prefix(path, n), i) = Prefix(path, i)
  <2>1. \A i \in 1..n : path[i] \in D
    BY <1>1
  <2>2. n \in Nat \ {0}
    BY <1>1
  <2>3. Prefix(path, n) \in Seq(D) /\ Len(Prefix(path, n)) = n
    BY <2>1, <2>2 DEF Prefix
  <2>4. Prefix(path, n) # <<>>
    BY <2>2, <2>3
  <2>5. \A i \in 1..n : Prefix(path, n)[i] = path[i]
    BY DEF Prefix
  <2>6. ASSUME NEW i \in 1..n PROVE Prefix(Prefix(path, n), i) = Prefix(path, i)
    BY <2>2, <2>5 DEF Prefix
  <2>7. QED
    BY <2>3, <2>4, <2>5, <2>6 DEF Ways
<1>4. ASSUME NEW q \in D
      PROVE  /\ Append(path, q) \in Ways(D) /\ Len(Append(path, q)) = Len(path) + 1
             /\ EndOf(Append(path, q)) = q
             /\ \A n \in 1..Len(path) : Prefix(Append(path, q), n) = Prefix(path, n)
  <2>1. /\ Append(path, q) \in Seq(D) /\ Len(Append(path, q)) = Len(path) + 1
        /\ Append(path, q)[Len(path) + 1] = q
        /\ \A i \in 1..Len(path) : Append(path, q)[i] = path[i]
    BY <1>1
  <2>2. Append(path, q) # <<>>
    BY <1>1, <2>1
  <2>3. ASSUME NEW n \in 1..Len(path) PROVE Prefix(Append(path, q), n) = Prefix(path, n)
    BY <1>1, <2>1 DEF Prefix
  <2>4. QED
    BY <2>1, <2>2, <2>3 DEF Ways, EndOf
<1>5. QED
  BY <1>2, <1>3, <1>4

\* Two ways down from two components that look the same at every step.
SameWay(f, s, t) ==
  /\ Len(s) = Len(t)
  /\ \A n \in 1..Len(s) : f[Prefix(s, n)] = f[Prefix(t, n)]

\* Where the ends of both are met first.
LEMMA SameWayFirst ==
  ASSUME NEW D, NEW f, IsHash(D, f),
         NEW s \in Ways(D), NEW t \in Ways(D), SameWay(f, s, t)
  PROVE  \E u, v \in Ways(D) :
           /\ SameWay(f, u, v) /\ EndOf(u) = EndOf(s) /\ EndOf(v) = EndOf(t)
           /\ Len(u) - FirstMet(u) = 0 /\ Len(v) - FirstMet(v) = 0
<1> DEFINE j == FirstMet(s)
           u == Prefix(s, j)
           v == Prefix(t, j)
<1>1. ASSUME NEW path \in Ways(D) PROVE f[path].cycle = Len(path) - FirstMet(path)
  <2>1. f[path] = HashCall(D, f, path)
    BY DEF IsHash
  <2>2. HashCall(D, f, path).cycle = IF Len(path) - FirstMet(path) > 0 THEN Len(path) - FirstMet(path) ELSE 0
    BY DEF HashCall
  <2>3. Len(path) \in Nat /\ FirstMet(path) \in Nat /\ FirstMet(path) <= Len(path)
    BY FirstIsFirst
  <2>4. QED
    BY <2>1, <2>2, <2>3
<1>2. f[s] = f[t] /\ Len(s) = Len(t) /\ Len(s) \in Nat \ {0}
  <2>1. Prefix(s, Len(s)) = s /\ Prefix(t, Len(t)) = t
    BY PrefixFacts
  <2>2. Len(s) \in Nat \ {0} /\ Len(s) = Len(t)
    BY FirstIsFirst DEF SameWay
  <2>3. Len(s) \in 1..Len(s)
    BY <2>2
  <2>4. f[Prefix(s, Len(s))] = f[Prefix(t, Len(s))]
    BY <2>3 DEF SameWay
  <2>5. QED
    BY <2>1, <2>2, <2>4
<1>3. Len(s) - FirstMet(s) = Len(t) - FirstMet(t)
  BY <1>1, <1>2
<1>4. j = FirstMet(t) /\ j \in 1..Len(s) /\ j \in 1..Len(t) /\ j \in Nat
  BY <1>2, <1>3, FirstIsFirst
<1>5. ASSUME NEW path \in Ways(D), FirstMet(path) = j
      PROVE  /\ Prefix(path, j) \in Ways(D) /\ Len(Prefix(path, j)) = j
             /\ EndOf(Prefix(path, j)) = EndOf(path)
             /\ Len(Prefix(path, j)) - FirstMet(Prefix(path, j)) = 0
  <2> DEFINE w == Prefix(path, j)
  <2>1. j \in 1..Len(path) /\ path[j] = EndOf(path) /\ \A i \in 1..Len(path) : path[i] = EndOf(path) => j <= i
    BY <1>5, FirstIsFirst
  <2> HIDE DEF j
  <2>2. w \in Ways(D) /\ Len(w) = j /\ \A i \in 1..j : w[i] = path[i]
    BY <2>1, PrefixFacts
  <2> HIDE DEF w
  <2>3. EndOf(w) = EndOf(path)
    BY <1>4, <2>1, <2>2 DEF EndOf
  <2>4. FirstMet(w) \in 1..j /\ w[FirstMet(w)] = EndOf(w)
    BY <2>2, FirstIsFirst
  <2>5. FirstMet(w) = j
    <3>1. FirstMet(w) \in 1..Len(path)
      BY <1>4, <2>1, <2>4, FirstIsFirst
    <3>2. QED
      BY <1>4, <2>1, <2>2, <2>3, <2>4, <3>1
  <2>6. QED
    BY <1>4, <2>2, <2>3, <2>5 DEF w
<1>6. SameWay(f, u, v)
  <2>1. Len(u) = j /\ Len(v) = j
    BY <1>4, <1>5
  <2>2. \A n \in 1..j : Prefix(u, n) = Prefix(s, n) /\ Prefix(v, n) = Prefix(t, n)
    BY <1>4, PrefixFacts
  <2>3. \A n \in 1..j : f[Prefix(s, n)] = f[Prefix(t, n)]
    BY <1>2, <1>4 DEF SameWay
  <2> HIDE DEF u, v, j
  <2>4. QED
    BY <2>1, <2>2, <2>3 DEF SameWay
<1>7. QED
  BY <1>4, <1>5, <1>6

\* A relation between components of the specs, of one backend or of two, that nothing
\* tells apart: not what they hold, and not what they refer to.
IsBisimulation(R) ==
  \A k, l : <<k, l>> \in R =>
    /\ Source(k).kind = Source(l).kind
    /\ DOMAIN Source(k).refs = DOMAIN Source(l).refs
    /\ \A i \in DOMAIN Source(k).refs :
         /\ Source(k).refs[i].tail = Source(l).refs[i].tail
         /\ <<Key(k.spec, Source(k).refs[i]), Key(l.spec, Source(l).refs[i])>> \in R

Bisimilar(k, l) ==
  \E R \in SUBSET (Keys(in) \X Keys(in)) : IsBisimulation(R) /\ <<k, l>> \in R

\* What a copied component is.
LEMMA CopyFields ==
  ASSUME NEW mm, NEW k
  PROVE  /\ Copy(mm, k).base = k.name
         /\ Copy(mm, k).node.kind = Source(k).kind
         /\ DOMAIN Copy(mm, k).node.refs = DOMAIN Source(k).refs
         /\ \A i \in DOMAIN Source(k).refs :
              /\ Copy(mm, k).node.refs[i].name = mm.imported[Key(k.spec, Source(k).refs[i])]
              /\ Copy(mm, k).node.refs[i].tail = Source(k).refs[i].tail
BY DEF Copy, Renamed

\* What one call of canonical returns for a new component and for a cycle.
LEMMA HashCallFields ==
  ASSUME NEW D, NEW f, NEW path, Len(path) - FirstMet(path) = 0
  PROVE  /\ HashCall(D, f, path).kind = merger.comps[EndOf(path)].node.kind
         /\ DOMAIN HashCall(D, f, path).refs = DOMAIN merger.comps[EndOf(path)].node.refs
         /\ \A i \in DOMAIN merger.comps[EndOf(path)].node.refs :
              /\ HashCall(D, f, path).refs[i].tail = merger.comps[EndOf(path)].node.refs[i].tail
              /\ HashCall(D, f, path).refs[i].to = HashTo(D, f, path, merger.comps[EndOf(path)].node.refs[i].name)
BY DEF HashCall

\* The fingerprint of a path that ends at the copy of a source component.
LEMMA HashOfCopy ==
  ASSUME NEW f, IsHash(DOMAIN merger.comps, f),
         MergerOK(merger), NEW k \in DOMAIN merger.imported, Copied(merger, k),
         NEW s \in Ways(DOMAIN merger.comps), EndOf(s) = merger.imported[k], Len(s) - FirstMet(s) = 0
  PROVE  /\ f[s].kind = Source(k).kind
         /\ DOMAIN f[s].refs = DOMAIN Source(k).refs
         /\ \A i \in DOMAIN Source(k).refs :
              /\ f[s].refs[i].tail = Source(k).refs[i].tail
              /\ f[s].refs[i].to = f[Append(s, merger.imported[Key(k.spec, Source(k).refs[i])])]
              /\ merger.imported[Key(k.spec, Source(k).refs[i])] \in DOMAIN merger.comps
<1> DEFINE D == DOMAIN merger.comps
           node == merger.comps[EndOf(s)].node
           h == HashCall(D, f, s)
<1>1. f[s] = h
  BY DEF IsHash
<1>2. /\ h.kind = node.kind /\ DOMAIN h.refs = DOMAIN node.refs
      /\ \A i \in DOMAIN node.refs : /\ h.refs[i].tail = node.refs[i].tail
                                     /\ h.refs[i].to = HashTo(D, f, s, node.refs[i].name)
  BY HashCallFields
<1>3. merger.comps[EndOf(s)] = Copy(merger, k)
  BY DEF Copied
<1>4. /\ node.kind = Source(k).kind /\ DOMAIN node.refs = DOMAIN Source(k).refs
      /\ \A i \in DOMAIN Source(k).refs :
           /\ node.refs[i].name = merger.imported[Key(k.spec, Source(k).refs[i])]
           /\ node.refs[i].tail = Source(k).refs[i].tail
  BY <1>3, CopyFields
<1>5. \A i \in DOMAIN Source(k).refs : merger.imported[Key(k.spec, Source(k).refs[i])] \in D
  BY DEF MergerOK, Copied
<1> HIDE DEF node, h
<1>6. \A i \in DOMAIN Source(k).refs :
        h.refs[i].to = f[Append(s, merger.imported[Key(k.spec, Source(k).refs[i])])]
  <2> SUFFICES ASSUME NEW i \in DOMAIN Source(k).refs
               PROVE  h.refs[i].to = f[Append(s, merger.imported[Key(k.spec, Source(k).refs[i])])]
    OBVIOUS
  <2> DEFINE q == merger.imported[Key(k.spec, Source(k).refs[i])]
  <2>1. h.refs[i].to = HashTo(D, f, s, q) /\ q \in D
    BY <1>2, <1>4, <1>5
  <2> HIDE DEF q, D
  <2>2. HashTo(D, f, s, q) = f[Append(s, q)]
    BY <2>1 DEF HashTo
  <2>3. QED
    BY <2>1, <2>2 DEF q
<1>7. /\ h.kind = Source(k).kind /\ DOMAIN h.refs = DOMAIN Source(k).refs
      /\ \A i \in DOMAIN Source(k).refs : h.refs[i].tail = Source(k).refs[i].tail
  BY <1>2, <1>4
<1>8. QED
  BY <1>1, <1>5, <1>6, <1>7

\* One step further both ways.
LEMMA SameWayOn ==
  ASSUME NEW D, NEW f, NEW s \in Ways(D), NEW t \in Ways(D), SameWay(f, s, t),
         NEW p \in D, NEW q \in D, f[Append(s, p)] = f[Append(t, q)]
  PROVE  /\ Append(s, p) \in Ways(D) /\ Append(t, q) \in Ways(D)
         /\ EndOf(Append(s, p)) = p /\ EndOf(Append(t, q)) = q
         /\ SameWay(f, Append(s, p), Append(t, q))
<1> DEFINE a == Append(s, p)
           b == Append(t, q)
<1>1. /\ a \in Ways(D) /\ Len(a) = Len(s) + 1 /\ EndOf(a) = p
      /\ \A n \in 1..Len(s) : Prefix(a, n) = Prefix(s, n)
  BY PrefixFacts
<1>2. /\ b \in Ways(D) /\ Len(b) = Len(t) + 1 /\ EndOf(b) = q
      /\ \A n \in 1..Len(t) : Prefix(b, n) = Prefix(t, n)
  BY PrefixFacts
<1>3. Len(s) = Len(t) /\ Len(s) \in Nat
  BY FirstIsFirst DEF SameWay
<1> HIDE DEF a, b
<1>4. Prefix(a, Len(a)) = a /\ Prefix(b, Len(b)) = b
  BY <1>1, <1>2, PrefixFacts
<1>5. ASSUME NEW n \in 1..Len(a) PROVE f[Prefix(a, n)] = f[Prefix(b, n)]
  <2>1. CASE n = Len(a)
    BY <1>1, <1>2, <1>3, <1>4, <2>1 DEF a, b
  <2>2. CASE n # Len(a)
    <3>1. n \in 1..Len(s)
      BY <1>1, <1>3, <2>2
    <3>2. f[Prefix(s, n)] = f[Prefix(t, n)]
      BY <3>1 DEF SameWay
    <3>3. QED
      BY <1>1, <1>2, <1>3, <3>1, <3>2
  <2>3. QED
    BY <2>1, <2>2
<1>6. SameWay(f, a, b)
  BY <1>1, <1>2, <1>3, <1>5 DEF SameWay
<1>7. QED
  BY <1>1, <1>2, <1>6 DEF a, b

\* Once all is copied, equal fingerprints are found only on components that nothing tells
\* apart: a fingerprint that cuts cycles by their distance does not confuse any two.
LEMMA FingerprintsTell ==
  ASSUME in \in Inputs, MergerOK(merger), \A k \in DOMAIN merger.imported : Copied(merger, k),
         NEW k0 \in DOMAIN merger.imported, NEW l0 \in DOMAIN merger.imported,
         Hash(merger.imported[k0]) = Hash(merger.imported[l0])
  PROVE  Bisimilar(k0, l0)
<1> DEFINE D == DOMAIN merger.comps
           I == DOMAIN merger.imported
<1>1. \A k \in I : merger.imported[k] \in D /\ k \in Keys(in)
  BY DEF MergerOK
<1>2. \A p \in D : merger.comps[p].node # NoNode
  <2> SUFFICES ASSUME NEW p \in D PROVE merger.comps[p].node # NoNode
    OBVIOUS
  <2>1. PICK k \in I : p = merger.imported[k]
    BY DEF MergerOK
  <2>2. merger.comps[p] = Copy(merger, k)
    BY <2>1 DEF Copied
  <2>3. Copy(merger, k).node.kind = Source(k).kind
    BY CopyFields
  <2>4. Source(k).kind # NoNode.kind
    BY <1>1, SourceType
  <2>5. QED
    BY <2>2, <2>3, <2>4
<1>3. PICK f : /\ IsHash(D, f)
               /\ \A p : Hash(p) = f[<<p>>]
  BY <1>2, CompsFinite, HashSolves
<1> DEFINE Meet(k, l, s, t) ==
             /\ SameWay(f, s, t)
             /\ EndOf(s) = merger.imported[k] /\ EndOf(t) = merger.imported[l]
             /\ Len(s) - FirstMet(s) = 0 /\ Len(t) - FirstMet(t) = 0
           R == {e \in I \X I : \E s, t \in Ways(D) : Meet(e[1], e[2], s, t)}
<1>4. <<k0, l0>> \in R
  <2> DEFINE s == <<merger.imported[k0]>>
             t == <<merger.imported[l0]>>
  <2>0. merger.imported[k0] \in D /\ merger.imported[l0] \in D
    BY <1>1
  <2>1. s \in Ways(D) /\ t \in Ways(D) /\ Len(s) = 1 /\ Len(t) = 1
    <3> HIDE DEF D
    <3> QED BY <2>0 DEF Ways
  <2>2. EndOf(s) = merger.imported[k0] /\ EndOf(t) = merger.imported[l0] /\ f[s] = f[t]
    BY <1>3 DEF EndOf
  <2> HIDE DEF s, t
  <2>3. Prefix(s, 1) = s /\ Prefix(t, 1) = t
    BY <2>1, PrefixFacts
  <2>4. FirstMet(s) \in 1..1 /\ FirstMet(t) \in 1..1
    BY <2>1, FirstIsFirst
  <2>5. SameWay(f, s, t)
    BY <2>1, <2>2, <2>3 DEF SameWay
  <2>6. Meet(k0, l0, s, t)
    BY <2>1, <2>2, <2>4, <2>5
  <2> HIDE DEF Meet
  <2>7. QED
    BY <2>1, <2>6
<1>5. ASSUME NEW k \in I, NEW l \in I, NEW s \in Ways(D), NEW t \in Ways(D), SameWay(f, s, t),
             EndOf(s) = merger.imported[k], EndOf(t) = merger.imported[l]
      PROVE  <<k, l>> \in R
  <2>1. PICK u, v \in Ways(D) : Meet(k, l, u, v)
    <3> HIDE DEF D
    <3>1. \E u, v \in Ways(D) :
            /\ SameWay(f, u, v) /\ EndOf(u) = EndOf(s) /\ EndOf(v) = EndOf(t)
            /\ Len(u) - FirstMet(u) = 0 /\ Len(v) - FirstMet(v) = 0
      BY <1>3, <1>5, SameWayFirst
    <3>2. QED
      BY <1>5, <3>1
  <2> HIDE DEF Meet
  <2>2. QED
    BY <2>1
<1>6. ASSUME NEW k, NEW l, <<k, l>> \in R
      PROVE  /\ Source(k).kind = Source(l).kind
             /\ DOMAIN Source(k).refs = DOMAIN Source(l).refs
             /\ \A i \in DOMAIN Source(k).refs :
                  /\ Source(k).refs[i].tail = Source(l).refs[i].tail
                  /\ <<Key(k.spec, Source(k).refs[i]), Key(l.spec, Source(l).refs[i])>> \in R
  <2>1. k \in I /\ l \in I
    BY <1>6
  <2>2. PICK s, t \in Ways(D) : Meet(k, l, s, t)
    <3> HIDE DEF Meet
    <3>1. QED
      BY <1>6
  <2>3. f[s] = f[t]
    <3>1. Prefix(s, Len(s)) = s /\ Prefix(t, Len(t)) = t
      BY PrefixFacts
    <3>2. Len(s) \in 1..Len(s) /\ Len(s) = Len(t)
      BY <2>2, FirstIsFirst DEF SameWay
    <3>3. QED
      BY <2>2, <3>1, <3>2 DEF SameWay
  <2>4. /\ f[s].kind = Source(k).kind
        /\ DOMAIN f[s].refs = DOMAIN Source(k).refs
        /\ \A i \in DOMAIN Source(k).refs :
             /\ f[s].refs[i].tail = Source(k).refs[i].tail
             /\ f[s].refs[i].to = f[Append(s, merger.imported[Key(k.spec, Source(k).refs[i])])]
             /\ merger.imported[Key(k.spec, Source(k).refs[i])] \in D
    BY <1>3, <2>1, <2>2, HashOfCopy
  <2>5. /\ f[t].kind = Source(l).kind
        /\ DOMAIN f[t].refs = DOMAIN Source(l).refs
        /\ \A i \in DOMAIN Source(l).refs :
             /\ f[t].refs[i].tail = Source(l).refs[i].tail
             /\ f[t].refs[i].to = f[Append(t, merger.imported[Key(l.spec, Source(l).refs[i])])]
             /\ merger.imported[Key(l.spec, Source(l).refs[i])] \in D
    BY <1>3, <2>1, <2>2, HashOfCopy
  <2>6. /\ Source(k).kind = Source(l).kind /\ DOMAIN Source(k).refs = DOMAIN Source(l).refs
        /\ \A i \in DOMAIN Source(k).refs : Source(k).refs[i].tail = Source(l).refs[i].tail
    BY <2>3, <2>4, <2>5
  <2>7. ASSUME NEW i \in DOMAIN Source(k).refs
        PROVE  <<Key(k.spec, Source(k).refs[i]), Key(l.spec, Source(l).refs[i])>> \in R
    <3> DEFINE kk == Key(k.spec, Source(k).refs[i])
               ll == Key(l.spec, Source(l).refs[i])
               p == merger.imported[kk]
               q == merger.imported[ll]
    <3>1. kk \in I /\ ll \in I
      BY <2>1, <2>6 DEF Copied
    <3>2. p \in D /\ q \in D /\ f[Append(s, p)] = f[Append(t, q)]
      BY <2>3, <2>4, <2>5, <2>6
    <3> HIDE DEF kk, ll, D, R
    <3>3. /\ Append(s, p) \in Ways(D) /\ Append(t, q) \in Ways(D)
          /\ EndOf(Append(s, p)) = p /\ EndOf(Append(t, q)) = q
          /\ SameWay(f, Append(s, p), Append(t, q))
      BY <2>2, <3>2, SameWayOn
    <3>4. <<kk, ll>> \in R
      BY <1>5, <3>1, <3>3
    <3>5. QED
      BY <3>4 DEF kk, ll
  <2>8. QED
    BY <2>6, <2>7
<1>7. R \in SUBSET (Keys(in) \X Keys(in))
  BY <1>1
<1> HIDE DEF R
<1>8. IsBisimulation(R)
  BY <1>6 DEF IsBisimulation
<1>9. QED
  BY <1>4, <1>7, <1>8 DEF Bisimilar

-----------------------------------------------------------------------------
(* The merge: dedupe. *)

\* A component is like itself.
LEMMA BisimilarReflexive ==
  ASSUME NEW I, I \subseteq Keys(in), Closed(I), NEW k \in I
  PROVE  Bisimilar(k, k)
<1> DEFINE R == {e \in I \X I : e[1] = e[2]}
<1>1. R \in SUBSET (Keys(in) \X Keys(in)) /\ <<k, k>> \in R
  OBVIOUS
<1>2. \A a, b : <<a, b>> \in R <=> a \in I /\ a = b
  OBVIOUS
<1> HIDE DEF R
<1>3. IsBisimulation(R)
  BY <1>2 DEF IsBisimulation, Closed
<1>4. QED
  BY <1>1, <1>3 DEF Bisimilar

\* What is like something that is like a third is like the third.
LEMMA BisimilarTransitive ==
  ASSUME NEW a, NEW b, NEW c, Bisimilar(a, b), Bisimilar(b, c)
  PROVE  Bisimilar(a, c)
<1>1. PICK R \in SUBSET (Keys(in) \X Keys(in)) : IsBisimulation(R) /\ <<a, b>> \in R
  BY DEF Bisimilar
<1>2. PICK Q \in SUBSET (Keys(in) \X Keys(in)) : IsBisimulation(Q) /\ <<b, c>> \in Q
  BY DEF Bisimilar
<1> DEFINE P == {e \in Keys(in) \X Keys(in) : \E x : <<e[1], x>> \in R /\ <<x, e[2]>> \in Q}
<1>3. \A k, l : <<k, l>> \in P <=> \E x : <<k, x>> \in R /\ <<x, l>> \in Q
  OBVIOUS
<1>4. P \in SUBSET (Keys(in) \X Keys(in))
  OBVIOUS
<1> HIDE DEF P
<1>5. IsBisimulation(P)
  <2> SUFFICES ASSUME NEW k, NEW l, <<k, l>> \in P
               PROVE  /\ Source(k).kind = Source(l).kind
                      /\ DOMAIN Source(k).refs = DOMAIN Source(l).refs
                      /\ \A i \in DOMAIN Source(k).refs :
                           /\ Source(k).refs[i].tail = Source(l).refs[i].tail
                           /\ <<Key(k.spec, Source(k).refs[i]), Key(l.spec, Source(l).refs[i])>> \in P
    BY DEF IsBisimulation
  <2>1. PICK x : <<k, x>> \in R /\ <<x, l>> \in Q
    BY <1>3
  <2>2. /\ Source(k).kind = Source(x).kind
        /\ DOMAIN Source(k).refs = DOMAIN Source(x).refs
        /\ \A i \in DOMAIN Source(k).refs :
             /\ Source(k).refs[i].tail = Source(x).refs[i].tail
             /\ <<Key(k.spec, Source(k).refs[i]), Key(x.spec, Source(x).refs[i])>> \in R
    BY <1>1, <2>1 DEF IsBisimulation
  <2>3. /\ Source(x).kind = Source(l).kind
        /\ DOMAIN Source(x).refs = DOMAIN Source(l).refs
        /\ \A i \in DOMAIN Source(x).refs :
             /\ Source(x).refs[i].tail = Source(l).refs[i].tail
             /\ <<Key(x.spec, Source(x).refs[i]), Key(l.spec, Source(l).refs[i])>> \in Q
    BY <1>2, <2>1 DEF IsBisimulation
  <2>4. QED
    BY <1>3, <2>2, <2>3
<1>6. <<a, c>> \in P
  BY <1>1, <1>2, <1>3
<1>7. QED
  BY <1>4, <1>5, <1>6 DEF Bisimilar

\* Components that are alike refer to components that are alike.
LEMMA BisimilarFollows ==
  ASSUME NEW k, NEW l, Bisimilar(k, l)
  PROVE  /\ Source(k).kind = Source(l).kind
         /\ DOMAIN Source(k).refs = DOMAIN Source(l).refs
         /\ \A i \in DOMAIN Source(k).refs :
              /\ Source(k).refs[i].tail = Source(l).refs[i].tail
              /\ Bisimilar(Key(k.spec, Source(k).refs[i]), Key(l.spec, Source(l).refs[i]))
<1>1. PICK R \in SUBSET (Keys(in) \X Keys(in)) : IsBisimulation(R) /\ <<k, l>> \in R
  BY DEF Bisimilar
<1>2. /\ Source(k).kind = Source(l).kind
      /\ DOMAIN Source(k).refs = DOMAIN Source(l).refs
      /\ \A i \in DOMAIN Source(k).refs :
           /\ Source(k).refs[i].tail = Source(l).refs[i].tail
           /\ <<Key(k.spec, Source(k).refs[i]), Key(l.spec, Source(l).refs[i])>> \in R
  BY <1>1 DEF IsBisimulation
<1>3. QED
  BY <1>1, <1>2 DEF Bisimilar

\* A group that dedupe has not come to: all the components of one base name, that
\* nothing tells apart, still in their places.
GroupOK(g) ==
  /\ g \cap DOMAIN aliases = {}
  /\ \A p \in g : \E k \in DOMAIN merger.imported : p = merger.imported[k]
  /\ \A k, l \in DOMAIN merger.imported : merger.imported[k] \in g =>
       /\ k.name = l.name => merger.imported[l] \in g
       /\ merger.imported[l] \in g => k.name = l.name /\ Bisimilar(k, l)
  /\ \A p \in DOMAIN aliases : aliases[p] \notin g

\* What is published for component k is the copy of l.
PublishedAs(k, l, p) == p \in DOMAIN merger.comps /\ Bisimilar(k, l) /\ merger.comps[p] = Copy(merger, l)

\* Every component is in its place, or has given way to one that nothing tells from it.
PlacesOK ==
  \A k \in DOMAIN merger.imported :
    IF merger.imported[k] \in DOMAIN aliases
    THEN \E l \in DOMAIN merger.imported : PublishedAs(k, l, aliases[merger.imported[k]])
    ELSE PublishedAs(k, k, merger.imported[k])

\* A base name is given up by all or none.
Agreed ==
  \A k, l \in DOMAIN merger.imported :
    k.name = l.name /\ merger.imported[k] \in DOMAIN aliases =>
      merger.imported[l] \in DOMAIN aliases /\ aliases[merger.imported[l]] = aliases[merger.imported[k]]

OperationsOK ==
  /\ DOMAIN built = DOMAIN in.ops
  /\ \A i \in DOMAIN in.ops : built[i] = Renamed(merger, in.ops[i].spec, in.ops[i].refs)

\* After the references have been rewritten.
RewrittenOK ==
  /\ \A k \in DOMAIN merger.imported :
       IF merger.imported[k] \in DOMAIN aliases
       THEN \E l \in DOMAIN merger.imported :
              /\ aliases[merger.imported[k]] \in DOMAIN merger.comps /\ Bisimilar(k, l)
              /\ merger.comps[aliases[merger.imported[k]]] = Rewritten(Copy(merger, l))
       ELSE /\ merger.imported[k] \in DOMAIN merger.comps
            /\ merger.comps[merger.imported[k]] = Rewritten(Copy(merger, k))
  /\ \A i \in DOMAIN in.ops : built[i] = Aliased(Renamed(merger, in.ops[i].spec, in.ops[i].refs))

DedupeInv ==
  /\ stage \in {"operations", "drain"} => DOMAIN aliases = {}
  /\ stage = "dedupe" => PlacesOK /\ OperationsOK /\ \A g \in groups : GroupOK(g)
  /\ stage = "done" => RewrittenOK
  /\ stage \in {"dedupe", "done"} => Agreed

\* The groups that dedupe starts with.
LEMMA GroupsStart ==
  ASSUME in \in Inputs, MergerOK(merger), \A k \in DOMAIN merger.imported : Copied(merger, k),
         DOMAIN aliases = {}, NEW g \in Groups
  PROVE  GroupOK(g)
<1> DEFINE D == DOMAIN merger.comps
           I == DOMAIN merger.imported
           hash == [p \in D |-> Hash(p)]
<1>1. PICK p0 \in D : g = {q \in OfBase(merger.comps[p0].base) : hash[q] = hash[p0]} /\ Uncontested(g)
  BY DEF Groups
<1>2. \A q : q \in g <=> q \in OfBase(merger.comps[p0].base) /\ hash[q] = hash[p0]
  BY <1>1
<1>3. \A q \in g : q \in D /\ merger.comps[q].base = merger.comps[p0].base /\ Hash(q) = Hash(p0)
  BY <1>2 DEF OfBase
<1> HIDE DEF hash
<1>4. \A q \in g : g = OfBase(merger.comps[q].base)
  BY <1>1 DEF Uncontested
<1>5. \A p \in g : \E k \in I : p = merger.imported[k]
  BY <1>3 DEF MergerOK
<1>6. \A k \in I : merger.imported[k] \in D /\ merger.comps[merger.imported[k]].base = k.name
  BY DEF MergerOK
<1>7. ASSUME NEW k \in I, NEW l \in I, merger.imported[k] \in g
      PROVE  /\ k.name = l.name => merger.imported[l] \in g
             /\ merger.imported[l] \in g => k.name = l.name /\ Bisimilar(k, l)
  <2>1. ASSUME k.name = l.name PROVE merger.imported[l] \in g
    BY <1>4, <1>6, <1>7, <2>1 DEF OfBase
  <2>2. ASSUME merger.imported[l] \in g PROVE k.name = l.name /\ Bisimilar(k, l)
    <3>1. k.name = l.name /\ Hash(merger.imported[k]) = Hash(merger.imported[l])
      BY <1>3, <1>6, <1>7, <2>2
    <3>2. QED
      BY <3>1, FingerprintsTell
  <2>3. QED
    BY <2>1, <2>2
<1>8. QED
  BY <1>5, <1>7 DEF GroupOK

\* Dedupe's groups and places depend on what was imported, which no longer changes.
LEMMA SameNames ==
  ASSUME in' = in, merger'.imported = merger.imported
  PROVE  /\ \A k : Copy(merger, k)' = Copy(merger, k)
         /\ \A k, l : Bisimilar(k, l)' <=> Bisimilar(k, l)
         /\ \A spec, refs : Renamed(merger, spec, refs)' = Renamed(merger, spec, refs)
<1>1. \A k : Source(k)' = Source(k)
  BY DEF Source
<1>2. \A spec, refs : Renamed(merger, spec, refs)' = Renamed(merger, spec, refs)
  BY DEF Renamed
<1>3. \A k : Copy(merger, k)' = Copy(merger, k)
  BY <1>1 DEF Copy, Renamed
<1>4. \A R : IsBisimulation(R)' <=> IsBisimulation(R)
  BY <1>1 DEF IsBisimulation
<1>5. \A k, l : Bisimilar(k, l)' <=> Bisimilar(k, l)
  BY <1>4 DEF Bisimilar
<1>6. QED
  BY <1>2, <1>3, <1>5

\* When the queue is empty, dedupe starts with its invariant.
LEMMA DedupeStarts ==
  ASSUME ImportInv, DedupeInv, DrainEnds
  PROVE  DedupeInv'
<1>1. /\ in \in Inputs /\ Importing(merger, built) /\ DOMAIN built = DOMAIN in.ops /\ merger.queue = <<>>
      /\ DOMAIN aliases = {}
  BY DEF ImportInv, DedupeInv, DrainEnds
<1>2. /\ in' = in /\ merger' = merger /\ built' = built /\ aliases' = aliases /\ stage' = "dedupe"
      /\ groups' = Groups \/ groups' = {}
  BY DEF DrainEnds
<1>3. MergerOK(merger) /\ \A k \in DOMAIN merger.imported : Copied(merger, k)
  BY <1>1 DEF Importing, Queued
<1>4. Closed(DOMAIN merger.imported) /\ DOMAIN merger.imported \subseteq Keys(in)
  BY <1>3 DEF Closed, Copied, MergerOK
<1>5. PlacesOK
  <2> SUFFICES ASSUME NEW k \in DOMAIN merger.imported PROVE PublishedAs(k, k, merger.imported[k])
    BY <1>1 DEF PlacesOK
  <2>1. Bisimilar(k, k)
    BY <1>4, BisimilarReflexive
  <2>2. merger.imported[k] \in DOMAIN merger.comps
    BY <1>3 DEF MergerOK
  <2>3. QED
    BY <1>3, <2>1, <2>2 DEF PublishedAs, Copied
<1>6. OperationsOK
  BY <1>1 DEF OperationsOK, Importing, OperationOK
<1>7. \A g \in groups' : GroupOK(g)
  BY <1>1, <1>2, <1>3, GroupsStart
<1>8. Agreed
  BY <1>1 DEF Agreed
<1>9. PlacesOK' /\ OperationsOK' /\ Agreed' /\ \A g \in groups' : GroupOK(g)'
  <2>1. merger'.imported = merger.imported
    BY <1>2
  <2>2. PlacesOK'
    BY <1>2, <1>5, <2>1, SameNames DEF PlacesOK, PublishedAs
  <2>3. OperationsOK'
    BY <1>2, <1>6, <2>1, SameNames DEF OperationsOK
  <2>4. Agreed'
    BY <1>2, <1>8 DEF Agreed
  <2>5. \A g \in groups' : GroupOK(g)'
    BY <1>2, <1>7, <2>1, SameNames DEF GroupOK
  <2>6. QED
    BY <2>2, <2>3, <2>4, <2>5
<1>10. QED
  BY <1>2, <1>9 DEF DedupeInv

\* Collapsing one group, or leaving it for its name is taken, keeps dedupe's invariant.
LEMMA CollapseStep ==
  ASSUME ImportInv, DedupeInv, Collapse
  PROVE  DedupeInv'
<1> DEFINE I == DOMAIN merger.imported
<1>1. /\ PlacesOK /\ OperationsOK /\ Agreed /\ \A g \in groups : GroupOK(g)
      /\ stage = "dedupe" /\ stage' = "dedupe" /\ in' = in /\ built' = built
  BY DEF DedupeInv, Collapse
<1>0. PICK g \in groups : \E keep \in g :
        /\ groups' = groups \ {g}
        /\ LET target == Capitalise(merger.comps[keep].base) IN
           IF target \in DOMAIN merger.comps THEN UNCHANGED <<merger, aliases>>
           ELSE /\ aliases' = [p \in DOMAIN aliases \cup g |-> IF p \in g THEN target ELSE aliases[p]]
                /\ merger' = [imported |-> merger.imported,
                         comps    |-> Put([p \in DOMAIN merger.comps \ g |-> merger.comps[p]], target, merger.comps[keep]),
                         queue    |-> merger.queue]
  BY DEF Collapse
<1>2. PICK keep \in g :
        /\ groups' = groups \ {g}
        /\ LET target == Capitalise(merger.comps[keep].base) IN
           IF target \in DOMAIN merger.comps THEN UNCHANGED <<merger, aliases>>
           ELSE /\ aliases' = [p \in DOMAIN aliases \cup g |-> IF p \in g THEN target ELSE aliases[p]]
                /\ merger' = [imported |-> merger.imported,
                         comps    |-> Put([p \in DOMAIN merger.comps \ g |-> merger.comps[p]], target, merger.comps[keep]),
                         queue    |-> merger.queue]
  BY <1>0
<1>3. merger'.imported = merger.imported
  BY <1>2
<1>4. /\ \A k : Copy(merger, k)' = Copy(merger, k)
      /\ \A k, l : Bisimilar(k, l)' <=> Bisimilar(k, l)
      /\ \A spec, refs : Renamed(merger, spec, refs)' = Renamed(merger, spec, refs)
  BY <1>1, <1>3, SameNames
<1>5. OperationsOK'
  BY <1>1, <1>4 DEF OperationsOK
<1>6. CASE UNCHANGED <<merger, aliases>>
  <2>1. PlacesOK'
    BY <1>1, <1>4, <1>6 DEF PlacesOK, PublishedAs
  <2>2. \A h \in groups' : GroupOK(h)'
    BY <1>1, <1>2, <1>4, <1>6 DEF GroupOK
  <2>3. Agreed'
    BY <1>1, <1>6 DEF Agreed
  <2>4. QED
    BY <1>1, <1>5, <2>1, <2>2, <2>3 DEF DedupeInv
<1>7. CASE ~UNCHANGED <<merger, aliases>>
  <2> DEFINE target == Capitalise(merger.comps[keep].base)
             rest == [p \in DOMAIN merger.comps \ g |-> merger.comps[p]]
             new == Put(rest, target, merger.comps[keep])
  <2>1. /\ target \notin DOMAIN merger.comps
        /\ aliases' = [p \in DOMAIN aliases \cup g |-> IF p \in g THEN target ELSE aliases[p]]
        /\ merger' = [imported |-> merger.imported, comps |-> new, queue |-> merger.queue]
    BY <1>2, <1>7
  <2>2. merger'.comps = new
    <3> HIDE DEF new
    <3>1. QED
      BY <2>1
  <2>3. /\ DOMAIN new = (DOMAIN merger.comps \ g) \cup {target} /\ new[target] = merger.comps[keep]
        /\ \A p \in DOMAIN merger.comps \ g : new[p] = merger.comps[p]
    BY <2>1 DEF Put
  <2>4. /\ DOMAIN aliases' = DOMAIN aliases \cup g
        /\ \A p \in g : aliases'[p] = target
        /\ \A p \in DOMAIN aliases : p \notin g => aliases'[p] = aliases[p]
    BY <2>1
  <2> HIDE DEF target, new, rest
  <2>5. GroupOK(g)
    BY <1>1
  <2>6. \A p \in DOMAIN aliases : p \notin g /\ aliases[p] \notin g
    BY <2>5 DEF GroupOK
  <2>7. PICK k0 \in I : keep = merger.imported[k0]
    BY <2>5 DEF GroupOK
  <2>8. \A k \in I : merger.imported[k] \in g => PublishedAs(k, k, merger.imported[k])
    BY <1>1, <2>6 DEF PlacesOK
  <2>9. \A p \in g : p \in DOMAIN merger.comps
    <3>1. \A p \in g : \E k \in I : p = merger.imported[k]
      BY <2>5 DEF GroupOK
    <3>2. QED
      BY <2>8, <3>1 DEF PublishedAs
  <2>10. PlacesOK'
    <3> SUFFICES ASSUME NEW k \in I
                 PROVE  IF merger.imported[k] \in DOMAIN aliases'
                        THEN \E l \in I : PublishedAs(k, l, aliases[merger.imported[k]])'
                        ELSE PublishedAs(k, k, merger.imported[k])'
      BY <1>3 DEF PlacesOK
    <3>1. CASE merger.imported[k] \in g
      <4>1. merger.comps[keep] = Copy(merger, k0)
        BY <2>7, <2>8 DEF PublishedAs
      <4>2. Bisimilar(k, k0)
        BY <2>5, <2>7, <3>1 DEF GroupOK
      <4>3. PublishedAs(k, k0, aliases[merger.imported[k]])'
        BY <1>3, <1>4, <2>2, <2>3, <2>4, <3>1, <4>1, <4>2 DEF PublishedAs
      <4>4. QED
        BY <2>4, <3>1, <4>3
    <3>2. CASE merger.imported[k] \in DOMAIN aliases /\ merger.imported[k] \notin g
      <4>1. PICK l \in I : PublishedAs(k, l, aliases[merger.imported[k]])
        BY <1>1, <3>2 DEF PlacesOK
      <4>2. aliases[merger.imported[k]] \in DOMAIN merger.comps \ g
        BY <2>6, <3>2, <4>1 DEF PublishedAs
      <4>3. PublishedAs(k, l, aliases[merger.imported[k]])'
        BY <1>3, <1>4, <2>2, <2>3, <2>4, <3>2, <4>1, <4>2 DEF PublishedAs
      <4>4. QED
        BY <2>4, <3>2, <4>3
    <3>3. CASE merger.imported[k] \notin DOMAIN aliases /\ merger.imported[k] \notin g
      <4>1. PublishedAs(k, k, merger.imported[k])
        BY <1>1, <3>3 DEF PlacesOK
      <4>2. PublishedAs(k, k, merger.imported[k])'
        BY <1>3, <1>4, <2>2, <2>3, <3>3, <4>1 DEF PublishedAs
      <4>3. QED
        BY <2>4, <3>3, <4>2
    <3>4. QED
      BY <3>1, <3>2, <3>3
  <2>11. ASSUME NEW h \in groups' PROVE GroupOK(h)'
    <3>1. h \in groups /\ h # g /\ GroupOK(h)
      BY <1>1, <1>2
    <3>2. h \cap g = {}
      <4> SUFFICES ASSUME NEW p \in h \cap g PROVE FALSE
        OBVIOUS
      <4>1. PICK k \in I : p = merger.imported[k]
        BY <2>5 DEF GroupOK
      <4>2. ASSUME NEW a, NEW b, GroupOK(a), GroupOK(b), merger.imported[k] \in a, merger.imported[k] \in b
            PROVE  a \subseteq b
        <5> SUFFICES ASSUME NEW q \in a PROVE q \in b
          OBVIOUS
        <5>1. PICK l \in I : q = merger.imported[l]
          BY <4>2 DEF GroupOK
        <5>2. k.name = l.name
          BY <4>2, <5>1 DEF GroupOK
        <5>3. QED
          BY <4>2, <5>1, <5>2 DEF GroupOK
      <4>3. h \subseteq g /\ g \subseteq h
        BY <2>5, <3>1, <4>1, <4>2
      <4>4. QED
        BY <3>1, <4>3
    <3>3. \A p \in h : p \in DOMAIN merger.comps
      <4>1. \A p \in h : \E k \in I : p = merger.imported[k]
        BY <3>1 DEF GroupOK
      <4>2. \A k \in I : merger.imported[k] \in h => PublishedAs(k, k, merger.imported[k])
        BY <1>1, <3>1 DEF PlacesOK, GroupOK
      <4>3. QED
        BY <4>1, <4>2 DEF PublishedAs
    <3>4. h \cap DOMAIN aliases' = {}
      BY <2>4, <3>1, <3>2 DEF GroupOK
    <3>5. \A p \in DOMAIN aliases' : aliases'[p] \notin h
      BY <2>1, <2>4, <2>6, <3>1, <3>3 DEF GroupOK
    <3>6. QED
      BY <1>3, <1>4, <3>1, <3>4, <3>5 DEF GroupOK
  <2>12. Agreed'
    <3> SUFFICES ASSUME NEW k \in I, NEW l \in I, k.name = l.name, merger.imported[k] \in DOMAIN aliases'
                 PROVE  /\ merger.imported[l] \in DOMAIN aliases'
                        /\ aliases'[merger.imported[l]] = aliases'[merger.imported[k]]
      BY <1>3 DEF Agreed
    <3>1. CASE merger.imported[k] \in g
      <4>1. merger.imported[l] \in g
        BY <2>5, <3>1 DEF GroupOK
      <4>2. QED
        BY <2>4, <3>1, <4>1
    <3>2. CASE merger.imported[k] \in DOMAIN aliases
      <4>1. merger.imported[l] \in DOMAIN aliases /\ aliases[merger.imported[l]] = aliases[merger.imported[k]]
        BY <1>1, <3>2 DEF Agreed
      <4>2. QED
        BY <2>4, <2>6, <3>2, <4>1
    <3>3. QED
      BY <2>4, <3>1, <3>2
  <2>13. QED
    BY <1>1, <1>5, <2>10, <2>11, <2>12 DEF DedupeInv
<1>8. QED
  BY <1>6, <1>7

\* What applyAliases leaves is the copies with the aliases.
LEMMA AssembledStep ==
  ASSUME ImportInv, DedupeInv, Assembled
  PROVE  DedupeInv'
<1> DEFINE I == DOMAIN merger.imported
           new == [p \in DOMAIN merger.comps |-> Rewritten(merger.comps[p])]
<1>1. /\ PlacesOK /\ OperationsOK /\ Agreed /\ stage' = "done" /\ in' = in /\ aliases' = aliases
      /\ built' = [i \in DOMAIN built |-> Aliased(built[i])]
  BY DEF DedupeInv, Assembled
<1>2. merger' = [imported |-> merger.imported, comps |-> new, queue |-> merger.queue]
  BY DEF Assembled
<1>3. merger'.imported = merger.imported /\ merger'.comps = new
  <2> HIDE DEF new
  <2>1. QED
    BY <1>2
<1>4. DOMAIN new = DOMAIN merger.comps /\ \A p \in DOMAIN merger.comps : new[p] = Rewritten(merger.comps[p])
  OBVIOUS
<1> HIDE DEF new
<1>5. /\ \A k : Copy(merger, k)' = Copy(merger, k)
      /\ \A k, l : Bisimilar(k, l)' <=> Bisimilar(k, l)
      /\ \A spec, refs : Renamed(merger, spec, refs)' = Renamed(merger, spec, refs)
  BY <1>1, <1>3, SameNames
<1>6. \A refs : Aliased(refs)' = Aliased(refs)
  BY <1>1 DEF Aliased
<1>7. \A k : Rewritten(Copy(merger, k))' = Rewritten(Copy(merger, k))
  BY <1>5, <1>6 DEF Rewritten
<1>8. ASSUME NEW k \in I
      PROVE  IF merger.imported[k] \in DOMAIN aliases
             THEN \E l \in I : /\ aliases[merger.imported[k]] \in DOMAIN merger'.comps /\ Bisimilar(k, l)
                               /\ merger'.comps[aliases[merger.imported[k]]] = Rewritten(Copy(merger, l))
             ELSE /\ merger.imported[k] \in DOMAIN merger'.comps
                  /\ merger'.comps[merger.imported[k]] = Rewritten(Copy(merger, k))
  BY <1>1, <1>3, <1>4 DEF PlacesOK, PublishedAs
<1>9. \A i \in DOMAIN in.ops : built'[i] = Aliased(Renamed(merger, in.ops[i].spec, in.ops[i].refs))
  BY <1>1 DEF OperationsOK
<1>10. RewrittenOK'
  <2>1. \A i \in DOMAIN in.ops : Aliased(Renamed(merger, in.ops[i].spec, in.ops[i].refs))' =
                                 Aliased(Renamed(merger, in.ops[i].spec, in.ops[i].refs))
    BY <1>1, <1>5, <1>6
  <2>2. QED
    BY <1>1, <1>3, <1>5, <1>7, <1>8, <1>9, <2>1 DEF RewrittenOK
<1>11. Agreed'
  BY <1>1, <1>3 DEF Agreed
<1>12. QED
  BY <1>1, <1>10, <1>11 DEF DedupeInv

\* Dedupe's invariant holds at first.
LEMMA DedupeInit == MergeInit => DedupeInv
<1> SUFFICES ASSUME MergeInit PROVE DedupeInv
  OBVIOUS
<1>1. stage = "operations" /\ DOMAIN aliases = {}
  BY DEF MergeInit, Empty
<1>2. QED
  BY <1>1 DEF DedupeInv

\* Every step keeps dedupe's invariant.
LEMMA DedupeStep == ImportInv /\ DedupeInv /\ [MergeNext]_mergeVars => DedupeInv'
<1> SUFFICES ASSUME ImportInv, DedupeInv, [MergeNext]_mergeVars PROVE DedupeInv'
  OBVIOUS
<1>1. ASSUME stage \in {"operations", "drain"}, aliases' = aliases, stage' \in {"operations", "drain", "failed"}
      PROVE  DedupeInv'
  BY <1>1 DEF DedupeInv
<1>2. CASE BuildOperation
  <2>1. stage = "operations" /\ aliases' = aliases /\ stage' \in {"operations", "failed"}
    BY <1>2 DEF BuildOperation, Fail
  <2>2. QED
    BY <1>1, <2>1
<1>3. CASE OperationsEnd
  BY <1>1, <1>3 DEF OperationsEnd
<1>4. CASE Drain
  <2>1. stage = "drain" /\ aliases' = aliases /\ stage' \in {"drain", "failed"}
    BY <1>4 DEF Drain, Fail
  <2>2. QED
    BY <1>1, <2>1
<1>5. CASE UNCHANGED mergeVars
  <2>1. /\ in' = in /\ merger' = merger /\ built' = built /\ stage' = stage /\ aliases' = aliases /\ groups' = groups
        /\ merger'.imported = merger.imported
    BY <1>5 DEF mergeVars
  <2>2. /\ \A k : Copy(merger, k)' = Copy(merger, k)
        /\ \A k, l : Bisimilar(k, l)' <=> Bisimilar(k, l)
        /\ \A spec, refs : Renamed(merger, spec, refs)' = Renamed(merger, spec, refs)
    BY <2>1, SameNames
  <2>3. \A refs : Aliased(refs)' = Aliased(refs)
    BY <2>1 DEF Aliased
  <2>4. \A k : Rewritten(Copy(merger, k))' = Rewritten(Copy(merger, k))
    BY <2>2, <2>3 DEF Rewritten
  <2>5. PlacesOK => PlacesOK'
    BY <2>1, <2>2 DEF PlacesOK, PublishedAs
  <2>6. OperationsOK => OperationsOK'
    BY <2>1, <2>2 DEF OperationsOK
  <2>7. \A g : GroupOK(g) => GroupOK(g)'
    BY <2>1, <2>2 DEF GroupOK
  <2>8. RewrittenOK => RewrittenOK'
    <3>1. \A i : Aliased(Renamed(merger, in.ops[i].spec, in.ops[i].refs))' =
                 Aliased(Renamed(merger, in.ops[i].spec, in.ops[i].refs))
      BY <2>1, <2>2, <2>3
    <3>2. QED
      BY <2>1, <2>2, <2>4, <3>1 DEF RewrittenOK
  <2>9. Agreed => Agreed'
    BY <2>1 DEF Agreed
  <2>10. QED
    BY <2>1, <2>5, <2>6, <2>7, <2>8, <2>9 DEF DedupeInv
<1>6. QED
  BY <1>2, <1>3, <1>4, <1>5, DedupeStarts, CollapseStep, AssembledStep DEF MergeNext

\* Both invariants always hold.
LEMMA DedupeInvariant == MergeSpec => [](ImportInv /\ DedupeInv)
BY ImportInit, ImportStep, DedupeInit, DedupeStep, PTL DEF MergeSpec

\* Whatever order dedupe takes its groups in, a bare name is given to all the components
\* of that base name or to none, for any specs.
THEOREM BareNamesAgreed == MergeSpec => []BareNameIsAgreed
<1>1. DedupeInv => BareNameIsAgreed
  BY DEF DedupeInv, Agreed, BareNameIsAgreed
<1>2. QED
  BY <1>1, DedupeInvariant, PTL

-----------------------------------------------------------------------------
(* The merge: meaning. *)

\* What a published component may be said to be.
Meant ==
  {a \in Needed \X DOMAIN merger.comps :
     \E l \in DOMAIN merger.imported : Bisimilar(a[1], l) /\ merger.comps[a[2]] = Rewritten(Copy(merger, l))}

\* A reference to k of a copy of something like it ends at something like k.
LEMMA ReferenceStands ==
  ASSUME RewrittenOK, DOMAIN merger.imported = Needed,
         NEW k \in DOMAIN merger.imported, NEW l \in DOMAIN merger.imported, Bisimilar(k, l), NEW tail,
         NEW p, p = IF merger.imported[l] \in DOMAIN aliases /\ ~tail THEN aliases[merger.imported[l]] ELSE merger.imported[l]
  PROVE  \/ tail /\ p \in DOMAIN aliases
         \/ <<k, p>> \in Meant
<1>1. CASE merger.imported[l] \in DOMAIN aliases /\ tail
  BY <1>1
<1>2. CASE merger.imported[l] \in DOMAIN aliases /\ ~tail
  <2>1. PICK j \in DOMAIN merger.imported :
          /\ aliases[merger.imported[l]] \in DOMAIN merger.comps /\ Bisimilar(l, j)
          /\ merger.comps[aliases[merger.imported[l]]] = Rewritten(Copy(merger, j))
    BY <1>2 DEF RewrittenOK
  <2>2. Bisimilar(k, j)
    BY <2>1, BisimilarTransitive
  <2>3. QED
    BY <1>2, <2>1, <2>2 DEF Meant
<1>3. CASE merger.imported[l] \notin DOMAIN aliases
  <2>1. merger.imported[l] \in DOMAIN merger.comps /\ merger.comps[merger.imported[l]] = Rewritten(Copy(merger, l))
    BY <1>3 DEF RewrittenOK
  <2>2. QED
    BY <1>3, <2>1 DEF Meant
<1>4. QED
  BY <1>1, <1>2, <1>3

\* What rewriteRefs makes of one reference.
LEMMA AliasedFields ==
  ASSUME NEW refs
  PROVE  /\ DOMAIN Aliased(refs) = DOMAIN refs
         /\ \A i \in DOMAIN refs :
              /\ Aliased(refs)[i].tail = refs[i].tail
              /\ Aliased(refs)[i].name = IF refs[i].name \in DOMAIN aliases /\ ~refs[i].tail
                                         THEN aliases[refs[i].name] ELSE refs[i].name
BY DEF Aliased

\* References rewritten twice, to the published names and to the bare ones, stand for
\* those of any component or operation that nothing tells from theirs.
LEMMA ReferencesStand ==
  ASSUME RewrittenOK, DOMAIN merger.imported = Needed, NEW spec, NEW refs, NEW spec2, NEW refs2,
         DOMAIN refs = DOMAIN refs2,
         \A i \in DOMAIN refs :
           /\ refs[i].tail = refs2[i].tail
           /\ Key(spec, refs[i]) \in DOMAIN merger.imported
           /\ Key(spec2, refs2[i]) \in DOMAIN merger.imported
           /\ Bisimilar(Key(spec, refs[i]), Key(spec2, refs2[i]))
  PROVE  Stand(Meant, spec, refs, Aliased(Renamed(merger, spec2, refs2)))
<1> DEFINE pub == Aliased(Renamed(merger, spec2, refs2))
<1>1. DOMAIN pub = DOMAIN refs
  BY AliasedFields DEF Renamed
<1>2. ASSUME NEW i \in DOMAIN refs
      PROVE  /\ refs[i].tail = pub[i].tail
             /\ \/ refs[i].tail /\ pub[i].name \in DOMAIN aliases
                \/ <<Key(spec, refs[i]), pub[i].name>> \in Meant
  <2> DEFINE k == Key(spec, refs[i])
             l == Key(spec2, refs2[i])
             r == Renamed(merger, spec2, refs2)
             tail == refs[i].tail
             p == pub[i].name
  <2>1. i \in DOMAIN r /\ r[i].name = merger.imported[l] /\ r[i].tail = tail
    BY DEF Renamed
  <2> HIDE DEF r
  <2>2. pub[i].tail = tail
    BY <2>1, AliasedFields DEF r
  <2>3. p = IF merger.imported[l] \in DOMAIN aliases /\ ~tail THEN aliases[merger.imported[l]] ELSE merger.imported[l]
    BY <2>1, AliasedFields DEF r
  <2>4. k \in DOMAIN merger.imported /\ l \in DOMAIN merger.imported /\ Bisimilar(k, l)
    OBVIOUS
  <2> HIDE DEF k, l, tail, p, pub
  <2>5. (tail /\ p \in DOMAIN aliases) \/ <<k, p>> \in Meant
    BY <2>3, <2>4, ReferenceStands
  <2>6. QED
    BY <2>2, <2>5 DEF k, tail, p
<1> HIDE DEF pub
<1>3. Stand(Meant, spec, refs, pub)
  BY <1>1, <1>2 DEF Stand
<1>4. QED
  BY <1>3 DEF pub

\* A published copy stands for every component that is like its source.
LEMMA CopyStands ==
  ASSUME RewrittenOK, Closed(DOMAIN merger.imported), DOMAIN merger.imported = Needed,
         NEW k \in DOMAIN merger.imported, NEW l \in DOMAIN merger.imported, Bisimilar(k, l)
  PROVE  /\ Source(k).kind = Rewritten(Copy(merger, l)).node.kind
         /\ Stand(Meant, k.spec, Source(k).refs, Rewritten(Copy(merger, l)).node.refs)
<1> DEFINE rk == Source(k).refs
           rl == Source(l).refs
<1>1. /\ Source(k).kind = Source(l).kind /\ DOMAIN rk = DOMAIN rl
      /\ \A i \in DOMAIN rk : rk[i].tail = rl[i].tail /\ Bisimilar(Key(k.spec, rk[i]), Key(l.spec, rl[i]))
  BY BisimilarFollows
<1>2. \A i \in DOMAIN rk : Key(k.spec, rk[i]) \in DOMAIN merger.imported
  BY DEF Closed
<1>3. \A i \in DOMAIN rl : Key(l.spec, rl[i]) \in DOMAIN merger.imported
  BY DEF Closed
<1>4. /\ Rewritten(Copy(merger, l)).node.kind = Source(l).kind
      /\ Rewritten(Copy(merger, l)).node.refs = Aliased(Renamed(merger, l.spec, rl))
  BY DEF Rewritten, Copy
<1> HIDE DEF rk, rl
<1>5. Stand(Meant, k.spec, rk, Aliased(Renamed(merger, l.spec, rl)))
  BY <1>1, <1>2, <1>3, ReferencesStand
<1>6. QED
  BY <1>1, <1>4, <1>5 DEF rk

\* The references of a built operation stand for its own.
LEMMA OperationStands ==
  ASSUME RewrittenOK, Imported, DOMAIN merger.imported = Needed, NEW i \in DOMAIN in.ops
  PROVE  Stand(Meant, in.ops[i].spec, in.ops[i].refs, built[i])
<1> DEFINE spec == in.ops[i].spec
           refs == in.ops[i].refs
<1>1. \A j \in DOMAIN refs : Key(spec, refs[j]) \in DOMAIN merger.imported
  BY DEF Imported, Roots
<1>2. \A k \in DOMAIN merger.imported : Bisimilar(k, k)
  BY BisimilarReflexive DEF Imported
<1>3. built[i] = Aliased(Renamed(merger, spec, refs))
  BY DEF RewrittenOK
<1> HIDE DEF spec, refs
<1>4. Stand(Meant, spec, refs, Aliased(Renamed(merger, spec, refs)))
  BY <1>1, <1>2, ReferencesStand
<1>5. QED
  BY <1>3, <1>4 DEF spec, refs

\* References that stand for others do so with more components alike.
LEMMA StandMore ==
  ASSUME NEW A, NEW B, A \subseteq B, NEW spec, NEW refs, NEW pub, Stand(A, spec, refs, pub)
  PROVE  Stand(B, spec, refs, pub)
BY DEF Stand

\* One step of Alike.
Nearer(A) ==
  {a \in A : /\ Source(a[1]).kind = merger.comps[a[2]].node.kind
             /\ Stand(A, a[1].spec, Source(a[1]).refs, merger.comps[a[2]].node.refs)}

\* What is meant is never told apart, in however many steps: by induction on them.
LEMMA MeantIsAlike ==
  ASSUME in \in Inputs, RewrittenOK, Imported, DOMAIN merger.imported = Needed
  PROVE  Meant \subseteq Alike
<1> DEFINE steps == 2 * Cardinality(Needed)
           all == Needed \X DOMAIN merger.comps
           Value(f, n) == IF n = 0 THEN all ELSE Nearer(f[n - 1])
           Runs(f, j) == f = [n \in 0..j |-> Value(f, n)]
<1>1. steps \in Nat
  <2>1. IsFiniteSet(Keys(in)) /\ Needed \in SUBSET Keys(in)
    BY KeysFinite DEF Needed
  <2>2. IsFiniteSet(Needed)
    BY <2>1, FS_Subset
  <2>3. Cardinality(Needed) \in Nat
    BY <2>2, FS_CardinalityType
  <2>4. QED
    BY <2>3
<1>2. Alike = (CHOOSE f : Runs(f, steps))[steps]
  BY DEF Alike, Nearer
<1> HIDE DEF steps, all
<1>3. \E f : Runs(f, steps)
  <2> DEFINE B == {j \in 0..steps : ~ \E f : Runs(f, j)}
  <2> SUFFICES ASSUME B # {} PROVE FALSE
    BY <1>1
  <2>1. PICK j \in B : \A k \in B : j <= k
    <3>1. B \subseteq Nat
      BY <1>1
    <3> HIDE DEF B
    <3>2. QED
      BY <3>1, LeastNatural
  <2>2. CASE j = 0
    <3> DEFINE g == [i \in 0..0 |-> all]
    <3>1. Runs(g, 0)
      OBVIOUS
    <3> HIDE DEF g, Runs
    <3>2. QED
      BY <2>2, <3>1
  <2>3. CASE j # 0
    <3>1. j - 1 \in 0..steps /\ j - 1 \notin B /\ j \in Nat
      <4>1. j \in 0..steps
        OBVIOUS
      <4> HIDE DEF B
      <4>2. QED
        BY <1>1, <2>1, <2>3, <4>1
    <3>2. PICK f : Runs(f, j - 1)
      BY <3>1
    <3> DEFINE g == [i \in 0..j |-> Value(f, i)]
    <3>3. \A i \in 0..j : i # 0 => g[i - 1] = f[i - 1]
      BY <3>1, <3>2
    <3>4. ASSUME NEW i \in 0..j PROVE Value(g, i) = Value(f, i)
      <4> HIDE DEF g
      <4>1. CASE i = 0 BY <4>1
      <4>2. CASE i # 0
        <5>1. g[i - 1] = f[i - 1] BY <3>3, <4>2
        <5> QED BY <5>1
      <4> QED BY <4>1, <4>2
    <3>5. Runs(g, j)
      BY <3>4
    <3> HIDE DEF g, Runs
    <3>6. QED
      BY <2>1, <3>5
  <2>4. QED
    BY <2>2, <2>3
<1> DEFINE alike == CHOOSE f : Runs(f, steps)
<1>4. Runs(alike, steps)
  <2> HIDE DEF Runs
  <2>1. QED
    BY <1>3
<1> HIDE DEF alike
<1>5. alike[0] = all /\ \A n \in 1..steps : alike[n] = Nearer(alike[n - 1])
  BY <1>1, <1>4
<1>6. ASSUME NEW A, Meant \subseteq A PROVE Meant \subseteq Nearer(A)
  <2> SUFFICES ASSUME NEW a \in Meant PROVE a \in Nearer(A)
    OBVIOUS
  <2>1. PICK l \in DOMAIN merger.imported : Bisimilar(a[1], l) /\ merger.comps[a[2]] = Rewritten(Copy(merger, l))
    BY DEF Meant
  <2>2. a[1] \in DOMAIN merger.imported
    BY DEF Meant
  <2>3. /\ Source(a[1]).kind = merger.comps[a[2]].node.kind
        /\ Stand(Meant, a[1].spec, Source(a[1]).refs, merger.comps[a[2]].node.refs)
    BY <2>1, <2>2, CopyStands DEF Imported
  <2>4. Stand(A, a[1].spec, Source(a[1]).refs, merger.comps[a[2]].node.refs)
    BY <1>6, <2>3, StandMore
  <2>5. QED
    BY <1>6, <2>3, <2>4 DEF Nearer
<1>7. \A n \in 0..steps : Meant \subseteq alike[n]
  <2> DEFINE B == {n \in 0..steps : ~(Meant \subseteq alike[n])}
  <2> SUFFICES ASSUME B # {} PROVE FALSE
    OBVIOUS
  <2>1. PICK n \in B : \A k \in B : n <= k
    <3>1. B \subseteq Nat
      BY <1>1
    <3> HIDE DEF B
    <3>2. QED
      BY <3>1, LeastNatural
  <2>2. CASE n = 0
    <3>1. Meant \subseteq all
      BY DEF Meant, all
    <3>2. QED
      BY <1>5, <2>1, <2>2, <3>1
  <2>3. CASE n # 0
    <3>1. n - 1 \in 0..steps /\ n - 1 \notin B /\ n \in 1..steps
      BY <1>1, <2>1, <2>3
    <3>2. Meant \subseteq alike[n - 1]
      BY <3>1
    <3>3. Meant \subseteq Nearer(alike[n - 1])
      BY <1>6, <3>2
    <3>4. QED
      BY <1>5, <2>1, <3>1, <3>3
  <2>4. QED
    BY <2>2, <2>3
<1>8. Meant \subseteq alike[steps]
  BY <1>1, <1>7
<1>9. QED
  BY <1>2, <1>8 DEF alike

\* The document means what the specs meant: from every operation, the published
\* components are those of its own backend through any number of references, whichever
\* were collapsed and in whatever order, for any specs.
THEOREM DocumentMeansTheSame == MergeSpec => []MeaningIsKept
<1>1. ImportInv /\ ImportsWhatIsNeeded /\ DedupeInv => MeaningIsKept
  <2> SUFFICES ASSUME ImportInv, ImportsWhatIsNeeded, DedupeInv, stage = "done", NEW i \in DOMAIN in.ops
               PROVE  Stand(Alike, in.ops[i].spec, in.ops[i].refs, built[i])
    BY DEF MeaningIsKept
  <2>1. in \in Inputs /\ RewrittenOK /\ Imported /\ DOMAIN merger.imported = Needed
    BY DEF ImportInv, DedupeInv, ImportsWhatIsNeeded
  <2>2. Stand(Meant, in.ops[i].spec, in.ops[i].refs, built[i])
    BY <2>1, OperationStands
  <2>3. Meant \subseteq Alike
    BY <2>1, MeantIsAlike
  <2>4. QED
    BY <2>2, <2>3, StandMore
<1>2. QED
  BY <1>1, DedupeInvariant, NeededIsImported, PTL
=============================================================================
