------------------------------- MODULE MCMerge -------------------------------
(* Instances of Merge for TLC: specs that use the same component names,  *)
(* with every way for the components to refer to each other (themselves      *)
(* included) and to agree or disagree in kind.                               *)
EXTENDS Merge, TLC

MCLetters == {"user", "User", "Fault", "Gone", "P", "Q", "R", "us", "Us", "Er"} \cup {ToString(n) : n \in 1..8}
MCItoa(n) == <<ToString(n)>>
MCCapital(part) == CASE part = "user" -> "User" [] part = "us" -> "Us" [] OTHER -> part

user == <<"user">>    \* published as User, like the next
User == <<"User">>
Fault == <<"Fault">>
Er == <<"Er">>
usEr == <<"us", "Er">>
Gone == <<"Gone">>    \* in no spec

To(name) == <<[name |-> name, tail |-> FALSE]>>
Into(name) == <<[name |-> name, tail |-> TRUE]>>
Comp(kind, refs) == [kind |-> kind, refs |-> refs]

\* The first spec has "user" and "User", the others have "User" only.
Comps1(lower, upper, fault) == user :> lower @@ User :> upper @@ Fault :> fault
Comps2(upper, fault) == User :> upper @@ Fault :> fault
Comps3 == User :> Comp("k", <<>>)

Input(one, two, ops, dedupe) ==
  [specs  |-> "p" :> [namespace |-> <<"P">>, comps |-> one] @@ "q" :> [namespace |-> <<"Q">>, comps |-> two]
              @@ "r" :> [namespace |-> <<"R">>, comps |-> Comps3],
   ops    |-> ops,
   dedupe |-> dedupe]

MCOps ==
  {<<[spec |-> "p", refs |-> To(User) \o To(user)], [spec |-> "q", refs |-> To(User)]>>,
   <<[spec |-> "p", refs |-> To(user)], [spec |-> "q", refs |-> To(Fault) \o To(User)]>>,
   <<[spec |-> "p", refs |-> To(User)], [spec |-> "q", refs |-> To(User)], [spec |-> "r", refs |-> To(User)]>>}

\* UsEr gives way to Er, and may then be what usEr gives way to.
Reuse ==
  LET comps == Er :> Comp("k", <<>>) @@ usEr :> Comp("l", Into(Er) \o To(Er))
  IN  [specs  |-> "p" :> [namespace |-> <<"Us">>, comps |-> comps] @@ "q" :> [namespace |-> <<"Q">>, comps |-> comps],
       ops    |-> <<[spec |-> "p", refs |-> To(Er) \o To(usEr)], [spec |-> "q", refs |-> To(Er) \o To(usEr)]>>,
       dedupe |-> TRUE]

\* Both specs have "user" and "User", and agree on each: two groups want the one bare name.
Contest(lower, upper) ==
  LET comps == Comps1(lower, upper, Comp("k", <<>>))
  IN  Input(comps, comps,
            <<[spec |-> "p", refs |-> To(User) \o To(user)], [spec |-> "q", refs |-> To(user) \o To(User)]>>,
            TRUE)

MCInputs ==
  {Input(Comps1(Comp("k", l), Comp(ku, u), Comp("k", f)), Comps2(Comp("k", v), Comp(kg, g)), ops, TRUE) :
     l   \in {<<>>, To(User)},
     ku  \in {"k", "l"},
     u   \in {<<>>, To(User), To(Fault), To(user)},
     f   \in {<<>>, To(User), To(Fault)},
     v   \in {<<>>, To(User), To(Fault)},
     kg  \in {"k", "l"},
     g   \in {<<>>, To(User), To(Fault), To(Gone)},
     ops \in MCOps}
  \cup
  {Input(Comps1(Comp("k", <<>>), Comp("k", u), Comp("k", f)), Comps2(Comp("k", v), Comp("k", <<>>)), ops, dedupe) :
     u      \in {To(Fault), Into(Fault)},
     f      \in {<<>>, Into(User)},
     v      \in {To(Fault), Into(Fault) \o To(Fault)},
     ops    \in MCOps,
     dedupe \in BOOLEAN}
  \cup {Contest(Comp("k", l), Comp(ku, u)) :
          l \in {<<>>, To(User), To(user)}, ku \in {"k", "l"}, u \in {<<>>, To(user), To(Fault)}}
  \cup {Reuse}
=============================================================================
