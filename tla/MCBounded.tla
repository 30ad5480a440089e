------------------------------- MODULE MCBounded -------------------------------
(***************************************************************************)
(* Bounded for a universe of two nodes and a language of small modules.    *)
(* Most have a unary relation r, a mutable flag p and an immutable one q,  *)
(* and nothing for the front end to do.                                    *)
(***************************************************************************)
EXTENDS Bounded

MCUniverse == "node" :> {0, 1} @@ "value" :> {0, 1} @@ "bool" :> {0, 1}

Plain(name, args, mutable) == Relation(name, args, "bool", mutable)
Flags ==
  [sorts |-> <<"node">>,
   relations |-> <<Plain("r", <<"node">>, TRUE), Plain("p", <<>>, TRUE), Plain("q", <<>>, FALSE)>>]
Module(sig, defs, stmts) == [signature |-> sig, defs |-> defs, statements |-> stmts]

All(x, t) == Forall(<<Binder(x, "node")>>, t)
Ex(x, t) == Exists(<<Binder(x, "node")>>, t)
x == Id("x")
y == Id("y")

r(t) == App("r", 0, <<t>>)
rPost(t) == App("r", 1, <<t>>)
p == Id("p")
pPost == Prime(p)
q == Id("q")

Keep(t) == Iff(rPost(t), r(t))
KeepP == Iff(pPost, p)
KeepOthers == All("y", Or(<<Equals(x, y), Keep(y)>>))
KeepAll == And(<<All("x", Keep(x)), KeepP>>)

Some == Ex("x", r(x))
None == All("x", Not(r(x)))
Every == All("x", r(x))

(* A node is added; the same, or nothing changes; one is removed when all  *)
(* are there, and the flag is set.                                         *)
Add == Ex("x", And(<<Not(r(x)), rPost(x), KeepOthers, KeepP>>))
Wrap == Ex("x", And(<<Every, Not(rPost(x)), KeepOthers, pPost>>))

(* r becomes its complement where q holds, or p decides.                   *)
Toggle ==
  And(<<All("x", Not(Iff(rPost(x), r(x)))), Iff(pPost, Or(<<p, Every>>)), Implies(q, Not(p))>>)

(* One node and the flag are left open; or only the flag is.               *)
Open == Ex("x", And(<<Or(<<p, q>>), rPost(x)>>))
Clear == And(<<Not(q), Prime(None)>>)

(* r changes everywhere, or nothing does; a disjunction of two states.     *)
Primes == And(<<All("x", Or(<<r(x), rPost(x)>>)), KeepP>>)
Clash == And(<<p, Or(<<q, And(<<q, Not(p)>>)>>), pPost, Iff(pPost, q)>>)

Transitions ==
  {Or(<<Add, Wrap>>), Or(<<Add, Wrap, KeepAll>>), Toggle, Or(<<Open, Clear>>), Primes, Clash}

Inits == {And(<<None, Not(p)>>), And(<<Iff(q, Some), Not(p)>>)}
Axioms == {{}, {q}, {Some}, {Implies(p, Some), Not(q)}}
Safeties == {Not(Every), Or(<<q, Not(p), None>>)}

Statements(axioms, transitions) ==
  SetToSeq({Assume(Always(t)) : t \in axioms \cup transitions})
AssertAlways(t) == Proof(Always(t), <<>>)

FlagModules ==
  {Module(Flags, <<>>, <<Assume(i)>> \o Statements(A, {t}) \o <<AssertAlways(s)>>) :
     i \in Inits, A \in Axioms, t \in Transitions, s \in Safeties}
  \cup {Module(Flags, <<>>, <<Assume(None)>> \o Statements({}, T) \o <<AssertAlways(Not(Every))>>) :
          T \in {{}, {Toggle, KeepP}}}
  \cup {Module(Flags, <<>>, <<Assume(None), Assume(Always(Toggle)), Assume(Always(Toggle)), AssertAlways(Some)>>),
        Module(Flags, <<>>, <<Assume(Every), Assume(Always(Some)), Assume(Always(Toggle)), AssertAlways(Some)>>)}
  \cup {Module(Flags, <<>>, stmts) : stmts \in
          {<<Assume(Literal(FALSE)), Assume(Always(Open)), AssertAlways(p)>>,
           <<AssertAlways(Not(Every)), Assume(None)>>,
           <<Assume(pPost), AssertAlways(p)>>}}

-----------------------------------------------------------------------------
(* Modules with functions and definitions: a token is passed along, and    *)
(* the nodes that have had it are in r.                                    *)
Tokens ==
  [sorts |-> <<"node">>,
   relations |-> <<Relation("token", <<>>, "node", TRUE), Plain("r", <<"node">>, TRUE),
                   Relation("first", <<>>, "node", FALSE)>>]
token == Id("token")
first == Id("first")

at(t) == App("at", 0, <<t>>)
At == Definition("at", <<Binder("n", "node")>>, "bool", Equals(Id("n"), token))
Give ==
  Definition("give", <<Binder("x", "node"), Binder("m", "node")>>, "bool",
             And(<<at(x), Equals(Prime(token), Id("m")), rPost(x), KeepOthers>>))
Fresh ==
  Definition("fresh", <<>>, "bool",
             Exists(<<Binder("at", "")>>, Not(r(Id("at")))))
Pass(also) ==
  Exists(<<Binder("k", "node"), Binder("l", "")>>,
         And(<<App("give", 0, <<Id("k"), Id("l")>>)>> \o also))

TokenModule(also, safety) ==
  Module(Tokens, <<At, Fresh, Give>>,
         <<Assume(And(<<at(first), None>>)), Assume(Always(Pass(also))), AssertAlways(safety)>>)

TokenModules ==
  {TokenModule(<<>>, Id("fresh")),
   TokenModule(<<Id("fresh"), NotEquals(Id("l"), first)>>, All("x", Implies(r(x), Not(at(x)))))}

(* A function of nodes, updated at one of them or at will.                 *)
Links ==
  [sorts |-> <<"node">>,
   relations |-> <<Relation("f", <<"node">>, "node", TRUE), Relation("c", <<>>, "node", FALSE)>>]
f(t) == App("f", 0, <<t>>)
fPost(t) == App("f", 1, <<t>>)
c == Id("c")

LinkModule(transition, safety) ==
  Module(Links, <<>>,
         <<Assume(All("x", Equals(x, f(x)))), Assume(Always(transition)), AssertAlways(safety)>>)

Relink == Ex("x", And(<<Equals(Prime(f(x)), c), All("y", Or(<<Equals(x, y), Equals(fPost(y), f(y))>>))>>))

LinkModules ==
  {LinkModule(Relink, Equals(c, f(c))), LinkModule(Relink, All("x", NotEquals(f(x), c))),
   LinkModule(Ex("x", Equals(fPost(x), c)), All("x", Equals(f(x), x))),
   LinkModule(Ex("x", Equals(f(f(x)), Prime(c))), Equals(c, c)),
   LinkModule(All("x", Equals(x, Ite(Equals(c, x), f(x), c))), Equals(f(c), c)),
   LinkModule(Ex("x", Equals(f(x), Prime(f(x)))), Equals(f(c), c))}

(* A definition in an argument or below a prime, variables that are        *)
(* captured or shadowed.                                                   *)
Second == Definition("second", <<Binder("x", "node")>>, "node", x)
Other == Definition("other", <<Binder("n", "node")>>, "bool", Ex("x", And(<<NotEquals(x, Id("n")), r(x)>>)))

MisusedModules ==
  {Module(Flags, <<Second, Other>>, <<Assume(Always(t)), AssertAlways(Some)>>) : t \in
     {All("x", r(App("second", 0, <<x>>))), Ex("y", App("other", 1, <<y>>)),
      Ex("x", App("other", 0, <<x>>)), Ex("second", r(Id("second")))}}
  \cup {Module(Flags, <<Second, Definition("hides", <<Binder("second", "node")>>, "bool", d)>>,
               <<Assume(Always(Ex("x", App("hides", 0, <<x>>)))), AssertAlways(Some)>>) :
          d \in {r(Id("second")), Equals(Id("second"), Id("second"))}}

-----------------------------------------------------------------------------
(* Terms for sort inference, one to a module, that is not extracted: every *)
(* two of these formulas below quantifiers that leave off some sorts.      *)
Mixed ==
  [sorts |-> <<"node", "value">>,
   relations |-> <<Plain("r", <<"node">>, TRUE), Relation("f", <<"node">>, "node", TRUE),
                   Relation("v", <<>>, "value", FALSE)>>]
v == Id("v")

Formulas ==
  <<Equals(x, y), r(x), r(y), Equals(f(x), y), NotEquals(x, v), y, Equals(Ite(y, x, f(x)), Prime(x)),
    Ex("y", r(y)), Exists(<<Binder("x", "")>>, Equals(x, y)), App("r", 0, <<x, y>>), Id("r"),
    App("x", 0, <<y>>), Equals(Id("z"), v)>>
BinderLists ==
  <<<<Binder("x", ""), Binder("y", "")>>, <<Binder("x", "node"), Binder("y", "")>>,
    <<Binder("x", ""), Binder("x", "")>>, <<Binder("x", ""), Binder("y", "edge")>>>>

FormulaModule(binders, t, u) ==
  Module(Mixed, <<>>, <<Proof(Forall(binders, And(<<t, u>>)), <<>>)>>)
FormulaModules ==
  FlattenSeq(FlattenSeq(
    [i \in DOMAIN BinderLists |-> [j \in DOMAIN Formulas |-> [k \in 1 .. j |->
       FormulaModule(BinderLists[i], Formulas[j], Formulas[k])]]]))

DefinitionModules ==
  {Module(sig, <<At, d>>, <<Proof(Literal(TRUE), <<at(first)>>)>>) :
     sig \in {Tokens, Mixed, [Tokens EXCEPT !.sorts = <<"node", "node">>],
              [Tokens EXCEPT !.relations = Append(@, Plain("r", <<>>, TRUE))]},
     d \in {Second, At, Definition("new", <<>>, "node", token),
            Definition("new", <<>>, "bool", token), Definition("r", <<>>, "bool", Some),
            Definition("new", <<Binder("x", "node"), Binder("x", "node")>>, "bool", Some)}}

RECURSIVE Listed(_)
Listed(S) == IF S = {} THEN <<>> ELSE LET e == CHOOSE e \in S : TRUE IN <<e>> \o Listed(S \ {e})

MCSources ==
  Listed(FlagModules) \o Listed(TokenModules) \o Listed(LinkModules) \o Listed(MisusedModules)
    \o Listed(DefinitionModules) \o FormulaModules
=============================================================================
