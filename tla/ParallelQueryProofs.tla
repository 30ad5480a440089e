------------------------- MODULE ParallelQueryProofs -------------------------
(***************************************************************************)
(* No solver of a query escapes its cancellation, and no answer is lost to *)
(* one, for any number of transitions and of solvers, in any interleaving. *)
(***************************************************************************)
EXTENDS ParallelPool, TLAPS

Lpcs == {"off", "ready", "query", "extract", "cancel", "done"}
Lresults == {"none", "sat", "unsat", "Unknown", "Error", "Killed", "panic"}
Tpcs == {"off", "ready", "join", "cancel", "done"}
Tresults == {"none", "Cex", "UnsatCore", "Unknown", "Canceled", "panic"}

(* What may be registered with a node.                                     *)
Kids(n) ==
  IF n = Root THEN {Query}
  ELSE IF n = Query THEN IF Parallel THEN Groups ELSE Procs
  ELSE IF Parallel
  THEN {l \in Procs : \E t \in Transitions, s \in Solvers : n = Group(t) /\ l = Proc(t, s)}
  ELSE {}

TypeOK ==
  /\ strategy \in Strategies /\ truth \in [Transitions -> {"sat", "unsat"}]
  /\ answering \subseteq Answering
  /\ canceled \in [Nodes -> BOOLEAN]
  /\ children \in [Nodes -> SUBSET (Nodes \cup Procs)]
  /\ left \in [Nodes -> SUBSET (Nodes \cup Procs)]
  /\ holder \in [Nodes -> ThreadIds \cup {NoThread}]
  /\ killed \subseteq Procs
  /\ lpc \in [Procs -> Lpcs] /\ lres \in [Procs -> Lresults]
  /\ tpc \in [Transitions -> Tpcs] /\ tres \in [Transitions -> Tresults]
  /\ answer \in [Transitions -> {"sat", "unsat", "blocked"}]
  /\ caller \in {"never", "idle", "cancel", "done"} /\ result \in Tresults

(* A node that is held is cancelled, one that is not held is drained, and  *)
(* what is cancelled registers nothing any more.                           *)
NodesOK ==
  \A n \in Nodes :
    /\ children[n] \cup left[n] \subseteq Kids(n)
    /\ holder[n] # NoThread => canceled[n]
    /\ holder[n] = NoThread => left[n] = {}
    /\ canceled[n] => children[n] = {}

(* The group of a transition is held by one of its own solvers' jobs, or   *)
(* by the thread that drains the query.                                    *)
GroupHolder ==
  \A t \in Transitions : holder[Group(t)] # NoThread =>
    \/ \E s \in Solvers : holder[Group(t)] = Proc(t, s) /\ lpc[Proc(t, s)] = "cancel"
    \/ holder[Query] = holder[Group(t)] /\ Group(t) \in left[Query]

(* From each process in a call up to the caller's node: it is registered,  *)
(* or about to be cancelled; or what it was registered with was cancelled, *)
(* and nothing is left to cancel there.                                    *)
Registered ==
  \A t \in Transitions, s \in Solvers :
    lpc[Proc(t, s)] \in {"query", "extract"} /\ Proc(t, s) \notin killed
    => Proc(t, s) \in children[Home(t)] \cup left[Home(t)]
GroupAttached ==
  \A t \in Transitions : Parallel /\ tpc[t] = "join" =>
    \/ Group(t) \in children[Query] \cup left[Query]
    \/ canceled[Group(t)] /\ left[Group(t)] = {}
QueryAttached ==
  (\E t \in Transitions : tpc[t] # "off") =>
    \/ Query \in children[Root] \cup left[Root]
    \/ canceled[Query] /\ left[Query] = {}

(* Between the rounds no solver of a transition runs; where they take      *)
(* turns, those before one that runs have had theirs.                      *)
Idle ==
  \A t \in Transitions, s \in Solvers :
    tpc[t] # "join" => lpc[Proc(t, s)] \notin {"query", "extract", "cancel"}
Turns ==
  ~Parallel =>
    \A t \in Transitions, s \in Solvers :
      /\ lpc[Proc(t, s)] # "cancel"
      /\ \A r \in 1 .. s - 1 :
           lpc[Proc(t, s)] \in {"query", "extract", "done"} =>
             lpc[Proc(t, r)] = "done" /\ lres[Proc(t, r)] = "Unknown"

(* Who cancels has a reason to.                                            *)
Reasons ==
  /\ canceled[Root] => caller \in {"cancel", "done"}
  /\ canceled[Query] => caller \in {"cancel", "done"} \/ \E t \in Transitions : tres[t] = "Cex"
  /\ \A t \in Transitions :
       canceled[Group(t)] =>
         /\ Parallel
         /\ canceled[Query] \/ \E s \in Solvers : lres[Proc(t, s)] \in Definite

(* What is killed, or gives up, is so for a cancellation.                  *)
Killings ==
  /\ killed \subseteq Busy
  /\ \A t \in Transitions, s \in Solvers :
       Proc(t, s) \in killed \/ lres[Proc(t, s)] = "Killed" => canceled[Home(t)]

(* Where a job is and what it returns.                                     *)
Outcomes ==
  /\ \A l \in Procs :
       /\ lpc[l] = "cancel" => lres[l] \in Definite
       /\ lpc[l] \in {"ready", "query", "extract"} => lres[l] = "none"
  /\ \A t \in Transitions :
       /\ tpc[t] \in {"off", "ready", "join"} => tres[t] = "none"
       /\ tpc[t] = "cancel" => tres[t] = "Cex"
       /\ tpc[t] = "done" => tres[t] # "none"

(* The results of the transitions are right.                               *)
Right ==
  \A t \in Transitions :
    /\ answer[t] \in {truth[t], "blocked"}
    /\ tres[t] = "Cex" => truth[t] = "sat"
    /\ tres[t] = "UnsatCore" => truth[t] = "unsat"
    /\ tres[t] = "Canceled" => caller \in {"cancel", "done"} \/ \E u \in Transitions : tres[u] = "Cex"

(* The inductive invariant.                                                *)
IInv ==
  /\ TypeOK /\ NodesOK /\ GroupHolder
  /\ Registered /\ GroupAttached /\ QueryAttached
  /\ Idle /\ Turns
  /\ Reasons /\ Killings /\ Outcomes /\ Right
  /\ ResultRight

----------------------------------------------------------------------------
(* The addresses of the tree                                               *)

LEMMA Tuples ==
  /\ \A t : <<"q", t>> # <<>> /\ <<"q", t>> # <<"q">> /\ <<"q", t>>[2] = t
  /\ \A t, u : <<"q", t>> = <<"q", u>> => t = u
  /\ \A t, s : <<"q", t, s>> # <<>> /\ <<"q", t, s>> # <<"q">> /\ <<"q", t, s>>[2] = t
  /\ \A t, s, u, r : <<"q", t, s>> = <<"q", u, r>> => t = u /\ s = r
  /\ \A t, s, u : <<"q", t, s>> # <<"q", u>>
  /\ <<"q">> # <<>> /\ <<"none">> # <<>>
  /\ \A t : <<"none">> # <<"q", t>>
  /\ \A t, s : <<"none">> # <<"q", t, s>>
OBVIOUS

LEMMA Addresses ==
  /\ Root \in Nodes /\ Query \in Nodes /\ Root # Query
  /\ \A t \in Transitions : /\ Group(t) \in Nodes /\ Group(t) # Root /\ Group(t) # Query
                            /\ Group(t) \in Groups /\ Group(t) \in ThreadIds /\ Group(t)[2] = t
  /\ \A t, u \in Transitions : Group(t) = Group(u) => t = u
  /\ \A t \in Transitions, s \in Solvers :
       /\ Proc(t, s) \in Procs /\ Proc(t, s) \in ThreadIds /\ Proc(t, s) \notin Nodes
       /\ Proc(t, s) # Root /\ Proc(t, s) # Query /\ Proc(t, s)[2] = t
       /\ \A u \in Transitions : Proc(t, s) # Group(u)
  /\ \A t, u \in Transitions, s, r \in Solvers : Proc(t, s) = Proc(u, r) => t = u /\ s = r
  /\ \A l \in Procs : \E t \in Transitions, s \in Solvers : l = Proc(t, s)
  /\ \A n \in Nodes : n = Root \/ n = Query \/ \E t \in Transitions : n = Group(t)
  /\ \A th \in ThreadIds :
       \/ th = Root
       \/ \E t \in Transitions : th = Group(t)
       \/ \E t \in Transitions, s \in Solvers : th = Proc(t, s)
  /\ Root \in ThreadIds /\ NoThread \notin ThreadIds
BY Tuples DEF Root, Query, Group, Proc, NoThread, Groups, Nodes, Procs, ThreadIds

(* Who cancels what.                                                       *)
LEMMA Callers ==
  /\ Target(Root) = Root /\ (Calls(Root) <=> caller = "cancel")
  /\ \A t \in Transitions :
       Target(Group(t)) = Query /\ (Calls(Group(t)) <=> tpc[t] = "cancel")
  /\ \A t \in Transitions, s \in Solvers :
       Target(Proc(t, s)) = Group(t) /\ (Calls(Proc(t, s)) <=> lpc[Proc(t, s)] = "cancel")
<1>1. Root \notin Groups /\ Root \notin Procs
  BY Addresses DEF Groups
<1>2. \A t \in Transitions : Group(t) \in Groups /\ Group(t) # Root /\ Group(t) \notin Procs /\ Group(t)[2] = t
  BY Addresses
<1>3. \A t \in Transitions, s \in Solvers :
        Proc(t, s) \in Procs /\ Proc(t, s) # Root /\ Proc(t, s) \notin Groups /\ Proc(t, s)[2] = t
  BY Addresses DEF Groups
<1>4. Target(Root) = Root /\ (Calls(Root) <=> caller = "cancel")
  BY <1>1 DEF Target, Calls
<1>5. ASSUME NEW t \in Transitions
      PROVE  Target(Group(t)) = Query /\ (Calls(Group(t)) <=> tpc[t] = "cancel")
  BY <1>2 DEF Target, Calls
<1>6. ASSUME NEW t \in Transitions, NEW s \in Solvers
      PROVE  Target(Proc(t, s)) = Group(t) /\ (Calls(Proc(t, s)) <=> lpc[Proc(t, s)] = "cancel")
  BY <1>3 DEF Target, Calls
<1> QED BY <1>4, <1>5, <1>6

LEMMA KidsFacts ==
  /\ Kids(Root) = {Query}
  /\ Parallel => Kids(Query) = Groups
  /\ ~Parallel => Kids(Query) = Procs
  /\ \A t \in Transitions : Kids(Group(t)) = IF Parallel THEN {Proc(t, s) : s \in Solvers} ELSE {}
<1>1. Kids(Root) = {Query} /\ (Parallel => Kids(Query) = Groups) /\ (~Parallel => Kids(Query) = Procs)
  BY Addresses DEF Kids
<1>2. ASSUME NEW t \in Transitions
      PROVE  Kids(Group(t)) = IF Parallel THEN {Proc(t, s) : s \in Solvers} ELSE {}
  <2>1. {l \in Procs : \E u \in Transitions, s \in Solvers : Group(t) = Group(u) /\ l = Proc(u, s)}
          = {Proc(t, s) : s \in Solvers}
    BY Addresses
  <2>2. Group(t) # Root /\ Group(t) # Query
    BY Addresses
  <2> QED BY <2>1, <2>2 DEF Kids
<1> QED BY <1>1, <1>2
----------------------------------------------------------------------------
(* Steps that leave the tree alone                                         *)

LEMMA SameGiven ==
  ASSUME UNCHANGED given
  PROVE  /\ Parallel' = Parallel /\ truth' = truth /\ strategy' = strategy /\ answering' = answering
         /\ \A t : Home(t)' = Home(t)
         /\ \A n : Kids(n)' = Kids(n)
BY DEF given, Parallel, Home, Kids

LEMMA SameTree ==
  ASSUME IInv, UNCHANGED given, UNCHANGED tree
  PROVE  NodesOK' /\ UNCHANGED <<canceled, children, holder, left>>
BY SameGiven DEF IInv, NodesOK, tree

LEMMA Homes ==
  /\ \A t \in Transitions : Home(t) = IF Parallel THEN Group(t) ELSE Query
  /\ \A t \in Transitions : Home(t) \in Nodes
BY Addresses DEF Home

LEMMA InitInv == Init => IInv
<1> SUFFICES ASSUME Init PROVE IInv
  OBVIOUS
<1> USE DEF Init
<1>1. TypeOK
  <2>1. answer \in [Transitions -> {"sat", "unsat", "blocked"}]
    OBVIOUS
  <2>2. canceled \in [Nodes -> BOOLEAN] /\ children \in [Nodes -> SUBSET (Nodes \cup Procs)]
        /\ left \in [Nodes -> SUBSET (Nodes \cup Procs)]
        /\ holder \in [Nodes -> ThreadIds \cup {NoThread}]
    OBVIOUS
  <2>3. lpc \in [Procs -> Lpcs] /\ lres \in [Procs -> Lresults]
    BY DEF Lpcs, Lresults
  <2>4. tpc \in [Transitions -> Tpcs] /\ tres \in [Transitions -> Tresults]
    BY DEF Tpcs, Tresults
  <2> QED BY <2>1, <2>2, <2>3, <2>4 DEF TypeOK, Tresults
<1>2. NodesOK
  BY DEF NodesOK
<1>3. GroupHolder
  BY Addresses DEF GroupHolder
<1>4. \A t \in Transitions, s \in Solvers : lpc[Proc(t, s)] = "off" /\ lres[Proc(t, s)] = "none"
  BY Addresses
<1>5. Registered /\ Idle /\ Turns
  <2>1. \A s \in Solvers : 1 .. s - 1 \subseteq Solvers
    BY ParallelQueryAssumption DEF Solvers
  <2> QED BY <1>4, <2>1 DEF Registered, Idle, Turns
<1>6. GroupAttached /\ QueryAttached
  BY DEF GroupAttached, QueryAttached
<1>7. Reasons
  BY Addresses DEF Reasons
<1>8. Killings
  BY <1>4 DEF Killings
<1>9. Outcomes /\ Right /\ ResultRight
  BY DEF Outcomes, Right, ResultRight
<1> QED BY <1>1, <1>2, <1>3, <1>5, <1>6, <1>7, <1>8, <1>9 DEF IInv

LEMMA StutterInv == ASSUME IInv, UNCHANGED vars PROVE IInv'
<1>1. UNCHANGED given /\ UNCHANGED tree /\ UNCHANGED solving /\ UNCHANGED running /\ UNCHANGED <<caller, result>>
  BY DEF vars
<1>2. NodesOK' /\ UNCHANGED <<canceled, children, holder, left>>
  BY <1>1, SameTree
<1>3. UNCHANGED <<lpc, lres, killed, tpc, tres, blocked, answer>>
  BY <1>1 DEF solving, running
<1>4. TypeOK'
  BY <1>1, <1>2, <1>3, SameGiven DEF IInv, TypeOK
<1>5. GroupHolder' /\ Registered' /\ GroupAttached' /\ QueryAttached'
  BY <1>1, <1>2, <1>3, SameGiven DEF IInv, GroupHolder, Registered, GroupAttached, QueryAttached
<1>6. Idle' /\ Turns' /\ Reasons' /\ Killings' /\ Outcomes' /\ Right' /\ ResultRight'
  BY <1>1, <1>2, <1>3, SameGiven DEF IInv, Idle, Turns, Reasons, Killings, Outcomes, Right, ResultRight, Busy
<1> QED BY <1>2, <1>4, <1>5, <1>6 DEF IInv

LEMMA CallerCancelsInv == ASSUME IInv, CallerCancels PROVE IInv'
<1>1. UNCHANGED given /\ UNCHANGED tree /\ UNCHANGED solving /\ UNCHANGED running /\ UNCHANGED result
      /\ caller' = "cancel"
  BY DEF CallerCancels
<1>2. NodesOK' /\ UNCHANGED <<canceled, children, holder, left>>
  BY <1>1, SameTree
<1>3. UNCHANGED <<lpc, lres, killed, tpc, tres, blocked, answer>>
  BY <1>1 DEF solving, running
<1>4. TypeOK'
  BY <1>1, <1>2, <1>3, SameGiven DEF IInv, TypeOK
<1>5. GroupHolder' /\ Registered' /\ GroupAttached' /\ QueryAttached'
  BY <1>1, <1>2, <1>3, SameGiven DEF IInv, GroupHolder, Registered, GroupAttached, QueryAttached
<1>6. Idle' /\ Turns' /\ Killings' /\ Outcomes'
  BY <1>1, <1>2, <1>3, SameGiven DEF IInv, Idle, Turns, Killings, Outcomes, Busy
<1>7. Reasons' /\ Right' /\ ResultRight'
  BY <1>1, <1>2, <1>3, SameGiven DEF IInv, Reasons, Right, ResultRight
<1> QED BY <1>2, <1>4, <1>5, <1>6, <1>7 DEF IInv

(* What decides the result decides it rightly: a counterexample goes       *)
(* before a cancellation, which only the caller can then be behind.        *)
LEMMA CollectInv == ASSUME IInv, Collect PROVE IInv'
<1> DEFINE all == {tres[t] : t \in Transitions}
           Best(r) == \A better \in {"panic", "Cex", "Canceled", "Unknown"} \cap all :
                        \/ r = better
                        \/ r = "panic"
                        \/ r = "Cex" /\ better \in {"Canceled", "Unknown"}
                        \/ r = "Canceled" /\ better = "Unknown"
<1>1. UNCHANGED given /\ UNCHANGED tree /\ UNCHANGED solving /\ UNCHANGED running /\ UNCHANGED caller
      /\ result' = (CHOOSE r \in all : Best(r))
      /\ \A t \in Transitions : tpc[t] = "done"
  BY DEF Collect
<1>2. NodesOK' /\ UNCHANGED <<canceled, children, holder, left>>
  BY <1>1, SameTree
<1>3. UNCHANGED <<lpc, lres, killed, tpc, tres, blocked, answer>>
  BY <1>1 DEF solving, running
<1>5. GroupHolder' /\ Registered' /\ GroupAttached' /\ QueryAttached'
  BY <1>1, <1>2, <1>3, SameGiven DEF IInv, GroupHolder, Registered, GroupAttached, QueryAttached
<1>6. Idle' /\ Turns' /\ Reasons' /\ Killings' /\ Outcomes' /\ Right'
  BY <1>1, <1>2, <1>3, SameGiven DEF IInv, Idle, Turns, Reasons, Killings, Outcomes, Right, Busy
<1>7. result' \in all /\ Best(result')
  <2>1. \A r \in all : r \in {"Cex", "UnsatCore", "Unknown", "Canceled", "panic"}
    BY <1>1 DEF IInv, TypeOK, Tresults, Outcomes
  <2>2. all # {}
    BY ParallelQueryAssumption
  <2>3. \E r \in all : Best(r)
    <3>1. CASE "panic" \in all
      BY <3>1
    <3>2. CASE "panic" \notin all /\ "Cex" \in all
      BY <3>2
    <3>3. CASE "panic" \notin all /\ "Cex" \notin all /\ "Canceled" \in all
      BY <3>3
    <3>4. CASE "panic" \notin all /\ "Cex" \notin all /\ "Canceled" \notin all
      <4>1. CASE "Unknown" \in all
        BY <3>4, <4>1
      <4>2. CASE "Unknown" \notin all
        BY <2>2, <3>4, <4>2
      <4> QED BY <4>1, <4>2
    <3> QED BY <3>1, <3>2, <3>3, <3>4
  <2> QED BY <1>1, <2>3
<1>4. TypeOK'
  <2>1. result' \in Tresults
    BY <1>7 DEF IInv, TypeOK
  <2> QED BY <1>1, <1>2, <1>3, <2>1, SameGiven DEF IInv, TypeOK
<1>8. PICK t \in Transitions : result' = tres[t]
  BY <1>7
<1>9. result' = "Cex" => \E u \in Transitions : truth[u] = "sat"
  BY <1>8 DEF IInv, Right
<1>10. result' = "UnsatCore" => \A u \in Transitions : truth[u] = "unsat"
  <2> SUFFICES ASSUME result' = "UnsatCore", NEW u \in Transitions PROVE truth[u] = "unsat"
    OBVIOUS
  <2>1. tres[u] \in all /\ tres[u] \in {"Cex", "UnsatCore", "Unknown", "Canceled", "panic"}
    BY <1>1 DEF IInv, TypeOK, Tresults, Outcomes
  <2>2. tres[u] = "UnsatCore"
    BY <1>7, <2>1
  <2> QED BY <2>2 DEF IInv, Right
<1>11. result' = "Canceled" => caller \in {"cancel", "done"}
  <2> SUFFICES ASSUME result' = "Canceled" PROVE caller \in {"cancel", "done"}
    OBVIOUS
  <2>1. "Cex" \notin all
    BY <1>7
  <2>2. \A u \in Transitions : tres[u] # "Cex"
    BY <2>1
  <2> QED BY <1>8, <2>2 DEF IInv, Right
<1>12. ResultRight'
  BY <1>1, <1>9, <1>10, <1>11, SameGiven DEF ResultRight
<1> QED BY <1>2, <1>4, <1>5, <1>6, <1>12 DEF IInv

----------------------------------------------------------------------------
(* The jobs of the solvers                                                 *)

(* A job of a transition that is waiting for it ends: by an answer of its  *)
(* own, or Killed when the node it belongs to was cancelled.               *)
LEMMA ReturnInv ==
  ASSUME IInv, NEW t \in Transitions, NEW s \in Solvers, NEW r \in Lresults \ {"none"},
         tpc[t] = "join", lpc[Proc(t, s)] \in {"ready", "query", "extract"}, Turn(t, s),
         r = "Killed" => canceled[Home(t)],
         Return(Proc(t, s), r),
         UNCHANGED given, UNCHANGED tree, UNCHANGED running, UNCHANGED <<caller, result>>
  PROVE  IInv'
<1> DEFINE l == Proc(t, s)
<1>0. l \in Procs
  BY Addresses
<1>1. NodesOK' /\ UNCHANGED <<canceled, children, holder, left>>
  BY SameTree
<1>2. UNCHANGED <<tpc, tres, blocked, answer>>
  BY DEF running
<1>3. /\ lres' = [lres EXCEPT ![l] = r] /\ killed' = killed \ {l}
      /\ lpc' = [lpc EXCEPT ![l] = IF Parallel /\ r \in Definite THEN "cancel" ELSE "done"]
  BY DEF Return
<1>4. lpc[l] \in {"ready", "query", "extract"} /\ lres[l] = "none" /\ lpc[l] # "cancel" /\ lpc[l] # "done"
  BY <1>0 DEF IInv, Outcomes
<1>5. \A u \in Transitions, p \in Solvers : Proc(u, p) = l => u = t /\ p = s
  BY Addresses
<1>6. \A u \in Transitions, p \in Solvers : Proc(u, p) \in Procs
  BY Addresses
<1> HIDE DEF l
<1>7. lpc \in [Procs -> Lpcs] /\ lres \in [Procs -> Lresults] /\ killed \subseteq Procs
  BY DEF IInv, TypeOK
<1>8. /\ lres'[l] = r /\ lpc'[l] \in {"cancel", "done"} /\ (lpc'[l] = "cancel" <=> Parallel /\ r \in Definite)
      /\ \A k \in Procs : k # l => lres'[k] = lres[k] /\ lpc'[k] = lpc[k]
      /\ lpc' \in [Procs -> Lpcs] /\ lres' \in [Procs -> Lresults]
  BY <1>0, <1>3, <1>7 DEF Lpcs
<1>9. TypeOK'
  BY <1>1, <1>2, <1>3, <1>7, <1>8, SameGiven DEF IInv, TypeOK
<1>10. GroupHolder'
  <2>1. \A k \in Procs : lpc[k] = "cancel" => lpc'[k] = "cancel"
    BY <1>4, <1>8
  <2> QED BY <1>1, <1>6, <2>1 DEF IInv, GroupHolder
<1>11. Registered'
  <2> SUFFICES ASSUME NEW u \in Transitions, NEW p \in Solvers,
                      lpc'[Proc(u, p)] \in {"query", "extract"}, Proc(u, p) \notin killed'
               PROVE  Proc(u, p) \in children[Home(u)] \cup left[Home(u)]
    BY <1>1, SameGiven DEF Registered
  <2>1. Proc(u, p) # l
    BY <1>8
  <2>2. lpc[Proc(u, p)] \in {"query", "extract"} /\ Proc(u, p) \notin killed
    BY <1>3, <1>6, <1>8, <2>1
  <2> QED BY <2>2 DEF IInv, Registered
<1>12. GroupAttached' /\ QueryAttached'
  BY <1>1, <1>2, SameGiven DEF IInv, GroupAttached, QueryAttached
<1>13. Idle'
  <2> SUFFICES ASSUME NEW u \in Transitions, NEW p \in Solvers, tpc[u] # "join"
               PROVE  lpc'[Proc(u, p)] \notin {"query", "extract", "cancel"}
    BY <1>2 DEF Idle
  <2>1. Proc(u, p) # l
    BY <1>5
  <2> QED BY <1>6, <1>8, <2>1 DEF IInv, Idle
<1>14. Turns'
  <2> SUFFICES ASSUME ~Parallel, NEW u \in Transitions, NEW p \in Solvers
               PROVE  /\ lpc'[Proc(u, p)] # "cancel"
                      /\ \A q \in 1 .. p - 1 :
                           lpc'[Proc(u, p)] \in {"query", "extract", "done"} =>
                             lpc'[Proc(u, q)] = "done" /\ lres'[Proc(u, q)] = "Unknown"
    BY SameGiven DEF Turns
  <2>1. lpc'[Proc(u, p)] # "cancel"
    BY <1>6, <1>8 DEF IInv, Turns
  <2>2. ASSUME NEW q \in 1 .. p - 1, lpc'[Proc(u, p)] \in {"query", "extract", "done"}
        PROVE  lpc'[Proc(u, q)] = "done" /\ lres'[Proc(u, q)] = "Unknown"
    <3>1. q \in Solvers /\ q # p
      BY <2>2, ParallelQueryAssumption DEF Solvers
    <3>2. lpc[Proc(u, q)] = "done" /\ lres[Proc(u, q)] = "Unknown"
      <4>1. CASE Proc(u, p) = l
        <5>1. u = t /\ p = s
          BY <1>5, <4>1
        <5> QED BY <2>2, <5>1 DEF Turn
      <4>2. CASE Proc(u, p) # l
        BY <1>6, <1>8, <2>2, <4>2 DEF IInv, Turns
      <4> QED BY <4>1, <4>2
    <3>3. Proc(u, q) # l
      BY <1>4, <3>2
    <3> QED BY <1>6, <1>8, <3>1, <3>2, <3>3
  <2> QED BY <2>1, <2>2
<1>15. Reasons'
  <2>1. \A u \in Transitions, p \in Solvers : lres[Proc(u, p)] \in Definite => lres'[Proc(u, p)] \in Definite
    BY <1>4, <1>6, <1>8 DEF Definite
  <2> QED BY <1>1, <1>2, <2>1, SameGiven DEF IInv, Reasons
<1>16. Killings'
  <2>1. killed' \subseteq Busy'
    BY <1>3, <1>7, <1>8 DEF IInv, Killings, Busy
  <2>2. ASSUME NEW u \in Transitions, NEW p \in Solvers,
               Proc(u, p) \in killed' \/ lres'[Proc(u, p)] = "Killed"
        PROVE  canceled[Home(u)]
    <3>1. CASE Proc(u, p) = l
      <4>1. u = t
        BY <1>5, <3>1
      <4>2. r = "Killed"
        BY <1>3, <1>8, <2>2, <3>1
      <4> QED BY <4>1, <4>2
    <3>2. CASE Proc(u, p) # l
      BY <1>3, <1>6, <1>8, <2>2, <3>2 DEF IInv, Killings
    <3> QED BY <3>1, <3>2
  <2> QED BY <1>1, <2>1, <2>2, SameGiven DEF Killings
<1>17. Outcomes'
  BY <1>2, <1>8 DEF IInv, Outcomes
<1>18. Right' /\ ResultRight'
  BY <1>2, SameGiven DEF IInv, Right, ResultRight
<1> QED
  BY <1>1, <1>9, <1>10, <1>11, <1>12, <1>13, <1>14, <1>15, <1>16, <1>17, <1>18 DEF IInv

(* A job goes on to the next call, on a solver that is registered.         *)
LEMMA GoOnInv ==
  ASSUME IInv, NEW t \in Transitions, NEW s \in Solvers, NEW pc \in {"query", "extract"},
         tpc[t] = "join", lpc[Proc(t, s)] \in {"ready", "query"}, Turn(t, s),
         Proc(t, s) \in children'[Home(t)] \cup left'[Home(t)],
         NodesOK', UNCHANGED <<canceled, holder, left>>,
         \A n \in Nodes : children[n] \subseteq children'[n],
         children' \in [Nodes -> SUBSET (Nodes \cup Procs)],
         lpc' = [lpc EXCEPT ![Proc(t, s)] = pc],
         UNCHANGED given, UNCHANGED <<lres, killed>>, UNCHANGED running, UNCHANGED <<caller, result>>
  PROVE  IInv'
<1> DEFINE l == Proc(t, s)
<1>0. l \in Procs
  BY Addresses
<1>2. UNCHANGED <<tpc, tres, blocked, answer>>
  BY DEF running
<1>4. lpc[l] \in {"ready", "query"} /\ lres[l] = "none" /\ lpc[l] # "cancel" /\ lpc[l] # "done"
  BY <1>0 DEF IInv, Outcomes
<1>5. \A u \in Transitions, p \in Solvers : Proc(u, p) = l => u = t /\ p = s
  BY Addresses
<1>6. \A u \in Transitions, p \in Solvers : Proc(u, p) \in Procs
  BY Addresses
<1>7. lpc \in [Procs -> Lpcs]
  BY DEF IInv, TypeOK
<1>3. lpc' = [lpc EXCEPT ![l] = pc] /\ l \in children'[Home(t)] \cup left[Home(t)]
  OBVIOUS
<1> HIDE DEF l
<1>8. /\ lpc'[l] = pc /\ lpc'[l] \in {"query", "extract"}
      /\ \A k \in Procs : k # l => lpc'[k] = lpc[k]
      /\ lpc' \in [Procs -> Lpcs]
  BY <1>0, <1>3, <1>7 DEF Lpcs
<1>9. TypeOK'
  BY <1>2, <1>8, SameGiven DEF IInv, TypeOK
<1>10. GroupHolder'
  <2>1. \A k \in Procs : lpc[k] = "cancel" => lpc'[k] = "cancel"
    BY <1>4, <1>8
  <2> QED BY <1>6, <2>1 DEF IInv, GroupHolder
<1>11. Registered'
  <2> SUFFICES ASSUME NEW u \in Transitions, NEW p \in Solvers,
                      lpc'[Proc(u, p)] \in {"query", "extract"}, Proc(u, p) \notin killed
               PROVE  Proc(u, p) \in children'[Home(u)] \cup left[Home(u)]
    BY SameGiven DEF Registered
  <2>1. CASE Proc(u, p) = l
    BY <1>3, <1>5, <2>1
  <2>2. CASE Proc(u, p) # l
    <3>1. lpc[Proc(u, p)] \in {"query", "extract"}
      BY <1>6, <1>8, <2>2
    <3> QED BY <3>1, Homes DEF IInv, Registered
  <2> QED BY <2>1, <2>2
<1>12. GroupAttached' /\ QueryAttached'
  BY <1>2, SameGiven, Addresses DEF IInv, GroupAttached, QueryAttached
<1>13. Idle'
  <2> SUFFICES ASSUME NEW u \in Transitions, NEW p \in Solvers, tpc[u] # "join"
               PROVE  lpc'[Proc(u, p)] \notin {"query", "extract", "cancel"}
    BY <1>2 DEF Idle
  <2>1. Proc(u, p) # l
    BY <1>5
  <2> QED BY <1>6, <1>8, <2>1 DEF IInv, Idle
<1>14. Turns'
  <2> SUFFICES ASSUME ~Parallel, NEW u \in Transitions, NEW p \in Solvers
               PROVE  /\ lpc'[Proc(u, p)] # "cancel"
                      /\ \A q \in 1 .. p - 1 :
                           lpc'[Proc(u, p)] \in {"query", "extract", "done"} =>
                             lpc'[Proc(u, q)] = "done" /\ lres[Proc(u, q)] = "Unknown"
    BY SameGiven DEF Turns
  <2>1. lpc'[Proc(u, p)] # "cancel"
    BY <1>6, <1>8 DEF IInv, Turns
  <2>2. ASSUME NEW q \in 1 .. p - 1, lpc'[Proc(u, p)] \in {"query", "extract", "done"}
        PROVE  lpc'[Proc(u, q)] = "done" /\ lres[Proc(u, q)] = "Unknown"
    <3>1. q \in Solvers /\ q # p
      BY <2>2, ParallelQueryAssumption DEF Solvers
    <3>2. lpc[Proc(u, q)] = "done" /\ lres[Proc(u, q)] = "Unknown"
      <4>1. CASE Proc(u, p) = l
        <5>1. u = t /\ p = s
          BY <1>5, <4>1
        <5> QED BY <2>2, <5>1 DEF Turn
      <4>2. CASE Proc(u, p) # l
        BY <1>6, <1>8, <2>2, <4>2 DEF IInv, Turns
      <4> QED BY <4>1, <4>2
    <3>3. Proc(u, q) # l
      BY <1>4, <3>2
    <3> QED BY <1>6, <1>8, <3>1, <3>2, <3>3
  <2> QED BY <2>1, <2>2
<1>15. Reasons'
  BY <1>2, SameGiven DEF IInv, Reasons
<1>16. Killings'
  <2>1. killed' \subseteq Busy'
    BY <1>8 DEF IInv, Killings, Busy
  <2> QED BY <2>1, SameGiven DEF IInv, Killings
<1>17. Outcomes'
  BY <1>0, <1>2, <1>4, <1>8 DEF IInv, Outcomes
<1>18. Right' /\ ResultRight'
  BY <1>2, SameGiven DEF IInv, Right, ResultRight
<1> QED
  BY <1>9, <1>10, <1>11, <1>12, <1>13, <1>14, <1>15, <1>16, <1>17, <1>18 DEF IInv

(* Those before a solver in a call have had their turns.                   *)
LEMMA InTurn ==
  ASSUME IInv, NEW t \in Transitions, NEW s \in Solvers, lpc[Proc(t, s)] \in {"query", "extract"}
  PROVE  tpc[t] = "join" /\ Turn(t, s)
BY DEF IInv, Idle, Turns, Turn

LEMMA StartSolverInv ==
  ASSUME IInv, NEW t \in Transitions, NEW s \in Solvers, StartSolver(t, s)
  PROVE  IInv'
<1> DEFINE l == Proc(t, s)
<1>0. /\ tpc[t] = "join" /\ lpc[l] = "ready" /\ Turn(t, s)
      /\ UNCHANGED given /\ UNCHANGED running /\ UNCHANGED <<caller, result>>
  BY DEF StartSolver
<1>1. CASE AddCanceler(Home(t), l) /\ lpc' = [lpc EXCEPT ![l] = "query"] /\ UNCHANGED <<lres, killed>>
  <2>1. /\ ~canceled[Home(t)] /\ UNCHANGED <<canceled, holder, left>>
        /\ children' = [children EXCEPT ![Home(t)] = @ \cup {l}]
    BY <1>1 DEF AddCanceler
  <2>2. children \in [Nodes -> SUBSET (Nodes \cup Procs)] /\ Home(t) \in Nodes /\ l \in Procs
    BY Homes, Addresses DEF IInv, TypeOK
  <2>3. l \in Kids(Home(t))
    <3>1. CASE Parallel
      BY <3>1, Homes, KidsFacts
    <3>2. CASE ~Parallel
      BY <2>2, <3>2, Homes, KidsFacts
    <3> QED BY <3>1, <3>2
  <2> HIDE DEF l
  <2>4. /\ children'[Home(t)] = children[Home(t)] \cup {l}
        /\ \A n \in Nodes : n # Home(t) => children'[n] = children[n]
        /\ children' \in [Nodes -> SUBSET (Nodes \cup Procs)]
    BY <2>1, <2>2
  <2>5. NodesOK'
    <3> SUFFICES ASSUME NEW n \in Nodes
                 PROVE  /\ children'[n] \cup left[n] \subseteq Kids(n)
                        /\ holder[n] # NoThread => canceled[n]
                        /\ holder[n] = NoThread => left[n] = {}
                        /\ canceled[n] => children'[n] = {}
      BY <1>0, <2>1, SameGiven DEF NodesOK
    <3>1. CASE n = Home(t)
      BY <2>1, <2>3, <2>4, <3>1 DEF IInv, NodesOK
    <3>2. CASE n # Home(t)
      BY <2>1, <2>4, <3>2 DEF IInv, NodesOK
    <3> QED BY <3>1, <3>2
  <2>6. l \in children'[Home(t)] \cup left'[Home(t)] /\ \A n \in Nodes : children[n] \subseteq children'[n]
    BY <2>4
  <2> QED BY <1>0, <1>1, <2>1, <2>4, <2>5, <2>6, GoOnInv DEF l
<1>2. CASE Refused(Home(t)) /\ Return(l, "Killed")
  BY <1>0, <1>2, ReturnInv DEF Refused, Lresults
<1> QED BY <1>1, <1>2 DEF StartSolver

LEMMA Answerings == IInv => answering \subseteq {"Unknown", "Error"}
BY ParallelQueryAssumption DEF IInv, TypeOK

LEMMA AnswerInv ==
  ASSUME IInv, NEW t \in Transitions, NEW s \in Solvers, Answer(t, s)
  PROVE  IInv'
<1> DEFINE l == Proc(t, s)
<1>1. /\ lpc[l] = "query" /\ l \notin killed
      /\ UNCHANGED given /\ UNCHANGED tree /\ UNCHANGED running /\ UNCHANGED <<caller, result>>
  BY DEF Answer
<1>2. tpc[t] = "join" /\ Turn(t, s)
  BY <1>1, InTurn
<1>3. CASE lpc' = [lpc EXCEPT ![l] = "extract"] /\ UNCHANGED <<lres, killed>>
  <2>1. NodesOK' /\ UNCHANGED <<canceled, children, holder, left>>
    BY <1>1, SameTree
  <2>2. l \in children[Home(t)] \cup left[Home(t)] /\ children \in [Nodes -> SUBSET (Nodes \cup Procs)]
    BY <1>1 DEF IInv, Registered, TypeOK
  <2> QED BY <1>1, <1>2, <1>3, <2>1, <2>2, GoOnInv
<1>4. CASE \E r \in answering : Return(l, r)
  <2>1. PICK r \in answering : Return(l, r)
    BY <1>4
  <2>2. r \in Lresults \ {"none"} /\ r # "Killed"
    BY Answerings DEF Lresults
  <2> QED BY <1>1, <1>2, <2>1, <2>2, ReturnInv
<1> QED BY <1>3, <1>4 DEF Answer

LEMMA ExtractInv ==
  ASSUME IInv, NEW t \in Transitions, NEW s \in Solvers, Extract(t, s)
  PROVE  IInv'
<1>1. /\ lpc[Proc(t, s)] = "extract"
      /\ UNCHANGED given /\ UNCHANGED tree /\ UNCHANGED running /\ UNCHANGED <<caller, result>>
  BY DEF Extract
<1>2. PICK r \in {"unsat", "sat"} \cup answering : Return(Proc(t, s), r)
  BY DEF Extract
<1>3. tpc[t] = "join" /\ Turn(t, s)
  BY <1>1, InTurn
<1>4. r \in Lresults \ {"none"} /\ r # "Killed"
  BY Answerings DEF Lresults
<1> QED BY <1>1, <1>2, <1>3, <1>4, ReturnInv

LEMMA AnswerKilledInv ==
  ASSUME IInv, NEW t \in Transitions, NEW s \in Solvers, AnswerKilled(t, s)
  PROVE  IInv'
<1>1. /\ lpc[Proc(t, s)] \in {"query", "extract"} /\ Proc(t, s) \in killed
      /\ Return(Proc(t, s), "Killed")
      /\ UNCHANGED given /\ UNCHANGED tree /\ UNCHANGED running /\ UNCHANGED <<caller, result>>
  BY DEF AnswerKilled
<1>2. tpc[t] = "join" /\ Turn(t, s)
  BY <1>1, InTurn
<1>3. canceled[Home(t)]
  BY <1>1 DEF IInv, Killings
<1> QED BY <1>1, <1>2, <1>3, ReturnInv DEF Lresults

LEMMA PanicsInv ==
  ASSUME IInv, NEW t \in Transitions, NEW s \in Solvers, Panics(t, s)
  PROVE  IInv'
<1>1. /\ lpc[Proc(t, s)] \in {"query", "extract"} /\ Return(Proc(t, s), "panic")
      /\ UNCHANGED given /\ UNCHANGED tree /\ UNCHANGED running /\ UNCHANGED <<caller, result>>
  BY DEF Panics
<1>2. tpc[t] = "join" /\ Turn(t, s)
  BY <1>1, InTurn
<1> QED BY <1>1, <1>2, ReturnInv DEF Lresults

----------------------------------------------------------------------------
(* The jobs of the transitions                                             *)

(* A round that is over has no solver that still runs.                     *)
LEMMA JoinedIdle ==
  ASSUME IInv, NEW t \in Transitions, Joined(t)
  PROVE  \A s \in Solvers : lpc[Proc(t, s)] \notin {"query", "extract", "cancel"}
<1>1. CASE Parallel
  BY <1>1 DEF Joined
<1>2. CASE ~Parallel
  <2>1. PICK s \in Solvers : /\ lpc[Proc(t, s)] = "done"
                             /\ s = NumSolvers \/ lres[Proc(t, s)] # "Unknown"
    BY <1>2 DEF Joined
  <2>2. ASSUME NEW r \in Solvers, lpc[Proc(t, r)] \in {"query", "extract", "cancel"}
        PROVE  FALSE
    <3>1. lpc[Proc(t, r)] \in {"query", "extract"} /\ r # s
      BY <1>2, <2>1, <2>2 DEF IInv, Turns
    <3>2. r \in Nat /\ s \in Nat /\ 1 <= r /\ 1 <= s /\ r <= NumSolvers /\ NumSolvers \in Nat
      BY ParallelQueryAssumption DEF Solvers
    <3>3. CASE r < s
      <4>1. r \in 1 .. s - 1
        BY <3>2, <3>3
      <4>2. lpc[Proc(t, r)] = "done"
        BY <1>2, <2>1, <4>1 DEF IInv, Turns
      <4> QED BY <3>1, <4>2
    <3>4. CASE s < r
      <4>1. s \in 1 .. r - 1 /\ s # NumSolvers
        BY <3>2, <3>4
      <4>2. lres[Proc(t, s)] = "Unknown"
        BY <1>2, <3>1, <4>1 DEF IInv, Turns
      <4> QED BY <2>1, <4>1, <4>2
    <3> QED BY <3>1, <3>2, <3>3, <3>4
  <2> QED BY <2>2
<1> QED BY <1>1, <1>2

(* A transition is done with the result r.                                 *)
LEMMA ConcludeInv ==
  ASSUME IInv, NEW t \in Transitions, NEW r \in Tresults \ {"none"},
         tpc[t] \in {"ready", "join"},
         \A s \in Solvers : lpc[Proc(t, s)] \notin {"query", "extract", "cancel"},
         r = "Cex" => truth[t] = "sat", r = "UnsatCore" => truth[t] = "unsat",
         r = "Canceled" => caller \in {"cancel", "done"} \/ \E u \in Transitions : tres[u] = "Cex",
         Conclude(t, r),
         UNCHANGED given, UNCHANGED tree, UNCHANGED solving, UNCHANGED <<blocked, answer, caller, result>>
  PROVE  IInv'
<1>1. NodesOK' /\ UNCHANGED <<canceled, children, holder, left>>
  BY SameTree
<1>2. UNCHANGED <<lpc, lres, killed>>
  BY DEF solving
<1>3. /\ tres' = [tres EXCEPT ![t] = r]
      /\ tpc' = [tpc EXCEPT ![t] = IF r = "Cex" THEN "cancel" ELSE "done"]
  BY DEF Conclude
<1>4. tpc \in [Transitions -> Tpcs] /\ tres \in [Transitions -> Tresults]
  BY DEF IInv, TypeOK
<1>5. /\ tres'[t] = r /\ tpc'[t] \in {"cancel", "done"} /\ (tpc'[t] = "cancel" <=> r = "Cex")
      /\ \A u \in Transitions : u # t => tres'[u] = tres[u] /\ tpc'[u] = tpc[u]
      /\ tpc' \in [Transitions -> Tpcs] /\ tres' \in [Transitions -> Tresults]
  BY <1>3, <1>4 DEF Tpcs
<1>6. tres[t] = "none"
  BY DEF IInv, Outcomes
<1>7. TypeOK'
  BY <1>1, <1>2, <1>5, SameGiven DEF IInv, TypeOK
<1>8. GroupHolder' /\ Registered'
  BY <1>1, <1>2, SameGiven DEF IInv, GroupHolder, Registered
<1>9. GroupAttached'
  BY <1>1, <1>5, SameGiven DEF IInv, GroupAttached
<1>10. QueryAttached'
  <2>1. \E u \in Transitions : tpc[u] # "off"
    OBVIOUS
  <2> QED BY <1>1, <2>1 DEF IInv, QueryAttached
<1>11. Idle'
  <2> SUFFICES ASSUME NEW u \in Transitions, NEW p \in Solvers, tpc'[u] # "join"
               PROVE  lpc[Proc(u, p)] \notin {"query", "extract", "cancel"}
    BY <1>2 DEF Idle
  <2>1. u = t \/ tpc[u] # "join"
    BY <1>5
  <2> QED BY <2>1 DEF IInv, Idle
<1>12. Turns' /\ Killings'
  BY <1>1, <1>2, SameGiven DEF IInv, Turns, Killings, Busy
<1>13. \A u \in Transitions : tres[u] = "Cex" => tres'[u] = "Cex"
  BY <1>5, <1>6
<1>14. Reasons'
  BY <1>1, <1>2, <1>13, SameGiven DEF IInv, Reasons
<1>15. Outcomes'
  BY <1>2, <1>5 DEF IInv, Outcomes
<1>16. Right'
  <2> SUFFICES ASSUME NEW u \in Transitions
               PROVE  /\ answer[u] \in {truth[u], "blocked"}
                      /\ tres'[u] = "Cex" => truth[u] = "sat"
                      /\ tres'[u] = "UnsatCore" => truth[u] = "unsat"
                      /\ tres'[u] = "Canceled" => caller \in {"cancel", "done"} \/ \E v \in Transitions : tres'[v] = "Cex"
    BY SameGiven DEF Right
  <2>1. CASE u = t
    BY <1>5, <1>13, <2>1 DEF IInv, Right
  <2>2. CASE u # t
    BY <1>5, <1>13, <2>2 DEF IInv, Right
  <2> QED BY <2>1, <2>2
<1>17. ResultRight'
  BY SameGiven DEF IInv, ResultRight
<1> QED
  BY <1>1, <1>7, <1>8, <1>9, <1>10, <1>11, <1>12, <1>14, <1>15, <1>16, <1>17 DEF IInv

LEMMA StartQueryInv == ASSUME IInv, StartQuery PROVE IInv'
<1>0. /\ \A t \in Transitions : tpc[t] = "off"
      /\ UNCHANGED given /\ UNCHANGED solving /\ UNCHANGED <<tres, blocked, answer, caller>>
  BY DEF StartQuery
<1>1. UNCHANGED <<lpc, lres, killed>>
  BY <1>0 DEF solving
<1>2. CASE AddCanceler(Root, Query) /\ tpc' = [t \in Transitions |-> "ready"] /\ UNCHANGED result
  <2>1. /\ ~canceled[Root] /\ UNCHANGED <<canceled, holder, left>>
        /\ children' = [children EXCEPT ![Root] = @ \cup {Query}]
    BY <1>2 DEF AddCanceler
  <2>2. children \in [Nodes -> SUBSET (Nodes \cup Procs)]
    BY DEF IInv, TypeOK
  <2>3. /\ children'[Root] = children[Root] \cup {Query}
        /\ \A n \in Nodes : n # Root => children'[n] = children[n]
        /\ children' \in [Nodes -> SUBSET (Nodes \cup Procs)]
    BY <2>1, <2>2, Addresses
  <2>4. TypeOK'
    <3>1. tpc' \in [Transitions -> Tpcs]
      BY <1>2 DEF Tpcs
    <3> QED BY <1>0, <1>1, <1>2, <2>1, <2>3, <3>1, SameGiven DEF IInv, TypeOK
  <2>5. NodesOK'
    <3> SUFFICES ASSUME NEW n \in Nodes
                 PROVE  /\ children'[n] \cup left[n] \subseteq Kids(n)
                        /\ holder[n] # NoThread => canceled[n]
                        /\ holder[n] = NoThread => left[n] = {}
                        /\ canceled[n] => children'[n] = {}
      BY <1>0, <2>1, SameGiven DEF NodesOK
    <3>1. CASE n = Root
      BY <2>1, <2>3, <3>1, KidsFacts DEF IInv, NodesOK
    <3>2. CASE n # Root
      BY <2>3, <3>2 DEF IInv, NodesOK
    <3> QED BY <3>1, <3>2
  <2>6. GroupHolder'
    BY <1>1, <2>1 DEF IInv, GroupHolder
  <2>7. \A t \in Transitions, s \in Solvers : lpc[Proc(t, s)] \notin {"query", "extract", "cancel"}
    BY <1>0 DEF IInv, Idle
  <2>8. Registered' /\ Idle'
    BY <1>1, <2>7 DEF Registered, Idle
  <2>9. GroupAttached' /\ QueryAttached'
    BY <1>2, <2>3 DEF GroupAttached, QueryAttached
  <2>10. Turns' /\ Reasons' /\ Killings'
    BY <1>0, <1>1, <2>1, SameGiven DEF IInv, Turns, Reasons, Killings, Busy
  <2>11. Outcomes'
    BY <1>0, <1>1, <1>2 DEF IInv, Outcomes
  <2>12. Right' /\ ResultRight'
    BY <1>0, <1>2, SameGiven DEF IInv, Right, ResultRight
  <2> QED BY <2>4, <2>5, <2>6, <2>8, <2>9, <2>10, <2>11, <2>12 DEF IInv
<1>3. CASE Refused(Root) /\ result' = "Canceled" /\ UNCHANGED tpc
  <2>1. UNCHANGED tree /\ canceled[Root]
    BY <1>3 DEF Refused
  <2>2. NodesOK' /\ UNCHANGED <<canceled, children, holder, left>>
    BY <1>0, <2>1, SameTree
  <2>3. TypeOK'
    BY <1>0, <1>1, <1>3, <2>2, SameGiven DEF IInv, TypeOK, Tresults
  <2>4. GroupHolder' /\ Registered' /\ GroupAttached' /\ QueryAttached'
    BY <1>0, <1>1, <1>3, <2>2, SameGiven DEF IInv, GroupHolder, Registered, GroupAttached, QueryAttached
  <2>5. Idle' /\ Turns' /\ Reasons' /\ Killings' /\ Outcomes' /\ Right'
    BY <1>0, <1>1, <1>3, <2>2, SameGiven DEF IInv, Idle, Turns, Reasons, Killings, Outcomes, Right, Busy
  <2>6. ResultRight'
    BY <1>0, <1>3, <2>1 DEF IInv, Reasons, ResultRight
  <2> QED BY <2>2, <2>3, <2>4, <2>5, <2>6 DEF IInv
<1> QED BY <1>2, <1>3 DEF StartQuery

(* A new round: the group of the last one is nobody's any more.            *)
LEMMA StartCheckInv ==
  ASSUME IInv, NEW t \in Transitions, StartCheck(t)
  PROVE  IInv'
<1>0. /\ tpc[t] = "ready"
      /\ UNCHANGED given /\ UNCHANGED <<blocked, answer, caller, result>>
  BY DEF StartCheck
<1>1. \A s \in Solvers : lpc[Proc(t, s)] \notin {"query", "extract", "cancel"}
  BY <1>0 DEF IInv, Idle
<1>2. CASE Parallel /\ Refused(Query) /\ Conclude(t, "Canceled") /\ UNCHANGED solving
  <2>1. canceled[Query] /\ UNCHANGED tree
    BY <1>2 DEF Refused
  <2>2. caller \in {"cancel", "done"} \/ \E u \in Transitions : tres[u] = "Cex"
    BY <2>1 DEF IInv, Reasons
  <2> QED BY <1>0, <1>1, <1>2, <2>1, <2>2, ConcludeInv DEF Tresults
<1>3. ASSUME IF Parallel
             THEN /\ holder[Query] = NoThread /\ ~canceled[Query]
                  /\ children' = [children EXCEPT ![Query] = @ \cup {Group(t)}, ![Group(t)] = {}]
                  /\ canceled' = [canceled EXCEPT ![Group(t)] = FALSE]
                  /\ UNCHANGED <<holder, left>>
             ELSE UNCHANGED tree,
             lpc' = [l \in Procs |-> IF \E s \in Solvers : l = Proc(t, s) THEN "ready" ELSE lpc[l]],
             lres' = [l \in Procs |-> IF \E s \in Solvers : l = Proc(t, s) THEN "none" ELSE lres[l]],
             tpc' = [tpc EXCEPT ![t] = "join"],
             UNCHANGED <<tres, killed>>
      PROVE  IInv'
  <2>1. /\ \A s \in Solvers : lpc'[Proc(t, s)] = "ready" /\ lres'[Proc(t, s)] = "none"
        /\ \A u \in Transitions, s \in Solvers :
             u # t => lpc'[Proc(u, s)] = lpc[Proc(u, s)] /\ lres'[Proc(u, s)] = lres[Proc(u, s)]
        /\ \A l \in Procs : \/ lpc'[l] = "ready" /\ lres'[l] = "none"
                            \/ lpc'[l] = lpc[l] /\ lres'[l] = lres[l]
    BY <1>3, Addresses
  <2>2. lpc' \in [Procs -> Lpcs] /\ lres' \in [Procs -> Lresults]
    BY <1>3 DEF IInv, TypeOK, Lpcs, Lresults
  <2>3. /\ tpc'[t] = "join" /\ tpc' \in [Transitions -> Tpcs]
        /\ \A u \in Transitions : u # t => tpc'[u] = tpc[u]
    BY <1>3 DEF IInv, TypeOK, Tpcs
  (* The tree.                                                             *)
  <2>4. /\ NodesOK' /\ UNCHANGED <<holder, left>>
        /\ canceled' \in [Nodes -> BOOLEAN] /\ children' \in [Nodes -> SUBSET (Nodes \cup Procs)]
        /\ \A n \in Nodes : n # Group(t) => canceled'[n] = canceled[n] /\ children[n] \subseteq children'[n]
        /\ ~Parallel => canceled' = canceled /\ children' = children
        /\ Parallel => ~canceled'[Group(t)] /\ Group(t) \in children'[Query] /\ holder[Group(t)] = NoThread
    <3>1. CASE ~Parallel
      <4>1. UNCHANGED tree
        BY <1>3, <3>1
      <4>2. NodesOK' /\ UNCHANGED <<canceled, children, holder, left>>
        BY <1>0, <4>1, SameTree
      <4> QED BY <3>1, <4>2 DEF IInv, TypeOK
    <3>2. CASE Parallel
      <4>1. /\ holder[Query] = NoThread /\ ~canceled[Query]
            /\ children' = [children EXCEPT ![Query] = @ \cup {Group(t)}, ![Group(t)] = {}]
            /\ canceled' = [canceled EXCEPT ![Group(t)] = FALSE]
            /\ UNCHANGED <<holder, left>>
        BY <1>3, <3>2
      <4>2. children \in [Nodes -> SUBSET (Nodes \cup Procs)] /\ canceled \in [Nodes -> BOOLEAN]
        BY DEF IInv, TypeOK
      <4>3. Query \in Nodes /\ Group(t) \in Nodes /\ Group(t) # Query
        BY Addresses
      <4>4. /\ children'[Query] = children[Query] \cup {Group(t)} /\ children'[Group(t)] = {}
            /\ \A n \in Nodes : n # Query /\ n # Group(t) => children'[n] = children[n]
            /\ children' \in [Nodes -> SUBSET (Nodes \cup Procs)]
        BY <4>1, <4>2, <4>3
      <4>5. /\ ~canceled'[Group(t)] /\ canceled' \in [Nodes -> BOOLEAN]
            /\ \A n \in Nodes : n # Group(t) => canceled'[n] = canceled[n]
        BY <4>1, <4>2, <4>3
      <4>6. holder[Group(t)] = NoThread
        BY <1>1, <4>1 DEF IInv, GroupHolder
      <4>7. NodesOK'
        <5> SUFFICES ASSUME NEW n \in Nodes
                     PROVE  /\ children'[n] \cup left[n] \subseteq Kids(n)
                            /\ holder[n] # NoThread => canceled'[n]
                            /\ holder[n] = NoThread => left[n] = {}
                            /\ canceled'[n] => children'[n] = {}
          BY <1>0, <4>1, SameGiven DEF NodesOK
        <5>1. CASE n = Group(t)
          BY <4>4, <4>6, <5>1 DEF IInv, NodesOK
        <5>2. CASE n = Query
          <6>1. Group(t) \in Kids(Query)
            BY <3>2, KidsFacts, Addresses
          <6> QED BY <4>1, <4>3, <4>4, <4>5, <5>2, <6>1 DEF IInv, NodesOK
        <5>3. CASE n # Group(t) /\ n # Query
          BY <4>4, <4>5, <5>3 DEF IInv, NodesOK
        <5> QED BY <5>1, <5>2, <5>3
      <4>8. \A n \in Nodes : n # Group(t) => canceled'[n] = canceled[n] /\ children[n] \subseteq children'[n]
        BY <4>4, <4>5
      <4> QED BY <3>2, <4>1, <4>4, <4>5, <4>6, <4>7, <4>8
    <3> QED BY <3>1, <3>2
  <2>5. TypeOK'
    BY <1>0, <1>3, <2>2, <2>3, <2>4, SameGiven DEF IInv, TypeOK
  <2>6. GroupHolder'
    <3> SUFFICES ASSUME NEW u \in Transitions, holder[Group(u)] # NoThread
                 PROVE  \/ \E s \in Solvers : holder[Group(u)] = Proc(u, s) /\ lpc'[Proc(u, s)] = "cancel"
                        \/ holder[Query] = holder[Group(u)] /\ Group(u) \in left[Query]
      BY <2>4 DEF GroupHolder
    <3>1. CASE u = t
      BY <1>1, <3>1 DEF IInv, GroupHolder
    <3>2. CASE u # t
      BY <2>1, <3>2 DEF IInv, GroupHolder
    <3> QED BY <3>1, <3>2
  <2>7. Registered'
    <3> SUFFICES ASSUME NEW u \in Transitions, NEW s \in Solvers,
                        lpc'[Proc(u, s)] \in {"query", "extract"}, Proc(u, s) \notin killed
                 PROVE  Proc(u, s) \in children'[Home(u)] \cup left[Home(u)]
      BY <1>0, <1>3, <2>4, SameGiven DEF Registered
    <3>1. u # t /\ lpc[Proc(u, s)] \in {"query", "extract"}
      BY <2>1
    <3>2. Home(u) # Group(t) /\ Home(u) \in Nodes
      BY <3>1, Homes, Addresses
    <3> QED BY <2>4, <3>1, <3>2 DEF IInv, Registered
  <2>8. GroupAttached'
    <3> SUFFICES ASSUME NEW u \in Transitions, Parallel, tpc'[u] = "join"
                 PROVE  \/ Group(u) \in children'[Query] \cup left[Query]
                        \/ canceled'[Group(u)] /\ left[Group(u)] = {}
      BY <1>0, <2>4, SameGiven DEF GroupAttached
    <3>1. CASE u = t
      BY <2>4, <3>1
    <3>2. CASE u # t
      <4>1. Query \in Nodes /\ Group(u) \in Nodes /\ Query # Group(t) /\ Group(u) # Group(t)
        BY <3>2, Addresses
      <4>2. tpc[u] = "join"
        BY <2>3, <3>2
      <4> QED BY <2>4, <4>1, <4>2 DEF IInv, GroupAttached
    <3> QED BY <3>1, <3>2
  <2>9. QueryAttached'
    <3>1. Root \in Nodes /\ Query \in Nodes /\ Query # Group(t) /\ Root # Group(t)
      BY Addresses
    <3>2. \E u \in Transitions : tpc[u] # "off"
      BY <1>0
    <3> QED BY <2>4, <3>1, <3>2 DEF IInv, QueryAttached
  <2>10. Idle'
    BY <2>1, <2>3 DEF IInv, Idle
  <2>11. Turns'
    <3> SUFFICES ASSUME ~Parallel, NEW u \in Transitions, NEW p \in Solvers
                 PROVE  /\ lpc'[Proc(u, p)] # "cancel"
                        /\ \A q \in 1 .. p - 1 :
                             lpc'[Proc(u, p)] \in {"query", "extract", "done"} =>
                               lpc'[Proc(u, q)] = "done" /\ lres'[Proc(u, q)] = "Unknown"
      BY <1>0, SameGiven DEF Turns
    <3>1. CASE u = t
      BY <2>1, <3>1
    <3>2. CASE u # t
      <4>1. \A q \in 1 .. p - 1 : q \in Solvers
        BY ParallelQueryAssumption DEF Solvers
      <4> QED BY <2>1, <3>2, <4>1 DEF IInv, Turns
    <3> QED BY <3>1, <3>2
  <2>12. Reasons'
    <3>1. canceled'[Root] = canceled[Root] /\ canceled'[Query] = canceled[Query]
      BY <2>4, Addresses
    <3>2. ASSUME NEW u \in Transitions, canceled'[Group(u)]
          PROVE  Parallel /\ (canceled[Query] \/ \E s \in Solvers : lres'[Proc(u, s)] \in Definite)
      <4>1. CASE u = t
        <5>1. ~Parallel /\ canceled[Group(t)]
          BY <2>4, <3>2, <4>1
        <5> QED BY <5>1 DEF IInv, Reasons
      <4>2. CASE u # t
        <5>1. Group(u) \in Nodes /\ Group(u) # Group(t)
          BY <4>2, Addresses
        <5>2. canceled[Group(u)]
          BY <2>4, <3>2, <5>1
        <5> QED BY <2>1, <4>2, <5>2 DEF IInv, Reasons
      <4> QED BY <4>1, <4>2
    <3> QED BY <1>0, <1>3, <3>1, <3>2, SameGiven DEF IInv, Reasons
  <2>13. Killings'
    <3>1. killed \subseteq Busy'
      <4> SUFFICES ASSUME NEW l \in killed PROVE l \in Procs /\ lpc'[l] \in {"query", "extract"}
        BY DEF Busy
      <4>1. l \in Procs /\ lpc[l] \in {"query", "extract"}
        BY DEF IInv, Killings, Busy
      <4>2. PICK u \in Transitions, s \in Solvers : l = Proc(u, s)
        BY <4>1, Addresses
      <4>3. u # t
        BY <1>1, <4>1, <4>2
      <4> QED BY <2>1, <4>1, <4>2, <4>3
    <3>2. ASSUME NEW u \in Transitions, NEW s \in Solvers,
                 Proc(u, s) \in killed \/ lres'[Proc(u, s)] = "Killed"
          PROVE  canceled'[Home(u)]
      <4>1. u # t
        <5>1. CASE Proc(u, s) \in killed
          BY <1>1, <5>1 DEF IInv, Killings, Busy
        <5>2. CASE lres'[Proc(u, s)] = "Killed"
          BY <2>1, <5>2
        <5> QED BY <3>2, <5>1, <5>2
      <4>2. Home(u) # Group(t) /\ Home(u) \in Nodes
        BY <4>1, Homes, Addresses
      <4>3. canceled[Home(u)]
        BY <2>1, <3>2, <4>1 DEF IInv, Killings
      <4> QED BY <2>4, <4>2, <4>3
    <3> QED BY <1>0, <1>3, <3>1, <3>2, SameGiven DEF Killings
  <2>14. Outcomes'
    <3>1. \A u \in Transitions : tpc'[u] = tpc[u] \/ u = t
      BY <2>3
    <3>2. tres[t] = "none"
      BY <1>0 DEF IInv, Outcomes
    <3> QED BY <1>3, <2>1, <2>3, <3>1, <3>2 DEF IInv, Outcomes
  <2>15. Right' /\ ResultRight'
    BY <1>0, <1>3, SameGiven DEF IInv, Right, ResultRight
  <2> QED
    BY <2>4, <2>5, <2>6, <2>7, <2>8, <2>9, <2>10, <2>11, <2>12, <2>13, <2>14, <2>15 DEF IInv
<1> QED BY <1>2, <1>3 DEF StartCheck

(* What the response to a round means.                                     *)
LEMMA Responses ==
  ASSUME IInv, NEW t \in Transitions
  PROVE  /\ Response(t) = "sat" => truth[t] = "sat"
         /\ Response(t) = "unsat" => truth[t] = "unsat"
         /\ Response(t) = "Killed" => caller \in {"cancel", "done"} \/ \E u \in Transitions : tres[u] = "Cex"
         /\ (\E s \in Solvers : lres[Proc(t, s)] \in {"sat", "unsat"})
            => \/ Response(t) = answer[t]
               \/ Response(t) = "panic" /\ \E s \in Solvers : lres[Proc(t, s)] = "panic"
<1>1. answer[t] \in {"sat", "unsat", "blocked"} /\ answer[t] \in {truth[t], "blocked"}
  BY DEF IInv, TypeOK, Right
<1>2. Response(t) = "Killed" => caller \in {"cancel", "done"} \/ \E u \in Transitions : tres[u] = "Cex"
  <2> SUFFICES ASSUME Response(t) = "Killed"
               PROVE  canceled[Query]
    BY DEF IInv, Reasons
  <2>1. "Killed" \in Results(t) /\ Results(t) \cap {"sat", "unsat", "Error"} = {}
    BY <1>1 DEF Response
  <2>2. PICK s \in Solvers : lres[Proc(t, s)] = "Killed"
    BY <2>1 DEF Results
  <2>3. canceled[Home(t)]
    BY <2>2 DEF IInv, Killings
  <2>4. \A p \in Solvers : lres[Proc(t, p)] \notin Definite
    BY <2>1 DEF Results, Definite
  <2>5. canceled[Group(t)] => canceled[Query]
    BY <2>4 DEF IInv, Reasons
  <2> QED BY <2>3, <2>5, Homes
<1>3. (\E s \in Solvers : lres[Proc(t, s)] \in {"sat", "unsat"})
      => \/ Response(t) = answer[t]
         \/ Response(t) = "panic" /\ \E s \in Solvers : lres[Proc(t, s)] = "panic"
  <2> SUFFICES ASSUME NEW s \in Solvers, lres[Proc(t, s)] \in {"sat", "unsat"},
                      ~ \E p \in Solvers : lres[Proc(t, p)] = "panic"
               PROVE  Response(t) = answer[t]
    BY DEF Response, Results
  <2>1. lres[Proc(t, s)] \in Results(t) \cap {"sat", "unsat"}
    BY DEF Results
  <2>2. "panic" \notin Results(t)
    BY DEF Results
  <2> QED BY <2>1, <2>2 DEF Response
<1>4. (Response(t) = "sat" => truth[t] = "sat") /\ (Response(t) = "unsat" => truth[t] = "unsat")
  BY <1>1 DEF Response
<1> QED BY <1>2, <1>3, <1>4

LEMMA RespondInv ==
  ASSUME IInv, NEW t \in Transitions, Respond(t)
  PROVE  IInv'
<1>0. /\ Joined(t) /\ tpc[t] = "join"
      /\ UNCHANGED given /\ UNCHANGED tree /\ UNCHANGED solving /\ UNCHANGED <<caller, result>>
  BY DEF Respond, Joined
<1>1. \A s \in Solvers : lpc[Proc(t, s)] \notin {"query", "extract", "cancel"}
  BY <1>0, JoinedIdle
<1>2. ASSUME tpc' = [tpc EXCEPT ![t] = "ready"],
             NEW a \in Possible(t), answer' = [answer EXCEPT ![t] = a], UNCHANGED tres
      PROVE  IInv'
  <2>1. NodesOK' /\ UNCHANGED <<canceled, children, holder, left>>
    BY <1>0, SameTree
  <2>2. UNCHANGED <<lpc, lres, killed>>
    BY <1>0 DEF solving
  <2>3. /\ tpc'[t] = "ready" /\ tpc' \in [Transitions -> Tpcs]
        /\ \A u \in Transitions : u # t => tpc'[u] = tpc[u]
    BY <1>2 DEF IInv, TypeOK, Tpcs
  <2>4. a \in {truth[t], "blocked"} /\ a \in {"sat", "unsat", "blocked"}
    BY DEF Possible, IInv, TypeOK
  <2>5. /\ answer' \in [Transitions -> {"sat", "unsat", "blocked"}] /\ answer'[t] = a
        /\ \A u \in Transitions : u # t => answer'[u] = answer[u]
    BY <1>2, <2>4 DEF IInv, TypeOK
  <2>6. TypeOK'
    BY <1>0, <1>2, <2>1, <2>2, <2>3, <2>5, SameGiven DEF IInv, TypeOK
  <2>7. GroupHolder' /\ Registered'
    BY <1>0, <2>1, <2>2, SameGiven DEF IInv, GroupHolder, Registered
  <2>8. GroupAttached'
    BY <1>0, <2>1, <2>3, SameGiven DEF IInv, GroupAttached
  <2>9. QueryAttached'
    <3>1. \E u \in Transitions : tpc[u] # "off"
      BY <1>0
    <3> QED BY <2>1, <3>1 DEF IInv, QueryAttached
  <2>10. Idle'
    <3> SUFFICES ASSUME NEW u \in Transitions, NEW p \in Solvers, tpc'[u] # "join"
                 PROVE  lpc[Proc(u, p)] \notin {"query", "extract", "cancel"}
      BY <2>2 DEF Idle
    <3>1. u = t \/ tpc[u] # "join"
      BY <2>3
    <3> QED BY <1>1, <3>1 DEF IInv, Idle
  <2>11. Turns' /\ Reasons' /\ Killings'
    BY <1>0, <1>2, <2>1, <2>2, SameGiven DEF IInv, Turns, Reasons, Killings, Busy
  <2>12. Outcomes'
    <3>1. tres[t] = "none"
      BY <1>0 DEF IInv, Outcomes
    <3> QED BY <1>2, <2>2, <2>3, <3>1 DEF IInv, Outcomes
  <2>13. Right'
    <3>1. \A u \in Transitions : answer'[u] \in {truth[u], "blocked"}
      BY <2>4, <2>5 DEF IInv, Right
    <3> QED BY <1>0, <1>2, <3>1, SameGiven DEF IInv, Right
  <2>14. ResultRight'
    BY <1>0, SameGiven DEF IInv, ResultRight
  <2> QED
    BY <2>1, <2>6, <2>7, <2>8, <2>9, <2>10, <2>11, <2>12, <2>13, <2>14 DEF IInv
<1>3. ASSUME NEW r \in Tresults \ {"none"}, Conclude(t, r), UNCHANGED <<blocked, answer>>,
             r = "Cex" => Response(t) = "sat", r = "UnsatCore" => Response(t) = "unsat",
             r = "Canceled" => Response(t) = "Killed"
      PROVE  IInv'
  BY <1>0, <1>1, <1>3, Responses, ConcludeInv
<1>4. CASE /\ Response(t) = "blocked"
           /\ tpc' = [tpc EXCEPT ![t] = "ready"]
           /\ \E a \in Possible(t) :
                /\ answer' = [answer EXCEPT ![t] = a]
                /\ blocked' = IF a = "blocked" THEN blocked - 1 ELSE blocked
           /\ UNCHANGED tres
  BY <1>2, <1>4
<1>5. CASE Response(t) = "sat" /\ Conclude(t, "Cex") /\ UNCHANGED <<blocked, answer>>
  BY <1>3, <1>5 DEF Tresults
<1>6. CASE Response(t) = "unsat" /\ Conclude(t, "UnsatCore") /\ UNCHANGED <<blocked, answer>>
  BY <1>3, <1>6 DEF Tresults
<1>7. CASE Response(t) = "Unknown" /\ Conclude(t, "Unknown") /\ UNCHANGED <<blocked, answer>>
  BY <1>3, <1>7 DEF Tresults
<1>8. CASE Response(t) = "Killed" /\ Conclude(t, "Canceled") /\ UNCHANGED <<blocked, answer>>
  BY <1>3, <1>8 DEF Tresults
<1>9. CASE Response(t) \in {"Error", "panic"} /\ Conclude(t, "panic") /\ UNCHANGED <<blocked, answer>>
  BY <1>3, <1>9 DEF Tresults
<1> QED BY <1>4, <1>5, <1>6, <1>7, <1>8, <1>9 DEF Respond

----------------------------------------------------------------------------
(* cancel                                                                  *)

(* Who may be about to cancel a node, and why.                             *)
LEMMA WhoEnters ==
  ASSUME IInv, NEW th \in ThreadIds, NEW n \in Nodes, Calls(th),
         n = Target(th) \/ \E p \in Nodes : Draining(th, p) /\ n \in left[p]
  PROVE  /\ n = Root => caller \in {"cancel", "done"}
         /\ n = Query => canceled[Root] \/ \E t \in Transitions : tres[t] = "Cex"
         /\ \A t \in Transitions : n = Group(t) =>
              \/ \E s \in Solvers : th = Proc(t, s) /\ lpc[Proc(t, s)] = "cancel"
              \/ holder[Query] = th /\ Group(t) \in left[Query]
<1>1. CASE n = Target(th)
  <2>1. CASE th = Root
    BY <1>1, <2>1, Callers, Addresses
  <2>2. ASSUME NEW u \in Transitions, th = Group(u)
        PROVE  n = Query /\ tres[u] = "Cex"
    <3>1. n = Query /\ tpc[u] = "cancel"
      BY <1>1, <2>2, Callers
    <3> QED BY <3>1 DEF IInv, Outcomes
  <2>3. ASSUME NEW u \in Transitions, NEW s \in Solvers, th = Proc(u, s)
        PROVE  n = Group(u) /\ lpc[Proc(u, s)] = "cancel"
    BY <1>1, <2>3, Callers
  <2> QED BY <2>1, <2>2, <2>3, Addresses
<1>2. ASSUME NEW p \in Nodes, Draining(th, p), n \in left[p]
      PROVE  \/ p = Root /\ n = Query /\ canceled[Root]
             \/ p = Query /\ \E t \in Transitions : n = Group(t)
  <2>1. n \in Kids(p) /\ holder[p] = th /\ th # NoThread
    BY <1>2, Addresses DEF IInv, NodesOK, Draining
  <2>2. CASE p = Root
    BY <2>1, <2>2, KidsFacts DEF IInv, NodesOK
  <2>3. CASE p = Query
    <3>1. n \in Groups \/ n \in Procs
      BY <2>1, <2>3, KidsFacts
    <3>2. n \notin Procs
      BY Addresses
    <3> QED BY <2>3, <3>1, <3>2 DEF Groups
  <2>4. ASSUME NEW u \in Transitions, p = Group(u) PROVE FALSE
    BY <2>1, <2>4, KidsFacts, Addresses
  <2> QED BY <2>2, <2>3, <2>4, Addresses
<1>3. ASSUME NEW p \in Nodes, Draining(th, p), n \in left[p]
      PROVE  /\ n = Root => caller \in {"cancel", "done"}
             /\ n = Query => canceled[Root] \/ \E t \in Transitions : tres[t] = "Cex"
             /\ \A t \in Transitions : n = Group(t) => holder[Query] = th /\ Group(t) \in left[Query]
  BY <1>2, <1>3, Addresses DEF Draining
<1> QED BY <1>1, <1>3

LEMMA EnterInv ==
  ASSUME IInv, NEW th \in ThreadIds, NEW n \in Nodes, Calls(th), Enter(th, n)
  PROVE  IInv'
<1>0. /\ holder[n] = NoThread /\ th # NoThread
      /\ holder' = [holder EXCEPT ![n] = th]
      /\ canceled' = [canceled EXCEPT ![n] = TRUE]
      /\ left' = [left EXCEPT ![n] = children[n]]
      /\ children' = [children EXCEPT ![n] = {}]
      /\ UNCHANGED given /\ UNCHANGED solving /\ UNCHANGED running /\ UNCHANGED <<caller, result>>
  BY Addresses DEF Enter
<1>1. UNCHANGED <<lpc, lres, killed, tpc, tres, blocked, answer>>
  BY <1>0 DEF solving, running
<1>2. /\ holder'[n] = th /\ canceled'[n] /\ left'[n] = children[n] /\ children'[n] = {} /\ left[n] = {}
      /\ \A m \in Nodes : m # n => /\ holder'[m] = holder[m] /\ canceled'[m] = canceled[m]
                                   /\ left'[m] = left[m] /\ children'[m] = children[m]
      /\ canceled' \in [Nodes -> BOOLEAN] /\ holder' \in [Nodes -> ThreadIds \cup {NoThread}]
      /\ left' \in [Nodes -> SUBSET (Nodes \cup Procs)] /\ children' \in [Nodes -> SUBSET (Nodes \cup Procs)]
  BY <1>0 DEF IInv, TypeOK, NodesOK
<1>3. /\ n = Root => caller \in {"cancel", "done"}
      /\ n = Query => canceled[Root] \/ \E t \in Transitions : tres[t] = "Cex"
      /\ \A t \in Transitions : n = Group(t) =>
           \/ \E s \in Solvers : th = Proc(t, s) /\ lpc[Proc(t, s)] = "cancel"
           \/ holder[Query] = th /\ Group(t) \in left[Query]
  BY WhoEnters DEF Enter
<1>4. /\ \A m \in Nodes : canceled[m] => canceled'[m]
      /\ \A m \in Nodes : children'[m] \cup left'[m] = children[m] \cup left[m]
      /\ \A m \in Nodes : canceled[m] /\ left[m] = {} => left'[m] = {}
  BY <1>2 DEF IInv, NodesOK
<1>5. TypeOK'
  BY <1>0, <1>1, <1>2, SameGiven DEF IInv, TypeOK
<1>6. NodesOK'
  <2> SUFFICES ASSUME NEW m \in Nodes
               PROVE  /\ children'[m] \cup left'[m] \subseteq Kids(m)
                      /\ holder'[m] # NoThread => canceled'[m]
                      /\ holder'[m] = NoThread => left'[m] = {}
                      /\ canceled'[m] => children'[m] = {}
    BY <1>0, SameGiven DEF NodesOK
  <2>1. CASE m = n
    BY <1>0, <1>2, <1>4, <2>1 DEF IInv, NodesOK
  <2>2. CASE m # n
    BY <1>2, <2>2 DEF IInv, NodesOK
  <2> QED BY <2>1, <2>2
<1>7. GroupHolder'
  <2> SUFFICES ASSUME NEW t \in Transitions, holder'[Group(t)] # NoThread
               PROVE  \/ \E s \in Solvers : holder'[Group(t)] = Proc(t, s) /\ lpc[Proc(t, s)] = "cancel"
                      \/ holder'[Query] = holder'[Group(t)] /\ Group(t) \in left'[Query]
    BY <1>1 DEF GroupHolder
  <2>0. Group(t) \in Nodes /\ Query \in Nodes /\ Group(t) # Query
    BY Addresses
  <2>1. CASE n = Group(t)
    BY <1>2, <1>3, <2>0, <2>1
  <2>2. CASE n # Group(t)
    <3>1. holder'[Group(t)] = holder[Group(t)]
      BY <1>2, <2>0, <2>2
    <3>2. CASE \E s \in Solvers : holder[Group(t)] = Proc(t, s) /\ lpc[Proc(t, s)] = "cancel"
      BY <3>1, <3>2
    <3>3. CASE holder[Query] = holder[Group(t)] /\ Group(t) \in left[Query]
      <4>1. n # Query
        BY <1>0, <3>1, <3>3
      <4> QED BY <1>2, <2>0, <3>1, <3>3, <4>1
    <3> QED BY <3>1, <3>2, <3>3 DEF IInv, GroupHolder
  <2> QED BY <2>1, <2>2
<1>8. Registered'
  BY <1>0, <1>1, <1>4, SameGiven, Homes DEF IInv, Registered
<1>9. GroupAttached'
  BY <1>0, <1>1, <1>4, SameGiven, Addresses DEF IInv, GroupAttached
<1>10. QueryAttached'
  BY <1>1, <1>4, Addresses DEF IInv, QueryAttached
<1>11. Idle' /\ Turns' /\ Outcomes'
  BY <1>0, <1>1, SameGiven DEF IInv, Idle, Turns, Outcomes
<1>12. Reasons'
  <2>1. canceled'[Root] => caller \in {"cancel", "done"}
    BY <1>2, <1>3, Addresses DEF IInv, Reasons
  <2>2. canceled'[Query] => caller \in {"cancel", "done"} \/ \E t \in Transitions : tres[t] = "Cex"
    BY <1>2, <1>3, Addresses DEF IInv, Reasons
  <2>3. ASSUME NEW t \in Transitions, canceled'[Group(t)]
        PROVE  Parallel /\ (canceled'[Query] \/ \E s \in Solvers : lres[Proc(t, s)] \in Definite)
    <3>0. Group(t) \in Nodes /\ Query \in Nodes /\ Group(t) # Query
      BY Addresses
    <3>1. CASE n = Group(t)
      <4>1. CASE \E s \in Solvers : th = Proc(t, s) /\ lpc[Proc(t, s)] = "cancel"
        <5>1. PICK s \in Solvers : lpc[Proc(t, s)] = "cancel"
          BY <4>1
        <5>2. lres[Proc(t, s)] \in Definite
          BY <5>1, Addresses DEF IInv, Outcomes
        <5>3. Parallel
          BY <5>1 DEF IInv, Turns
        <5> QED BY <5>2, <5>3
      <4>2. CASE holder[Query] = th /\ Group(t) \in left[Query]
        <5>1. canceled[Query]
          BY <1>0, <3>0, <4>2 DEF IInv, NodesOK
        <5>2. Parallel
          <6>1. Group(t) \in Kids(Query) /\ Group(t) \notin Procs
            BY <3>0, <4>2, Addresses DEF IInv, NodesOK
          <6> QED BY <6>1, KidsFacts
        <5> QED BY <1>4, <3>0, <5>1, <5>2
      <4> QED BY <1>3, <3>1, <4>1, <4>2
    <3>2. CASE n # Group(t)
      <4>1. canceled[Group(t)]
        BY <1>2, <2>3, <3>0, <3>2
      <4> QED BY <1>4, <3>0, <4>1 DEF IInv, Reasons
    <3> QED BY <3>1, <3>2
  <2> QED BY <1>0, <1>1, <2>1, <2>2, <2>3, SameGiven DEF Reasons
<1>13. Killings'
  BY <1>0, <1>1, <1>4, SameGiven, Homes DEF IInv, Killings, Busy
<1>14. Right' /\ ResultRight'
  BY <1>0, <1>1, SameGiven DEF IInv, Right, ResultRight
<1> QED
  BY <1>5, <1>6, <1>7, <1>8, <1>9, <1>10, <1>11, <1>12, <1>13, <1>14 DEF IInv

LEMMA KillInv ==
  ASSUME IInv, NEW th \in ThreadIds, NEW n \in Nodes, Kill(th, n)
  PROVE  IInv'
<1>1. PICK l \in left[n] \cap Procs :
        /\ left' = [left EXCEPT ![n] = @ \ {l}]
        /\ killed' = killed \cup ({l} \cap Busy)
  BY DEF Kill
<1>2. /\ UNCHANGED given /\ UNCHANGED <<canceled, children, holder, lpc, lres>>
      /\ UNCHANGED running /\ UNCHANGED <<caller, result>>
      /\ holder[n] = th /\ th # NoThread
  BY Addresses DEF Kill, Draining
<1>3. UNCHANGED <<tpc, tres, blocked, answer>>
  BY <1>2 DEF running
<1>4. /\ left'[n] = left[n] \ {l} /\ \A m \in Nodes : m # n => left'[m] = left[m]
      /\ left' \in [Nodes -> SUBSET (Nodes \cup Procs)]
  BY <1>1 DEF IInv, TypeOK
<1>5. \A m \in Nodes : left'[m] \subseteq left[m] /\ left[m] \subseteq left'[m] \cup {l}
  BY <1>4
<1>6. TypeOK'
  BY <1>1, <1>2, <1>3, <1>4, SameGiven DEF IInv, TypeOK
<1>7. NodesOK'
  <2>1. \A m \in Nodes : holder[m] = NoThread => left'[m] = {}
    BY <1>5 DEF IInv, NodesOK
  <2>2. \A m \in Nodes : children[m] \cup left'[m] \subseteq Kids(m)
    BY <1>5 DEF IInv, NodesOK
  <2> QED BY <1>2, <2>1, <2>2, SameGiven DEF IInv, NodesOK
<1>8. \A t \in Transitions : l # Group(t) /\ l # Query
  BY Addresses
<1>9. GroupHolder'
  BY <1>2, <1>5, <1>8, Addresses DEF IInv, GroupHolder
<1>10. Registered'
  <2> SUFFICES ASSUME NEW t \in Transitions, NEW s \in Solvers,
                      lpc[Proc(t, s)] \in {"query", "extract"}, Proc(t, s) \notin killed'
               PROVE  Proc(t, s) \in children[Home(t)] \cup left'[Home(t)]
    BY <1>2, SameGiven DEF Registered
  <2>1. Proc(t, s) \in Busy /\ Home(t) \in Nodes
    BY Addresses, Homes DEF Busy
  <2>2. Proc(t, s) # l /\ Proc(t, s) \notin killed
    BY <1>1, <2>1
  <2> QED BY <1>5, <2>1, <2>2 DEF IInv, Registered
<1>11. GroupAttached'
  <2> SUFFICES ASSUME NEW t \in Transitions, Parallel', tpc'[t] = "join"
               PROVE  \/ Group(t) \in children'[Query] \cup left'[Query]
                      \/ canceled'[Group(t)] /\ left'[Group(t)] = {}
    BY DEF GroupAttached
  <2>1. \/ Group(t) \in children[Query] \cup left[Query]
        \/ canceled[Group(t)] /\ left[Group(t)] = {}
    BY <1>2, <1>3, SameGiven DEF IInv, GroupAttached
  <2>2. /\ left[Query] \subseteq left'[Query] \cup {l} /\ left'[Group(t)] \subseteq left[Group(t)]
        /\ l # Group(t)
    BY <1>5, <1>8, Addresses
  <2> QED BY <1>2, <2>1, <2>2
<1>12. QueryAttached'
  <2>1. l # Query /\ Root \in Nodes /\ Query \in Nodes
    BY Addresses
  <2> QED BY <1>2, <1>3, <1>5, <2>1 DEF IInv, QueryAttached
<1>13. Idle' /\ Turns' /\ Reasons' /\ Outcomes'
  BY <1>2, <1>3, SameGiven DEF IInv, Idle, Turns, Reasons, Outcomes
<1>14. Killings'
  <2>1. killed' \subseteq Busy'
    BY <1>1, <1>2 DEF IInv, Killings, Busy
  <2>2. ASSUME NEW t \in Transitions, NEW s \in Solvers, Proc(t, s) = l
        PROVE  canceled[Home(t)]
    <3>1. canceled[n] /\ l \in Kids(n)
      BY <1>2 DEF IInv, NodesOK
    <3>2. CASE n = Root
      BY <3>1, <3>2, KidsFacts, Addresses
    <3>3. CASE n = Query
      <4>1. ~Parallel
        BY <2>2, <3>1, <3>3, KidsFacts, Addresses DEF Groups
      <4> QED BY <3>1, <3>3, <4>1, Homes
    <3>4. ASSUME NEW u \in Transitions, n = Group(u)
          PROVE  canceled[Home(t)]
      <4>1. Parallel /\ \E p \in Solvers : l = Proc(u, p)
        BY <3>1, <3>4, KidsFacts
      <4>2. u = t
        BY <2>2, <4>1, Addresses
      <4> QED BY <3>1, <3>4, <4>1, <4>2, Homes
    <3> QED BY <3>2, <3>3, <3>4, Addresses
  <2>3. ASSUME NEW t \in Transitions, NEW s \in Solvers,
               Proc(t, s) \in killed' \/ lres[Proc(t, s)] = "Killed"
        PROVE  canceled[Home(t)]
    <3>1. CASE Proc(t, s) = l
      BY <2>2, <3>1
    <3>2. CASE Proc(t, s) # l
      <4>1. Proc(t, s) \in killed \/ lres[Proc(t, s)] = "Killed"
        BY <1>1, <2>3, <3>2
      <4> QED BY <4>1 DEF IInv, Killings
    <3> QED BY <3>1, <3>2
  <2> QED BY <1>2, <2>1, <2>3, SameGiven DEF Killings
<1>15. Right' /\ ResultRight'
  BY <1>2, <1>3, SameGiven DEF IInv, Right, ResultRight
<1> QED
  BY <1>6, <1>7, <1>9, <1>10, <1>11, <1>12, <1>13, <1>14, <1>15 DEF IInv

LEMMA LeaveInv ==
  ASSUME IInv, NEW th \in ThreadIds, NEW n \in Nodes, Calls(th), Leave(th, n)
  PROVE  IInv'
<1>0. /\ holder[n] = th /\ th # NoThread /\ left[n] = {}
      /\ holder' = [holder EXCEPT ![n] = NoThread]
      /\ UNCHANGED given /\ UNCHANGED <<canceled, children, killed, lres, tres, blocked, answer, result>>
  BY Addresses DEF Leave
(* What leaves, and who goes on.                                           *)
<1>1. /\ left' \in [Nodes -> SUBSET (Nodes \cup Procs)]
      /\ \A m \in Nodes : left'[m] \subseteq left[m] /\ left[m] \subseteq left'[m] \cup {n}
  <2>1. left \in [Nodes -> SUBSET (Nodes \cup Procs)]
    BY DEF IInv, TypeOK
  <2>2. CASE n = Target(th)
    BY <2>1, <2>2 DEF Leave
  <2>3. CASE n # Target(th)
    <3>1. left' = [p \in Nodes |-> IF holder[p] = th THEN left[p] \ {n} ELSE left[p]]
      BY <2>3 DEF Leave
    <3> QED BY <2>1, <3>1
  <2> QED BY <2>2, <2>3
<1>2. /\ caller' \in {"never", "idle", "cancel", "done"} /\ (caller \in {"cancel", "done"} => caller' \in {"cancel", "done"})
      /\ caller = "idle" => caller' = "idle"
  <2>1. caller \in {"never", "idle", "cancel", "done"}
    BY DEF IInv, TypeOK
  <2>2. caller' = caller \/ (th = Root /\ caller' = "done")
    BY DEF Leave
  <2>3. th = Root => caller = "cancel"
    BY Callers
  <2> QED BY <2>1, <2>2, <2>3
<1>3. /\ tpc' \in [Transitions -> Tpcs]
      /\ \A t \in Transitions : tpc'[t] = tpc[t] \/ (tpc[t] = "cancel" /\ tpc'[t] = "done")
  <2>1. tpc \in [Transitions -> Tpcs]
    BY DEF IInv, TypeOK
  <2>2. tpc' = [t \in Transitions |-> IF th = Group(t) THEN "done" ELSE tpc[t]] \/ tpc' = tpc
    BY DEF Leave
  <2>3. \A t \in Transitions : th = Group(t) => tpc[t] = "cancel"
    BY Callers
  <2> QED BY <2>1, <2>2, <2>3 DEF Tpcs
<1>4. /\ lpc' \in [Procs -> Lpcs]
      /\ \A l \in Procs : \/ lpc'[l] = lpc[l]
                          \/ l = th /\ n = Target(th) /\ lpc[l] = "cancel" /\ lpc'[l] = "done"
  <2>1. lpc \in [Procs -> Lpcs]
    BY DEF IInv, TypeOK
  <2>2. \/ n = Target(th) /\ lpc' = [l \in Procs |-> IF th = l THEN "done" ELSE lpc[l]]
        \/ lpc' = lpc
    BY DEF Leave
  <2>3. \A l \in Procs : th = l => lpc[l] = "cancel"
    BY Callers, Addresses
  <2> QED BY <2>1, <2>2, <2>3 DEF Lpcs
<1>5. \A t \in Transitions, s \in Solvers : Proc(t, s) \in Procs
  BY Addresses
<1>6. /\ holder' \in [Nodes -> ThreadIds \cup {NoThread}] /\ holder'[n] = NoThread
      /\ \A m \in Nodes : m # n => holder'[m] = holder[m]
  BY <1>0 DEF IInv, TypeOK
<1>7. TypeOK'
  BY <1>0, <1>1, <1>2, <1>3, <1>4, <1>6, SameGiven DEF IInv, TypeOK
<1>8. NodesOK'
  <2> SUFFICES ASSUME NEW m \in Nodes
               PROVE  /\ children[m] \cup left'[m] \subseteq Kids(m)
                      /\ holder'[m] # NoThread => canceled[m]
                      /\ holder'[m] = NoThread => left'[m] = {}
                      /\ canceled[m] => children[m] = {}
    BY <1>0, SameGiven DEF NodesOK
  <2>1. CASE m = n
    BY <1>0, <1>1, <1>6, <2>1 DEF IInv, NodesOK
  <2>2. CASE m # n
    BY <1>1, <1>6, <2>2 DEF IInv, NodesOK
  <2> QED BY <2>1, <2>2
<1>9. GroupHolder'
  <2> SUFFICES ASSUME NEW t \in Transitions, holder'[Group(t)] # NoThread
               PROVE  \/ \E s \in Solvers : holder'[Group(t)] = Proc(t, s) /\ lpc'[Proc(t, s)] = "cancel"
                      \/ holder'[Query] = holder'[Group(t)] /\ Group(t) \in left'[Query]
    BY DEF GroupHolder
  <2>0. Group(t) \in Nodes /\ Query \in Nodes /\ Group(t) # n
    BY <1>6, Addresses
  <2>1. holder'[Group(t)] = holder[Group(t)]
    BY <1>6, <2>0
  <2>2. ASSUME NEW s \in Solvers, holder[Group(t)] = Proc(t, s), lpc[Proc(t, s)] = "cancel"
        PROVE  lpc'[Proc(t, s)] = "cancel"
    <3>1. Target(Proc(t, s)) = Group(t)
      BY Callers
    <3> QED BY <1>4, <1>5, <2>0, <2>2, <3>1
  <2>3. CASE holder[Query] = holder[Group(t)] /\ Group(t) \in left[Query]
    <3>1. n # Query
      BY <1>0, <2>3
    <3> QED BY <1>1, <1>6, <2>0, <2>1, <2>3, <3>1
  <2> QED BY <2>1, <2>2, <2>3 DEF IInv, GroupHolder
<1>10. Registered'
  <2> SUFFICES ASSUME NEW t \in Transitions, NEW s \in Solvers,
                      lpc'[Proc(t, s)] \in {"query", "extract"}, Proc(t, s) \notin killed
               PROVE  Proc(t, s) \in children[Home(t)] \cup left'[Home(t)]
    BY <1>0, SameGiven DEF Registered
  <2>1. lpc[Proc(t, s)] \in {"query", "extract"} /\ Proc(t, s) # n /\ Home(t) \in Nodes
    BY <1>4, <1>5, Addresses, Homes
  <2> QED BY <1>1, <2>1 DEF IInv, Registered
<1>11. GroupAttached'
  <2> SUFFICES ASSUME NEW t \in Transitions, Parallel, tpc'[t] = "join"
               PROVE  \/ Group(t) \in children[Query] \cup left'[Query]
                      \/ canceled[Group(t)] /\ left'[Group(t)] = {}
    BY <1>0, SameGiven DEF GroupAttached
  <2>0. tpc[t] = "join" /\ Group(t) \in Nodes /\ Query \in Nodes
    BY <1>3, Addresses
  <2>1. CASE n = Group(t)
    BY <1>0, <1>1, <2>0, <2>1 DEF IInv, NodesOK
  <2>2. CASE n # Group(t)
    BY <1>1, <2>0, <2>2 DEF IInv, GroupAttached
  <2> QED BY <2>1, <2>2
<1>12. QueryAttached'
  <2> SUFFICES ASSUME \E t \in Transitions : tpc'[t] # "off"
               PROVE  \/ Query \in children[Root] \cup left'[Root]
                      \/ canceled[Query] /\ left'[Query] = {}
    BY <1>0 DEF QueryAttached
  <2>0. (\E t \in Transitions : tpc[t] # "off") /\ Query \in Nodes /\ Root \in Nodes
    BY <1>3, Addresses
  <2>1. CASE n = Query
    BY <1>0, <1>1, <2>0, <2>1 DEF IInv, NodesOK
  <2>2. CASE n # Query
    BY <1>1, <2>0, <2>2 DEF IInv, QueryAttached
  <2> QED BY <2>1, <2>2
<1>13. Idle'
  <2> SUFFICES ASSUME NEW t \in Transitions, NEW s \in Solvers, tpc'[t] # "join"
               PROVE  lpc'[Proc(t, s)] \notin {"query", "extract", "cancel"}
    BY DEF Idle
  <2>1. tpc[t] # "join"
    BY <1>3
  <2> QED BY <1>4, <1>5, <2>1 DEF IInv, Idle
<1>14. Turns'
  <2> SUFFICES ASSUME ~Parallel
               PROVE  \A t \in Transitions, s \in Solvers :
                        /\ lpc'[Proc(t, s)] # "cancel"
                        /\ \A r \in 1 .. s - 1 :
                             lpc'[Proc(t, s)] \in {"query", "extract", "done"} =>
                               lpc'[Proc(t, r)] = "done" /\ lres[Proc(t, r)] = "Unknown"
    BY <1>0, SameGiven DEF Turns
  <2>1. \A t \in Transitions, s \in Solvers : lpc'[Proc(t, s)] = lpc[Proc(t, s)]
    BY <1>4, <1>5 DEF IInv, Turns
  <2>2. \A s \in Solvers : \A r \in 1 .. s - 1 : r \in Solvers
    BY ParallelQueryAssumption DEF Solvers
  <2> QED BY <2>1, <2>2 DEF IInv, Turns
<1>15. Reasons'
  BY <1>0, <1>2, SameGiven DEF IInv, Reasons
<1>16. Killings'
  <2>1. killed \subseteq Busy'
    BY <1>4 DEF IInv, Killings, Busy
  <2> QED BY <1>0, <2>1, SameGiven DEF IInv, Killings
<1>17. Outcomes'
  BY <1>0, <1>3, <1>4 DEF IInv, Outcomes
<1>18. Right' /\ ResultRight'
  BY <1>0, <1>2, SameGiven DEF IInv, Right, ResultRight
<1> QED
  BY <1>7, <1>8, <1>9, <1>10, <1>11, <1>12, <1>13, <1>14, <1>15, <1>16, <1>17, <1>18 DEF IInv

LEMMA StepInv == IInv /\ [Next]_vars => IInv'
<1> SUFFICES ASSUME IInv, [Next]_vars PROVE IInv'
  OBVIOUS
<1>1. CASE StartQuery  BY <1>1, StartQueryInv
<1>2. CASE Collect  BY <1>2, CollectInv
<1>3. CASE CallerCancels  BY <1>3, CallerCancelsInv
<1>4. ASSUME NEW t \in Transitions, StartCheck(t) PROVE IInv'
  BY <1>4, StartCheckInv
<1>5. ASSUME NEW t \in Transitions, Respond(t) PROVE IInv'
  BY <1>5, RespondInv
<1>6. ASSUME NEW t \in Transitions, NEW s \in Solvers, StartSolver(t, s) PROVE IInv'
  BY <1>6, StartSolverInv
<1>7. ASSUME NEW t \in Transitions, NEW s \in Solvers, Answer(t, s) PROVE IInv'
  BY <1>7, AnswerInv
<1>8. ASSUME NEW t \in Transitions, NEW s \in Solvers, Extract(t, s) PROVE IInv'
  BY <1>8, ExtractInv
<1>9. ASSUME NEW t \in Transitions, NEW s \in Solvers, AnswerKilled(t, s) PROVE IInv'
  BY <1>9, AnswerKilledInv
<1>12. ASSUME NEW t \in Transitions, NEW s \in Solvers, Panics(t, s) PROVE IInv'
  BY <1>12, PanicsInv
<1>10. ASSUME NEW th \in ThreadIds, Cancelling(th) PROVE IInv'
  <2>1. PICK n \in Nodes : Calls(th) /\ (Enter(th, n) \/ Kill(th, n) \/ Leave(th, n))
    BY <1>10 DEF Cancelling
  <2> QED BY <2>1, EnterInv, KillInv, LeaveInv
<1>11. CASE UNCHANGED vars  BY <1>11, StutterInv
<1> QED
  BY <1>1, <1>2, <1>3, <1>4, <1>5, <1>6, <1>7, <1>8, <1>9, <1>10, <1>11, <1>12 DEF Next

LEMMA AlwaysIInv == Spec => []IInv
BY InitInv, StepInv, PTL DEF Spec
----------------------------------------------------------------------------
(* Once cancel() of a SolverCancelers has returned, no solver below it     *)
(* that is in a call goes unkilled, however it got there: registered       *)
(* before, or after another node on the way down had been drained.         *)
THEOREM NobodyEscapes == Spec => []NoEscape
<1>1. IInv => NoEscape
  <2> SUFFICES ASSUME IInv, NEW t \in Transitions, NEW s \in Solvers,
                      lpc[Proc(t, s)] \in {"query", "extract"},
                      NEW n \in Above(t), canceled[n], holder[n] = NoThread,
                      Proc(t, s) \notin killed
               PROVE  FALSE
    BY DEF NoEscape
  <2>0. Root \in Nodes /\ Query \in Nodes /\ Group(t) \in Nodes /\ Home(t) \in Nodes
    BY Addresses, Homes
  <2>1. \A m \in Nodes : canceled[m] /\ (holder[m] = NoThread \/ left[m] = {}) => children[m] \cup left[m] = {}
    BY DEF IInv, NodesOK
  <2>2. Proc(t, s) \in children[Home(t)] \cup left[Home(t)]
    BY DEF IInv, Registered
  <2>3. ~(canceled[Home(t)] /\ (holder[Home(t)] = NoThread \/ left[Home(t)] = {}))
    BY <2>0, <2>1, <2>2
  <2>4. tpc[t] = "join"
    BY DEF IInv, Idle
  <2>5. ~(canceled[Query] /\ (holder[Query] = NoThread \/ left[Query] = {}))
    <3> SUFFICES ASSUME canceled[Query] /\ (holder[Query] = NoThread \/ left[Query] = {}) PROVE FALSE
      OBVIOUS
    <3>1. children[Query] \cup left[Query] = {}
      BY <2>0, <2>1
    <3>2. CASE Parallel
      BY <2>3, <2>4, <3>1, <3>2, Homes DEF IInv, GroupAttached
    <3>3. CASE ~Parallel
      BY <2>2, <3>1, <3>3, Homes
    <3> QED BY <3>2, <3>3
  <2>6. ~(canceled[Root] /\ holder[Root] = NoThread)
    <3> SUFFICES ASSUME canceled[Root], holder[Root] = NoThread PROVE FALSE
      OBVIOUS
    <3>1. children[Root] \cup left[Root] = {}
      BY <2>0, <2>1
    <3>2. \E u \in Transitions : tpc[u] # "off"
      BY <2>4
    <3> QED BY <2>5, <3>1, <3>2 DEF IInv, QueryAttached
  <2> QED BY <2>3, <2>5, <2>6 DEF Above
<1> QED BY <1>1, AlwaysIInv, PTL

(* What trans_cex returns is what the queries found, and it is Canceled    *)
(* only when its caller has cancelled it.                                  *)
THEOREM RightResult == Spec => []ResultRight
<1>1. IInv => ResultRight
  BY DEF IInv
<1> QED BY <1>1, AlwaysIInv, PTL

(* A round in which a solver has answered ends with that answer, although  *)
(* the answer cancels the others, which then return Killed; only a panic   *)
(* of the thread of another one takes its place.                           *)
THEOREM AnswerKept == Spec => AnswerNotLost
<1> DEFINE Kept(t) == \/ answer[t] = "blocked" /\ tpc'[t] = "ready"
                      \/ answer[t] = "sat" /\ tres'[t] = "Cex"
                      \/ answer[t] = "unsat" /\ tres'[t] = "UnsatCore"
                      \/ tres'[t] = "panic" /\ \E s \in Solvers : lres[Proc(t, s)] = "panic"
<1>1. ASSUME IInv, [Next]_vars, NEW t \in Transitions, tpc[t] = "join", tpc'[t] # "join",
             \E s \in Solvers : lres[Proc(t, s)] \in {"sat", "unsat"}
      PROVE  Kept(t)
  <2>1. tpc \in [Transitions -> Tpcs] /\ tres \in [Transitions -> Tresults]
    BY <1>1 DEF IInv, TypeOK
  <2>2. CASE Respond(t)
    <3>1. /\ answer[t] \in {"sat", "unsat", "blocked"}
          /\ \/ Response(t) = answer[t]
             \/ Response(t) = "panic" /\ \E s \in Solvers : lres[Proc(t, s)] = "panic"
      BY <1>1, Responses DEF IInv, TypeOK
    <3>2. \/ Response(t) = "blocked" /\ tpc' = [tpc EXCEPT ![t] = "ready"]
          \/ Response(t) = "sat" /\ Conclude(t, "Cex")
          \/ Response(t) = "unsat" /\ Conclude(t, "UnsatCore")
          \/ Response(t) = "panic" /\ Conclude(t, "panic")
      BY <2>2, <3>1 DEF Respond
    <3> QED BY <2>1, <3>1, <3>2 DEF Conclude
  <2>3. ASSUME ~Respond(t) PROVE FALSE
    <3>1. CASE StartQuery  BY <1>1, <3>1 DEF StartQuery
    <3>2. CASE Collect  BY <1>1, <3>2 DEF Collect, running
    <3>3. CASE CallerCancels  BY <1>1, <3>3 DEF CallerCancels, running
    <3>4. ASSUME NEW u \in Transitions, StartCheck(u) PROVE FALSE
      BY <1>1, <2>1, <3>4 DEF StartCheck, Conclude
    <3>5. ASSUME NEW u \in Transitions, Respond(u) PROVE FALSE
      BY <1>1, <2>1, <2>3, <3>5 DEF Respond, Conclude
    <3>6. ASSUME NEW u \in Transitions, NEW s \in Solvers,
                 StartSolver(u, s) \/ Answer(u, s) \/ Extract(u, s) \/ AnswerKilled(u, s)
                   \/ Panics(u, s)
          PROVE  FALSE
      BY <1>1, <3>6 DEF StartSolver, Answer, Extract, AnswerKilled, Panics, running
    <3>7. ASSUME NEW th \in ThreadIds, Cancelling(th) PROVE FALSE
      <4>1. PICK n \in Nodes : Calls(th) /\ (Enter(th, n) \/ Kill(th, n) \/ Leave(th, n))
        BY <3>7 DEF Cancelling
      <4>2. tpc' = tpc \/ tpc' = [u \in Transitions |-> IF th = Group(u) THEN "done" ELSE tpc[u]]
        BY <4>1 DEF Enter, Kill, Leave, running
      <4>3. th = Group(t) => tpc[t] = "cancel"
        BY <4>1, Callers
      <4> QED BY <1>1, <4>2, <4>3
    <3>8. CASE UNCHANGED vars  BY <1>1, <3>8 DEF vars, running
    <3> QED BY <1>1, <3>1, <3>2, <3>3, <3>4, <3>5, <3>6, <3>7, <3>8 DEF Next
  <2> QED BY <2>2, <2>3
<1>2. IInv /\ [Next]_vars
      => [\A t \in Transitions :
            tpc[t] = "join" /\ tpc'[t] # "join" /\ (\E s \in Solvers : lres[Proc(t, s)] \in {"sat", "unsat"})
            => Kept(t)]_vars
  BY <1>1
<1> QED BY <1>2, AlwaysIInv, PTL DEF AnswerNotLost, Spec

----------------------------------------------------------------------------
(* The pool only decides who runs when: on any number of threads, what the *)
(* query does is what ParallelQuery allows.                                *)
THEOREM PoolImplements == PoolSpec => Spec
<1>1. PoolInit => Init
  BY DEF PoolInit
<1>2. [PoolNext]_poolVars => [Next]_vars
  <2> SUFFICES ASSUME [PoolNext]_poolVars PROVE [Next]_vars
    OBVIOUS
  <2>1. CASE Take \/ UNCHANGED poolVars
    BY <2>1 DEF Take, poolVars
  <2>2. CASE Outside \/ Interrupt
    <3>1. Root \in ThreadIds
      BY DEF ThreadIds
    <3> QED BY <2>2, <3>1 DEF Outside, Interrupt, Next
  <2>3. ASSUME NEW t \in Transitions, Transition(t) PROVE Next
    <3>1. Group(t) \in ThreadIds
      BY Addresses
    <3> QED BY <2>3, <3>1 DEF Transition, Next
  <2>4. ASSUME NEW t \in Transitions, NEW s \in Solvers, Asking(t, s) \/ Answered(t, s) PROVE Next
    <3>1. Proc(t, s) \in ThreadIds
      BY Addresses
    <3> QED BY <2>4, <3>1 DEF Asking, Answered, Next
  <2> QED BY <2>1, <2>2, <2>3, <2>4 DEF PoolNext
<1> QED BY <1>1, <1>2, PTL DEF PoolSpec, Spec
=============================================================================
