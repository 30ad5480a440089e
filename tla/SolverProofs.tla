---------------------------- MODULE SolverProofs ----------------------------
(***************************************************************************)
(* What get_minimal_model promises, proved for any number of sorts and     *)
(* sizes of universes, any theory, any limit on the cardinalities and any  *)
(* calls before it.                                                        *)
(*                                                                         *)
(* The search remembers nothing but its last query and the assumptions it  *)
(* has gathered.  The invariant says what these two are worth: what the    *)
(* client's last check assumed is still assumed, every smaller maximum was *)
(* refused, and the model to be read is one of the assumptions gathered.   *)
(***************************************************************************)
EXTENDS Solver, TLAPS

Names      == Inds \cup CardInds
Assumption == [lits : SUBSET Literals, bound : [Sorts -> Nat]]
Frame      == [theory : SUBSET Model, declared : SUBSET Names]

TypeOK ==
  /\ returns_minimal \in BOOLEAN
  /\ theory \in SUBSET Model
  /\ declared \in SUBSET Names /\ indicators \in SUBSET Names
  /\ frames \in Seq(Frame)
  /\ last_assumptions = None \/ last_assumptions \in [kind : {"some"}, lits : SUBSET Literals]
  /\ query \in [assumed : Assumption, answer : {"none", "sat", "unsat", "Unknown"}]
  /\ pc \in {"idle", "max", "minimize", "broken", "panic"}
  /\ goal \in Assumption
  /\ sort \in Nat /\ card \in Nat /\ prev_ind \in Nat
  /\ asked \in SUBSET Literals

(* The literals that get_minimal_model would assume.                       *)
Remembered == IF last_assumptions = None THEN {} ELSE last_assumptions.lits

(* The literals kept against those of the last check: a check without      *)
(* assumptions leaves the earlier ones remembered, so that a client that   *)
(* checks twice may get more than it asked for.                            *)
Keeps(lits) == asked \subseteq lits /\ (~Reuse => lits = asked)

(* Between a "sat" and the next call the assumptions are remembered; with  *)
(* one check per query nothing older is.                                   *)
Asking ==
  pc = "idle" =>
    /\ query.answer = "sat" => Keeps(Remembered) /\ query.assumed = Assume(asked)
    /\ ~Reuse /\ query.answer = "none" => last_assumptions = None

(* No model of the assumptions has universes of at most n elements.        *)
NoneFits(n) == Models(AllAtMost(n)) = {}

(* get_min_max_card: the cardinalities below the one to be tried are too   *)
(* small.                                                                  *)
Maximum ==
  pc = "max" =>
    /\ last_assumptions = None /\ Keeps(goal.lits)
    /\ card \in 1 .. CardLimit
    /\ \A k \in 1 .. card - 1 : NoneFits(k)

(* minimize_card: the assumptions are the client's, with the least maximum *)
(* that fits as the bound of every sort.  The last query was about them,   *)
(* and they have a model, so that no turn of the loop is refused.          *)
Minimum ==
  pc = "minimize" =>
    /\ last_assumptions = None /\ Keeps(goal.lits)
    /\ sort \in Nat \ {0}
    /\ query.assumed = goal /\ Models(goal) # {}
    /\ \E n \in 1 .. CardLimit - 1 :
         /\ goal = AllAtMost(n) /\ card \in 0 .. n - 1
         /\ \A k \in 1 .. n - 1 : NoneFits(k)

IInv == TypeOK /\ Asking /\ Maximum /\ Minimum
-----------------------------------------------------------------------------
(* The operators                                                           *)

LEMMA NoneIsNone ==
  /\ None \notin [kind : {"some"}, lits : SUBSET Literals]
  /\ \A lits : [kind |-> "some", lits |-> lits] # None
BY DEF None

LEMMA Bounds ==
  ASSUME TypeOK
  PROVE  /\ \A n \in Nat : AllAtMost(n) \in Assumption /\ AllAtMost(n).lits = goal.lits
                           /\ \A s \in Sorts : AllAtMost(n).bound[s] = n
         /\ \A n, k \in Nat :
              [AllAtMost(n) EXCEPT !.bound = [s \in Sorts |-> k]] = AllAtMost(k)
         /\ \A lits \in SUBSET Literals : Assume(lits) \in Assumption /\ Assume(lits).lits = lits
<1>1. \A n \in Nat : AllAtMost(n) = [lits |-> goal.lits, bound |-> [s \in Sorts |-> n]]
  <2>1. \A g \in Assumption : \A b : [g EXCEPT !.bound = b] = [lits |-> g.lits, bound |-> b]
    BY DEF Assumption
  <2> QED BY <2>1 DEF TypeOK, AllAtMost
<1>2. \A n \in Nat : AllAtMost(n) \in Assumption
  BY <1>1 DEF TypeOK, Assumption
<1>3. \A n, k \in Nat : [AllAtMost(n) EXCEPT !.bound = [s \in Sorts |-> k]] = AllAtMost(k)
  BY <1>1
<1>4. \A lits \in SUBSET Literals : Assume(lits) \in Assumption /\ Assume(lits).lits = lits
  BY SolverAssumption DEF Assume, Assumption, NoBound
<1> QED BY <1>1, <1>2, <1>3, <1>4

(* The names a query declares are names of bounds.                         *)
LEMMA Declares ==
  ASSUME TypeOK, NEW names \in SUBSET Names, Declare(names)
  PROVE  declared' \in SUBSET Names /\ indicators' \in SUBSET Names
BY DEF TypeOK, Declare

LEMMA Tried ==
  ASSUME TypeOK, NEW names \in SUBSET Names, NEW a \in Assumption, NEW r, Try(names, a, r)
  PROVE  /\ returns_minimal' = returns_minimal /\ theory' = theory /\ frames' = frames
         /\ last_assumptions' = last_assumptions /\ asked' = asked
         /\ query' = [assumed |-> a, answer |-> r]
         /\ query' \in [assumed : Assumption, answer : {"none", "sat", "unsat", "Unknown"}]
         /\ declared' \in SUBSET Names /\ indicators' \in SUBSET Names
         /\ r = "sat" => Models(a) # {}
         /\ r = "unsat" => Models(a) = {}
<1>1. r \in {"sat", "unsat", "Unknown"}
  BY SolverAssumption DEF Try, Truth
<1>2. query' = [assumed |-> a, answer |-> r]
  BY DEF Try, Ask
<1>3. (r = "sat" => Models(a) # {}) /\ (r = "unsat" => Models(a) = {})
  BY SolverAssumption DEF Try, Truth
<1> QED BY <1>1, <1>2, <1>3, Declares DEF Try

(* The models of assumptions are those of the theory.                      *)
LEMMA SameModels ==
  ASSUME UNCHANGED theory
  PROVE  \A a : Models(a)' = Models(a)
BY DEF Models
-----------------------------------------------------------------------------
(* The client's calls                                                      *)

LEMMA InitInv == Init => IInv
<1> SUFFICES ASSUME Init PROVE IInv
  OBVIOUS
<1>1. \A k : kSubset(k, Model) \subseteq SUBSET Model
  BY DEF kSubset
<1>2. theory \in SUBSET Model
  BY <1>1 DEF Init
<1>3. Assume({}) \in Assumption
  BY SolverAssumption DEF Assume, Assumption, NoBound
<1>4. TypeOK
  BY <1>2, <1>3 DEF Init, TypeOK
<1> QED BY <1>4 DEF Init, IInv, Asking, Maximum, Minimum

(* A call that forgets the last query and what it assumed.                 *)
LEMMA Forgotten ==
  ASSUME TypeOK, last_assumptions' = None, Forget, pc' = "idle", UNCHANGED <<returns_minimal, search>>,
         theory' \in SUBSET Model, frames' \in Seq(Frame),
         declared' \in SUBSET Names, indicators' \in SUBSET Names
  PROVE  IInv'
<1>1. /\ query' = [assumed |-> Assume({}), answer |-> "none"] /\ asked' = {}
      /\ Assume({}) \in Assumption
  BY Bounds DEF Forget, Answered
<1>2. TypeOK'
  BY <1>1 DEF TypeOK, search
<1> QED BY <1>1, <1>2 DEF IInv, Asking, Maximum, Minimum

LEMMA GetIndicatorInv ==
  ASSUME IInv, NEW i \in Inds, GetIndicator(i)
  PROVE  IInv'
<1>1. {i} \in SUBSET Names /\ TypeOK
  BY DEF Names, IInv
<1>2. declared' \in SUBSET Names /\ indicators' \in SUBSET Names
  BY <1>1, Declares DEF GetIndicator
<1> QED BY <1>1, <1>2, Forgotten DEF GetIndicator, TypeOK

LEMMA AssertInv ==
  ASSUME IInv, Assert
  PROVE  IInv'
BY Forgotten DEF Assert, IInv, TypeOK

LEMMA PushInv ==
  ASSUME IInv, Push
  PROVE  IInv'
<1>1. [theory |-> theory, declared |-> declared] \in Frame
  BY DEF IInv, TypeOK, Frame
<1>2. frames' \in Seq(Frame)
  BY <1>1 DEF IInv, TypeOK, Push
<1> QED BY <1>2, Forgotten DEF Push, IInv, TypeOK

LEMMA PopInv ==
  ASSUME IInv, Pop
  PROVE  IInv'
<1>1. frames \in Seq(Frame) /\ Len(frames) \in Nat \ {0} /\ frames[Len(frames)] \in Frame
  BY DEF IInv, TypeOK, Pop
<1>2. frames' \in Seq(Frame)
  BY <1>1 DEF Pop
<1> QED BY <1>1, <1>2, Forgotten DEF Pop, IInv, TypeOK, Frame

LEMMA CheckSatInv ==
  ASSUME IInv, NEW lits \in SUBSET Literals, CheckSat(lits)
  PROVE  IInv'
<1>1. /\ UNCHANGED <<returns_minimal, theory, declared, frames, indicators, goal, sort, card, prev_ind>>
      /\ asked' = lits
  BY DEF CheckSat, process, search
<1>2. last_assumptions' = IF lits = {} THEN last_assumptions ELSE [kind |-> "some", lits |-> lits]
  BY DEF CheckSat
<1>3. /\ last_assumptions' = None \/ last_assumptions' \in [kind : {"some"}, lits : SUBSET Literals]
      /\ lits # {} => last_assumptions' # None /\ last_assumptions'.lits = lits
  BY <1>2, NoneIsNone DEF IInv, TypeOK
<1>4. CASE pc' = "broken" /\ UNCHANGED query
  <2>1. TypeOK'
    BY <1>1, <1>3, <1>4 DEF IInv, TypeOK
  <2> QED BY <1>4, <2>1 DEF IInv, Asking, Maximum, Minimum
<1>5. ASSUME NEW r \in {Truth(Assume(lits))} \cup Answers, Ask(Assume(lits), r), pc' = "idle"
      PROVE  IInv'
  <2>1. query' = [assumed |-> Assume(lits), answer |-> r] /\ Assume(lits) \in Assumption
    BY <1>5, Bounds DEF Ask, IInv
  <2>2. r \in {"sat", "unsat", "Unknown"}
    BY <1>5, SolverAssumption DEF Truth
  <2>3. TypeOK'
    BY <1>1, <1>3, <1>5, <2>1, <2>2 DEF IInv, TypeOK
  <2>4. query'.answer # "none"
    BY <2>1, <2>2
  <2>5. ~Reuse /\ lits = {} => last_assumptions' = None
    BY <1>2 DEF CheckSat, IInv, Asking
  <2>6. asked' \subseteq Remembered' /\ (~Reuse => Remembered' = asked')
    BY <1>1, <1>3, <2>5 DEF Remembered
  <2> QED BY <1>1, <1>5, <2>1, <2>3, <2>4, <2>6 DEF IInv, Asking, Keeps, Maximum, Minimum
<1>6. pc = "idle"
  BY DEF CheckSat
<1> QED BY <1>4, <1>5, <1>6 DEF CheckSat

LEMMA GetModelInv ==
  ASSUME IInv, GetModel
  PROVE  IInv'
<1>1. /\ UNCHANGED <<returns_minimal, theory, declared, frames, indicators, pc, goal, sort, card, prev_ind>>
      /\ last_assumptions' = None /\ asked' = {}
      /\ query' = [assumed |-> Assume({}), answer |-> "none"]
      /\ Assume({}) \in Assumption /\ pc = "idle"
  BY Bounds DEF GetModel, process, search, Answered, IInv
<1>2. TypeOK'
  BY <1>1 DEF IInv, TypeOK
<1> QED BY <1>1, <1>2 DEF IInv, Asking, Maximum, Minimum

LEMMA GetMinimalModelOfBackendInv ==
  ASSUME IInv, GetMinimalModelOfBackend
  PROVE  IInv'
<1>1. /\ UNCHANGED <<returns_minimal, theory, declared, frames, indicators, pc, goal, sort, card, prev_ind>>
      /\ last_assumptions' = None /\ asked' = {}
      /\ query' = [assumed |-> Assume({}), answer |-> "none"]
      /\ Assume({}) \in Assumption /\ pc = "idle"
  BY Bounds DEF GetMinimalModelOfBackend, process, search, Answered, IInv
<1>2. TypeOK'
  BY <1>1 DEF IInv, TypeOK
<1> QED BY <1>1, <1>2 DEF IInv, Asking, Maximum, Minimum

LEMMA GetUnsatCoreInv ==
  ASSUME IInv, GetUnsatCore
  PROVE  IInv'
<1>1. /\ UNCHANGED <<returns_minimal, theory, declared, frames, indicators, query, pc, goal, sort, card, prev_ind,
                  asked>>
      /\ last_assumptions' = None /\ pc = "idle" /\ query.answer = "unsat"
  BY DEF GetUnsatCore, process, search
<1>2. TypeOK'
  BY <1>1 DEF IInv, TypeOK
<1> QED BY <1>1, <1>2 DEF IInv, Asking, Maximum, Minimum
-----------------------------------------------------------------------------
(* The search                                                              *)

LEMMA GetMinimalModelInv ==
  ASSUME IInv, GetMinimalModel
  PROVE  IInv'
<1>1. /\ UNCHANGED <<returns_minimal, theory, declared, frames, indicators, query, sort, prev_ind, asked>>
      /\ last_assumptions' = None /\ pc' = "max" /\ card' = 1
      /\ goal' = Assume(Remembered) /\ Keeps(Remembered)
  BY DEF GetMinimalModel, process, Remembered, IInv, Asking
<1>2. Remembered \in SUBSET Literals
  BY DEF IInv, TypeOK, Remembered
<1>3. goal' \in Assumption /\ goal'.lits = Remembered
  BY <1>1, <1>2, Bounds DEF IInv
<1>4. TypeOK'
  BY <1>1, <1>3 DEF IInv, TypeOK
<1>5. Maximum'
  BY <1>1, <1>3, SolverAssumption DEF Maximum, Keeps
<1> QED BY <1>1, <1>4, <1>5 DEF IInv, Asking, Minimum

(* The names of the bounds tried are those of set_universe_card.           *)
LEMMA BoundNames ==
  ASSUME NEW n \in 1 .. CardLimit
  PROVE  Sorts \X {n} \in SUBSET Names /\ \A s \in Sorts : {<<s, n>>} \in SUBSET Names
BY DEF Names, CardInds

LEMMA MaxTried ==
  ASSUME IInv, NEW r, TryMax(r)
  PROVE  /\ returns_minimal' = returns_minimal /\ theory' = theory /\ frames' = frames
         /\ last_assumptions' = None /\ last_assumptions = None /\ asked' = asked
         /\ query' = [assumed |-> AllAtMost(card), answer |-> r]
         /\ query' \in [assumed : Assumption, answer : {"none", "sat", "unsat", "Unknown"}]
         /\ declared' \in SUBSET Names /\ indicators' \in SUBSET Names
         /\ card \in 1 .. CardLimit - 1
         /\ AllAtMost(card) \in Assumption /\ AllAtMost(card).lits = goal.lits
         /\ r = "sat" => Models(AllAtMost(card)) # {}
         /\ r = "unsat" => NoneFits(card)
         /\ Keeps(goal.lits) /\ \A k \in 1 .. card - 1 : NoneFits(k)
<1>1. /\ pc = "max" /\ card < CardLimit /\ card \in 1 .. CardLimit /\ CardLimit \in Nat
      /\ last_assumptions = None /\ Keeps(goal.lits)
      /\ \A k \in 1 .. card - 1 : NoneFits(k)
  BY SolverAssumption DEF TryMax, IInv, Maximum
<1>2. card \in 1 .. CardLimit - 1
  BY <1>1
<1>3. Sorts \X {card} \in SUBSET Names
  BY <1>1, BoundNames
<1>4. AllAtMost(card) \in Assumption /\ AllAtMost(card).lits = goal.lits
  BY <1>1, Bounds DEF IInv
<1>5. Try(Sorts \X {card}, AllAtMost(card), r)
  BY DEF TryMax
<1>6. TypeOK
  BY DEF IInv
<1> HIDE DEF Try
<1>7. /\ theory' = theory /\ frames' = frames
      /\ returns_minimal' = returns_minimal
      /\ last_assumptions' = last_assumptions /\ asked' = asked
      /\ query' = [assumed |-> AllAtMost(card), answer |-> r]
      /\ query' \in [assumed : Assumption, answer : {"none", "sat", "unsat", "Unknown"}]
      /\ declared' \in SUBSET Names /\ indicators' \in SUBSET Names
      /\ r = "sat" => Models(AllAtMost(card)) # {}
      /\ r = "unsat" => Models(AllAtMost(card)) = {}
  BY <1>3, <1>4, <1>5, <1>6, Tried
<1> QED BY <1>1, <1>2, <1>4, <1>7 DEF NoneFits

LEMMA MaxFitsInv ==
  ASSUME IInv, MaxFits
  PROVE  IInv'
<1>1. /\ goal' = AllAtMost(card) /\ sort' = 1 /\ card' = card - 1 /\ prev_ind' = 0
      /\ pc' = "minimize" /\ TryMax("sat")
  BY DEF MaxFits, StartSort
<1>. PICK n : n = card
  OBVIOUS
<1>2. n \in 1 .. CardLimit - 1 /\ n \in Nat /\ card' \in 0 .. n - 1 /\ CardLimit \in Nat
  BY <1>1, MaxTried, SolverAssumption
<1>3. TypeOK'
  BY <1>1, <1>2, MaxTried DEF IInv, TypeOK
<1>4. \A k \in Nat : AllAtMost(k)' = AllAtMost(k)
  BY <1>1, <1>2, Bounds DEF IInv, AllAtMost
<1>5. \A k \in 1 .. n - 1 : NoneFits(k)'
  <2> TAKE k \in 1 .. n - 1
  <2>1. k \in Nat /\ NoneFits(k) /\ theory' = theory
    BY <1>1, <1>2, MaxTried
  <2> QED BY <1>4, <2>1, SameModels DEF NoneFits
<1>6. query'.assumed = goal' /\ Models(goal)' # {} /\ goal' = AllAtMost(n)'
  <2>1. query'.assumed = AllAtMost(n) /\ Models(AllAtMost(n)) # {} /\ theory' = theory
    BY <1>1, MaxTried
  <2>2. goal' = AllAtMost(n) /\ AllAtMost(n)' = AllAtMost(n)
    BY <1>1, <1>2, <1>4
  <2>3. Models(goal)' = {m \in theory : Satisfies(m, goal')}
    BY <2>1 DEF Models, Satisfies
  <2> QED BY <2>1, <2>2, <2>3 DEF Models
<1>7. last_assumptions' = None /\ Keeps(goal.lits)'
  BY <1>1, MaxTried DEF Keeps
<1>8. Minimum'
  <2>1. \E k \in 1 .. CardLimit - 1 :
          /\ goal' = AllAtMost(k)' /\ card' \in 0 .. k - 1
          /\ \A j \in 1 .. k - 1 : NoneFits(j)'
    BY <1>2, <1>5, <1>6
  <2> QED BY <1>1, <1>6, <1>7, <2>1 DEF Minimum
<1> QED BY <1>1, <1>3, <1>8 DEF IInv, Asking, Maximum

LEMMA MaxTooSmallInv ==
  ASSUME IInv, MaxTooSmall
  PROVE  IInv'
<1>1. /\ card' = card + 1 /\ UNCHANGED <<pc, goal, sort, prev_ind>> /\ TryMax("unsat")
      /\ pc = "max"
  BY DEF MaxTooSmall, TryMax
<1>2. card \in 1 .. CardLimit - 1 /\ CardLimit \in Nat /\ theory' = theory
  BY <1>1, MaxTried, SolverAssumption
<1>3. TypeOK'
  BY <1>1, <1>2, MaxTried DEF IInv, TypeOK
<1>4. \A k : AllAtMost(k)' = AllAtMost(k)
  BY <1>1 DEF AllAtMost
<1>5. \A k \in 1 .. card' - 1 : NoneFits(k)'
  <2> TAKE k \in 1 .. card' - 1
  <2>1. k \in 1 .. card - 1 \/ k = card
    BY <1>1, <1>2
  <2>2. NoneFits(k)
    BY <1>1, <2>1, MaxTried
  <2> QED BY <1>2, <1>4, <2>2, SameModels DEF NoneFits
<1>6. Maximum'
  BY <1>1, <1>2, <1>5, MaxTried DEF Maximum, Keeps
<1> QED BY <1>1, <1>3, <1>6 DEF IInv, Asking, Minimum

LEMMA CardTried ==
  ASSUME IInv, NEW r, TryCard(r)
  PROVE  /\ returns_minimal' = returns_minimal /\ theory' = theory /\ frames' = frames
         /\ last_assumptions' = None /\ last_assumptions = None /\ asked' = asked
         /\ query' = [assumed |-> goal, answer |-> r]
         /\ query' \in [assumed : Assumption, answer : {"none", "sat", "unsat", "Unknown"}]
         /\ declared' \in SUBSET Names /\ indicators' \in SUBSET Names
         /\ pc = "minimize" /\ card \in Nat \ {0} /\ r # "unsat"
<1>1. /\ pc = "minimize" /\ sort \in Sorts /\ card > 0
      /\ last_assumptions = None /\ Models(goal) # {}
      /\ \E n \in 1 .. CardLimit - 1 : card \in 0 .. n - 1
  BY SolverAssumption DEF TryCard, IInv, Minimum, Sorts
<1>2. card \in 1 .. CardLimit /\ card \in Nat \ {0}
  BY <1>1, SolverAssumption
<1>3. {<<sort, card>>} \in SUBSET Names /\ goal \in Assumption /\ TypeOK
  BY <1>1, <1>2, BoundNames DEF IInv, TypeOK
<1>4. Try({<<sort, card>>}, goal, r)
  BY DEF TryCard
<1>5. /\ theory' = theory /\ frames' = frames
      /\ returns_minimal' = returns_minimal
      /\ last_assumptions' = last_assumptions /\ asked' = asked
      /\ query' = [assumed |-> goal, answer |-> r]
      /\ query' \in [assumed : Assumption, answer : {"none", "sat", "unsat", "Unknown"}]
      /\ declared' \in SUBSET Names /\ indicators' \in SUBSET Names
      /\ r = "unsat" => Models(goal) = {}
  BY <1>3, <1>4, Tried
<1> QED BY <1>1, <1>2, <1>5

(* Within minimize_card only the loop variables and the sort move.         *)
LEMMA MinimumKept ==
  ASSUME IInv, pc = "minimize", pc' = "minimize", theory' = theory, goal' = goal,
         last_assumptions' = None, asked' = asked, query'.assumed = goal,
         sort' \in Nat \ {0},
         \A n \in 1 .. CardLimit - 1 : goal = AllAtMost(n) /\ card \in 0 .. n - 1 => card' \in 0 .. n - 1
  PROVE  Minimum'
<1>1. \A k : AllAtMost(k)' = AllAtMost(k) /\ NoneFits(k)' = NoneFits(k)
  BY SameModels DEF AllAtMost, NoneFits
<1>2. Models(goal)' # {} /\ Keeps(goal.lits)'
  BY SameModels DEF IInv, Minimum, Keeps
<1> QED BY <1>1, <1>2 DEF IInv, Minimum

LEMMA MinimizeCardInv ==
  ASSUME IInv, MinimizeCard
  PROVE  IInv'
<1>1. /\ TryCard("sat") /\ prev_ind' = card /\ card' = card - 1 /\ UNCHANGED <<pc, goal, sort>>
  <2>1. ~TryCard("unsat")
    BY CardTried
  <2> QED BY <2>1 DEF MinimizeCard
<1>2. TypeOK'
  BY <1>1, CardTried DEF IInv, TypeOK
<1>3. Minimum'
  <2>1. sort' \in Nat \ {0} /\ pc = "minimize" /\ card \in Nat \ {0}
    BY <1>1, CardTried DEF IInv, Minimum
  <2>2. \A n \in 1 .. CardLimit - 1 : card \in 0 .. n - 1 => card' \in 0 .. n - 1
    BY <1>1, <2>1, SolverAssumption
  <2> QED BY <1>1, <2>1, <2>2, CardTried, MinimumKept
<1> QED BY <1>1, <1>2, <1>3, CardTried DEF IInv, Asking, Maximum

LEMMA ReachedOneInv ==
  ASSUME IInv, ReachedOne
  PROVE  IInv'
<1>1. /\ UNCHANGED <<returns_minimal, theory, declared, frames, indicators, last_assumptions, query, goal, asked,
                  model>>
      /\ pc = "minimize" /\ pc' = "minimize" /\ sort \in Sorts
      /\ sort' = sort + 1 /\ card' = goal.bound[sort] - 1 /\ prev_ind' = 0
  BY SolverAssumption DEF ReachedOne, StartSort, process, IInv, Minimum, Sorts
<1>2. \A n \in 1 .. CardLimit - 1 : goal = AllAtMost(n) => card' = n - 1
  BY <1>1, Bounds DEF IInv
<1>3. card' \in Nat /\ sort' \in Nat \ {0}
  BY <1>1, <1>2 DEF IInv, Minimum, Sorts
<1>4. TypeOK'
  BY <1>1, <1>3 DEF IInv, TypeOK
<1>5. Minimum'
  <2>1. last_assumptions' = None /\ query'.assumed = goal
    BY <1>1 DEF IInv, Minimum
  <2>2. \A n \in 1 .. CardLimit - 1 : goal = AllAtMost(n) /\ card \in 0 .. n - 1 => card' \in 0 .. n - 1
    BY <1>2, SolverAssumption
  <2> QED BY <1>1, <1>3, <2>1, <2>2, MinimumKept
<1> QED BY <1>1, <1>4, <1>5 DEF IInv, Asking, Maximum

LEMMA ReadModelInv ==
  ASSUME IInv, ReadModel
  PROVE  IInv'
<1>1. /\ UNCHANGED <<returns_minimal, theory, declared, frames, indicators, last_assumptions>>
      /\ pc' = "idle" /\ asked' = {} /\ query' = [assumed |-> Assume({}), answer |-> "none"]
      /\ goal' = Assume({}) /\ sort' = 0 /\ card' = 0 /\ prev_ind' = 0
      /\ last_assumptions = None /\ Assume({}) \in Assumption
  BY Bounds DEF ReadModel, process, EndSearch, Answered, IInv, Minimum
<1>2. TypeOK'
  BY <1>1 DEF IInv, TypeOK
<1> QED BY <1>1, <1>2 DEF IInv, Asking, Maximum, Minimum

LEMMA GiveUpInv ==
  ASSUME IInv, GiveUp
  PROVE  IInv'
<1>1. /\ pc' = "idle" /\ goal' = Assume({}) /\ sort' = 0 /\ card' = 0 /\ prev_ind' = 0
      /\ Assume({}) \in Assumption
  BY Bounds DEF GiveUp, EndSearch, IInv
<1>2. /\ returns_minimal' = returns_minimal /\ theory' = theory /\ frames' = frames
      /\ last_assumptions' = None /\ asked' = asked
      /\ query' \in [assumed : Assumption, answer : {"none", "sat", "unsat", "Unknown"}]
      /\ query'.answer = "Unknown"
      /\ declared' \in SUBSET Names /\ indicators' \in SUBSET Names
  <2>1. CASE TryMax("Unknown")
    BY <2>1, MaxTried
  <2>2. CASE TryCard("Unknown")
    BY <2>2, CardTried
  <2> QED BY <2>1, <2>2 DEF GiveUp
<1>3. TypeOK'
  BY <1>1, <1>2 DEF IInv, TypeOK
<1> QED BY <1>1, <1>2, <1>3 DEF IInv, Asking, Maximum, Minimum

LEMMA StopInv ==
  ASSUME IInv, MaxTooHigh \/ NotDeclared
  PROVE  IInv'
<1>1. /\ UNCHANGED <<process, indicators, last_assumptions, query, search, asked, model>>
      /\ pc' \in {"panic", "broken"}
  BY DEF MaxTooHigh, NotDeclared
<1>2. TypeOK'
  BY <1>1 DEF IInv, TypeOK, process, search
<1> QED BY <1>1, <1>2 DEF IInv, Asking, Maximum, Minimum

LEMMA StepInv == IInv /\ [Next]_vars => IInv'
<1> SUFFICES ASSUME IInv, [Next]_vars PROVE IInv'
  OBVIOUS
<1>1. CASE UNCHANGED vars
  <2> USE <1>1 DEF vars, process, search
  <2>1. \A k : AllAtMost(k)' = AllAtMost(k) /\ NoneFits(k)' = NoneFits(k)
    BY SameModels DEF AllAtMost, NoneFits
  <2>2. TypeOK'
    BY DEF IInv, TypeOK
  <2>3. Asking'
    BY DEF IInv, Asking, Keeps, Remembered
  <2>4. Maximum'
    BY <2>1 DEF IInv, Maximum, Keeps
  <2>5. Minimum'
    BY <2>1, SameModels DEF IInv, Minimum, Keeps, Models
  <2> QED BY <2>2, <2>3, <2>4, <2>5 DEF IInv
<1>2. CASE Next
  BY <1>2, GetIndicatorInv, CheckSatInv, AssertInv, GetModelInv, GetUnsatCoreInv,
     GetMinimalModelInv, GetMinimalModelOfBackendInv, PushInv, PopInv, MaxFitsInv, MaxTooSmallInv, MinimizeCardInv,
     ReachedOneInv, ReadModelInv, StopInv, GiveUpInv DEF Next, Minimizing
<1> QED BY <1>1, <1>2

LEMMA AlwaysIInv == Spec => []IInv
BY InitInv, StepInv, PTL DEF Spec
-----------------------------------------------------------------------------
(* The model that get_minimal_model returns is a model of what is asserted *)
(* and of what the last check_sat assumed, however often the client has    *)
(* checked before.                                                         *)
THEOREM AssumptionsHonoured == Spec => HonoursAssumptions
<1>1. IInv /\ [Next]_vars
      => [ReadModel \/ GetMinimalModelOfBackend =>
            model'.model \in theory /\ Satisfies(model'.model, Assume(asked))]_vars
  <2>0. ASSUME IInv, GetMinimalModelOfBackend
        PROVE  model'.model \in theory /\ Satisfies(model'.model, Assume(asked))
    BY <2>0 DEF GetMinimalModelOfBackend, IInv, Asking, Models
  <2> SUFFICES ASSUME IInv, ReadModel
               PROVE  model'.model \in theory /\ Satisfies(model'.model, Assume(asked))
    BY <2>0
  <2>1. asked \subseteq goal.lits /\ query.assumed = goal
    BY DEF ReadModel, IInv, Minimum, Keeps
  <2>2. model'.model \in Models(goal)
    BY <2>1 DEF ReadModel
  <2>3. model'.model \in theory /\ model'.model \in Model
        /\ \A l \in asked : (l[1] \in model'.model.inds) = l[2]
    BY <2>1, <2>2 DEF Models, Satisfies, IInv, TypeOK
  <2>4. \A s \in Sorts : model'.model.card[s] <= MaxSize
    BY <2>3, SolverAssumption DEF Model
  <2> QED BY <2>3, <2>4 DEF Satisfies, Assume, NoBound
<1> QED BY <1>1, AlwaysIInv, PTL DEF HonoursAssumptions, Spec

(* When the client checks once for each query, no model of what it asked   *)
(* for has a smaller largest universe than the one returned.               *)
THEOREM MaximumSmallest == ~Reuse => (Spec => SmallestMaximum)
<1> SUFFICES ASSUME ~Reuse PROVE Spec => SmallestMaximum
  OBVIOUS
<1>1. IInv /\ [Next]_vars
      => [ReadModel => \A m \in Models(Assume(asked)), n \in 1 .. MaxSize :
                         Fits(m, n) => Fits(model'.model, n)]_vars
  <2> SUFFICES ASSUME IInv, ReadModel,
                      NEW m \in Models(Assume(asked)), NEW n \in 1 .. MaxSize, Fits(m, n)
               PROVE  Fits(model'.model, n)
    OBVIOUS
  <2>1. goal.lits = asked /\ query.assumed = goal /\ TypeOK
    BY DEF ReadModel, IInv, Minimum, Keeps
  <2>2. PICK least \in 1 .. CardLimit - 1 :
          goal = AllAtMost(least) /\ \A k \in 1 .. least - 1 : NoneFits(k)
    BY DEF ReadModel, IInv, Minimum
  <2>3. m \in Models(AllAtMost(n))
    <3>1. m \in theory /\ (\A l \in asked : (l[1] \in m.inds) = l[2])
      BY DEF Models, Satisfies, Assume
    <3>2. AllAtMost(n).lits = asked /\ \A s \in Sorts : AllAtMost(n).bound[s] = n
      BY <2>1, Bounds, SolverAssumption
    <3> QED BY <3>1, <3>2 DEF Models, Satisfies, Fits
  <2>4. least <= n
    BY <2>2, <2>3, SolverAssumption DEF NoneFits
  <2>5. model'.model \in theory /\ model'.model \in Model
        /\ \A s \in Sorts : model'.model.card[s] <= goal.bound[s]
    BY <2>1 DEF ReadModel, Models, Satisfies, TypeOK
  <2>6. \A s \in Sorts : goal.bound[s] = least /\ model'.model.card[s] \in Nat
    BY <2>1, <2>2, <2>5, Bounds, SolverAssumption DEF Model
  <2> QED BY <2>4, <2>5, <2>6, SolverAssumption DEF Fits
<1> QED BY <1>1, AlwaysIInv, PTL DEF SmallestMaximum, Spec

(* minimize_card minimizes nothing: its queries do not assume the bound    *)
(* that they are meant to try (set_universe_card returns the indicator of  *)
(* the bound, which is never passed to check_sat_assuming), so none of     *)
(* them is refused, and the model that is read is bounded by the maximum   *)
(* in every sort.                                                          *)
THEOREM OnlyTheMaximum ==
  Spec => [](pc = "minimize" => \E n \in 1 .. CardLimit - 1 : \A s \in Sorts : goal.bound[s] = n)
<1>1. IInv => (pc = "minimize" => \E n \in 1 .. CardLimit - 1 : \A s \in Sorts : goal.bound[s] = n)
  BY Bounds, SolverAssumption DEF IInv, Minimum
<1> QED BY <1>1, AlwaysIInv, PTL
=============================================================================
