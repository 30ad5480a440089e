------------------------------- MODULE Solver -------------------------------
(***************************************************************************)
(* Solver of solver/src/imp.rs: the bookkeeping of indicators, assumptions *)
(* and assertion frames on top of an SMT process, and the search for a     *)
(* model with small universes, get_minimal_model.                          *)
(*                                                                         *)
(* A model is abstracted to the size of each universe and to the           *)
(* indicators it makes true; what is asserted is the set of its models.    *)
(* Indicators of the form <<sort, n>> are those of set_universe_card: they *)
(* are fresh, so that asserting what they guard removes no model.          *)
(***************************************************************************)
EXTENDS Integers, Sequences, FiniteSetsExt

CONSTANTS
  NumSorts,    \* the uninterpreted sorts are 1 .. NumSorts, in signature order
  MaxSize,     \* the bound on the universes of the models considered
  MaxModels,   \* the bound on the models of what is asserted
  CardLimit,   \* the cardinalities tried by get_min_max_card end below it
  Inds,        \* the indicators a client may declare
  MaxFrames,   \* the bound on the depth of push
  Reuse,       \* whether a client checks twice in a row
  Answers      \* what the process may answer besides the truth: {} or {"Unknown"}

ASSUME SolverAssumption ==
  /\ NumSorts \in Nat \ {0} /\ MaxSize \in Nat \ {0} /\ MaxModels \in Nat
  /\ CardLimit \in Nat \ {0, 1} /\ MaxFrames \in Nat
  /\ Reuse \in BOOLEAN
  /\ Answers \subseteq {"Unknown"}

Sorts == 1 .. NumSorts
Model == [card : [Sorts -> 1 .. MaxSize], inds : SUBSET Inds]

VARIABLES
  returns_minimal,   (* of the backend: false for Z3, true for CVC4 and CVC5    *)
  theory,            (* the models of what is asserted                          *)
  declared,          (* the constants the process knows                         *)
  frames,            (* what pop restores in the process                        *)
  indicators,        (* the indicators Solver believes to be declared           *)
  last_assumptions,  (* the assumptions get_minimal_model will use              *)
  query,             (* the last query to the process, and its answer           *)
  pc,                (* "idle", or the loop of get_minimal_model; or the end    *)
  goal,              (* `indicators` of get_minimal_model: what it assumes      *)
  sort, card,        (* the loop variables of minimize_card, get_min_max_card   *)
  prev_ind,          (* whether minimize_card has a cardinality to go back to   *)
  asked,             (* what the last check_sat assumed                         *)
  model              (* the model returned last                                 *)

process == <<returns_minimal, theory, declared, frames>>
search == <<goal, sort, card, prev_ind>>
vars == <<process, indicators, last_assumptions, query, pc, search, asked, model>>

Literals == Inds \X BOOLEAN
CardInds == Sorts \X (1 .. CardLimit)

(* Assumptions: literals, and a bound on each universe.                    *)
NoBound == [s \in Sorts |-> MaxSize]
Assume(lits) == [lits |-> lits, bound |-> NoBound]
AtMost(a, s, n) == [a EXCEPT !.bound[s] = n]

Satisfies(m, a) ==
  /\ \A l \in a.lits : (l[1] \in m.inds) = l[2]
  /\ \A s \in Sorts : m.card[s] <= a.bound[s]

Models(a) == {m \in theory : Satisfies(m, a)}

None == [kind |-> "none"]

Init ==
  /\ returns_minimal \in BOOLEAN
  /\ theory \in UNION {kSubset(k, Model) : k \in 0 .. MaxModels}
  /\ declared = {} /\ indicators = {}
  /\ frames = <<>>
  /\ last_assumptions = None
  /\ query = [assumed |-> Assume({}), answer |-> "none"]
  /\ pc = "idle"
  /\ goal = Assume({}) /\ sort = 0 /\ card = 0 /\ prev_ind = 0
  /\ asked = {}
  /\ model = None

----------------------------------------------------------------------------
(* What the process answers.                                               *)
Truth(a) == IF Models(a) = {} THEN "unsat" ELSE "sat"

Ask(a, answer) == query' = [assumed |-> a, answer |-> answer]

(* What a call that ends a query leaves for the properties to compare.     *)
Answered == query' = [assumed |-> Assume({}), answer |-> "none"] /\ asked' = {}

Forget == Answered /\ model' = None

(* get_indicator, for a set of names.                                      *)
Declare(names) ==
  /\ declared' = declared \cup (names \ indicators)
  /\ indicators' = indicators \cup names

GetIndicator(name) ==
  /\ pc = "idle"
  /\ Declare({name})
  /\ last_assumptions' = None
  /\ Forget
  /\ UNCHANGED <<returns_minimal, theory, frames, pc, search>>

Assert ==
  /\ pc = "idle"
  /\ theory' \in SUBSET theory
  /\ last_assumptions' = None
  /\ Forget
  /\ UNCHANGED <<returns_minimal, declared, frames, indicators, pc, search>>

(* check_sat, on literals over known indicators.  The process fails if it  *)
(* does not know them.                                                     *)
CheckSat(lits) ==
  /\ pc = "idle"
  /\ Reuse \/ query.answer = "none"
  /\ \A l \in lits : l[1] \in indicators /\ <<l[1], ~l[2]>> \notin lits
  /\ IF \A l \in lits : l[1] \in declared
     THEN (\E r \in {Truth(Assume(lits))} \cup Answers : Ask(Assume(lits), r)) /\ UNCHANGED pc
     ELSE pc' = "broken" /\ UNCHANGED query
  /\ last_assumptions' = IF lits = {} THEN last_assumptions ELSE [kind |-> "some", lits |-> lits]
  /\ asked' = lits
  /\ model' = None
  /\ UNCHANGED <<process, indicators, search>>

(* A client asks for one model: get_minimal_model must follow "sat" at once. *)
GetModel ==
  /\ pc = "idle" /\ query.answer = "sat"
  /\ last_assumptions' = None
  /\ \E m \in Models(query.assumed) : model' = [kind |-> "any", model |-> m]
  /\ Answered
  /\ UNCHANGED <<process, indicators, pc, search>>

GetUnsatCore ==
  /\ pc = "idle" /\ query.answer = "unsat"
  /\ last_assumptions' = None
  /\ UNCHANGED <<process, indicators, query, pc, search, asked, model>>

Push ==
  /\ pc = "idle" /\ Len(frames) < MaxFrames
  /\ frames' = Append(frames, [theory |-> theory, declared |-> declared])
  /\ last_assumptions' = None
  /\ Forget
  /\ UNCHANGED <<returns_minimal, theory, declared, indicators, pc, search>>

(* The process forgets what the frame asserted and declared.               *)
Pop ==
  /\ pc = "idle" /\ frames # <<>>
  /\ theory' = frames[Len(frames)].theory
  /\ declared' = frames[Len(frames)].declared
  /\ frames' = SubSeq(frames, 1, Len(frames) - 1)
  /\ last_assumptions' = None
  /\ Forget
  /\ UNCHANGED <<returns_minimal, indicators, pc, search>>

----------------------------------------------------------------------------
(* get_minimal_model.  (Without sorts it asks nothing and reads the model.) *)

(* A mutation: set_universe_card has already reset last_assumptions.       *)
GetMinimalModelLate ==
  /\ pc = "idle" /\ query.answer = "sat" /\ ~returns_minimal
  /\ goal' = Assume({})
  /\ last_assumptions' = None
  /\ pc' = "max" /\ card' = 1
  /\ model' = None
  /\ UNCHANGED <<process, indicators, query, sort, prev_ind, asked>>

(* A mutation: the cardinalities start at 2.                              *)
GetMinimalModelFrom2 ==
  /\ pc = "idle" /\ query.answer = "sat" /\ ~returns_minimal
  /\ goal' = Assume(IF last_assumptions = None THEN {} ELSE last_assumptions.lits)
  /\ last_assumptions' = None
  /\ pc' = "max" /\ card' = 2
  /\ model' = None
  /\ UNCHANGED <<process, indicators, query, sort, prev_ind, asked>>

(* The assumptions of the last check_sat are the first to be assumed.      *)
GetMinimalModel ==
  /\ pc = "idle" /\ query.answer = "sat" /\ ~returns_minimal
  /\ goal' = Assume(IF last_assumptions = None THEN {} ELSE last_assumptions.lits)
  /\ last_assumptions' = None
  /\ pc' = "max" /\ card' = 1
  /\ model' = None
  /\ UNCHANGED <<process, indicators, query, sort, prev_ind, asked>>

(* With a backend that is taken to return minimal models, get_model.  The  *)
(* code has "TODO: make sure CVC4 and CVC5 return minimal models": any may *)
(* come.                                                                   *)
GetMinimalModelOfBackend ==
  /\ pc = "idle" /\ query.answer = "sat" /\ returns_minimal
  /\ last_assumptions' = None
  /\ \E m \in Models(query.assumed) : model' = [kind |-> "minimal", model |-> m]
  /\ Answered
  /\ UNCHANGED <<process, indicators, pc, search>>

(* minimize_card begins with the s-th sort; after the last one the model   *)
(* is read.                                                                *)
StartSort(s, max_card) ==
  /\ sort' = s
  /\ card' = max_card - 1
  /\ prev_ind' = 0
  /\ pc' = "minimize"

(* One query of the search: the indicators it needs are declared and       *)
(* guard their bounds, then the process answers.                           *)
Try(names, a, r) ==
  /\ Declare(names)
  /\ names \subseteq declared'
  /\ r \in {Truth(a)} \cup Answers
  /\ Ask(a, r)
  /\ UNCHANGED <<returns_minimal, theory, frames, last_assumptions, asked, model>>

(* is_valid_max_card: every universe is bounded by the next cardinality.   *)
AllAtMost(n) == [goal EXCEPT !.bound = [s \in Sorts |-> n]]

TryMax(r) ==
  /\ pc = "max" /\ card < CardLimit
  /\ Try(Sorts \X {card}, AllAtMost(card), r)

MaxFits ==
  /\ TryMax("sat")
  /\ goal' = AllAtMost(card)
  /\ StartSort(1, card)

MaxTooSmall ==
  /\ TryMax("unsat")
  /\ card' = card + 1
  /\ UNCHANGED <<pc, goal, sort, prev_ind>>

MaxTooHigh ==
  /\ pc = "max" /\ card = CardLimit
  /\ pc' = "panic"
  /\ UNCHANGED <<process, indicators, last_assumptions, query, search, asked, model>>

(* One turn of the loop of minimize_card.  The cardinality to try is       *)
(* asserted under its indicator, but the query is about `assumptions`,     *)
(* which does not contain the indicator.                                   *)
TryCard(r) ==
  /\ pc = "minimize" /\ sort <= NumSorts /\ card > 0
  /\ Try({<<sort, card>>}, goal, r)

MinimizeCard ==
  \E r \in {"sat", "unsat"} :
    /\ TryCard(r)
    /\ IF r = "sat"
       THEN prev_ind' = card /\ card' = card - 1 /\ UNCHANGED <<pc, goal, sort>>
       ELSE /\ goal' = IF prev_ind = 0 THEN goal ELSE AtMost(goal, sort, prev_ind)
            /\ StartSort(sort + 1, goal.bound[sort])

(* The loop has reached 1: nothing is added to the assumptions.            *)
ReachedOne ==
  /\ pc = "minimize" /\ sort <= NumSorts /\ card = 0
  /\ StartSort(sort + 1, goal.bound[sort])
  /\ UNCHANGED <<process, indicators, last_assumptions, query, goal, asked, model>>

(* The locals of the search end with it.                                  *)
EndSearch ==
  /\ pc' = "idle"
  /\ goal' = Assume({}) /\ sort' = 0 /\ card' = 0 /\ prev_ind' = 0

(* CouldNotMinimize.                                                       *)
GiveUp ==
  /\ TryMax("Unknown") \/ TryCard("Unknown")
  /\ EndSearch

(* An indicator that Solver takes for declared is unknown to the process.  *)
NotDeclared ==
  /\ pc \in {"max", "minimize"} /\ card \in 1 .. CardLimit - 1
  /\ \E s \in Sorts :
       /\ pc = "minimize" => s = sort
       /\ <<s, card>> \in indicators \ declared
  /\ pc' = "broken"
  /\ UNCHANGED <<process, indicators, last_assumptions, query, search, asked, model>>

(* get_fo_model: get-model, after whatever query was the last.             *)
ReadModel ==
  /\ pc = "minimize" /\ sort > NumSorts
  /\ \E m \in Models(query.assumed) : model' = [kind |-> "minimal", model |-> m]
  /\ EndSearch
  /\ Answered
  /\ UNCHANGED <<process, indicators, last_assumptions>>

Minimizing ==
  \/ MaxFits \/ MaxTooSmall \/ MaxTooHigh
  \/ MinimizeCard \/ ReachedOne \/ ReadModel
  \/ NotDeclared

Next ==
  \/ \E i \in Inds : GetIndicator(i)
  \/ \E lits \in SUBSET Literals : CheckSat(lits)
  \/ Assert \/ GetModel \/ GetUnsatCore
  \/ GetMinimalModel \/ GetMinimalModelOfBackend
  \/ Push \/ Pop
  \/ Minimizing \/ GiveUp

Spec == Init /\ [][Next]_vars

----------------------------------------------------------------------------
Fits(m, n) == \A s \in Sorts : m.card[s] <= n

(* get_minimal_model returns a model of what is asserted and of what the   *)
(* last check_sat assumed, although the search itself declares indicators  *)
(* and asserts (test_check_sat_assuming_and_get_minimal_model).            *)
HonoursAssumptions ==
  [][ReadModel \/ GetMinimalModelOfBackend =>
       model'.model \in theory /\ Satisfies(model'.model, Assume(asked))]_vars

(* No model has a smaller largest universe than the one that the search    *)
(* ends with (doc of get_minimal_model: "the smallest maximum cardinality  *)
(* across all universes that is still sat").                               *)
SmallestMaximum ==
  [][ReadModel => \A m \in Models(Assume(asked)), n \in 1 .. MaxSize :
                    Fits(m, n) => Fits(model'.model, n)]_vars
==============================================================================
