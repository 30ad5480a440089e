----------------------------- MODULE UpdrProofs -----------------------------
(***************************************************************************)
(* What the frames of UPDR are, and what its result is, for any structures *)
(* and diagrams, any module and any choice of predecessors and cores.      *)
(***************************************************************************)
EXTENDS Updr, SequenceTheorems, WellFoundedInduction, TLAPS

TermOrModel ==
  [kind : {"term"}, bad : SUBSET States] \cup [kind : {"model"}, model : States]
Entry == [what : TermOrModel, steps : Nat, absent : Nat]
Call == [what : TermOrModel, index : Nat]
Proof == [safety : SUBSET States, clauses : Seq(SUBSET States)]

TypeOK ==
  /\ axioms \in SUBSET States /\ trans \in SUBSET (States \X States)
  /\ proofs \in Seq(Proof)
  /\ frames \in Seq(SUBSET Term) /\ frames # <<>>
  /\ states \in Seq(Entry)
  /\ blocking \in Nat /\ pushed \in Nat
  /\ stack \in Seq(Call)

(* Each frame holds where those before it do: FramesChain, and what follows *)
(* from it over several frames.                                            *)
Chain ==
  \A i, k \in 0 .. Last : i <= k => All(Frame(i)) \cap Safe \subseteq All(Frame(k))

(* The transitions between structures the axioms allow.                    *)
Moves == {t \in trans : t[1] \in axioms /\ t[2] \in axioms}

OneStep ==
  \A i \in 0 .. Last - 1 : \A m \in Moves :
    m[1] \in All(Frame(i)) \cap Safe => m[2] \in All(Frame(i + 1))

(* No state is known to be absent from a frame that does not exist.        *)
AbsentInRange == \A i \in DOMAIN states : states[i].absent <= Last

(* The calls of block(): the first one is for the state being blocked, at  *)
(* the frame after those it is absent from; the others are below.          *)
Calls ==
  pc = "block" =>
    /\ blocking \in DOMAIN states /\ states[blocking].absent < Last
    /\ stack # <<>>
    /\ stack[Len(stack)] = [what |-> states[blocking].what, index |-> states[blocking].absent + 1]
    /\ \A c \in DOMAIN stack : stack[c].index <= states[blocking].absent + 1

(* Where the search goes on after establish_safety, no transition leaves   *)
(* the safe states from a frame before the last one: when simplify() has   *)
(* dropped the safety properties, the last one need not be safe itself.    *)
StaysSafe ==
  pc \in {"simplify", "check"} =>
    \A i \in 0 .. Last - 1 : \A m \in Moves :
      m[1] \in All(Frame(i)) \cap Safe => m[2] \in Safe

(* ResultInductive.                                                        *)
Closed ==
  pc = "done" => \A m \in Moves : m[1] \in All(result) \cap Safe => m[2] \in All(result) \cap Safe

(* The inductive invariant.                                                *)
IInv ==
  /\ TypeOK
  /\ Chain /\ OneStep
  /\ AbsentInRange /\ AbsentIsAbsent
  /\ Calls
  /\ StaysSafe /\ Closed

----------------------------------------------------------------------------
LEMMA LeastNat ==
  ASSUME NEW T \in SUBSET Nat, T # {}
  PROVE  \E x \in T : \A y \in T : x <= y
<1>1. PICK x \in T : \A y \in T : ~ (<<y, x>> \in OpToRel(<, Nat))
  BY NatLessThanWellFounded, WFMin
<1>2. \A y \in T : ~(y < x)
  BY <1>1 DEF OpToRel
<1> QED BY <1>2

(* Concatenations of the sequences of E, one more at a time.               *)
Concats(f, E, n) == f = [k \in 0 .. n |-> IF k = 0 THEN <<>> ELSE f[k - 1] \o E[k]]

LEMMA ConcatsExist ==
  ASSUME NEW N \in Nat, NEW E
  PROVE  \E f : Concats(f, E, N)
<1> DEFINE T == {n \in Nat : ~\E f : Concats(f, E, n)}
<1>1. T \in SUBSET Nat /\ \A n \in Nat : n \in T <=> ~\E f : Concats(f, E, n)
  OBVIOUS
<1> HIDE DEF T
<1> SUFFICES ASSUME T # {} PROVE FALSE
  BY <1>1
<1>2. PICK n \in T : \A m \in T : n <= m
  BY <1>1, LeastNat
<1>3. n \in Nat \ {0} /\ n - 1 \in Nat
  <2>1. Concats([k \in 0 .. 0 |-> <<>>], E, 0)
    BY DEF Concats
  <2> QED BY <1>1, <1>2, <2>1
<1>4. PICK g : Concats(g, E, n - 1)
  BY <1>1, <1>2, <1>3
<1> DEFINE h == [k \in 0 .. n |-> IF k = 0 THEN <<>> ELSE g[k - 1] \o E[k]]
<1>5. ASSUME NEW k \in 0 .. n - 1 PROVE h[k] = g[k]
  BY <1>3, <1>4, <1>5 DEF Concats
<1>6. ASSUME NEW k \in 0 .. n
      PROVE  h[k] = IF k = 0 THEN <<>> ELSE h[k - 1] \o E[k]
  <2>1. CASE k = 0
    BY <2>1
  <2>2. CASE k # 0
    <3>1. k - 1 \in 0 .. n - 1
      BY <1>3, <2>2
    <3>2. h[k - 1] = g[k - 1]
      BY <1>5, <3>1
    <3>3. h[k] = g[k - 1] \o E[k]
      BY <2>2
    <3> HIDE DEF h
    <3> QED BY <2>2, <3>2, <3>3
  <2> QED BY <2>1, <2>2
<1>7. Concats(h, E, n)
  <2>1. h = [k \in 0 .. n |-> h[k]]
    OBVIOUS
  <2> HIDE DEF h
  <2>2. [k \in 0 .. n |-> h[k]] = [k \in 0 .. n |-> IF k = 0 THEN <<>> ELSE h[k - 1] \o E[k]]
    BY <1>6
  <2> QED BY <2>1, <2>2 DEF Concats
<1> QED BY <1>1, <1>2, <1>3, <1>7

LEMMA ConcatsIn ==
  ASSUME NEW N \in Nat, NEW E, NEW S, \A k \in 1 .. N : E[k] \in Seq(S),
         NEW f, Concats(f, E, N)
  PROVE  f[N] \in Seq(S)
<1> DEFINE T == {n \in 0 .. N : f[n] \notin Seq(S)}
<1>1. T \in SUBSET Nat /\ \A n \in 0 .. N : n \in T <=> f[n] \notin Seq(S)
  OBVIOUS
<1>0. T \subseteq 0 .. N
  OBVIOUS
<1> HIDE DEF T
<1> SUFFICES ASSUME T # {} PROVE FALSE
  BY <1>1
<1>2. PICK n \in T : \A m \in T : n <= m
  BY <1>1, LeastNat
<1>3. f[n] = IF n = 0 THEN <<>> ELSE f[n - 1] \o E[n]
  BY <1>0, <1>2 DEF Concats
<1>4. n # 0
  <2> SUFFICES ASSUME n = 0 PROVE FALSE
    OBVIOUS
  <2>1. f[n] = <<>> /\ f[n] \notin Seq(S)
    BY <1>0, <1>1, <1>2, <1>3
  <2>2. <<>> \in Seq(S)
    OBVIOUS
  <2> QED BY <2>1, <2>2
<1>5. n - 1 \in 0 .. N /\ n - 1 \notin T /\ n \in 1 .. N
  BY <1>0, <1>2, <1>4
<1>6. f[n - 1] \in Seq(S) /\ E[n] \in Seq(S)
  BY <1>1, <1>5
<1>7. f[n] = f[n - 1] \o E[n]
  BY <1>3, <1>4
<1>8. \A p, q \in Seq(S) : p \o q \in Seq(S)
  OBVIOUS
<1>9. f[n] \in Seq(S)
  BY <1>6, <1>7, <1>8
<1> QED BY <1>0, <1>1, <1>2, <1>9

LEMMA FromProofsIn ==
  ASSUME NEW ps \in Seq(Proof), NEW S,
         \A k \in DOMAIN ps : \A i \in DOMAIN ps[k].clauses :
           Known(Bad(States \ ps[k].clauses[i]), 0, 0) \in S
  PROVE  FromProofs(ps) \in Seq(S)
<1> DEFINE N == Len(ps)
           Entries(k) == [i \in DOMAIN ps[k].clauses |-> Known(Bad(States \ ps[k].clauses[i]), 0, 0)]
           E == [k \in 1 .. N |-> Entries(k)]
           Of == CHOOSE f : f = [k \in 0 .. N |-> IF k = 0 THEN <<>> ELSE f[k - 1] \o Entries(k)]
<1>1. N \in Nat /\ DOMAIN ps = 1 .. N
  OBVIOUS
<1>2. FromProofs(ps) = Of[N]
  BY DEF FromProofs
<1>3. \A k \in 1 .. N : E[k] \in Seq(S)
  <2> SUFFICES ASSUME NEW k \in 1 .. N PROVE Entries(k) \in Seq(S)
    OBVIOUS
  <2>0. ps[k] \in Proof
    OBVIOUS
  <2>1. ps[k].clauses \in Seq(SUBSET States)
    BY <2>0 DEF Proof
  <2>3. \A cs \in Seq(SUBSET States) : DOMAIN cs = 1 .. Len(cs) /\ Len(cs) \in Nat
    OBVIOUS
  <2>4. PICK n \in Nat : DOMAIN ps[k].clauses = 1 .. n
    BY <2>1, <2>3
  <2>5. \A i \in 1 .. n : Known(Bad(States \ ps[k].clauses[i]), 0, 0) \in S
    BY <1>1, <2>4
  <2>6. [i \in 1 .. n |-> Known(Bad(States \ ps[k].clauses[i]), 0, 0)] \in Seq(S)
    BY <2>5
  <2> QED BY <2>4, <2>6
<1>4. ASSUME NEW f
      PROVE  Concats(f, E, N) <=> f = [k \in 0 .. N |-> IF k = 0 THEN <<>> ELSE f[k - 1] \o Entries(k)]
  <2> HIDE DEF Entries, N
  <2>1. ASSUME NEW k \in 0 .. N, k # 0 PROVE E[k] = Entries(k)
    <3>1. k \in 1 .. N
      BY <1>1, <2>1
    <3> QED BY <3>1
  <2> HIDE DEF E
  <2>2. \A k \in 0 .. N : (IF k = 0 THEN <<>> ELSE f[k - 1] \o E[k])
                           = (IF k = 0 THEN <<>> ELSE f[k - 1] \o Entries(k))
    BY <2>1
  <2>3. [k \in 0 .. N |-> IF k = 0 THEN <<>> ELSE f[k - 1] \o E[k]]
          = [k \in 0 .. N |-> IF k = 0 THEN <<>> ELSE f[k - 1] \o Entries(k)]
    BY <2>2
  <2> QED BY <2>3 DEF Concats
<1> HIDE DEF E, Entries, N
<1>5. \E f : f = [k \in 0 .. N |-> IF k = 0 THEN <<>> ELSE f[k - 1] \o Entries(k)]
  <2>1. PICK f : Concats(f, E, N)
    BY <1>1, ConcatsExist
  <2> QED BY <1>4, <2>1
<1>6. Of = [k \in 0 .. N |-> IF k = 0 THEN <<>> ELSE Of[k - 1] \o Entries(k)]
  BY <1>5
<1> HIDE DEF Of
<1>7. Concats(Of, E, N)
  BY <1>4, <1>6
<1> QED BY <1>1, <1>2, <1>3, <1>7, ConcatsIn

LEMMA FromProofsType ==
  ASSUME NEW ps \in Seq(Proof)
  PROVE  /\ FromProofs(ps) \in Seq(Entry)
         /\ \A i \in DOMAIN FromProofs(ps) : FromProofs(ps)[i].absent = 0
<1> DEFINE Fresh == [what : TermOrModel, steps : Nat, absent : {0}]
<1>1. \A S \in SUBSET States : Known(Bad(States \ S), 0, 0) \in Fresh
  BY DEF Known, Bad, TermOrModel
<1>2. Fresh \subseteq Entry /\ \A e \in Fresh : e.absent = 0
  BY DEF Entry
<1> HIDE DEF Fresh
<1>3. \A k \in DOMAIN ps : \A i \in DOMAIN ps[k].clauses : ps[k].clauses[i] \in SUBSET States
  <2>1. \A k \in DOMAIN ps : ps[k] \in Proof
    OBVIOUS
  <2>3. \A k \in DOMAIN ps : ps[k].clauses \in Seq(SUBSET States)
    BY <2>1 DEF Proof
  <2>2. \A cs \in Seq(SUBSET States) : \A i \in DOMAIN cs : cs[i] \in SUBSET States
    OBVIOUS
  <2> QED BY <2>2, <2>3
<1>4. FromProofs(ps) \in Seq(Fresh)
  BY <1>1, <1>3, FromProofsIn
<1>5. \A i \in DOMAIN FromProofs(ps) : FromProofs(ps)[i] \in Fresh
  BY <1>4
<1>6. FromProofs(ps) \in Seq(Entry)
  BY <1>2, <1>4
<1> QED BY <1>2, <1>5, <1>6
----------------------------------------------------------------------------
(* All and Post                                                            *)

LEMMA AllFacts ==
  /\ \A F : All(F) \subseteq States
  /\ \A F, G : F \subseteq G => All(G) \subseteq All(F)
  /\ \A F, t : All(F \cup {t}) = {s \in All(F) : s \in t.holds}
  /\ All({}) = States
BY DEF All

LEMMA PostMoves ==
  ASSUME NEW S, NEW R
  PROVE  Post(S) \subseteq R <=> \A m \in Moves : m[1] \in S => m[2] \in R
BY DEF Post, Moves

LEMMA SafeFacts ==
  /\ Safe \subseteq States
  /\ \A s \in States, i \in DOMAIN proofs : s \notin proofs[i].safety => s \notin Safe
BY DEF Safe, Safety

LEMMA SameModule ==
  ASSUME UNCHANGED module
  PROVE  Moves' = Moves /\ Safe' = Safe /\ UNCHANGED <<inits, axioms, trans, proofs>>
BY DEF module, Moves, Safe, Safety

LEMMA FrameTypes ==
  ASSUME TypeOK
  PROVE  /\ Len(frames) \in Nat \ {0} /\ Last \in Nat /\ DOMAIN frames = 1 .. Len(frames)
         /\ \A i \in 0 .. Last : Frame(i) \in SUBSET Term
         /\ \A i \in DOMAIN frames : frames[i] \in SUBSET Term
<1>1. \A fs \in Seq(SUBSET Term) : /\ Len(fs) \in Nat /\ DOMAIN fs = 1 .. Len(fs)
                                    /\ \A i \in DOMAIN fs : fs[i] \in SUBSET Term
                                    /\ fs # <<>> => Len(fs) # 0
  OBVIOUS
<1>2. frames \in Seq(SUBSET Term) /\ frames # <<>>
  BY DEF TypeOK
<1> QED BY <1>1, <1>2 DEF Last, Frame

LEMMA StateTypes ==
  ASSUME TypeOK
  PROVE  /\ Len(states) \in Nat /\ DOMAIN states = 1 .. Len(states)
         /\ \A i \in DOMAIN states : states[i] \in Entry
         /\ Len(stack) \in Nat /\ DOMAIN stack = 1 .. Len(stack)
         /\ \A c \in DOMAIN stack : stack[c] \in Call
         /\ stack # <<>> => /\ Len(stack) # 0 /\ Top = stack[1] /\ Tail(stack) \in Seq(Call)
                            /\ Len(Tail(stack)) = Len(stack) - 1
                            /\ \A c \in 1 .. Len(stack) - 1 : Tail(stack)[c] = stack[c + 1]
<1>1. \A S : \A q \in Seq(S) : /\ Len(q) \in Nat /\ DOMAIN q = 1 .. Len(q)
                                /\ \A i \in DOMAIN q : q[i] \in S
  OBVIOUS
<1>2. \A S : \A q \in Seq(S) :
        q # <<>> => /\ Len(q) # 0 /\ Head(q) = q[1] /\ Tail(q) \in Seq(S)
                    /\ Len(Tail(q)) = Len(q) - 1
                    /\ \A c \in 1 .. Len(q) - 1 : Tail(q)[c] = q[c + 1]
  OBVIOUS
<1>3. states \in Seq(Entry) /\ stack \in Seq(Call)
  BY DEF TypeOK
<1> QED BY <1>1, <1>2, <1>3 DEF Top

(* The first in the order of find_state_to_block exists.                   *)
LEMMA OldestExists ==
  ASSUME TypeOK, states # <<>>
  PROVE  Oldest \in DOMAIN states
<1> DEFINE D == DOMAIN states
           Absents == {states[i].absent : i \in D}
<1>0. D = 1 .. Len(states) /\ Len(states) \in Nat /\ D # {}
  <2>1. states \in Seq(Entry)
    BY DEF TypeOK
  <2>2. Len(states) # 0
    BY <2>1, EmptySeq
  <2>3. Len(states) \in Nat /\ D = 1 .. Len(states)
    BY StateTypes
  <2>4. 1 \in 1 .. Len(states)
    BY <2>2, <2>3
  <2> HIDE DEF D
  <2> QED BY <2>3, <2>4
<1>1. \A i \in D : states[i].absent \in Nat /\ states[i].steps \in Nat
  BY StateTypes DEF Entry
<1> HIDE DEF D
<1>2. PICK a \in Absents : \A b \in Absents : a <= b
  <2>1. Absents \in SUBSET Nat /\ Absents # {}
    BY <1>0, <1>1
  <2> QED BY <2>1, LeastNat
<1> DEFINE First == {i \in D : states[i].absent = a}
           Depths == {states[i].steps : i \in First}
<1>3. PICK n \in Depths : \A b \in Depths : n <= b
  <2>1. Depths \in SUBSET Nat /\ Depths # {}
    BY <1>1, <1>2
  <2> QED BY <2>1, LeastNat
<1> DEFINE Least == {i \in First : states[i].steps = n}
<1>4. PICK i \in Least : \A j \in Least : i <= j
  <2>1. Least \in SUBSET Nat /\ Least # {}
    BY <1>0, <1>3
  <2> QED BY <2>1, LeastNat
<1>5. ASSUME NEW j \in D
      PROVE  Before(states[i], states[j]) \/ (~Before(states[j], states[i]) /\ i <= j)
  <2>1. i \in D /\ states[i].absent = a /\ states[i].steps = n
    BY <1>4
  <2>2. a <= states[j].absent
    BY <1>2
  <2>3. states[j].absent = a => n <= states[j].steps
    BY <1>3
  <2>4. states[j].absent = a /\ states[j].steps = n => i <= j
    BY <1>4
  <2>5. a \in Nat /\ n \in Nat /\ states[j].absent \in Nat /\ states[j].steps \in Nat
    BY <1>1, <2>1
  <2> QED BY <2>1, <2>2, <2>3, <2>4, <2>5 DEF Before
<1>6. i \in D
  BY <1>4
<1> QED BY <1>5, <1>6 DEF Oldest, D

----------------------------------------------------------------------------
(* Steps that leave the module and the frames alone                        *)

LEMMA SameFrames ==
  ASSUME IInv, UNCHANGED module, UNCHANGED frames
  PROVE  Chain' /\ OneStep' /\ Last' = Last /\ Safe' = Safe /\ Moves' = Moves
BY SameModule DEF IInv, Chain, OneStep, Last, Frame

LEMMA SameStates ==
  ASSUME IInv, UNCHANGED module, UNCHANGED frames, UNCHANGED states
  PROVE  AbsentInRange' /\ AbsentIsAbsent'
BY SameFrames DEF IInv, AbsentInRange, AbsentIsAbsent, Frame

LEMMA SameTypes ==
  ASSUME IInv, UNCHANGED module
  PROVE  axioms' \in SUBSET States /\ trans' \in SUBSET (States \X States) /\ proofs' \in Seq(Proof)
BY SameModule DEF IInv, TypeOK

LEMMA InitInv == Init => IInv
<1> SUFFICES ASSUME Init PROVE IInv
  OBVIOUS
<1>1. proofs \in Seq(Proof) /\ axioms \in SUBSET States /\ trans \in SUBSET (States \X States)
  <2>1. trans \subseteq Steps
    BY DEF Init, kSubset
  <2> QED BY <2>1, UpdrAssumption DEF Init, Proof
<1>2. frames = <<{Given(S) : S \in inits}>> /\ {Given(S) : S \in inits} \in SUBSET Term
  BY UpdrAssumption DEF Init, Given, Term
<1>3. frames \in Seq(SUBSET Term) /\ frames # <<>> /\ Last = 0
  <2>1. \A F \in SUBSET Term : <<F>> \in Seq(SUBSET Term) /\ <<F>> # <<>> /\ Len(<<F>>) = 1
    OBVIOUS
  <2> QED BY <1>2, <2>1 DEF Last
<1>4. states \in Seq(Entry) /\ \A i \in DOMAIN states : states[i].absent = 0
  BY <1>1, FromProofsType DEF Init
<1>5. TypeOK
  <2>1. stack \in Seq(Call)
    BY DEF Init
  <2> QED BY <1>1, <1>3, <1>4, <2>1 DEF TypeOK, Init
<1>6. Chain
  BY <1>3 DEF Chain
<1>7. OneStep
  BY <1>3 DEF OneStep
<1>8. AbsentInRange /\ AbsentIsAbsent
  BY <1>3, <1>4 DEF AbsentInRange, AbsentIsAbsent
<1>9. Calls /\ StaysSafe /\ Closed
  BY DEF Init, Calls, StaysSafe, Closed
<1> QED BY <1>5, <1>6, <1>7, <1>8, <1>9 DEF IInv

LEMMA PanicInv == ASSUME IInv, Panic PROVE IInv'
<1> USE DEF Panic
<1>1. TypeOK'
  BY SameTypes DEF IInv, TypeOK
<1>2. Chain' /\ OneStep' /\ AbsentInRange' /\ AbsentIsAbsent'
  BY SameFrames, SameStates
<1>3. Calls' /\ StaysSafe' /\ Closed'
  BY DEF Calls, StaysSafe, Closed
<1> QED BY <1>1, <1>2, <1>3 DEF IInv

(* One more frame the state is absent from, as the query just told.        *)
LEMMA AbsentInv == ASSUME IInv, Absent PROVE IInv'
<1> USE DEF Absent
<1>0. TypeOK
  BY DEF IInv
<1>1. Oldest \in DOMAIN states /\ states[Oldest].absent < Last
  <2>1. states # <<>> /\ states[Oldest].absent # Last
    BY DEF AllAbsent
  <2>2. Oldest \in DOMAIN states
    BY <1>0, <2>1, OldestExists
  <2>3. states[Oldest].absent <= Last /\ states[Oldest].absent \in Nat
    BY <1>0, <2>2, StateTypes DEF IInv, AbsentInRange, Entry
  <2> QED BY <1>0, <2>1, <2>2, <2>3, FrameTypes
<1> DEFINE o == Oldest
<1> HIDE DEF o
<1>2. DOMAIN states' = DOMAIN states /\ \A i \in DOMAIN states : i # o => states'[i] = states[i]
  BY DEF o
<1>3. states'[o].what = states[o].what /\ states'[o].steps = states[o].steps
      /\ states'[o].absent = states[o].absent + 1 /\ o \in DOMAIN states
  BY <1>0, <1>1, StateTypes DEF o, Entry
<1>4. states' \in Seq(Entry)
  <2>1. [states[o] EXCEPT !.absent = @ + 1] \in Entry
    BY <1>0, <1>3, StateTypes DEF Entry
  <2>2. \A q \in Seq(Entry), e \in Entry : \A i \in DOMAIN q : [q EXCEPT ![i] = e] \in Seq(Entry)
    OBVIOUS
  <2>3. states' = [states EXCEPT ![o] = [states[o] EXCEPT !.absent = @ + 1]]
    BY DEF o
  <2>4. states \in Seq(Entry)
    BY <1>0 DEF TypeOK
  <2>5. PICK e \in Entry : states' = [states EXCEPT ![o] = e]
    BY <2>1, <2>3
  <2>6. [states EXCEPT ![o] = e] \in Seq(Entry)
    BY <1>3, <2>2, <2>4
  <2> QED BY <2>5, <2>6
<1>5. TypeOK'
  BY <1>4, SameTypes DEF IInv, TypeOK
<1>6. Chain' /\ OneStep' /\ Last' = Last /\ Safe' = Safe
  BY SameFrames
<1>7. AbsentInRange'
  BY <1>0, <1>1, <1>2, <1>3, <1>6, FrameTypes, StateTypes DEF AbsentInRange, IInv, Entry, o
<1>8. AbsentIsAbsent'
  <2> SUFFICES ASSUME NEW i \in DOMAIN states, NEW k \in 1 .. states'[i].absent
               PROVE  All(Frame(k)) \cap Safe \cap
                        (IF states[i].what.kind = "term" THEN states[i].what.bad
                         ELSE {states[i].what.model}) = {}
    BY <1>2, <1>3, <1>6 DEF AbsentIsAbsent, Frame
  <2>1. CASE k \in 1 .. states[i].absent
    BY <2>1 DEF IInv, AbsentIsAbsent
  <2>2. CASE k \notin 1 .. states[i].absent
    <3>1. i = o /\ k = states[o].absent + 1
      BY <1>0, <1>2, <1>3, <2>2, StateTypes DEF Entry
    <3>2. ~Appears(states[o])
      BY DEF o
    <3> QED BY <3>1, <3>2 DEF Appears
  <2> QED BY <2>1, <2>2
<1>9. Calls' /\ StaysSafe' /\ Closed'
  BY DEF Calls, StaysSafe, Closed
<1> QED BY <1>5, <1>6, <1>7, <1>8, <1>9 DEF IInv

LEMMA BlockKnownInv == ASSUME IInv, BlockKnown PROVE IInv'
<1> USE DEF BlockKnown, Start
<1>0. TypeOK
  BY DEF IInv
<1>1. Oldest \in DOMAIN states /\ states[Oldest].absent < Last
  <2>1. states # <<>> /\ states[Oldest].absent # Last
    BY DEF AllAbsent
  <2>2. Oldest \in DOMAIN states
    BY <1>0, <2>1, OldestExists
  <2>3. states[Oldest].absent <= Last /\ states[Oldest].absent \in Nat
    BY <1>0, <2>2, StateTypes DEF IInv, AbsentInRange, Entry
  <2> QED BY <1>0, <2>1, <2>2, <2>3, FrameTypes
<1> DEFINE o == Oldest
           c == [what |-> states[o].what, index |-> states[o].absent + 1]
<1>2. blocking' = o /\ stack' = <<c>> /\ pc' = "block" /\ UNCHANGED <<module, frames, states, pushed, result>>
  OBVIOUS
<1>3. o \in DOMAIN states /\ states[o].absent < Last
  BY <1>1
<1>4. c \in Call
  BY <1>0, <1>3, StateTypes DEF Entry, Call
<1>5. stack' \in Seq(Call) /\ stack' # <<>> /\ Len(stack') = 1 /\ stack'[1] = c /\ DOMAIN stack' = {1}
  <2>1. \A S : \A x \in S : /\ <<x>> \in Seq(S) /\ <<x>> # <<>> /\ Len(<<x>>) = 1 /\ <<x>>[1] = x
                             /\ DOMAIN <<x>> = {1}
    OBVIOUS
  <2> QED BY <1>2, <1>4, <2>1
<1>6. TypeOK'
  BY <1>0, <1>2, <1>3, <1>5, SameTypes, StateTypes DEF TypeOK
<1>7. Chain' /\ OneStep' /\ AbsentInRange' /\ AbsentIsAbsent' /\ Last' = Last
  BY <1>2, SameFrames, SameStates
<1> HIDE DEF o
<1>8. Calls'
  BY <1>0, <1>2, <1>3, <1>5, <1>7, StateTypes DEF Calls, Entry
<1>9. StaysSafe' /\ Closed'
  BY <1>2 DEF StaysSafe, Closed
<1> QED BY <1>6, <1>7, <1>8, <1>9 DEF IInv

(* The unsafe state is new, and not yet in question where it is known to   *)
(* be absent: no safe state is meant.                                      *)
LEMMA BlockNewInv == ASSUME IInv, BlockNew PROVE IInv'
<1> USE DEF BlockNew, Start
<1>0. TypeOK /\ Last \in Nat /\ Last > 0
  BY FrameTypes DEF IInv
<1>1. PICK s \in Unsafe :
        /\ states' = Append(states, Known(Cex(s), 0, Last - 1))
        /\ blocking' = Len(states) + 1
        /\ stack' = <<[what |-> Cex(s), index |-> Last]>>
        /\ pc' = "block"
  OBVIOUS
<1>2. s \in States \ Safe
  BY SafeFacts, AllFacts DEF Unsafe
<1> DEFINE e == Known(Cex(s), 0, Last - 1)
           c == [what |-> Cex(s), index |-> Last]
<1>3. e \in Entry /\ c \in Call /\ e.absent = Last - 1 /\ e.what = Cex(s)
  BY <1>0, <1>2 DEF Known, Cex, Entry, Call, TermOrModel
<1> HIDE DEF e, c
<1>4. /\ states' \in Seq(Entry) /\ DOMAIN states' = 1 .. Len(states) + 1
      /\ \A i \in DOMAIN states : states'[i] = states[i]
      /\ states'[Len(states) + 1] = e
  <2>1. \A S : \A q \in Seq(S), x \in S :
          /\ Append(q, x) \in Seq(S) /\ DOMAIN Append(q, x) = 1 .. Len(q) + 1
          /\ \A i \in DOMAIN q : Append(q, x)[i] = q[i]
          /\ Append(q, x)[Len(q) + 1] = x
    OBVIOUS
  <2> QED BY <1>0, <1>1, <1>3, <2>1 DEF TypeOK, e
<1>5. stack' \in Seq(Call) /\ stack' # <<>> /\ Len(stack') = 1 /\ stack'[1] = c /\ DOMAIN stack' = {1}
  <2>1. \A S : \A x \in S : /\ <<x>> \in Seq(S) /\ <<x>> # <<>> /\ Len(<<x>>) = 1 /\ <<x>>[1] = x
                             /\ DOMAIN <<x>> = {1}
    OBVIOUS
  <2> QED BY <1>1, <1>3, <2>1 DEF c
<1>6. TypeOK'
  BY <1>0, <1>1, <1>4, <1>5, SameTypes, StateTypes DEF TypeOK, IInv
<1>7. Chain' /\ OneStep' /\ Last' = Last /\ Safe' = Safe
  BY SameFrames
<1>8. DOMAIN states' = DOMAIN states \cup {Len(states) + 1}
  BY <1>0, <1>4, StateTypes
<1>9. AbsentInRange'
  BY <1>0, <1>3, <1>4, <1>7, <1>8 DEF AbsentInRange, IInv
<1>10. AbsentIsAbsent'
  <2> SUFFICES ASSUME NEW i \in DOMAIN states', NEW k \in 1 .. states'[i].absent
               PROVE  All(Frame(k)) \cap Safe \cap
                        (IF states'[i].what.kind = "term" THEN states'[i].what.bad
                         ELSE {states'[i].what.model}) = {}
    BY <1>7 DEF AbsentIsAbsent, Frame
  <2>1. CASE i \in DOMAIN states
    BY <1>4, <2>1 DEF IInv, AbsentIsAbsent
  <2>2. CASE i = Len(states) + 1
    <3>1. states'[i].what.kind = "model" /\ states'[i].what.model = s
      BY <1>3, <1>4, <2>2 DEF Cex
    <3> QED BY <1>2, <3>1
  <2> QED BY <1>8, <2>1, <2>2
<1>11. Calls'
  <2>1. c.what = Cex(s) /\ c.index = Last /\ c = [what |-> Cex(s), index |-> Last]
    BY DEF c
  <2>2. blocking' \in DOMAIN states' /\ states'[blocking'] = e
    BY <1>1, <1>4, <1>8
  <2> QED BY <1>0, <1>3, <1>5, <1>7, <2>1, <2>2 DEF Calls
<1>12. StaysSafe' /\ Closed'
  BY <1>1 DEF StaysSafe, Closed
<1> QED BY <1>6, <1>7, <1>9, <1>10, <1>11, <1>12 DEF IInv

(* The last frame is safe, and the steps from the others lead into it.     *)
LEMMA EstablishedInv == ASSUME IInv, Established PROVE IInv'
<1> USE DEF Established
<1>0. TypeOK /\ Last \in Nat
  BY FrameTypes DEF IInv
<1>1. All(Frame(Last)) \subseteq Safe
  <2> DEFINE Violated == {k \in DOMAIN proofs : ~(All(Frame(Last)) \subseteq proofs[k].safety)}
  <2>1. Violated \in SUBSET Nat
    <3>1. \A q \in Seq(Proof) : DOMAIN q \subseteq Nat
      OBVIOUS
    <3> QED BY <1>0, <3>1 DEF TypeOK
  <2>2. Violated = {}
    <3> SUFFICES ASSUME Violated # {} PROVE FALSE
      OBVIOUS
    <3>1. PICK k \in Violated : \A j \in Violated : k <= j
      BY <2>1, LeastNat
    <3>2. PICK s \in All(Frame(Last)) : s \notin proofs[k].safety
      BY <3>1
    <3>3. \A j \in 1 .. k - 1 : All(Frame(Last)) \subseteq proofs[j].safety
      <4>1. \A q \in Seq(Proof) : \A n \in DOMAIN q : 1 .. n - 1 \subseteq DOMAIN q
        OBVIOUS
      <4>2. 1 .. k - 1 \subseteq DOMAIN proofs
        BY <1>0, <3>1, <4>1 DEF TypeOK
      <4>3. \A j \in 1 .. k - 1 : j \notin Violated
        BY <2>1, <3>1
      <4> QED BY <4>2, <4>3
    <3> QED BY <3>1, <3>2, <3>3 DEF Unsafe
  <2> QED BY <2>2, AllFacts DEF Safe, Safety
<1>2. TypeOK'
  BY SameTypes DEF IInv, TypeOK
<1>3. Chain' /\ OneStep' /\ AbsentInRange' /\ AbsentIsAbsent' /\ UNCHANGED <<Safe, Moves, Last>>
  BY SameFrames, SameStates
<1>4. Calls' /\ Closed'
  BY DEF Calls, Closed
<1>5. StaysSafe'
  <2> SUFFICES ASSUME NEW i \in 0 .. Last - 1, NEW m \in Moves, m[1] \in All(Frame(i)) \cap Safe
               PROVE  m[2] \in Safe
    BY <1>3 DEF StaysSafe, Frame
  <2>1. Last - 1 \in 0 .. Last /\ i \in 0 .. Last /\ i <= Last - 1 /\ Last - 1 \in 0 .. Last - 1
    BY <1>0
  <2>2. m[1] \in All(Frame(Last - 1)) \cap Safe
    BY <2>1 DEF IInv, Chain
  <2>3. m[2] \in All(Frame(Last - 1 + 1))
    BY <2>1, <2>2 DEF IInv, OneStep
  <2> QED BY <1>0, <1>1, <2>3
<1> QED BY <1>2, <1>3, <1>4, <1>5 DEF IInv

(* What is in progress does not change with another call above it.         *)
LEMMA PredecessorInv == ASSUME IInv, Predecessor PROVE IInv'
<1> USE DEF Predecessor
<1>0. TypeOK /\ Calls /\ Last \in Nat
  BY FrameTypes DEF IInv
<1>1. PICK s \in Predecessors :
        /\ states' = Append(states, Known(Cex(s), states[blocking].absent + 2 - Top.index + states[blocking].steps, 0))
        /\ stack' = <<[what |-> Cex(s), index |-> Top.index - 1]>> \o stack
  OBVIOUS
<1>2. s \in States
  BY AllFacts DEF Predecessors
<1>3. /\ blocking \in DOMAIN states /\ stack # <<>>
      /\ states[blocking].absent \in Nat /\ states[blocking].steps \in Nat
  BY <1>0, StateTypes DEF Calls, Entry
<1>31. Top \in Call /\ Top = stack[1] /\ 1 \in DOMAIN stack
  BY <1>0, <1>3, StateTypes
<1>4. Top.index \in Nat \ {0} /\ Top.index <= states[blocking].absent + 1
  BY <1>0, <1>31 DEF Calls, AtInit, Call
<1> DEFINE e == Known(Cex(s), states[blocking].absent + 2 - Top.index + states[blocking].steps, 0)
           c == [what |-> Cex(s), index |-> Top.index - 1]
<1>5. e \in Entry /\ e.absent = 0 /\ c \in Call /\ c.index = Top.index - 1
  <2>1. states[blocking].absent + 2 - Top.index + states[blocking].steps \in Nat /\ Top.index - 1 \in Nat
    <3>1. \A a, b \in Nat, k \in Nat \ {0} : k <= a + 1 => a + 2 - k + b \in Nat /\ k - 1 \in Nat
      OBVIOUS
    <3> QED BY <1>3, <1>4, <3>1
  <2>2. Cex(s) \in TermOrModel
    BY <1>2 DEF Cex, TermOrModel
  <2> QED BY <2>1, <2>2 DEF Known, Entry, Call
<1>6. states' = Append(states, e) /\ stack' = <<c>> \o stack
  BY <1>1
<1> HIDE DEF e, c
<1>7. /\ states' \in Seq(Entry) /\ DOMAIN states' = DOMAIN states \cup {Len(states) + 1}
      /\ \A i \in DOMAIN states : states'[i] = states[i]
      /\ states'[Len(states) + 1] = e
  <2>1. \A S : \A q \in Seq(S), x \in S :
          /\ Append(q, x) \in Seq(S) /\ DOMAIN Append(q, x) = DOMAIN q \cup {Len(q) + 1}
          /\ \A i \in DOMAIN q : Append(q, x)[i] = q[i]
          /\ Append(q, x)[Len(q) + 1] = x
    OBVIOUS
  <2> QED BY <1>0, <1>5, <1>6, <2>1 DEF TypeOK
<1>8. /\ stack' \in Seq(Call) /\ stack' # <<>> /\ Len(stack') = Len(stack) + 1
      /\ DOMAIN stack' = 1 .. Len(stack) + 1
      /\ stack'[1] = c /\ \A i \in 1 .. Len(stack) : stack'[i + 1] = stack[i]
  <2>1. \A S : \A q \in Seq(S), x \in S :
          /\ <<x>> \o q \in Seq(S) /\ <<x>> \o q # <<>> /\ Len(<<x>> \o q) = Len(q) + 1
          /\ DOMAIN (<<x>> \o q) = 1 .. Len(q) + 1
          /\ (<<x>> \o q)[1] = x /\ \A i \in 1 .. Len(q) : (<<x>> \o q)[i + 1] = q[i]
    OBVIOUS
  <2> QED BY <1>0, <1>5, <1>6, <2>1 DEF TypeOK
<1>9. TypeOK'
  BY <1>0, <1>7, <1>8, SameTypes DEF TypeOK
<1>10. Chain' /\ OneStep' /\ Last' = Last /\ Safe' = Safe
  BY SameFrames
<1>11. AbsentInRange'
  BY <1>0, <1>5, <1>7, <1>10 DEF AbsentInRange, IInv
<1>12. AbsentIsAbsent'
  <2> SUFFICES ASSUME NEW i \in DOMAIN states', NEW k \in 1 .. states'[i].absent
               PROVE  All(Frame(k)) \cap Safe \cap
                        (IF states'[i].what.kind = "term" THEN states'[i].what.bad
                         ELSE {states'[i].what.model}) = {}
    BY <1>10 DEF AbsentIsAbsent, Frame
  <2>1. i \in DOMAIN states
    BY <1>5, <1>7
  <2> QED BY <1>7, <2>1 DEF IInv, AbsentIsAbsent
<1>13. Calls'
  <2>1. blocking' = blocking /\ states'[blocking] = states[blocking] /\ blocking \in DOMAIN states'
    BY <1>3, <1>7
  <2>2. Len(stack) \in Nat \ {0} /\ DOMAIN stack = 1 .. Len(stack)
    BY <1>0, <1>3, StateTypes
  <2>3. stack'[Len(stack')] = stack[Len(stack)]
    BY <1>8, <2>2
  <2>4. ASSUME NEW i \in DOMAIN stack' PROVE stack'[i].index <= states[blocking].absent + 1
    <3>1. CASE i = 1
      BY <1>3, <1>4, <1>5, <1>8, <3>1
    <3>2. CASE i # 1
      <4>1. i - 1 \in 1 .. Len(stack) /\ stack'[i] = stack[i - 1]
        BY <1>8, <2>2, <3>2
      <4> QED BY <1>0, <2>2, <4>1 DEF Calls
    <3> QED BY <3>1, <3>2
  <2>5. pc = "block"
    OBVIOUS
  <2> QED BY <1>0, <1>8, <1>10, <2>1, <2>3, <2>4, <2>5 DEF Calls
<1>14. StaysSafe' /\ Closed'
  BY DEF StaysSafe, Closed
<1> QED BY <1>9, <1>10, <1>11, <1>12, <1>13, <1>14 DEF IInv

(* The clause that joins the frames up to the index holds one transition   *)
(* after the frame before it, hence after each one before that; beyond the *)
(* index it is pushed where a query shows the same.                        *)
LEMMA StrengthenInv == ASSUME IInv, Strengthen PROVE IInv'
<1>0. TypeOK /\ Calls /\ Chain /\ OneStep /\ pc = "block" /\ ~AtInit
  BY DEF IInv, Strengthen
<1>1. /\ blocking \in DOMAIN states /\ stack # <<>> /\ states[blocking].absent < Last
      /\ states[blocking] \in Entry /\ states[blocking].absent \in Nat
  BY <1>0, StateTypes DEF Calls, Entry
<1>2. /\ Top \in Call /\ Top.index \in 1 .. Last /\ Top.index <= states[blocking].absent + 1
      /\ Last \in Nat /\ Last = Len(frames) - 1
  BY <1>0, <1>1, StateTypes, FrameTypes DEF Calls, AtInit, Call, Last
<1> DEFINE k == Top.index
           x == Top.what
<1>31. PICK D \in Generalized(x, Frame(k - 1)) : \E j \in PushedTo(k, Learned(States \ D)) :
        frames' = [i \in DOMAIN frames |-> frames[i] \cup IF i <= j + 1 THEN {Learned(States \ D)} ELSE {}]
  BY DEF Strengthen
<1>32. PICK j \in PushedTo(k, Learned(States \ D)) :
        frames' = [i \in DOMAIN frames |-> frames[i] \cup IF i <= j + 1 THEN {Learned(States \ D)} ELSE {}]
  BY <1>31
<1>3. D \in Generalized(x, Frame(k - 1))
  BY <1>31
<1> DEFINE t == Learned(States \ D)
<1>4. t \in Term /\ t.holds = States \ D
  BY DEF Learned, Term
<1>5. /\ j \in k .. Last /\ k \in 1 .. Last
      /\ \A i \in k .. j - 1 : t \in Frame(i + 1) \/ Preserved(Frame(i) \cup {t}, t.holds)
  BY <1>2, <1>32 DEF PushedTo
(* What D is.                                                              *)
<1>6. Target(x) \subseteq D /\ (x.kind = "term" => x.bad \subseteq D) /\ (x.kind # "term" => x.model \in D)
  <2>1. CASE x.kind = "term"
    BY <1>3, <2>1 DEF Generalized, Target
  <2>2. CASE x.kind # "term"
    <3>1. x.model \in States /\ D \in Cubes[x.model]
      BY <1>2, <1>3, <2>2 DEF Generalized, Call, TermOrModel
    <3> QED BY <2>2, <3>1, UpdrAssumption DEF Target
  <2> QED BY <2>1, <2>2
<1>7. \A m \in Moves : m[1] \in All(Frame(k - 1)) => m[2] \notin D
  <2> SUFFICES ASSUME NEW m \in Moves, m[1] \in All(Frame(k - 1)), m[2] \in D PROVE FALSE
    OBVIOUS
  <2>1. CASE x.kind = "term"
    <3>1. m[1] \in Pre(Target(x))
      BY <1>3, <2>1 DEF Generalized, Target, Pre, Moves
    <3> QED BY <3>1 DEF Strengthen, Predecessors
  <2>2. CASE x.kind # "term"
    <3>1. m[2] \in Post(All(Frame(k - 1)))
      BY DEF Post, Moves
    <3> QED BY <1>3, <2>2, <3>1 DEF Generalized
  <2> QED BY <2>1, <2>2
<1>8. UNCHANGED module /\ UNCHANGED <<blocking, pushed, result>> /\ Safe' = Safe /\ Moves' = Moves
  BY SameModule DEF Strengthen
(* The frames that follow.                                                 *)
<1> HIDE DEF t, k, x
<1>9. /\ DOMAIN frames' = DOMAIN frames /\ Last' = Last /\ frames' \in Seq(SUBSET Term) /\ frames' # <<>>
      /\ \A i \in 0 .. j : frames'[i + 1] = Frame(i) \cup {t}
      /\ \A i \in j + 1 .. Last : frames'[i + 1] = Frame(i)
  <2>1. DOMAIN frames = 1 .. Len(frames) /\ Len(frames) \in Nat \ {0}
    BY <1>0, FrameTypes
  <2>2. frames' = [i \in 1 .. Len(frames) |-> frames[i] \cup IF i <= j + 1 THEN {t} ELSE {}]
    BY <1>32, <2>1 DEF t
  <2>3. \A i \in 1 .. Len(frames) : frames[i] \cup (IF i <= j + 1 THEN {t} ELSE {}) \in SUBSET Term
    BY <1>0, <1>4, <2>1, FrameTypes
  <2> HIDE DEF Last
  <2>4. frames' \in Seq(SUBSET Term) /\ DOMAIN frames' = 1 .. Len(frames)
    BY <2>1, <2>2, <2>3
  <2>5. Len(frames') = Len(frames) /\ frames' # <<>>
    <3>1. \A q \in Seq(SUBSET Term) : \A n \in Nat \ {0} : DOMAIN q = 1 .. n => Len(q) = n /\ q # <<>>
      OBVIOUS
    <3> QED BY <2>1, <2>4, <3>1
  <2>6. \A i \in 0 .. Last : frames'[i + 1] = Frame(i) \cup IF i <= j THEN {t} ELSE {}
    <3> SUFFICES ASSUME NEW i \in 0 .. Last
                 PROVE  frames'[i + 1] = Frame(i) \cup IF i <= j THEN {t} ELSE {}
      OBVIOUS
    <3>1. i + 1 \in 1 .. Len(frames) /\ (i + 1 <= j + 1 <=> i <= j)
      BY <1>2, <1>5
    <3>2. frames'[i + 1] = frames[i + 1] \cup IF i + 1 <= j + 1 THEN {t} ELSE {}
      BY <2>2, <3>1
    <3> QED BY <3>1, <3>2 DEF Frame
  <2>7. \A i \in 0 .. j : i \in 0 .. Last /\ i <= j
    BY <1>2, <1>5
  <2>8. \A i \in j + 1 .. Last : i \in 0 .. Last /\ ~(i <= j)
    BY <1>2, <1>5
  <2> QED BY <2>1, <2>4, <2>5, <2>6, <2>7, <2>8 DEF Last
<1>10. /\ \A i \in 0 .. Last : All(Frame(i)') \subseteq All(Frame(i))
       /\ \A i \in 0 .. j : All(Frame(i)') = All(Frame(i)) \ D
       /\ \A i \in j + 1 .. Last : All(Frame(i)') = All(Frame(i))
  <2>1. \A i \in 0 .. j : All(Frame(i)') = All(Frame(i)) \ D
    BY <1>4, <1>9, AllFacts DEF Frame
  <2>2. \A i \in j + 1 .. Last : All(Frame(i)') = All(Frame(i))
    BY <1>9 DEF Frame
  <2>3. \A i \in 0 .. Last : i \in 0 .. j \/ i \in j + 1 .. Last
    BY <1>5
  <2> QED BY <2>1, <2>2, <2>3
<1>11. Chain'
  <2> SUFFICES ASSUME NEW i \in 0 .. Last, NEW l \in 0 .. Last, i <= l
               PROVE  All(Frame(i)') \cap Safe \subseteq All(Frame(l)')
    BY <1>8, <1>9 DEF Chain, Frame
  <2>1. All(Frame(i)) \cap Safe \subseteq All(Frame(l))
    BY <1>0 DEF Chain
  <2>2. CASE l \in 0 .. j
    <3>1. i \in 0 .. j
      BY <1>2, <1>5, <2>2
    <3> QED BY <1>10, <2>1, <2>2, <3>1
  <2>3. CASE l \in j + 1 .. Last
    BY <1>10, <2>1, <2>3
  <2> QED BY <1>5, <2>2, <2>3
<1>12. OneStep'
  <2> SUFFICES ASSUME NEW i \in 0 .. Last - 1, NEW m \in Moves, m[1] \in All(Frame(i)') \cap Safe
               PROVE  m[2] \in All(Frame(i + 1)')
    BY <1>8, <1>9 DEF OneStep, Frame
  <2>0. i \in 0 .. Last /\ i + 1 \in 0 .. Last
    BY <1>2
  <2>1. m[1] \in All(Frame(i)) \cap Safe /\ m[2] \in All(Frame(i + 1))
    BY <1>0, <1>10, <2>0 DEF OneStep
  <2>2. CASE i + 1 \in j + 1 .. Last
    BY <1>10, <2>1, <2>2
  <2>3. CASE i + 1 \in 0 .. k
    <3>1. i \in 0 .. Last /\ k - 1 \in 0 .. Last /\ i <= k - 1 /\ i + 1 \in 0 .. j
      BY <1>2, <1>5, <2>3
    <3>2. m[1] \in All(Frame(k - 1))
      BY <1>0, <2>1, <3>1 DEF Chain
    <3>3. m[2] \notin D
      BY <1>7, <3>2
    <3> QED BY <1>10, <2>1, <3>1, <3>3
  <2>4. CASE i \in k .. j - 1
    <3>1. i + 1 \in 0 .. j /\ i \in 0 .. j
      BY <1>5, <2>4
    <3>2. m[2] \in t.holds
      <4>1. CASE t \in Frame(i + 1)
        BY <2>1, <4>1 DEF All
      <4>2. CASE Preserved(Frame(i) \cup {t}, t.holds)
        <5>1. m[1] \in All(Frame(i) \cup {t}) \cap Safe
          BY <1>9, <3>1 DEF Frame
        <5>2. m[2] \in Post(All(Frame(i) \cup {t}) \cap Safe)
          BY <5>1 DEF Post, Moves
        <5> QED BY <4>2, <5>2 DEF Preserved
      <4> QED BY <1>5, <2>4, <4>1, <4>2
    <3> QED BY <1>4, <1>10, <2>1, <3>1, <3>2
  <2>5. i + 1 \in j + 1 .. Last \/ i + 1 \in 0 .. k \/ i \in k .. j - 1
    BY <1>2, <1>5
  <2> QED BY <2>2, <2>3, <2>4, <2>5
(* The clause keeps out what was blocked.                                  *)
<1>13. ASSUME NEW b \in Entry, NEW l \in 1 .. Last,
              \/ All(Frame(l)) \cap Safe \cap (IF b.what.kind = "term" THEN b.what.bad ELSE {b.what.model}) = {}
              \/ b.what = x /\ l = k
       PROVE  All(Frame(l)') \cap Safe \cap (IF b.what.kind = "term" THEN b.what.bad ELSE {b.what.model}) = {}
  <2>1. l \in 0 .. Last
    BY <1>2
  <2>2. CASE All(Frame(l)) \cap Safe \cap (IF b.what.kind = "term" THEN b.what.bad ELSE {b.what.model}) = {}
    BY <1>10, <2>1, <2>2
  <2>3. CASE b.what = x /\ l = k
    <3>1. l \in 0 .. j
      BY <1>5, <2>3
    <3>2. All(Frame(l)') \cap D = {}
      BY <1>10, <3>1
    <3>3. CASE x.kind = "term"  BY <1>6, <2>3, <3>2, <3>3
    <3>4. CASE x.kind # "term"  BY <1>6, <2>3, <3>2, <3>4
    <3> QED BY <3>3, <3>4
  <2> QED BY <1>13, <2>2, <2>3
<1>14. stack' = Tail(stack) /\ stack' \in Seq(Call)
  BY <1>0, <1>1, StateTypes DEF Strengthen
<1>15. CASE Len(stack) = 1
  <2>1. states' = [states EXCEPT ![blocking].absent = @ + 1] /\ pc' = "establish"
    BY <1>15 DEF Strengthen
  <2>2. states[blocking].what = x /\ states[blocking].absent + 1 = k
    BY <1>0, <1>1, <1>15, StateTypes DEF Calls, k, x
  <2>3. DOMAIN states' = DOMAIN states /\ \A i \in DOMAIN states : i # blocking => states'[i] = states[i]
    BY <2>1
  <2>4. states'[blocking].what = x /\ states'[blocking].absent = k
    BY <1>1, <2>1, <2>2 DEF Entry
  <2>5. states' \in Seq(Entry)
    <3>1. [states[blocking] EXCEPT !.absent = @ + 1] \in Entry
      BY <1>1 DEF Entry
    <3>2. \A q \in Seq(Entry), e \in Entry : \A i \in DOMAIN q : [q EXCEPT ![i] = e] \in Seq(Entry)
      OBVIOUS
    <3>3. states' = [states EXCEPT ![blocking] = [states[blocking] EXCEPT !.absent = @ + 1]]
      BY <2>1
    <3>4. states \in Seq(Entry)
      BY <1>0 DEF TypeOK
    <3> QED BY <1>1, <3>1, <3>2, <3>3, <3>4
  <2>6. TypeOK'
    BY <1>0, <1>8, <1>9, <1>14, <2>5, SameTypes DEF TypeOK
  <2>7. AbsentInRange'
    BY <1>2, <1>9, <2>3, <2>4 DEF AbsentInRange, IInv, k
  <2>8. AbsentIsAbsent'
    <3> SUFFICES ASSUME NEW i \in DOMAIN states, NEW l \in 1 .. states'[i].absent
                 PROVE  All(Frame(l)') \cap Safe \cap (IF states[i].what.kind = "term" THEN states[i].what.bad
                                                       ELSE {states[i].what.model}) = {}
      <4>1. \A i \in DOMAIN states : states'[i].what = states[i].what
        BY <2>2, <2>3, <2>4
      <4> QED BY <1>8, <2>3, <4>1 DEF AbsentIsAbsent, Frame
    <3>1. states[i] \in Entry /\ states[i].absent \in Nat
      BY <1>0, StateTypes DEF Entry
    <3>2. l \in 1 .. Last
      <4>1. states'[i].absent <= Last
        BY <2>3, <2>7, <1>9 DEF AbsentInRange
      <4>2. states'[i].absent \in Nat
        BY <1>2, <2>3, <2>4, <3>1 DEF k
      <4> QED BY <1>2, <4>1, <4>2
    <3>3. CASE l \in 1 .. states[i].absent
      <4>1. All(Frame(l)) \cap Safe \cap (IF states[i].what.kind = "term" THEN states[i].what.bad
                                         ELSE {states[i].what.model}) = {}
        BY <3>3 DEF IInv, AbsentIsAbsent
      <4> QED BY <1>13, <3>1, <3>2, <4>1
    <3>4. CASE l \notin 1 .. states[i].absent
      <4>1. i = blocking
        BY <2>3, <3>4
      <4>2. l = k
        BY <1>2, <2>2, <2>4, <3>1, <3>4, <4>1 DEF k
      <4> QED BY <1>13, <2>2, <3>1, <3>2, <4>1, <4>2
    <3> QED BY <3>3, <3>4
  <2>9. Calls' /\ StaysSafe' /\ Closed'
    BY <2>1 DEF Calls, StaysSafe, Closed
  <2> QED BY <1>11, <1>12, <2>6, <2>7, <2>8, <2>9 DEF IInv
<1>16. CASE Len(stack) # 1
  <2>1. UNCHANGED <<states, pc>>
    BY <1>16 DEF Strengthen
  <2>2. TypeOK'
    BY <1>0, <1>8, <1>9, <1>14, <2>1, SameTypes DEF TypeOK
  <2>3. AbsentInRange'
    BY <1>9, <2>1 DEF AbsentInRange, IInv
  <2>4. AbsentIsAbsent'
    <3> SUFFICES ASSUME NEW i \in DOMAIN states, NEW l \in 1 .. states[i].absent
                 PROVE  All(Frame(l)') \cap Safe \cap (IF states[i].what.kind = "term" THEN states[i].what.bad
                                                       ELSE {states[i].what.model}) = {}
      BY <1>8, <2>1 DEF AbsentIsAbsent, Frame
    <3>1. states[i] \in Entry /\ states[i].absent \in Nat /\ states[i].absent <= Last
      BY <1>0, StateTypes DEF Entry, IInv, AbsentInRange
    <3>2. l \in 1 .. Last
      BY <1>2, <3>1
    <3>3. All(Frame(l)) \cap Safe \cap (IF states[i].what.kind = "term" THEN states[i].what.bad
                                        ELSE {states[i].what.model}) = {}
      BY DEF IInv, AbsentIsAbsent
    <3> QED BY <1>13, <3>1, <3>2, <3>3
  <2>5. Calls'
    <3>1. Len(stack) \in Nat \ {0, 1} /\ DOMAIN stack = 1 .. Len(stack)
      BY <1>0, <1>1, <1>16, StateTypes
    <3>2. /\ Len(stack') = Len(stack) - 1 /\ stack' # <<>> /\ DOMAIN stack' = 1 .. Len(stack) - 1
          /\ \A c \in 1 .. Len(stack) - 1 : stack'[c] = stack[c + 1]
      <4>1. \A q \in Seq(Call) : Len(q) # 0 => q # <<>>
        OBVIOUS
      <4>2. \A q \in Seq(Call) : DOMAIN q = 1 .. Len(q)
        OBVIOUS
      <4> QED BY <1>0, <1>1, <1>14, <3>1, <4>1, <4>2, StateTypes
    <3>3. stack'[Len(stack')] = stack[Len(stack)]
      BY <3>1, <3>2
    <3>4. ASSUME NEW c \in DOMAIN stack' PROVE stack'[c].index <= states[blocking].absent + 1
      <4>1. c + 1 \in DOMAIN stack /\ stack'[c] = stack[c + 1]
        BY <3>1, <3>2
      <4> QED BY <1>0, <4>1 DEF Calls
    <3> QED BY <1>0, <1>8, <1>9, <2>1, <3>2, <3>3, <3>4 DEF Calls
  <2>6. StaysSafe' /\ Closed'
    BY <1>0, <2>1 DEF StaysSafe, Closed
  <2> QED BY <1>11, <1>12, <2>2, <2>3, <2>4, <2>5, <2>6 DEF IInv
<1> QED BY <1>15, <1>16

(* No safe state is lost or added to a frame by dropping what simplify()   *)
(* drops.                                                                  *)
LEMMA SimplifiedSafe ==
  ASSUME NEW F, NEW K \in Simplified(F)
  PROVE  K \subseteq F /\ All(K) \cap Safe = All(F) \cap Safe
<1> DEFINE dropped == {t \in F : t.text = "given" /\ t.holds \in Safety}
<1>1. K \subseteq F /\ All(K \cup dropped) = All(F)
  BY DEF Simplified
<1>2. \A s \in Safe : \A t \in dropped : s \in t.holds
  BY DEF Safe
<1> QED BY <1>1, <1>2 DEF All

LEMMA SimplifyInv == ASSUME IInv, Simplify PROVE IInv'
<1>0. TypeOK /\ Chain /\ OneStep /\ StaysSafe /\ pc = "simplify" /\ Last \in Nat
  BY FrameTypes DEF IInv, Simplify
<1>1. UNCHANGED module /\ UNCHANGED <<states, blocking, stack, pushed, result>> /\ pc' = "check"
      /\ Safe' = Safe /\ Moves' = Moves
  BY SameModule DEF Simplify
<1>2. /\ DOMAIN frames' = DOMAIN frames
      /\ frames' = [i \in DOMAIN frames |-> frames'[i]]
      /\ \A i \in DOMAIN frames : frames'[i] \in Simplified(frames[i])
  BY DEF Simplify
<1>3. frames' \in Seq(SUBSET Term) /\ frames' # <<>> /\ Last' = Last
  <2>1. DOMAIN frames = 1 .. Len(frames) /\ Len(frames) \in Nat \ {0}
    BY <1>0, FrameTypes
  <2>2. \A i \in 1 .. Len(frames) : frames'[i] \in SUBSET Term
    <3>1. \A i \in 1 .. Len(frames) : frames[i] \in SUBSET Term /\ frames'[i] \subseteq frames[i]
      BY <1>0, <1>2, <2>1, FrameTypes, SimplifiedSafe
    <3> QED BY <3>1
  <2>3. frames' \in Seq(SUBSET Term)
    BY <1>2, <2>1, <2>2
  <2>4. Len(frames') = Len(frames) /\ frames' # <<>>
    <3>1. \A q \in Seq(SUBSET Term) : \A n \in Nat \ {0} : DOMAIN q = 1 .. n => Len(q) = n /\ q # <<>>
      OBVIOUS
    <3> QED BY <1>2, <2>1, <2>3, <3>1
  <2> QED BY <2>3, <2>4 DEF Last
<1>4. \A i \in 0 .. Last : /\ All(Frame(i)') \cap Safe = All(Frame(i)) \cap Safe
                           /\ All(Frame(i)) \subseteq All(Frame(i)')
  <2> SUFFICES ASSUME NEW i \in 0 .. Last
               PROVE  /\ All(frames'[i + 1]) \cap Safe = All(frames[i + 1]) \cap Safe
                      /\ All(frames[i + 1]) \subseteq All(frames'[i + 1])
    BY DEF Frame
  <2>1. i + 1 \in DOMAIN frames
    BY <1>0, FrameTypes DEF Last
  <2>2. frames'[i + 1] \subseteq frames[i + 1] /\ All(frames'[i + 1]) \cap Safe = All(frames[i + 1]) \cap Safe
    BY <1>2, <2>1, SimplifiedSafe
  <2> QED BY <2>2, AllFacts
<1>5. TypeOK'
  BY <1>0, <1>1, <1>3, SameTypes DEF TypeOK
<1>6. Chain'
  <2> SUFFICES ASSUME NEW i \in 0 .. Last, NEW l \in 0 .. Last, i <= l
               PROVE  All(Frame(i)') \cap Safe \subseteq All(Frame(l)')
    BY <1>1, <1>3 DEF Chain, Frame
  <2>1. All(Frame(i)) \cap Safe \subseteq All(Frame(l))
    BY <1>0 DEF Chain
  <2> QED BY <1>4, <2>1
<1>7. OneStep'
  <2> SUFFICES ASSUME NEW i \in 0 .. Last - 1, NEW m \in Moves, m[1] \in All(Frame(i)') \cap Safe
               PROVE  m[2] \in All(Frame(i + 1)')
    BY <1>1, <1>3 DEF OneStep, Frame
  <2>1. i \in 0 .. Last /\ i + 1 \in 0 .. Last
    BY <1>0
  <2>2. m[1] \in All(Frame(i)) \cap Safe
    BY <1>4, <2>1
  <2>3. m[2] \in All(Frame(i + 1))
    BY <1>0, <2>2 DEF OneStep
  <2> QED BY <1>4, <2>1, <2>3
<1>8. AbsentInRange'
  BY <1>1, <1>3 DEF AbsentInRange, IInv
<1>9. AbsentIsAbsent'
  <2> SUFFICES ASSUME NEW i \in DOMAIN states, NEW l \in 1 .. states[i].absent
               PROVE  All(Frame(l)') \cap Safe \cap (IF states[i].what.kind = "term" THEN states[i].what.bad
                                                     ELSE {states[i].what.model}) = {}
    BY <1>1 DEF AbsentIsAbsent, Frame
  <2>1. states[i] \in Entry /\ states[i].absent \in Nat /\ states[i].absent <= Last
    BY <1>0, StateTypes DEF Entry, IInv, AbsentInRange
  <2>2. l \in 0 .. Last
    BY <1>0, <2>1
  <2>3. All(Frame(l)) \cap Safe \cap (IF states[i].what.kind = "term" THEN states[i].what.bad
                                      ELSE {states[i].what.model}) = {}
    BY DEF IInv, AbsentIsAbsent
  <2> QED BY <1>4, <2>2, <2>3
<1>10. Calls' /\ Closed'
  BY <1>1 DEF Calls, Closed
<1>11. StaysSafe'
  <2> SUFFICES ASSUME NEW i \in 0 .. Last - 1, NEW m \in Moves, m[1] \in All(Frame(i)') \cap Safe
               PROVE  m[2] \in Safe
    BY <1>1, <1>3 DEF StaysSafe, Frame
  <2>1. m[1] \in All(Frame(i)) \cap Safe
    BY <1>0, <1>4
  <2> QED BY <1>0, <2>1 DEF StaysSafe
<1> QED BY <1>5, <1>6, <1>7, <1>8, <1>9, <1>10, <1>11 DEF IInv

(* A frame that allows all that the next one allows is closed under the    *)
(* transitions, for they lead into the next one.                           *)
LEMMA FoundInv == ASSUME IInv, Found PROVE IInv'
<1>1. UNCHANGED <<module, frames, states, blocking, stack, pushed>> /\ pc = "check" /\ pc' = "done"
  BY DEF Found
<1>2. PICK i \in Repeats : result' = Frame(i)
  BY DEF Found
<1>3. TypeOK'
  BY <1>1, SameTypes DEF IInv, TypeOK
<1>4. Chain' /\ OneStep' /\ AbsentInRange' /\ AbsentIsAbsent' /\ Safe' = Safe /\ Moves' = Moves
  BY <1>1, SameFrames, SameStates
<1>5. Calls' /\ StaysSafe'
  BY <1>1 DEF Calls, StaysSafe
<1>6. Closed'
  <2>1. i \in 0 .. Last - 1 /\ All(Frame(i + 1)) \subseteq All(Frame(i))
    BY DEF Repeats
  <2>2. \A m \in Moves : m[1] \in All(Frame(i)) \cap Safe => m[2] \in All(Frame(i)) \cap Safe
    BY <1>1, <2>1 DEF IInv, OneStep, StaysSafe
  <2> QED BY <1>2, <1>4, <2>2 DEF Closed
<1> QED BY <1>3, <1>4, <1>5, <1>6 DEF IInv

(* The new frame allows everything.                                        *)
LEMMA AddFrameInv == ASSUME IInv, AddFrame PROVE IInv'
<1>0. PICK n \in Nat : TypeOK /\ Last = n
  BY FrameTypes DEF IInv
<1>1. /\ UNCHANGED module /\ UNCHANGED <<states, blocking, stack, result>>
      /\ frames' = Append(frames, {}) /\ pushed' = 0 /\ pc' = "push"
      /\ Safe' = Safe /\ Moves' = Moves
  BY SameModule DEF AddFrame
<1>2. /\ frames' \in Seq(SUBSET Term) /\ frames' # <<>> /\ Last' = Last + 1
      /\ \A i \in 0 .. Last : frames'[i + 1] = Frame(i)
      /\ frames'[Last + 2] = {}
  <2>1. \A q \in Seq(SUBSET Term) :
          /\ Append(q, {}) \in Seq(SUBSET Term) /\ Append(q, {}) # <<>> /\ Len(Append(q, {})) = Len(q) + 1
          /\ \A i \in 1 .. Len(q) : Append(q, {})[i] = q[i]
          /\ Append(q, {})[Len(q) + 1] = {}
    OBVIOUS
  <2>2. Len(frames) \in Nat \ {0}
    BY <1>0, FrameTypes
  <2>3. frames' \in Seq(SUBSET Term) /\ frames' # <<>> /\ Len(frames') = Len(frames) + 1
        /\ frames'[Len(frames) + 1] = {}
    BY <1>0, <1>1, <2>1 DEF TypeOK
  <2>4. \A i \in 1 .. Len(frames) : frames'[i] = frames[i]
    BY <1>0, <1>1, <2>1 DEF TypeOK
  <2>5. \A i \in 0 .. Last : i + 1 \in 1 .. Len(frames)
    BY <2>2 DEF Last
  <2> QED BY <2>2, <2>3, <2>4, <2>5 DEF Last, Frame
<1>3. TypeOK'
  BY <1>0, <1>1, <1>2, SameTypes DEF TypeOK
<1>4. (\A i \in 0 .. n : All(Frame(i)') = All(Frame(i))) /\ All(Frame(n + 1)') = States
  <2>1. n + 1 + 1 = Last + 2
    BY <1>0
  <2>2. \A i \in 0 .. n : All(Frame(i)') = All(Frame(i))
    BY <1>0, <1>2 DEF Frame
  <2>3. frames'[n + 1 + 1] = {}
    BY <1>2, <2>1
  <2> QED BY <2>2, <2>3, AllFacts DEF Frame
<1>5. Chain'
  <2> SUFFICES ASSUME NEW i \in 0 .. n + 1, NEW l \in 0 .. n + 1, i <= l
               PROVE  All(Frame(i)') \cap Safe \subseteq All(Frame(l)')
    BY <1>0, <1>1, <1>2 DEF Chain, Frame
  <2>1. CASE l = n + 1
    BY <1>4, <2>1, SafeFacts
  <2>2. CASE l # n + 1
    <3>1. i \in 0 .. n /\ l \in 0 .. n
      BY <1>0, <2>2
    <3> QED BY <1>0, <1>4, <3>1 DEF IInv, Chain
  <2> QED BY <2>1, <2>2
<1>6. OneStep'
  <2>0. Last' - 1 = n
    BY <1>0, <1>2
  <2> SUFFICES ASSUME NEW i \in 0 .. n, NEW m \in Moves, m[1] \in All(Frame(i)') \cap Safe
               PROVE  m[2] \in All(Frame(i + 1)')
    BY <1>1, <2>0 DEF OneStep, Frame
  <2>1. CASE i = n
    <3>1. m[2] \in States
      BY <1>0 DEF Moves, TypeOK
    <3> QED BY <1>4, <2>1, <3>1
  <2>2. CASE i # n
    <3>1. i \in 0 .. n - 1 /\ i \in 0 .. n /\ i + 1 \in 0 .. n
      BY <1>0, <2>2
    <3> QED BY <1>0, <1>4, <3>1 DEF IInv, OneStep
  <2> QED BY <2>1, <2>2
<1>7. \A i \in DOMAIN states : states[i].absent \in Nat /\ states[i].absent <= Last
  BY <1>0, StateTypes DEF IInv, AbsentInRange, Entry
<1>8. AbsentInRange'
  BY <1>0, <1>1, <1>2, <1>7 DEF AbsentInRange
<1>9. AbsentIsAbsent'
  <2> SUFFICES ASSUME NEW i \in DOMAIN states, NEW l \in 1 .. states[i].absent
               PROVE  All(Frame(l)') \cap Safe \cap (IF states[i].what.kind = "term" THEN states[i].what.bad
                                                     ELSE {states[i].what.model}) = {}
    BY <1>1 DEF AbsentIsAbsent, Frame
  <2>1. l \in 0 .. n
    BY <1>0, <1>7
  <2>2. All(Frame(l)) \cap Safe \cap (IF states[i].what.kind = "term" THEN states[i].what.bad
                                      ELSE {states[i].what.model}) = {}
    BY DEF IInv, AbsentIsAbsent
  <2> QED BY <1>4, <2>1, <2>2
<1>10. Calls' /\ StaysSafe' /\ Closed'
  BY <1>1 DEF Calls, StaysSafe, Closed
<1> QED BY <1>3, <1>5, <1>6, <1>8, <1>9, <1>10 DEF IInv

(* What is pushed holds in the frame it comes from, and after one step.    *)
LEMMA PushInv == ASSUME IInv, Push PROVE IInv'
<1>0. TypeOK /\ Last \in Nat /\ pushed \in 0 .. Last - 1 /\ pc = "push" /\ pc' = "push"
  BY FrameTypes DEF IInv, Push, TypeOK
<1>01. PICK p \in Nat : p = pushed
  BY <1>0
<1> DEFINE pushable == {t \in Frame(p) : Preserved(Frame(p), t.holds)}
<1>1. PICK new \in SUBSET pushable : frames' = [frames EXCEPT ![p + 2] = @ \cup new]
  BY <1>01 DEF Push
<1>2. /\ UNCHANGED module /\ UNCHANGED <<states, blocking, stack, pc, result>>
      /\ pushed' = pushed + 1 /\ Safe' = Safe /\ Moves' = Moves
  BY SameModule DEF Push
<1>3. /\ p \in 0 .. Last - 1 /\ p \in 0 .. Last /\ p + 1 \in 0 .. Last
      /\ new \subseteq Frame(p) /\ \A t \in new : Preserved(Frame(p), t.holds)
  BY <1>0, <1>01
<1> HIDE DEF pushable
<1>4. /\ frames' \in Seq(SUBSET Term) /\ frames' # <<>> /\ Last' = Last
      /\ frames'[p + 1 + 1] = Frame(p + 1) \cup new
      /\ \A i \in 0 .. Last : i # p + 1 => frames'[i + 1] = Frame(i)
  <2>1. p + 2 \in DOMAIN frames /\ DOMAIN frames = 1 .. Len(frames) /\ Len(frames) \in Nat \ {0}
    BY <1>0, <1>3, FrameTypes DEF Last
  <2>2. frames[p + 2] \cup new \in SUBSET Term
    BY <1>0, <1>3, <2>1, FrameTypes
  <2>3. \A q \in Seq(SUBSET Term), e \in SUBSET Term : \A i \in DOMAIN q :
          /\ [q EXCEPT ![i] = e] \in Seq(SUBSET Term) /\ Len([q EXCEPT ![i] = e]) = Len(q)
    OBVIOUS
  <2>4. \A q \in Seq(SUBSET Term) : Len(q) # 0 => q # <<>>
    OBVIOUS
  <2>5. frames' = [frames EXCEPT ![p + 2] = frames[p + 2] \cup new]
    BY <1>1
  <2>6. frames' \in Seq(SUBSET Term) /\ Len(frames') = Len(frames) /\ frames' # <<>>
    BY <1>0, <2>1, <2>2, <2>3, <2>4, <2>5 DEF TypeOK
  <2>7. frames'[p + 2] = frames[p + 2] \cup new /\ \A i \in DOMAIN frames : i # p + 2 => frames'[i] = frames[i]
    BY <2>1, <2>5
  <2>8. p + 1 + 1 = p + 2
    BY <1>3
  <2>9. \A i \in 0 .. Last : i + 1 \in DOMAIN frames /\ (i # p + 1 => i + 1 # p + 2)
    BY <1>0, <1>3, <2>1 DEF Last
  <2> QED BY <2>6, <2>7, <2>8, <2>9 DEF Last, Frame
<1>5. /\ \A i \in 0 .. Last : All(Frame(i)') \subseteq All(Frame(i))
      /\ \A i \in 0 .. Last : i # p + 1 => All(Frame(i)') = All(Frame(i))
      /\ \A s \in All(Frame(p + 1)) : (\A t \in new : s \in t.holds) => s \in All(Frame(p + 1)')
  <2>1. \A i \in 0 .. Last : i # p + 1 => All(Frame(i)') = All(Frame(i))
    BY <1>4 DEF Frame
  <2>2. All(Frame(p + 1)') = All(Frame(p + 1) \cup new)
    BY <1>4 DEF Frame
  <2>3. All(Frame(p + 1)') \subseteq All(Frame(p + 1))
    BY <2>2, AllFacts
  <2>4. \A s \in All(Frame(p + 1)) : (\A t \in new : s \in t.holds) => s \in All(Frame(p + 1)')
    BY <2>2 DEF All
  <2> QED BY <2>1, <2>3, <2>4
<1>6. TypeOK'
  BY <1>0, <1>2, <1>4, SameTypes DEF TypeOK
<1>7. Chain'
  <2> SUFFICES ASSUME NEW i \in 0 .. Last, NEW l \in 0 .. Last, i <= l, NEW s \in All(Frame(i)') \cap Safe
               PROVE  s \in All(Frame(l)')
    BY <1>2, <1>4 DEF Chain, Frame
  <2>1. s \in All(Frame(l)) /\ s \in All(Frame(i)) \cap Safe
    BY <1>5 DEF IInv, Chain
  <2>2. CASE l # p + 1
    BY <1>5, <2>1, <2>2
  <2>3. CASE l = p + 1 /\ i = p + 1
    BY <2>3
  <2>4. CASE l = p + 1 /\ i # p + 1
    <3>1. i <= p
      BY <1>3, <2>4
    <3>2. s \in All(Frame(p))
      BY <1>3, <2>1, <3>1 DEF IInv, Chain
    <3>3. \A t \in new : s \in t.holds
      BY <1>3, <3>2 DEF All
    <3> QED BY <1>5, <2>1, <2>4, <3>3
  <2> QED BY <2>2, <2>3, <2>4
<1>8. OneStep'
  <2> SUFFICES ASSUME NEW i \in 0 .. Last - 1, NEW m \in Moves, m[1] \in All(Frame(i)') \cap Safe
               PROVE  m[2] \in All(Frame(i + 1)')
    BY <1>2, <1>4 DEF OneStep, Frame
  <2>0. i \in 0 .. Last /\ i + 1 \in 0 .. Last
    BY <1>0
  <2>1. m[1] \in All(Frame(i)) \cap Safe
    BY <1>5, <2>0
  <2>2. m[2] \in All(Frame(i + 1))
    BY <2>1 DEF IInv, OneStep
  <2>3. CASE i = p
    <3>1. m[2] \in Post(All(Frame(p)) \cap Safe)
      BY <2>1, <2>3 DEF Post, Moves
    <3>2. \A t \in new : m[2] \in t.holds
      BY <1>3, <3>1 DEF Preserved
    <3> QED BY <1>5, <2>2, <2>3, <3>2
  <2>4. CASE i # p
    <3>1. i + 1 # p + 1
      BY <1>3, <2>4
    <3> QED BY <1>5, <2>0, <2>2, <3>1
  <2> QED BY <2>3, <2>4
<1>9. \A i \in DOMAIN states : states[i].absent \in Nat /\ states[i].absent <= Last
  BY <1>0, StateTypes DEF IInv, AbsentInRange, Entry
<1>10. AbsentInRange'
  BY <1>2, <1>4, <1>9 DEF AbsentInRange
<1>11. AbsentIsAbsent'
  <2> SUFFICES ASSUME NEW i \in DOMAIN states, NEW l \in 1 .. states[i].absent
               PROVE  All(Frame(l)') \cap Safe \cap (IF states[i].what.kind = "term" THEN states[i].what.bad
                                                     ELSE {states[i].what.model}) = {}
    BY <1>2 DEF AbsentIsAbsent, Frame
  <2>1. l \in 0 .. Last
    BY <1>0, <1>9
  <2>2. All(Frame(l)) \cap Safe \cap (IF states[i].what.kind = "term" THEN states[i].what.bad
                                      ELSE {states[i].what.model}) = {}
    BY DEF IInv, AbsentIsAbsent
  <2> QED BY <1>5, <2>1, <2>2
<1>12. Calls' /\ StaysSafe' /\ Closed'
  BY <1>0, <1>2 DEF Calls, StaysSafe, Closed
<1> QED BY <1>6, <1>7, <1>8, <1>10, <1>11, <1>12 DEF IInv

LEMMA PushedInv == ASSUME IInv, Pushed PROVE IInv'
<1>1. UNCHANGED <<module, frames, states, blocking, stack, pushed, result>> /\ pc' = "establish"
  BY DEF Pushed
<1>2. TypeOK'
  BY <1>1, SameTypes DEF IInv, TypeOK
<1>3. Chain' /\ OneStep' /\ AbsentInRange' /\ AbsentIsAbsent'
  BY <1>1, SameFrames, SameStates
<1>4. Calls' /\ StaysSafe' /\ Closed'
  BY <1>1 DEF Calls, StaysSafe, Closed
<1> QED BY <1>2, <1>3, <1>4 DEF IInv

LEMMA StutterInv == ASSUME IInv, UNCHANGED vars PROVE IInv'
<1> USE DEF vars
<1>1. TypeOK'
  BY SameTypes DEF IInv, TypeOK
<1>2. Chain' /\ OneStep' /\ AbsentInRange' /\ AbsentIsAbsent' /\ UNCHANGED <<Safe, Moves, Last>>
  BY SameFrames, SameStates
<1>3. Calls'
  BY <1>2 DEF IInv, Calls
<1>4. StaysSafe' /\ Closed'
  BY <1>2 DEF IInv, StaysSafe, Closed, Frame
<1> QED BY <1>1, <1>2, <1>3, <1>4 DEF IInv

LEMMA StepInv == IInv /\ [Next]_vars => IInv'
<1> SUFFICES ASSUME IInv, [Next]_vars PROVE IInv'
  OBVIOUS
<1>1. CASE Absent  BY <1>1, AbsentInv
<1>2. CASE BlockKnown  BY <1>2, BlockKnownInv
<1>3. CASE UnsafeInit  BY <1>3, PanicInv DEF UnsafeInit
<1>4. CASE BlockNew  BY <1>4, BlockNewInv
<1>5. CASE Established  BY <1>5, EstablishedInv
<1>6. CASE AbstractCex  BY <1>6, PanicInv DEF AbstractCex
<1>7. CASE Predecessor  BY <1>7, PredecessorInv
<1>8. CASE Strengthen  BY <1>8, StrengthenInv
<1>9. CASE Simplify  BY <1>9, SimplifyInv
<1>10. CASE Found  BY <1>10, FoundInv
<1>11. CASE AddFrame  BY <1>11, AddFrameInv
<1>12. CASE Push  BY <1>12, PushInv
<1>13. CASE Pushed  BY <1>13, PushedInv
<1>14. CASE NoAnswer  BY <1>14, PanicInv DEF NoAnswer
<1>15. CASE UNCHANGED vars  BY <1>15, StutterInv
<1> QED
  BY <1>1, <1>2, <1>3, <1>4, <1>5, <1>6, <1>7, <1>8, <1>9, <1>10, <1>11, <1>12, <1>13,
     <1>14, <1>15 DEF Next, Step

LEMMA AlwaysIInv == Spec => []IInv
BY InitInv, StepInv, PTL DEF Spec
----------------------------------------------------------------------------
(* The frames of find_frame are a chain: each holds where the one before   *)
(* it does, and after one transition from there, as far as the states are  *)
(* safe; block() may strengthen many at once and simplify() drop the       *)
(* safety properties from all.                                             *)
THEOREM Frames == Spec => []FramesChain
<1>1. IInv => FramesChain
  <2> SUFFICES ASSUME IInv, NEW i \in 0 .. Last - 1
               PROVE  /\ All(Frame(i)) \cap Safe \subseteq All(Frame(i + 1))
                      /\ Post(All(Frame(i)) \cap Safe) \subseteq All(Frame(i + 1))
    BY DEF FramesChain
  <2>1. i \in 0 .. Last /\ i + 1 \in 0 .. Last /\ i <= i + 1
    BY FrameTypes DEF IInv
  <2>2. All(Frame(i)) \cap Safe \subseteq All(Frame(i + 1))
    BY <2>1 DEF IInv, Chain
  <2>3. Post(All(Frame(i)) \cap Safe) \subseteq All(Frame(i + 1))
    BY PostMoves DEF IInv, OneStep
  <2> QED BY <2>2, <2>3
<1> QED BY <1>1, AlwaysIInv, PTL

(* What backwards_reachable_states remembers as absent from a frame is     *)
(* absent from it and from those before it, whatever frames were           *)
(* strengthened, pushed to and simplified since, and whatever other calls  *)
(* of block() came in between.                                             *)
THEOREM Absences == Spec => []AbsentIsAbsent
<1>1. IInv => AbsentIsAbsent
  BY DEF IInv
<1> QED BY <1>1, AlwaysIInv, PTL

(* The frame that get_inductive_frame returns, together with the safety    *)
(* properties, is closed under the transitions.                            *)
THEOREM InductiveFrame == Spec => []ResultInductive
<1>1. IInv => ResultInductive
  <2> SUFFICES ASSUME IInv, pc = "done" PROVE Inductive(All(result) \cap Safe)
    BY DEF ResultInductive
  <2>1. \A m \in Moves : m[1] \in All(result) \cap Safe => m[2] \in All(result) \cap Safe
    BY DEF IInv, Closed
  <2> QED BY <2>1, PostMoves DEF Inductive
<1> QED BY <1>1, AlwaysIInv, PTL
----------------------------------------------------------------------------
(* The chains to an unsafe state                                           *)

(* The clauses say no more than the assertions they are taken from.  They  *)
(* would if one had the literal "true", which term_to_cnf_clauses reads as *)
(* "false".                                                                *)
ClausesHold ==
  \A k \in DOMAIN proofs : \A i \in DOMAIN proofs[k].clauses : Safe \subseteq proofs[k].clauses[i]

Back(ms, S) == {m[1] : m \in {m \in ms : \E s \in S : m[2] \in Diagram[s]}}
Layers(f, ms, S, n) == f = [k \in 0 .. n |-> IF k = 0 THEN S ELSE Back(ms, f[k - 1])]

LEMMA LayersExist ==
  ASSUME NEW N \in Nat, NEW ms, NEW S
  PROVE  \E f : Layers(f, ms, S, N)
<1> DEFINE T == {n \in Nat : ~\E f : Layers(f, ms, S, n)}
<1>1. T \in SUBSET Nat /\ \A n \in Nat : n \in T <=> ~\E f : Layers(f, ms, S, n)
  OBVIOUS
<1> HIDE DEF T
<1> SUFFICES ASSUME T # {} PROVE FALSE
  BY <1>1
<1>2. PICK n \in T : \A m \in T : n <= m
  BY <1>1, LeastNat
<1>3. n \in Nat \ {0} /\ n - 1 \in Nat
  <2>1. Layers([k \in 0 .. 0 |-> S], ms, S, 0)
    BY DEF Layers
  <2> QED BY <1>1, <1>2, <2>1
<1>4. PICK g : Layers(g, ms, S, n - 1)
  BY <1>1, <1>2, <1>3
<1> DEFINE h == [k \in 0 .. n |-> IF k = 0 THEN S ELSE Back(ms, g[k - 1])]
<1>5. ASSUME NEW k \in 0 .. n - 1 PROVE h[k] = g[k]
  BY <1>3, <1>4, <1>5 DEF Layers
<1>6. ASSUME NEW k \in 0 .. n
      PROVE  h[k] = IF k = 0 THEN S ELSE Back(ms, h[k - 1])
  <2>1. CASE k = 0
    BY <2>1
  <2>2. CASE k # 0
    <3>1. k - 1 \in 0 .. n - 1
      BY <1>3, <2>2
    <3>2. h[k - 1] = g[k - 1]
      BY <1>5, <3>1
    <3>3. h[k] = Back(ms, g[k - 1])
      BY <2>2
    <3> HIDE DEF h
    <3> QED BY <2>2, <3>2, <3>3
  <2> QED BY <2>1, <2>2
<1>7. Layers(h, ms, S, n)
  <2>1. h = [k \in 0 .. n |-> h[k]]
    OBVIOUS
  <2> HIDE DEF h
  <2>2. [k \in 0 .. n |-> h[k]] = [k \in 0 .. n |-> IF k = 0 THEN S ELSE Back(ms, h[k - 1])]
    BY <1>6
  <2> QED BY <2>1, <2>2 DEF Layers
<1> QED BY <1>1, <1>2, <1>3, <1>7

LEMMA LayersUnique ==
  ASSUME NEW ms, NEW S, NEW n \in Nat, NEW m \in Nat, n <= m,
         NEW f, NEW g, Layers(f, ms, S, n), Layers(g, ms, S, m)
  PROVE  f[n] = g[n]
<1> DEFINE T == {k \in 0 .. n : f[k] # g[k]}
<1>1. SUFFICES ASSUME T # {} PROVE FALSE
  OBVIOUS
<1>2. T \in SUBSET Nat
  OBVIOUS
<1>3. PICK k \in T : \A i \in T : k <= i
  BY <1>1, <1>2, LeastNat
<1>4. \A i \in 0 .. n : /\ f[i] = IF i = 0 THEN S ELSE Back(ms, f[i - 1])
                        /\ g[i] = IF i = 0 THEN S ELSE Back(ms, g[i - 1])
  BY DEF Layers
<1>5. k \in 1 .. n /\ k - 1 \in 0 .. n /\ ~(k - 1 \in T)
  BY <1>3, <1>4
<1>6. f[k - 1] = g[k - 1]
  BY <1>5
<1>7. f[k] = Back(ms, f[k - 1]) /\ g[k] = Back(ms, g[k - 1])
  BY <1>4, <1>5
<1> QED BY <1>3, <1>6, <1>7

LEMMA ReachingLayers ==
  ASSUME NEW n \in Nat
  PROVE  \E f : Layers(f, Moves, States \ Safe, n) /\ Reaching(n) = f[n]
<1> DEFINE U == States \ Safe
           Of == CHOOSE f : f = [k \in 0 .. n |-> IF k = 0 THEN U
                                                   ELSE Pre(UNION {Diagram[s] : s \in f[k - 1]})]
<1>1. Reaching(n) = Of[n]
  BY DEF Reaching
<1>2. \A S : Pre(UNION {Diagram[s] : s \in S}) = Back(Moves, S)
  BY DEF Pre, Back, Moves
<1>3. ASSUME NEW f
      PROVE  Layers(f, Moves, U, n)
               <=> f = [k \in 0 .. n |-> IF k = 0 THEN U ELSE Pre(UNION {Diagram[s] : s \in f[k - 1]})]
  <2> HIDE DEF U
  <2>1. \A k \in 0 .. n : (IF k = 0 THEN U ELSE Back(Moves, f[k - 1]))
                           = (IF k = 0 THEN U ELSE Pre(UNION {Diagram[s] : s \in f[k - 1]}))
    BY <1>2
  <2>2. [k \in 0 .. n |-> IF k = 0 THEN U ELSE Back(Moves, f[k - 1])]
          = [k \in 0 .. n |-> IF k = 0 THEN U ELSE Pre(UNION {Diagram[s] : s \in f[k - 1]})]
    BY <2>1
  <2> QED BY <2>2 DEF Layers
<1> HIDE DEF U
<1>4. \E f : f = [k \in 0 .. n |-> IF k = 0 THEN U ELSE Pre(UNION {Diagram[s] : s \in f[k - 1]})]
  BY <1>3, LayersExist
<1>5. Of = [k \in 0 .. n |-> IF k = 0 THEN U ELSE Pre(UNION {Diagram[s] : s \in Of[k - 1]})]
  BY <1>4
<1> HIDE DEF Of
<1>6. Layers(Of, Moves, U, n)
  BY <1>3, <1>5
<1> QED BY <1>1, <1>6 DEF U

(* ... and so it can be said of any transitions and any unsafe states.     *)
Ahead(ms, S, n) == (CHOOSE f : Layers(f, ms, S, n))[n]

LEMMA AheadIs ==
  ASSUME NEW ms, NEW S
  PROVE  /\ Ahead(ms, S, 0) = S
         /\ \A n \in Nat : Ahead(ms, S, n + 1) = Back(ms, Ahead(ms, S, n))
<1>0. ASSUME NEW n \in Nat PROVE \E f : Layers(f, ms, S, n) /\ Ahead(ms, S, n) = f[n]
  <2> DEFINE F == CHOOSE f : Layers(f, ms, S, n)
  <2>1. Layers(F, ms, S, n)
    BY LayersExist
  <2> QED BY <2>1 DEF Ahead
<1>1. Ahead(ms, S, 0) = S
  <2>1. PICK f : Layers(f, ms, S, 0) /\ Ahead(ms, S, 0) = f[0]
    BY <1>0
  <2> QED BY <2>1 DEF Layers
<1>2. ASSUME NEW n \in Nat
      PROVE  Ahead(ms, S, n + 1) = Back(ms, Ahead(ms, S, n))
  <2>0. n + 1 \in Nat /\ n <= n + 1 /\ n + 1 \in 0 .. n + 1 /\ n + 1 # 0 /\ (n + 1) - 1 = n
    OBVIOUS
  <2>1. PICK f : Layers(f, ms, S, n) /\ Ahead(ms, S, n) = f[n]
    BY <1>0
  <2>2. PICK g : Layers(g, ms, S, n + 1) /\ Ahead(ms, S, n + 1) = g[n + 1]
    BY <1>0, <2>0
  <2>3. f[n] = g[n]
    BY <2>0, <2>1, <2>2, LayersUnique
  <2>4. g[n + 1] = Back(ms, g[n])
    <3> DEFINE F == [k \in 0 .. n + 1 |-> IF k = 0 THEN S ELSE Back(ms, g[k - 1])]
    <3>1. g = F
      BY <2>2 DEF Layers
    <3>2. F[n + 1] = Back(ms, g[n])
      BY <2>0
    <3> HIDE DEF F
    <3> QED BY <3>1, <3>2
  <2> QED BY <2>1, <2>2, <2>3, <2>4
<1> QED BY <1>1, <1>2

LEMMA ReachingIs ==
  ASSUME NEW n \in Nat
  PROVE  Reaching(n) = Ahead(Moves, States \ Safe, n)
<1> DEFINE U == States \ Safe
           ms == Moves
           F == CHOOSE f : Layers(f, ms, U, n)
<1>1. PICK g : Layers(g, ms, U, n) /\ Reaching(n) = g[n]
  BY ReachingLayers
<1> HIDE DEF U, ms
<1>2. Layers(F, ms, U, n)
  BY LayersExist
<1>3. Ahead(ms, U, n) = F[n]
  BY DEF Ahead
<1> HIDE DEF F
<1>4. F[n] = g[n]
  BY <1>1, <1>2, LayersUnique
<1>5. Reaching(n) = Ahead(ms, U, n)
  BY <1>1, <1>3, <1>4
<1> QED BY <1>5 DEF U, ms

(* What is to be blocked is as many steps away as is noted, and so is what *)
(* each call of block() is for: at one frame less, one step more.          *)
Deep(ms, S, x, n) ==
  IF x.kind = "term" THEN x.bad \subseteq Ahead(ms, S, n) ELSE x.model \in Ahead(ms, S, n)

Depths == \A i \in DOMAIN states : Deep(Moves, States \ Safe, states[i].what, states[i].steps)

CallsDeep(src) ==
  \A c \in DOMAIN stack :
    Deep(Moves, States \ Safe, stack[c].what, src.absent + 1 - stack[c].index + src.steps)

CallDepths == pc = "block" => CallsDeep(states[blocking])

LEMMA SameDepths ==
  ASSUME Depths, UNCHANGED module, UNCHANGED states
  PROVE  Depths'
BY SameModule DEF Depths

LEMMA InitDepths == ASSUME Init, ClausesHold PROVE Depths /\ CallDepths
<1> DEFINE First == {e \in Entry : Deep(Moves, States \ Safe, e.what, e.steps)}
<1>1. proofs \in Seq(Proof)
  BY UpdrAssumption DEF Init, Proof
<1>2. ASSUME NEW k \in DOMAIN proofs, NEW i \in DOMAIN proofs[k].clauses
      PROVE  Known(Bad(States \ proofs[k].clauses[i]), 0, 0) \in First
  <2> DEFINE B == States \ proofs[k].clauses[i]
  <2>1. B \subseteq States \ Safe
    BY DEF ClausesHold
  <2>2. B \in SUBSET States
    OBVIOUS
  <2> HIDE DEF B
  <2>3. Known(Bad(B), 0, 0) \in Entry
    BY <2>2 DEF Known, Bad, Entry, TermOrModel
  <2>4. Deep(Moves, States \ Safe, Bad(B), 0)
    BY <2>1, AheadIs DEF Deep, Bad
  <2> QED BY <2>3, <2>4 DEF Known, B
<1> HIDE DEF First
<1>3. states \in Seq(First)
  <2>1. states = FromProofs(proofs)
    BY DEF Init
  <2> QED BY <1>1, <1>2, <2>1, FromProofsIn
<1>4. \A i \in DOMAIN states : states[i] \in First
  BY <1>3
<1>5. Depths
  BY <1>4 DEF Depths, First
<1>6. CallDepths
  BY DEF Init, CallDepths
<1> QED BY <1>5, <1>6

LEMMA AbsentDepths ==
  ASSUME IInv, Depths, Absent
  PROVE  Depths' /\ CallDepths'
<1> USE DEF Absent
<1>0. Oldest \in DOMAIN states
  BY OldestExists DEF AllAbsent, IInv
<1> DEFINE o == Oldest
<1> HIDE DEF o
<1>1. DOMAIN states' = DOMAIN states /\ \A i \in DOMAIN states : i # o => states'[i] = states[i]
  BY DEF o
<1>2. states'[o].what = states[o].what /\ states'[o].steps = states[o].steps
  BY <1>0, StateTypes DEF o, IInv, Entry
<1>3. Moves' = Moves /\ Safe' = Safe
  BY SameModule
<1>4. Depths'
  BY <1>1, <1>2, <1>3 DEF Depths
<1> QED BY <1>4 DEF CallDepths

LEMMA BlockKnownDepths ==
  ASSUME IInv, Depths, BlockKnown
  PROVE  Depths' /\ CallDepths'
<1> USE DEF BlockKnown, Start
<1>1. UNCHANGED module /\ UNCHANGED states /\ Moves' = Moves /\ Safe' = Safe
  BY SameModule
<1>2. Oldest \in DOMAIN states
  BY OldestExists DEF AllAbsent, IInv
<1> DEFINE o == Oldest
           c == [what |-> states[o].what, index |-> states[o].absent + 1]
<1>3. blocking' = o /\ stack' = <<c>>
  OBVIOUS
<1>4. o \in DOMAIN states /\ states[o].absent \in Nat /\ states[o].steps \in Nat
  BY <1>2, StateTypes DEF IInv, Entry
<1> HIDE DEF o
<1>5. c.what = states[o].what /\ states[o].absent + 1 - c.index + states[o].steps = states[o].steps
  BY <1>4
<1> HIDE DEF c
<1>6. DOMAIN stack' = {1} /\ stack'[1] = c
  BY <1>3
<1>7. Deep(Moves, States \ Safe, c.what, states[o].absent + 1 - c.index + states[o].steps)
  BY <1>4, <1>5 DEF Depths
<1>8. CallsDeep(states[blocking])'
  BY <1>1, <1>3, <1>6, <1>7 DEF CallsDeep
<1> QED BY <1>1, <1>8, SameDepths DEF CallDepths

LEMMA BlockNewDepths ==
  ASSUME IInv, Depths, BlockNew
  PROVE  Depths' /\ CallDepths'
<1> USE DEF BlockNew, Start
<1>0. TypeOK /\ Last \in Nat /\ Moves' = Moves /\ Safe' = Safe
  BY SameModule, FrameTypes DEF IInv
<1>1. PICK s \in Unsafe :
        /\ states' = Append(states, Known(Cex(s), 0, Last - 1))
        /\ blocking' = Len(states) + 1
        /\ stack' = <<[what |-> Cex(s), index |-> Last]>>
  OBVIOUS
<1>2. s \in States \ Safe
  BY SafeFacts, AllFacts DEF Unsafe
<1> DEFINE e == Known(Cex(s), 0, Last - 1)
           c == [what |-> Cex(s), index |-> Last]
<1>3. e \in Entry
  <2>1. Last - 1 \in Nat
    BY <1>0
  <2> QED BY <1>2, <2>1 DEF Known, Cex, Entry, TermOrModel
<1>4. e.what = Cex(s) /\ e.steps = 0 /\ c.what = Cex(s) /\ e.absent + 1 - c.index + e.steps = 0
  BY <1>0 DEF Known
<1>5. states' = Append(states, e) /\ stack' = <<c>>
  BY <1>1
<1> HIDE DEF e, c
<1>6. /\ DOMAIN states' = DOMAIN states \cup {Len(states) + 1}
      /\ \A i \in DOMAIN states : states'[i] = states[i]
      /\ states'[Len(states) + 1] = e
  <2>1. \A S : \A q \in Seq(S), x \in S :
          /\ DOMAIN Append(q, x) = DOMAIN q \cup {Len(q) + 1}
          /\ \A i \in DOMAIN q : Append(q, x)[i] = q[i]
          /\ Append(q, x)[Len(q) + 1] = x
    OBVIOUS
  <2> QED BY <1>0, <1>3, <1>5, <2>1 DEF TypeOK
<1>7. DOMAIN stack' = {1} /\ stack'[1] = c
  BY <1>5
<1>8. Deep(Moves, States \ Safe, Cex(s), 0)
  BY <1>2, AheadIs DEF Deep, Cex
<1>9. Depths'
  BY <1>0, <1>4, <1>6, <1>8 DEF Depths
<1>10. CallsDeep(states[blocking])'
  BY <1>0, <1>1, <1>4, <1>6, <1>7, <1>8 DEF CallsDeep
<1> QED BY <1>9, <1>10 DEF CallDepths

(* A transition leads from the predecessor to the target of the call,      *)
(* which is no more than the diagrams of the states one step nearer.       *)
LEMMA PredecessorDepths ==
  ASSUME IInv, Depths, CallDepths, Predecessor
  PROVE  Depths' /\ CallDepths'
<1> USE DEF Predecessor
<1>0. TypeOK /\ Calls /\ pc = "block" /\ UNCHANGED blocking /\ Moves' = Moves /\ Safe' = Safe
  BY SameModule DEF IInv
<1>1. PICK s \in Predecessors :
        /\ states' = Append(states, Known(Cex(s), states[blocking].absent + 2 - Top.index + states[blocking].steps, 0))
        /\ stack' = <<[what |-> Cex(s), index |-> Top.index - 1]>> \o stack
  OBVIOUS
<1>2. s \in States /\ s \in Pre(Target(Top.what))
  BY AllFacts DEF Predecessors
<1>3. /\ blocking \in DOMAIN states /\ stack # <<>>
      /\ states[blocking].absent \in Nat /\ states[blocking].steps \in Nat
  BY <1>0, StateTypes DEF Calls, Entry
<1>31. Top \in Call /\ Top = stack[1] /\ 1 \in DOMAIN stack
  BY <1>0, <1>3, StateTypes
<1>4. /\ Top.index \in Nat \ {0} /\ Top.index <= states[blocking].absent + 1
      /\ Top \in Call /\ Top = stack[1] /\ 1 \in DOMAIN stack
  BY <1>0, <1>31 DEF Calls, AtInit, Call
<1> DEFINE a == states[blocking].absent
           b == states[blocking].steps
           k == Top.index
           e == Known(Cex(s), a + 2 - k + b, 0)
           c == [what |-> Cex(s), index |-> k - 1]
<1>5. e \in Entry /\ c \in Call /\ e.what = Cex(s) /\ c.what = Cex(s) /\ e.steps = a + 2 - k + b /\ c.index = k - 1
  <2>1. a + 2 - k + b \in Nat /\ k - 1 \in Nat
    <3>1. \A x, y \in Nat, z \in Nat \ {0} : z <= x + 1 => x + 2 - z + y \in Nat /\ z - 1 \in Nat
      OBVIOUS
    <3> QED BY <1>3, <1>4, <3>1
  <2>2. Cex(s) \in TermOrModel
    BY <1>2 DEF Cex, TermOrModel
  <2> QED BY <2>1, <2>2 DEF Known, Entry, Call
<1>6. states' = Append(states, e) /\ stack' = <<c>> \o stack
  BY <1>1
<1>7. a \in Nat /\ b \in Nat /\ k \in Nat \ {0} /\ k <= a + 1
  BY <1>3, <1>4
<1>8. Deep(Moves, States \ Safe, Top.what, a + 1 - k + b)
  BY <1>0, <1>4 DEF CallDepths, CallsDeep
<1>9. states[blocking].absent = a /\ states[blocking].steps = b /\ Top.index = k
  OBVIOUS
<1> HIDE DEF a, b, k, e, c
<1>10. /\ DOMAIN states' = DOMAIN states \cup {Len(states) + 1}
       /\ \A i \in DOMAIN states : states'[i] = states[i]
       /\ states'[Len(states) + 1] = e
  <2>1. \A S : \A q \in Seq(S), x \in S :
          /\ DOMAIN Append(q, x) = DOMAIN q \cup {Len(q) + 1}
          /\ \A i \in DOMAIN q : Append(q, x)[i] = q[i]
          /\ Append(q, x)[Len(q) + 1] = x
    OBVIOUS
  <2> QED BY <1>0, <1>5, <1>6, <2>1 DEF TypeOK
<1>11. /\ DOMAIN stack' = 1 .. Len(stack) + 1
       /\ stack'[1] = c /\ \A i \in 1 .. Len(stack) : stack'[i + 1] = stack[i]
  <2>1. \A S : \A q \in Seq(S), x \in S :
          /\ DOMAIN (<<x>> \o q) = 1 .. Len(q) + 1
          /\ (<<x>> \o q)[1] = x /\ \A i \in 1 .. Len(q) : (<<x>> \o q)[i + 1] = q[i]
    OBVIOUS
  <2> QED BY <1>0, <1>5, <1>6, <2>1 DEF TypeOK
<1> DEFINE n == a + 1 - k + b
<1>12. n \in Nat /\ n + 1 = a + 2 - k + b /\ a + 1 - (k - 1) + b = n + 1
  BY <1>7
<1>13. Deep(Moves, States \ Safe, Top.what, n)
  BY <1>8
<1> HIDE DEF n
<1>14. Target(Top.what) \subseteq UNION {Diagram[d] : d \in Ahead(Moves, States \ Safe, n)}
  <2>1. CASE Top.what.kind = "term"
    <3>1. Target(Top.what) = Top.what.bad /\ Top.what.bad \subseteq States
      BY <1>4, <2>1 DEF Target, Call, TermOrModel
    <3>2. Top.what.bad \subseteq Ahead(Moves, States \ Safe, n)
      BY <1>13, <2>1 DEF Deep
    <3>3. \A d \in States : d \in Diagram[d]
      BY UpdrAssumption
    <3> QED BY <3>1, <3>2, <3>3
  <2>2. CASE Top.what.kind # "term"
    BY <1>13, <2>2 DEF Deep, Target
  <2> QED BY <2>1, <2>2
<1>15. s \in Back(Moves, Ahead(Moves, States \ Safe, n))
  <2>1. PICK m \in Moves : s = m[1] /\ m[2] \in Target(Top.what)
    BY <1>2 DEF Pre, Moves
  <2>2. \E d \in Ahead(Moves, States \ Safe, n) : m[2] \in Diagram[d]
    BY <1>14, <2>1
  <2> QED BY <2>1, <2>2 DEF Back
<1>16. Deep(Moves, States \ Safe, Cex(s), n + 1)
  BY <1>12, <1>15, AheadIs DEF Deep, Cex
<1>17. Depths'
  BY <1>0, <1>5, <1>10, <1>12, <1>16 DEF Depths
<1>18. states'[blocking] = states[blocking]
  BY <1>3, <1>10
<1>19. CallsDeep(states[blocking])'
  <2> SUFFICES ASSUME NEW i \in DOMAIN stack'
               PROVE  Deep(Moves, States \ Safe, stack'[i].what, a + 1 - stack'[i].index + b)
    BY <1>0, <1>9, <1>18 DEF CallsDeep
  <2>1. CASE i = 1
    BY <1>5, <1>11, <1>12, <1>16, <2>1
  <2>2. CASE i # 1
    <3>1. Len(stack) \in Nat /\ DOMAIN stack = 1 .. Len(stack)
      BY <1>0, StateTypes
    <3>2. i - 1 \in DOMAIN stack /\ stack'[i] = stack[i - 1]
      BY <1>11, <2>2, <3>1
    <3> QED BY <1>0, <1>9, <3>2 DEF CallDepths, CallsDeep
  <2> QED BY <2>1, <2>2
<1> QED BY <1>17, <1>19 DEF CallDepths

(* A call that returns leaves the others, unless it is the first one, and  *)
(* then the search goes on elsewhere.                                      *)
LEMMA StrengthenDepths ==
  ASSUME IInv, Depths, CallDepths, Strengthen
  PROVE  Depths' /\ CallDepths'
<1>0. /\ TypeOK /\ Calls /\ pc = "block" /\ UNCHANGED blocking /\ stack' = Tail(stack)
      /\ Moves' = Moves /\ Safe' = Safe /\ UNCHANGED module
  BY SameModule DEF IInv, Strengthen
<1>1. blocking \in DOMAIN states /\ stack # <<>> /\ states[blocking] \in Entry
  BY <1>0, StateTypes DEF Calls
<1>2. CASE Len(stack) = 1
  <2>1. states' = [states EXCEPT ![blocking].absent = @ + 1] /\ pc' = "establish"
    BY <1>2 DEF Strengthen
  <2>2. DOMAIN states' = DOMAIN states /\ \A i \in DOMAIN states : i # blocking => states'[i] = states[i]
    BY <2>1
  <2>3. states'[blocking].what = states[blocking].what /\ states'[blocking].steps = states[blocking].steps
    BY <1>1, <2>1 DEF Entry
  <2>4. Depths'
    BY <1>0, <2>2, <2>3 DEF Depths
  <2> QED BY <2>1, <2>4 DEF CallDepths
<1>3. CASE Len(stack) # 1
  <2>1. UNCHANGED <<states, pc>>
    BY <1>3 DEF Strengthen
  <2>2. Depths'
    BY <1>0, <2>1, SameDepths
  <2>3. /\ Len(stack) \in Nat /\ DOMAIN stack = 1 .. Len(stack) /\ DOMAIN stack' = 1 .. Len(stack) - 1
        /\ \A i \in 1 .. Len(stack) - 1 : stack'[i] = stack[i + 1]
    <3>1. \A q \in Seq(Call) : DOMAIN q = 1 .. Len(q)
      OBVIOUS
    <3> QED BY <1>0, <1>1, <3>1, StateTypes
  <2>4. \A i \in DOMAIN stack' : \E l \in DOMAIN stack : stack'[i] = stack[l]
    <3> SUFFICES ASSUME NEW i \in 1 .. Len(stack) - 1 PROVE \E l \in DOMAIN stack : stack'[i] = stack[l]
      BY <2>3
    <3>1. i + 1 \in DOMAIN stack
      BY <2>3
    <3> QED BY <2>3, <3>1
  <2>5. CallsDeep(states[blocking])'
    BY <1>0, <2>1, <2>4 DEF CallDepths, CallsDeep
  <2> QED BY <2>2, <2>5 DEF CallDepths
<1> QED BY <1>2, <1>3

LEMMA PanicDepths == ASSUME Depths, Panic PROVE Depths' /\ CallDepths'
BY SameDepths DEF Panic, CallDepths

LEMMA StepDepths ==
  IInv /\ Depths /\ CallDepths /\ [Next]_vars => Depths' /\ CallDepths'
<1> SUFFICES ASSUME IInv, Depths, CallDepths, [Next]_vars PROVE Depths' /\ CallDepths'
  OBVIOUS
<1>1. CASE Absent  BY <1>1, AbsentDepths
<1>2. CASE BlockKnown  BY <1>2, BlockKnownDepths
<1>3. CASE UnsafeInit  BY <1>3, PanicDepths DEF UnsafeInit
<1>4. CASE BlockNew  BY <1>4, BlockNewDepths
<1>5. CASE Established  BY <1>5, SameDepths DEF Established, CallDepths
<1>6. CASE AbstractCex  BY <1>6, PanicDepths DEF AbstractCex
<1>7. CASE Predecessor  BY <1>7, PredecessorDepths
<1>8. CASE Strengthen  BY <1>8, StrengthenDepths
<1>9. CASE Simplify  BY <1>9, SameDepths DEF Simplify, CallDepths
<1>10. CASE Found  BY <1>10, SameDepths DEF Found, CallDepths
<1>11. CASE AddFrame  BY <1>11, SameDepths DEF AddFrame, CallDepths
<1>12. CASE Push  BY <1>12, SameDepths DEF Push, CallDepths
<1>13. CASE Pushed  BY <1>13, SameDepths DEF Pushed, CallDepths
<1>14. CASE NoAnswer  BY <1>14, PanicDepths DEF NoAnswer
<1>15. CASE UNCHANGED vars
  <2>1. UNCHANGED <<pc, states, blocking, stack>> /\ UNCHANGED module /\ Moves' = Moves /\ Safe' = Safe
    BY <1>15, SameModule DEF vars
  <2>2. Depths'
    BY <2>1, SameDepths
  <2>3. CallDepths'
    BY <2>1 DEF CallDepths, CallsDeep
  <2> QED BY <2>2, <2>3
<1> QED
  BY <1>1, <1>2, <1>3, <1>4, <1>5, <1>6, <1>7, <1>8, <1>9, <1>10, <1>11, <1>12, <1>13,
     <1>14, <1>15 DEF Next, Step

(* num_steps_to_bad, which orders the states that establish_safety looks   *)
(* at, is the exact length of a chain from the state to an unsafe one,     *)
(* each transition leading into the diagram of the next: however deep the  *)
(* call of block() that finds the state, and whatever frames its callers   *)
(* were at.  It needs that the clauses of the assertions say no more than  *)
(* they do, for otherwise what is to be blocked may not be unsafe.         *)
THEOREM StepsRight == Spec /\ ClausesHold => []StepsToBad
<1>1. IInv /\ Depths => StepsToBad
  <2> SUFFICES ASSUME IInv, Depths, NEW i \in DOMAIN states, states[i].what.kind = "model"
               PROVE  states[i].what.model \in Reaching(states[i].steps)
    BY DEF StepsToBad
  <2>1. states[i].steps \in Nat
    BY StateTypes DEF IInv, Entry
  <2>2. states[i].what.model \in Ahead(Moves, States \ Safe, states[i].steps)
    BY DEF Depths, Deep
  <2> QED BY <2>1, <2>2, ReachingIs
<1>2. Init /\ ClausesHold => Depths /\ CallDepths
  BY InitDepths
<1>3. IInv /\ Depths /\ CallDepths /\ [Next]_vars => Depths' /\ CallDepths'
  BY StepDepths
<1> QED BY <1>1, <1>2, <1>3, AlwaysIInv, PTL DEF Spec
=============================================================================
