--------------------------- MODULE MCParallelPool ----------------------------
(* ParallelPool for TLC.  The transitions are interchangeable: of the      *)
(* queries that differ in their names only, one is kept.  Counter-models   *)
(* that hypotheses block, solvers that fail and a caller that cancels are  *)
(* tried one at a time.                                                    *)
EXTENDS ParallelPool

First == CHOOSE t \in Transitions : TRUE

MCInit ==
  /\ PoolInit
  /\ (\E t \in Transitions : truth[t] = "sat") => truth[First] = "sat"
  /\ LET blocking == blocked # 0 \/ answer # truth IN
     \/ caller = "idle" /\ answering = {} /\ ~blocking
     \/ caller = "never" /\ answering = {} /\ blocking
     \/ caller = "never" /\ answering = Answering /\ ~blocking

MCSpec == MCInit /\ [][PoolNext]_poolVars /\ WF_poolVars(Assured)
==============================================================================
