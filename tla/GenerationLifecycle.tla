-------------------------- MODULE GenerationLifecycle --------------------------
(****************************************************************************)
(* What the coordinator promises of its cluster generations, without their  *)
(* nodes and layers: the life of a generation, in the words of the header   *)
(* of serving_clusters.rs.  A generation is created Forming or Active, may  *)
(* become Active once, and after that only ages: Active, Draining, Gone.    *)
(* A generation counts the requests in flight on it, and only the Active    *)
(* one takes new ones.  "Draining - new generation took over; wait for      *)
(* in_flight -> 0 then retire": none with requests in flight is ever Gone.  *)
(****************************************************************************)
EXTENDS Integers

CONSTANT MaxGen   \* bound: the number of generations created in a run

VARIABLES
  phase,   \* the phase each generation is in
  load     \* the requests in flight on each generation

lifecycleVars == <<phase, load>>

Generations == 1 .. MaxGen
Phases == {"Unborn", "Forming", "Active", "Draining", "Gone"}

In(p) == {g \in Generations : phase[g] = p}

\* The generations are created in the order of their numbers.
IsNext(g) == phase[g] = "Unborn" /\ \A h \in In("Unborn") : g <= h

----------------------------------------------------------------------------

LifecycleInit ==
  /\ phase = [g \in Generations |-> "Unborn"]
  /\ load = [g \in Generations |-> 0]

\* A new split of the layers supersedes the one still forming.
Form(g) ==
  /\ IsNext(g)
  /\ phase' = [h \in Generations |-> IF h = g THEN "Forming"
                                     ELSE IF phase[h] = "Forming" THEN "Gone"
                                     ELSE phase[h]]
  /\ UNCHANGED load

\* The phases once nothing older is Active: an idle generation is gone and a
\* busy one drains; one that was draining and has become idle is retired when
\* another begins to drain, while a busy one goes on draining.
Aged(h) ==
  IF phase[h] = "Forming" THEN "Gone"
  ELSE IF phase[h] = "Active" THEN IF load[h] = 0 THEN "Gone" ELSE "Draining"
  ELSE IF /\ phase[h] = "Draining" /\ load[h] = 0
          /\ \E a \in In("Active") : load[a] > 0
  THEN "Gone"
  ELSE phase[h]

TakeOver(g) ==
  /\ phase[g] = "Forming" \/ IsNext(g)
  /\ phase' = [h \in Generations |-> IF h = g THEN "Active" ELSE Aged(h)]
  /\ UNCHANGED load

ShutDown ==
  /\ phase' = [h \in Generations |-> Aged(h)]
  /\ UNCHANGED load

Retire(g) ==
  /\ phase[g] = "Draining"
  /\ load[g] = 0
  /\ phase' = [phase EXCEPT ![g] = "Gone"]
  /\ UNCHANGED load

Admit(g) ==
  /\ phase[g] = "Active"
  /\ load' = [load EXCEPT ![g] = @ + 1]
  /\ UNCHANGED phase

Finish(g) ==
  /\ load[g] > 0
  /\ load' = [load EXCEPT ![g] = @ - 1]
  /\ UNCHANGED phase

LifecycleNext ==
  \/ \E g \in Generations :
       Form(g) \/ TakeOver(g) \/ Retire(g) \/ Admit(g) \/ Finish(g)
  \/ ShutDown

LifecycleSpec == LifecycleInit /\ [][LifecycleNext]_lifecycleVars
================================================================================
