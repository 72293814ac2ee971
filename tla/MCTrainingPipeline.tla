------------------------- MODULE MCTrainingPipeline -------------------------
(* The instances of TrainingPipeline that are model-checked. *)
EXTENDS TrainingPipeline

\* "one" is an example from a node.  "import" has the instruction of "one", one
\* of its own twice, and one that fails the filter; "again" overlaps with it, and
\* with the example that the database has.
InstanceBatch ==
  LET ex(id, hash) == [id |-> id, hash |-> hash, good |-> TRUE] IN
  [one |-> <<ex("i1", "h1")>>,
   import |-> <<ex("i2", "h2"), ex("i3", "h1"), [id |-> "i4", hash |-> "h3", good |-> FALSE],
                ex("i5", "h2"), ex("i6", "h4")>>,
   again |-> <<ex("i7", "h4"), ex("i8", "h2"), ex("i9", "h5")>>]

\* One part at a time, and the rounds with an example to train on.
InstanceWorkloads ==
  LET stored == {[id |-> "i0", hash |-> "h5"]} IN
  {[stored |-> stored, calls |-> {}, parts |-> {"rounds"}],
   [stored |-> stored, calls |-> Calls, parts |-> {}],
   [stored |-> {}, calls |-> {"one"}, parts |-> {"jobs"}],
   [stored |-> {}, calls |-> {}, parts |-> {"synthesis"}]}

\* The restart of a coordinator whose only business is the rounds.
RestartWorkloads ==
  {[stored |-> {[id |-> "i0", hash |-> "h5"]}, calls |-> {}, parts |-> {"rounds"}]}

InstanceLimits == <<1, 2>>
=============================================================================
