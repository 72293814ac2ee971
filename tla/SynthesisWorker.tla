-------------------------- MODULE SynthesisWorker --------------------------
(****************************************************************************)
(* The loop of a node that asks LLM providers for training examples         *)
(* (SynthesisWorker of the synthesis crate) and posts them to the dataset   *)
(* of the coordinator (DatasetStore).                                       *)
(*                                                                          *)
(* The providers take turns.  Each has a limit per day, kept by a counter   *)
(* that is charged after a generation that succeeded and set back to 0      *)
(* after 24 h.  When every counter is at its limit the worker waits an      *)
(* hour, forgets the counters and asks the first provider, while its index, *)
(* and with it the charge, stays where it was.                              *)
(*                                                                          *)
(* The text of prompts and answers is left out, and with it the sandbox,    *)
(* which only marks an example as verified.  Requests per minute are a wait *)
(* of fixed length.                                                         *)
(****************************************************************************)
EXTENDS Naturals

CONSTANTS
  ProviderCount,   \* how many providers are configured
  DailyLimit,      \* per provider, rpd_limit or what build_provider gives it
  Penalty,         \* what the answer 429 adds to a counter (100)
  MaxRequests      \* bound: nothing is asked while a provider has had so many

\* In the order of the configuration.
Providers == 1 .. ProviderCount

ASSUME ProvidersAssumption ==
  /\ ProviderCount \in Nat \ {0}
  /\ DailyLimit \in [Providers -> Nat]
  /\ Penalty \in Nat \ {0} /\ MaxRequests \in Nat

VARIABLES
  counts,      \* daily_counts
  turn,        \* provider_idx
  asked,       \* the provider of the generation under way, 0 if none is
  step,        \* where the loop is
  dayOver,     \* whether 24 h have passed since day_start
  requests,    \* history: per provider, the requests it had since a reset
  unlimited    \* history: those of them that no counter limits

synthesisVars == <<counts, turn, asked, step, dayOver, requests, unlimited>>

----------------------------------------------------------------------------

\* New counters.
Reset == [p \in Providers |-> 0]

\* Mutant of NextTurn: the index runs past the last provider.
NextTurnUnbounded == turn + 1

NextTurn == (turn % ProviderCount) + 1

\* The providers under their limit, and which of them comes first from the turn on.
Under(c) == {p \in Providers : c[p] < DailyLimit[p]}
IsNext(p, S) ==
  LET ahead == {q \in S : q >= turn}
      from == IF ahead # {} THEN ahead ELSE S
  IN p \in from /\ \A q \in from : p <= q

SynthesisInit ==
  /\ counts = Reset /\ requests = Reset /\ unlimited = Reset
  /\ turn = 1 /\ asked = 0
  /\ step = "interval"
  /\ dayOver = FALSE

\* The start of an iteration, with the reset of a new day; then the next provider
\* under its limit, or the wait of an hour.
Pick ==
  /\ step = "interval"
  /\ \A p \in Providers : dayOver \/ requests[p] < MaxRequests
  /\ counts' = IF dayOver THEN Reset ELSE counts
  /\ requests' = IF dayOver THEN Reset ELSE requests
  /\ unlimited' = IF dayOver THEN Reset ELSE unlimited
  /\ dayOver' = FALSE
  /\ \/ /\ \E p \in Under(counts') :
             IsNext(p, Under(counts')) /\ turn' = p /\ asked' = p
        /\ step' = "asking"
     \/ /\ Under(counts') = {}
        /\ step' = "hour"
        /\ UNCHANGED <<turn, asked>>

\* After the hour: the counters are forgotten in the middle of the day, and the
\* first provider is asked, whatever its limit.
Resume ==
  /\ step = "hour"
  /\ counts' = Reset /\ requests' = Reset /\ unlimited' = Reset
  /\ asked' = 1
  /\ step' = "asking"
  /\ UNCHANGED <<turn, dayOver>>

\* The request under way is one of the provider whose counter will be charged,
\* and has been found to be under its limit.
Limited == asked = turn /\ counts[turn] < DailyLimit[turn]

\* A refinement asks some provider for a critique of the draft and, if it gets
\* one, for a better text; failing changes nothing.  There is none if it is not
\* enabled, or with one provider.
Refinements == IF ProviderCount >= 2 THEN 0 .. 2 ELSE {0}

\* Mutant of Generate: the provider whose turn is next is charged.
GenerateChargesNext ==
  /\ step = "asking"
  /\ \E refiner \in Providers, k \in Refinements :
       LET refined(p) == IF p = refiner THEN k ELSE 0 IN
       /\ requests' = [p \in Providers |->
                         requests[p] + (IF p = asked THEN 1 ELSE 0) + refined(p)]
       /\ unlimited' = [p \in Providers |->
            unlimited[p] + (IF p = asked /\ ~Limited THEN 1 ELSE 0) + refined(p)]
  /\ counts' = [counts EXCEPT ![NextTurn] = @ + 1]
  /\ step' = "posting"
  /\ UNCHANGED <<turn, asked, dayOver>>

\* The generation succeeds and the draft is refined; then the counter at the turn
\* is charged, with one.
Generate ==
  /\ step = "asking"
  /\ \E refiner \in Providers, k \in Refinements :
       LET refined(p) == IF p = refiner THEN k ELSE 0 IN
       /\ requests' = [p \in Providers |->
                         requests[p] + (IF p = asked THEN 1 ELSE 0) + refined(p)]
       /\ unlimited' = [p \in Providers |->
            unlimited[p] + (IF p = asked /\ ~Limited THEN 1 ELSE 0) + refined(p)]
  /\ counts' = [counts EXCEPT ![turn] = @ + 1]
  /\ step' = "posting"
  /\ UNCHANGED <<turn, asked, dayOver>>

\* How a generation fails: the answer is 429; there is no answer, or one of
\* another error; it has no text, or too little.  Only the first is charged.
Failures == {"RateLimit", "Api", "EmptyResponse"}
ChargeOf(failure) == IF failure = "RateLimit" THEN Penalty ELSE 0

GenerationFails ==
  /\ step = "asking"
  /\ \E failure \in Failures :
       /\ counts' = [counts EXCEPT ![turn] = @ + ChargeOf(failure)]
       /\ unlimited' = [unlimited EXCEPT ![asked] =
                          IF Limited /\ failure = "RateLimit" THEN @ ELSE @ + 1]
  /\ requests' = [requests EXCEPT ![asked] = @ + 1]
  /\ turn' = NextTurn
  /\ asked' = 0
  /\ step' = "interval"
  /\ UNCHANGED dayOver

\* The example has been posted; an error of the coordinator is only logged.
Posted ==
  /\ step = "posting"
  /\ turn' = NextTurn
  /\ asked' = 0
  /\ step' = "interval"
  /\ UNCHANGED <<counts, dayOver, requests, unlimited>>

DayPasses ==
  /\ ~dayOver
  /\ dayOver' = TRUE
  /\ UNCHANGED <<counts, turn, asked, step, requests, unlimited>>

SynthesisNext ==
  Pick \/ Resume \/ Generate \/ GenerationFails \/ Posted \/ DayPasses

SynthesisSpec == SynthesisInit /\ [][SynthesisNext]_synthesisVars

----------------------------------------------------------------------------
(* Correctness *)

SynthesisTypeOK ==
  /\ {counts, requests, unlimited} \subseteq [Providers -> Nat]
  /\ turn \in Providers /\ asked \in Providers \cup {0}
  /\ step \in {"interval", "asking", "posting", "hour"}
  /\ step \in {"asking", "posting"} => asked \in Providers
  /\ dayOver \in BOOLEAN

\* What is left of "Each provider stays within its documented free tier limits"
\* (provider.rs) and "Rate-limited per provider to stay within free tier"
\* (worker.rs): between two resets of the counters, a provider is asked more often
\* than its limit only by requests that no counter limits.  These are the ones
\* that failed with anything but 429, the refinements, and the first after the
\* hour.  The claim itself does not hold: they count for the provider, and a day
\* has as many resets as exhausted hours.
OnlyUnlimitedExceed ==
  \A p \in Providers : requests[p] <= DailyLimit[p] + unlimited[p]
============================================================================
