------------------------------- MODULE KvCache -------------------------------
(****************************************************************************)
(* The KV caches of one node: its inference server (serve_mode of           *)
(* node_forward.py) keeps one per request, and its worker (ws_worker.rs)    *)
(* calls that server for each pass the coordinator asks of the node.        *)
(*                                                                          *)
(* InferenceRouting has the same passes cross the whole chain with a server *)
(* that remembers every request.  Here the node is alone and its memory is  *)
(* short: there is room for a few caches, a reaper thread drops the idle *)
(* ones, a pass can raise half-way, and it is run again over HTTP if that   *)
(* happens over TCP.  A cache is told by the number of tokens in it.        *)
(****************************************************************************)
EXTENDS Naturals, Sequences, FiniteSets

CONSTANTS
  Requests,     \* the requests the coordinator may route through the node
  Worlds,       \* what the surroundings may be; a behaviour is in one of them
  IdleTime,     \* HYVERK_KV_IDLE_TIMEOUT_S, in steps of the clock
  RequestTime,  \* the 120 s the coordinator gives a request
  Prompt        \* the tokens of a prompt

\* A world: the place of the node in the chain and, if it is not the first, how
\* its worker reaches the server; HYVERK_KV_MAX_ENTRIES; the passes each request
\* may take (a bound); whether a pass may raise and the worker give up on one.
\* (The last node gets no token over TCP at all: InferenceRouting.)
World == [role : {"first", "overTcp", "overHttp"}, capacity : Nat \ {0},
          passes : [Requests -> Nat], faults : BOOLEAN]

ASSUME KvAssumption ==
  /\ Worlds \subseteq World /\ Prompt \in Nat \ {0}
  /\ IdleTime \in Nat /\ RequestTime \in Nat /\ RequestTime < IdleTime

VARIABLES
  world,     \* the world of the behaviour
  phase,     \* per request: "new", "live" at the coordinator, or "ended"
  life,      \* per request, how long it has been live
  passes,    \* per request, the passes asked of the node so far
  answered,  \* per request, whether the node has answered the last of them
  inbox,     \* the messages on their way to the worker
  waiting,   \* whether the worker waits for an answer of the server
  queue,     \* the calls that wait for the server's one executor thread
  job,       \* the call that thread is at, or Free
  cached,    \* the requests with an entry in kv_cache_state
  newer,     \* per entry, those that come after it there: used since it was
  seen,      \* per entry, the tokens in its cache
  idle,      \* per entry, the time since its last_access
  since,     \* history: per request, the others served since its last pass
  crowded,   \* history: the requests since whose pass too many others were served
  rerun,     \* history: the requests of which a pass was run twice
  skewed     \* history: the live requests answered from some other context

coordVars == <<phase, life, passes>>
workerVars == <<answered, inbox, waiting, rerun, skewed>>
serverVars == <<queue, job>>
cacheVars == <<cached, newer, seen, idle>>
history == <<since, crowded>>
vars == <<world, coordVars, workerVars, serverVars, cacheVars, history>>

Free == [mode |-> "free"]
Oldest == IdleTime + 1      \* ages beyond it are not told apart

\* The tokens of the request's last pass, and those of its earlier ones.
Length(r) == IF passes[r] = 1 THEN Prompt ELSE 1
Earlier(r) == IF passes[r] = 1 THEN 0 ELSE Prompt + passes[r] - 2

KvInit ==
  /\ world \in Worlds
  /\ phase = [r \in Requests |-> "new"] /\ life = [r \in Requests |-> 0]
  /\ passes = [r \in Requests |-> 0] /\ answered = [r \in Requests |-> FALSE]
  /\ inbox = <<>> /\ waiting = FALSE /\ queue = <<>> /\ job = Free
  /\ cached = {} /\ newer = [r \in Requests |-> {}]
  /\ seen = [r \in Requests |-> 0] /\ idle = [r \in Requests |-> 0]
  /\ since = [r \in Requests |-> {}]
  /\ crowded = {} /\ rerun = {} /\ skewed = {}

----------------------------------------------------------------------------
(* The coordinator, and the clock *)

Message(kind, r) == [kind |-> kind, req |-> r]

\* The first pass of a request: InferenceStart, or the hidden states of the
\* prompt.
Begin(r) ==
  /\ phase[r] = "new" /\ world.passes[r] > 0
  /\ phase' = [phase EXCEPT ![r] = "live"]
  /\ passes' = [passes EXCEPT ![r] = 1]
  /\ inbox' = Append(inbox, Message("pass", r))
  /\ UNCHANGED <<world, life, answered, waiting, rerun, skewed, serverVars,
                 cacheVars, history>>

\* The next one, once the nodes that follow have made a token of the answer:
\* InferenceContinue, or the hidden states of one token.
NextPass(r) ==
  /\ phase[r] = "live" /\ answered[r] /\ passes[r] < world.passes[r]
  /\ passes' = [passes EXCEPT ![r] = @ + 1]
  /\ answered' = [answered EXCEPT ![r] = FALSE]
  /\ inbox' = Append(inbox, Message("pass", r))
  /\ UNCHANGED <<world, phase, life, waiting, rerun, skewed, serverVars, cacheVars,
                 history>>

\* The request has its text, or has failed elsewhere.  InferenceEnd reaches the
\* node or does not.
Finish(r) ==
  /\ phase[r] = "live"
  /\ phase' = [phase EXCEPT ![r] = "ended"]
  /\ inbox' \in {inbox, Append(inbox, Message("end", r))}
  /\ life' = [life EXCEPT ![r] = 0] /\ answered' = [answered EXCEPT ![r] = FALSE]
  /\ since' = [since EXCEPT ![r] = {}] /\ crowded' = crowded \ {r}
  /\ rerun' = rerun \ {r} /\ skewed' = skewed \ {r}
  /\ UNCHANGED <<world, passes, waiting, serverVars, cacheVars>>

\* Time passes, but for a request only until the coordinator gives it up.
Tick ==
  /\ \A r \in Requests : phase[r] = "live" => life[r] < RequestTime
  /\ life' = [r \in Requests |-> IF phase[r] = "live" THEN life[r] + 1 ELSE life[r]]
  /\ idle' = [r \in Requests |->
       IF r \in cached /\ idle[r] < Oldest THEN idle[r] + 1 ELSE idle[r]]
  /\ UNCHANGED <<world, phase, passes, workerVars, serverVars, cached, newer, seen,
                 history>>

----------------------------------------------------------------------------
(* The worker: handle_coordinator_message, handle_binary_forward *)

Call(mode, r, via) == [mode |-> mode, req |-> r, via |-> via, heard |-> TRUE]

\* The call a message leads to.  A node that is not the first of the chain runs
\* every pass alike; the first one embeds the prompt afresh and steps later.
CallOf(m) ==
  CASE m.kind = "end" -> Call("clear_cache", m.req, "http")
    [] m.kind = "pass" /\ world.role = "first" ->
         Call(IF passes[m.req] = 1 THEN "embed" ELSE "embed_step", m.req, "http")
    [] OTHER -> Call("forward", m.req, IF world.role = "overTcp" THEN "tcp" ELSE "http")

\* The worker turns to the next message and calls the server.
Handle ==
  /\ ~waiting /\ inbox # <<>>
  /\ inbox' = Tail(inbox)
  /\ queue' = Append(queue, CallOf(Head(inbox)))
  /\ waiting' = TRUE
  /\ UNCHANGED <<world, coordVars, answered, rerun, skewed, job, cacheVars, history>>

\* The client's 300 s are over, and so are the 120 s of the request: the worker
\* goes on, the server does not notice.  A call over TCP waits without limit.
GiveUp ==
  LET calls == {queue[i] : i \in DOMAIN queue} \cup ({job} \ {Free}) IN
  /\ waiting /\ world.faults
  /\ \A c \in calls : c.heard => c.via = "http" /\ phase[c.req] = "ended"
  /\ waiting' = FALSE
  /\ queue' = [i \in DOMAIN queue |-> [queue[i] EXCEPT !.heard = FALSE]]
  /\ job' = IF job = Free THEN job ELSE [job EXCEPT !.heard = FALSE]
  /\ UNCHANGED <<world, coordVars, answered, inbox, rerun, skewed, cacheVars, history>>

\* The call has been answered: with the result of a pass on a cache of base
\* tokens, which the worker sends on.
Answered(base) ==
  LET r == job.req IN
  /\ job' = Free
  /\ IF job.heard
     THEN /\ waiting' = FALSE
          /\ answered' = [answered EXCEPT ![r] = (phase[r] = "live")]
          /\ skewed' = IF phase[r] = "live" /\ base # Earlier(r)
                       THEN skewed \cup {r} ELSE skewed
     ELSE UNCHANGED <<waiting, answered, skewed>>
  /\ UNCHANGED <<queue, rerun>>

\* Or with an error: over TCP the pass is run again over HTTP; over HTTP
\* nothing comes of it, or the text of the error, of which no node makes a token.
Failed ==
  LET again == job.heard /\ job.via = "tcp" IN
  /\ job' = Free
  /\ queue' = IF again THEN Append(queue, Call(job.mode, job.req, "http")) ELSE queue
  /\ rerun' = IF again /\ phase[job.req] = "live" THEN rerun \cup {job.req} ELSE rerun
  /\ waiting' = (waiting /\ (again \/ ~job.heard))
  /\ UNCHANGED <<answered, skewed>>

----------------------------------------------------------------------------
(* The server's executor thread: handle_inference_sync *)

\* It takes a call.
Take ==
  /\ job = Free /\ queue # <<>>
  /\ queue' = Tail(queue)
  /\ job' = [mode |-> Head(queue).mode, req |-> Head(queue).req,
             via |-> Head(queue).via, heard |-> Head(queue).heard,
             at |-> IF Head(queue).mode = "embed_step" THEN "check"
                    ELSE IF Head(queue).mode = "clear_cache" THEN "clear" ELSE "enter",
             base |-> 0]
  /\ UNCHANGED <<world, coordVars, workerVars, cacheVars, history>>

\* Mutant of CheckKv: a step without a cache starts one.
CheckKvAllows ==
  /\ job # Free /\ job.at = "check"
  /\ job' = [job EXCEPT !.at = "enter"] /\ UNCHANGED <<answered, waiting, queue, rerun, skewed>>
  /\ UNCHANGED <<world, coordVars, inbox, cacheVars, history>>

\* embed_step looks for the cache, and lets go of kv_lock.
CheckKv ==
  /\ job # Free /\ job.at = "check"
  /\ \/ /\ job.req \in cached
        /\ job' = [job EXCEPT !.at = "enter"]
        /\ UNCHANGED <<answered, waiting, queue, rerun, skewed>>
     \/ /\ job.req \notin cached
        /\ Failed
  /\ UNCHANGED <<world, coordVars, inbox, cacheVars, history>>

\* move_to_end: which entries come after each once r is used.
Used(r) == [q \in Requests |-> IF q = r THEN {} ELSE newer[q] \cup {r}]

\* _lru_evict: the entries left when those used longest ago have made room.
Kept(entries, after) == {q \in entries : Cardinality(after[q]) < world.capacity}

\* The others served since a request's last pass, now that r is served.
Served(r) ==
  since' = [q \in Requests |->
    IF q = r \/ phase[q] # "live" THEN {} ELSE since[q] \cup {r}]

\* The first critical section of run_forward_kv: the entry is made or used,
\* and room made for it; the cache is the job's from here on.
EnterCache ==
  LET r == job.req
      fresh == job.mode = "embed" \/ r \notin cached
  IN
  /\ job # Free /\ job.at = "enter"
  /\ cached' = Kept(cached \cup {r}, Used(r))
  /\ newer' = [q \in Requests |-> IF q \in cached' THEN Used(r)[q] \cap cached' ELSE {}]
  /\ seen' = [q \in Requests |->
       IF q \in cached' /\ ~(q = r /\ fresh) THEN seen[q] ELSE 0]
  /\ idle' = [q \in Requests |-> IF q # r /\ q \in cached' THEN idle[q] ELSE 0]
  /\ job' = [job EXCEPT !.at = "run", !.base = IF fresh THEN 0 ELSE seen[r]]
  /\ Served(r)
  /\ crowded' = crowded \cup {q \in Requests : Cardinality(since'[q]) >= world.capacity}
  /\ UNCHANGED <<world, coordVars, workerVars, queue>>

\* The layers run without the lock and lengthen the cache, which the reaper may
\* have dropped; or one raises, when the first may have lengthened its own part.
RunLayers ==
  LET r == job.req
      longer == IF r \in cached THEN [seen EXCEPT ![r] = job.base + Length(r)] ELSE seen
  IN
  /\ job # Free /\ job.at = "run"
  /\ \/ /\ seen' = longer
        /\ Answered(job.base)
     \/ /\ world.faults
        /\ seen' \in {seen, longer}
        /\ Failed
  /\ UNCHANGED <<world, coordVars, inbox, cached, newer, idle, history>>

\* Entries are popped.
Forget(rs) ==
  /\ cached' = cached \ rs
  /\ newer' = [r \in Requests |-> IF r \in rs THEN {} ELSE newer[r] \ rs]
  /\ seen' = [r \in Requests |-> IF r \in rs THEN 0 ELSE seen[r]]
  /\ idle' = [r \in Requests |-> IF r \in rs THEN 0 ELSE idle[r]]

\* clear_cache; whether it worked is not looked at.
ClearCache ==
  /\ job # Free /\ job.at = "clear"
  /\ job' = Free
  /\ waiting' = (waiting /\ ~job.heard)
  /\ Forget({job.req})
  /\ UNCHANGED <<world, coordVars, answered, inbox, rerun, skewed, queue, history>>

----------------------------------------------------------------------------
(* The reaper thread: _reap_idle_kv *)

\* Mutant of Reap: kv_lock is held while the layers run.
ReapBetweenPasses ==
  /\ \E r \in cached : idle[r] > IdleTime
  /\ ~(job # Free /\ job.at = "run")
  /\ Forget({r \in cached : idle[r] > IdleTime})
  /\ UNCHANGED <<world, coordVars, workerVars, serverVars, history>>

\* The entries not used for too long, under kv_lock.
Reap ==
  /\ \E r \in cached : idle[r] > IdleTime
  /\ Forget({r \in cached : idle[r] > IdleTime})
  /\ UNCHANGED <<world, coordVars, workerVars, serverVars, history>>

----------------------------------------------------------------------------

KvNext ==
  \/ \E r \in Requests : Begin(r) \/ NextPass(r) \/ Finish(r)
  \/ Tick \/ Handle \/ GiveUp
  \/ Take \/ CheckKv \/ EnterCache \/ RunLayers \/ ClearCache \/ Reap

\* The clock goes on, the coordinator's timeout and the reaper run.  Neither the
\* worker nor the executor has to go on: a pass may hang in the GPU.
KvFairness ==
  /\ WF_vars(Tick) /\ WF_vars(Reap)
  /\ \A r \in Requests : WF_vars(life[r] = RequestTime /\ Finish(r))

KvSpec == KvInit /\ [][KvNext]_vars /\ KvFairness

----------------------------------------------------------------------------
(* Properties *)

\* A live request is answered from exactly its earlier tokens, as the next token
\* of its text must be: the idle reaper never takes its cache, not even between
\* the check of a step and the step.  Its context is another only if as many
\* others as there is room for were served since its last pass, or a pass was run
\* twice, and then never at the first node, which refuses to step without a cache.
AnswersWhole ==
  \A r \in skewed : world.role # "first" /\ (r \in crowded \/ r \in rerun)

\* The cache of a request that is over goes, also when InferenceEnd was lost,
\* the worker gave up on the server, a late pass of the request made its entry
\* anew, or the executor hangs.
IdleReleased ==
  \A r \in Requests : phase[r] = "ended" ~> r \notin cached

=============================================================================
