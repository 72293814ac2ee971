---------------------------- MODULE KvCacheProofs ----------------------------
(****************************************************************************)
(* Proofs about KvCache, for any requests, clock and set of worlds: a live  *)
(* request is answered from its own earlier tokens (AnswersWhole).          *)
(****************************************************************************)
EXTENDS KvCache, FiniteSetTheorems, TLAPS

Modes == {"embed", "embed_step", "forward", "clear_cache"}
Messages == [kind : {"pass", "end"}, req : Requests]
Calls == [mode : Modes, req : Requests, via : {"tcp", "http"}, heard : BOOLEAN]
Jobs == [mode : Modes, req : Requests, via : {"tcp", "http"}, heard : BOOLEAN,
         at : {"check", "enter", "run", "clear"}, base : Nat]

KvTypeOK ==
  /\ world \in Worlds
  /\ phase \in [Requests -> {"new", "live", "ended"}]
  /\ life \in [Requests -> Nat] /\ passes \in [Requests -> Nat]
  /\ answered \in [Requests -> BOOLEAN] /\ waiting \in BOOLEAN
  /\ inbox \in Seq(Messages) /\ queue \in Seq(Calls) /\ job \in {Free} \cup Jobs
  /\ cached \in SUBSET Requests /\ newer \in [Requests -> SUBSET Requests]
  /\ seen \in [Requests -> Nat] /\ idle \in [Requests -> Nat]
  /\ since \in [Requests -> SUBSET Requests]
  /\ crowded \in SUBSET Requests /\ rerun \in SUBSET Requests
  /\ skewed \in SUBSET Requests

Live(r) == phase[r] = "live"

\* What is in a sequence; the requests of it; that one has no two elements there.
Elems(s) == {s[i] : i \in DOMAIN s}
Has(s, r) == \E e \in Elems(s) : e.req = r
Once(s, r) == \A i, j \in DOMAIN s : s[i].req = r /\ s[j].req = r => i = j

\* Where a request can be under way: in a message, in a call, at the executor.
AtWork(r) == job # Free /\ job.req = r
Asked(r) == Has(inbox, r) \/ Has(queue, r) \/ (AtWork(r) /\ job.at # "run")

\* The mode of a request's last pass.
ModeOf(r) ==
  IF world.role # "first" THEN "forward"
  ELSE IF passes[r] = 1 THEN "embed" ELSE "embed_step"

\* A message to a live request's node asks for a pass.
MessageOK(m) == phase[m.req] # "new" /\ (Live(m.req) => m.kind = "pass")

\* A call that nobody waits for is of a request that is over; one over TCP is
\* made at a node reached that way; one of a live request is its last pass.
CallOK(c) ==
  /\ ~c.heard => phase[c.req] = "ended"
  /\ c.via = "tcp" => world.role = "overTcp"
  /\ phase[c.req] # "new"
  /\ Live(c.req) => c.mode = ModeOf(c.req)

CallsOK ==
  /\ \A m \in Elems(inbox) : MessageOK(m)
  /\ \A c \in Elems(queue) : CallOK(c)
  /\ job # Free => /\ CallOK(job)
                   /\ job.at = "check" => job.mode = "embed_step"
                   /\ job.at = "clear" => job.mode = "clear_cache"

\* A request that has not begun has left no trace.
Unborn ==
  \A r \in Requests : phase[r] = "new" =>
    life[r] = 0 /\ ~answered[r] /\ r \notin cached /\ r \notin rerun /\ r \notin skewed

\* A live request is under way in one place, or answered, or neither.
Placed(r) ==
  /\ passes[r] > 0
  /\ Once(inbox, r) /\ Once(queue, r)
  /\ ~(Has(inbox, r) /\ Has(queue, r))
  /\ ~(Has(inbox, r) /\ AtWork(r)) /\ ~(Has(queue, r) /\ AtWork(r))
  /\ answered[r] => ~Has(inbox, r) /\ ~Has(queue, r) /\ ~AtWork(r)
OnePlace == \A r \in Requests : Live(r) => Placed(r)

Places == CallsOK /\ Unborn /\ OnePlace

\* Fewer others than there is room for were served, or the request is marked.
SinceOK ==
  \A r \in Requests :
    /\ IsFiniteSet(since[r])
    /\ r \notin crowded => Cardinality(since[r]) < world.capacity

\* The entry of a live request was used after the request began, and the entries
\* used after it are of others served since.
Fresh(r) ==
  /\ life[r] <= RequestTime
  /\ r \in cached => idle[r] <= life[r] /\ newer[r] \subseteq since[r]

\* If the request was neither crowded out nor run twice, or is at a first node,
\* then its cache holds what its next pass must find;
Undisturbed(r) == r \notin crowded /\ r \notin rerun
Fits(r) ==
  /\ answered[r] /\ r \in cached => seen[r] = Earlier(r) + Length(r)
  /\ Asked(r) /\ r \in cached => passes[r] > 1 /\ seen[r] = Earlier(r)
  /\ AtWork(r) /\ job.at = "run" => job.base = Earlier(r)
  /\ AtWork(r) /\ job.at = "enter" /\ job.mode = "embed_step" => r \in cached

\* and in the first case it is there when that pass comes.
Due(r) ==
  \/ answered[r] \/ (Asked(r) /\ passes[r] > 1)
  \/ AtWork(r) /\ job.at = "run"

Intact(r) ==
  /\ Fresh(r)
  /\ world.role = "first" \/ Undisturbed(r) => Fits(r)
  /\ Undisturbed(r) /\ Due(r) => r \in cached

Caches == SinceOK /\ \A r \in Requests : Live(r) => Intact(r)

IInv == KvTypeOK /\ Places /\ Caches /\ AnswersWhole

----------------------------------------------------------------------------
(* Sequences, worlds *)

\* A sequence that has got one more element at its end.
LEMMA Appended ==
  ASSUME NEW S, NEW s \in Seq(S), NEW e \in S
  PROVE  /\ Append(s, e) \in Seq(S)
         /\ Elems(Append(s, e)) = Elems(s) \cup {e}
         /\ \A r : Has(Append(s, e), r) <=> Has(s, r) \/ e.req = r
         /\ \A r : Once(s, r) /\ (e.req = r => ~Has(s, r)) => Once(Append(s, e), r)
<1> DEFINE t == Append(s, e)
<1>1. /\ t \in Seq(S) /\ Len(s) \in Nat /\ DOMAIN s = 1..Len(s)
      /\ DOMAIN t = 1..(Len(s) + 1)
      /\ \A i \in DOMAIN s : t[i] = s[i]
      /\ t[Len(s) + 1] = e
  OBVIOUS
<1> HIDE DEF t
<1>2. Elems(t) = Elems(s) \cup {e}
  <2>1. ASSUME NEW i \in DOMAIN t PROVE t[i] \in Elems(s) \cup {e}
    <3>1. CASE i = Len(s) + 1
      BY <1>1, <3>1
    <3>2. CASE i # Len(s) + 1
      <4>1. i \in DOMAIN s
        BY <1>1, <3>2
      <4> QED BY <1>1, <4>1 DEF Elems
    <3> QED BY <3>1, <3>2
  <2>2. ASSUME NEW x \in Elems(s) \cup {e} PROVE x \in Elems(t)
    <3>1. CASE x = e
      <4>1. Len(s) + 1 \in DOMAIN t
        BY <1>1
      <4> QED BY <1>1, <3>1, <4>1 DEF Elems
    <3>2. CASE x \in Elems(s)
      <4>1. PICK i \in DOMAIN s : x = s[i]
        BY <3>2 DEF Elems
      <4>2. i \in DOMAIN t
        BY <1>1
      <4> QED BY <1>1, <4>1, <4>2 DEF Elems
    <3> QED BY <3>1, <3>2
  <2> QED BY <2>1, <2>2 DEF Elems
<1>3. \A r : Has(t, r) <=> Has(s, r) \/ e.req = r
  BY <1>2 DEF Has
<1>4. ASSUME NEW r, Once(s, r), e.req = r => ~Has(s, r) PROVE Once(t, r)
  <2>1. \A i \in DOMAIN s : s[i] \in Elems(s)
    BY DEF Elems
  <2> SUFFICES ASSUME NEW i \in DOMAIN t, NEW j \in DOMAIN t, t[i].req = r, t[j].req = r
               PROVE  i = j
    BY DEF Once
  <2>2. CASE e.req = r
    <3>1. ~(i \in DOMAIN s) /\ ~(j \in DOMAIN s)
      BY <1>1, <1>4, <2>1, <2>2 DEF Has
    <3> QED BY <1>1, <3>1
  <2>3. CASE e.req # r
    <3>1. i # Len(s) + 1 /\ j # Len(s) + 1
      BY <1>1, <2>3
    <3>2. i \in DOMAIN s /\ j \in DOMAIN s
      BY <1>1, <3>1
    <3> QED BY <1>1, <1>4, <3>2 DEF Once
  <2> QED BY <2>2, <2>3
<1> QED BY <1>1, <1>2, <1>3, <1>4 DEF t

\* One that has lost its first.
LEMMA Shortened ==
  ASSUME NEW S, NEW s \in Seq(S), s # <<>>
  PROVE  /\ Tail(s) \in Seq(S) /\ Head(s) \in S /\ Head(s) \in Elems(s)
         /\ Elems(Tail(s)) \subseteq Elems(s)
         /\ \A r : Has(s, r) <=> Has(Tail(s), r) \/ Head(s).req = r
         /\ \A r : Once(s, r) =>
              Once(Tail(s), r) /\ (Head(s).req = r => ~Has(Tail(s), r))
<1> DEFINE t == Tail(s)
           h == Head(s)
<1>1. /\ t \in Seq(S) /\ h \in S /\ h = s[1] /\ Len(s) \in Nat /\ Len(s) > 0
      /\ DOMAIN t = 1..(Len(s) - 1) /\ DOMAIN s = 1..Len(s)
      /\ \A i \in DOMAIN t : t[i] = s[i + 1]
  OBVIOUS
<1> HIDE DEF t, h
<1>2. 1 \in DOMAIN s /\ \A i \in DOMAIN t : i + 1 \in DOMAIN s /\ i \in Nat
  BY <1>1
<1>3. h \in Elems(s)
  BY <1>1, <1>2 DEF Elems
<1>4. Elems(t) \subseteq Elems(s)
  BY <1>1, <1>2 DEF Elems
<1>5. ASSUME NEW x \in Elems(s), x # h PROVE x \in Elems(t)
  <2>1. PICK i \in DOMAIN s : x = s[i]
    BY DEF Elems
  <2>2. i # 1
    BY <2>1, <1>1, <1>5
  <2>3. i - 1 \in DOMAIN t /\ (i - 1) + 1 = i
    BY <1>1, <2>2
  <2>4. t[i - 1] = s[i]
    BY <1>1, <2>3
  <2> QED BY <2>1, <2>3, <2>4 DEF Elems
<1>6. \A r : Has(s, r) <=> Has(t, r) \/ h.req = r
  BY <1>3, <1>4, <1>5 DEF Has
<1>7. ASSUME NEW r, Once(s, r) PROVE Once(t, r) /\ (h.req = r => ~Has(t, r))
  <2>1. Once(t, r)
    <3> SUFFICES ASSUME NEW i \in DOMAIN t, NEW j \in DOMAIN t, t[i].req = r, t[j].req = r
                 PROVE  i = j
      BY DEF Once
    <3>1. i + 1 = j + 1
      BY <1>1, <1>2, <1>7 DEF Once
    <3> QED BY <1>1, <3>1
  <2>2. ASSUME h.req = r, Has(t, r) PROVE FALSE
    <3>1. PICK i \in DOMAIN t : t[i].req = r
      BY <2>2 DEF Has, Elems
    <3>2. s[i + 1].req = r /\ s[1].req = r
      BY <1>1, <2>2, <3>1
    <3>3. i + 1 = 1
      BY <1>2, <1>7, <3>2 DEF Once
    <3> QED BY <1>1, <3>3
  <2> QED BY <2>1, <2>2
<1> QED BY <1>1, <1>3, <1>4, <1>6, <1>7 DEF t, h

\* The messages and the calls under way are messages and calls.
LEMMA InPlaces ==
  ASSUME KvTypeOK
  PROVE  /\ \A c \in Elems(queue) : c \in Calls /\ c.req \in Requests
         /\ \A c \in Elems(inbox) : c \in Messages /\ c.req \in Requests
<1>1. \A i \in DOMAIN queue : queue[i] \in Calls
  BY DEF KvTypeOK
<1>2. \A i \in DOMAIN inbox : inbox[i] \in Messages
  BY DEF KvTypeOK
<1> QED BY <1>1, <1>2 DEF Elems, Calls, Messages

\* What a world gives, and a call at the executor.
LEMMA InAWorld ==
  ASSUME KvTypeOK
  PROVE  /\ world.role \in {"first", "overTcp", "overHttp"}
         /\ world.capacity \in Nat /\ world.capacity > 0
         /\ world.passes \in [Requests -> Nat]
  BY KvAssumption DEF KvTypeOK, World

\* What the call at the executor carries.
LEMMA AtExecutor ==
  ASSUME KvTypeOK, job # Free
  PROVE  /\ job \in Jobs /\ job.req \in Requests /\ job.mode \in Modes
         /\ job.via \in {"tcp", "http"} /\ job.heard \in BOOLEAN /\ job.base \in Nat
         /\ job.at \in {"check", "enter", "run", "clear"}
  BY DEF KvTypeOK, Jobs

\* A call is not the absence of one.
LEMMA JobNotFree == ASSUME NEW j \in Jobs PROVE j # Free
  BY DEF Jobs, Free, Modes

\* The tokens of a pass, and of those before it.
LEMMA Tokens ==
  ASSUME KvTypeOK, NEW r \in Requests, passes[r] > 0
  PROVE  Length(r) \in Nat /\ Earlier(r) \in Nat
  BY KvAssumption DEF KvTypeOK, Length, Earlier

----------------------------------------------------------------------------
(* Types *)

\* Each variable keeps its type.
LEMMA KvTypeInvariant == ASSUME KvTypeOK, [KvNext]_vars PROVE KvTypeOK'
<1>1. CASE \E r \in Requests : Begin(r) \/ NextPass(r) \/ Finish(r)
  <2>1. PICK r \in Requests : Begin(r) \/ NextPass(r) \/ Finish(r)
    BY <1>1
  <2>2. Message("pass", r) \in Messages /\ Message("end", r) \in Messages
    BY DEF Message, Messages
  <2>3. \A m \in Messages : Append(inbox, m) \in Seq(Messages)
    BY Appended DEF KvTypeOK
  <2>4. CASE Begin(r)
    BY <2>2, <2>3, <2>4 DEF KvTypeOK, Begin, workerVars, serverVars, cacheVars, history
  <2>5. CASE NextPass(r)
    BY <2>2, <2>3, <2>5 DEF KvTypeOK, NextPass, workerVars, serverVars, cacheVars, history
  <2>6. CASE Finish(r)
    BY <2>2, <2>3, <2>6 DEF KvTypeOK, Finish, workerVars, serverVars, cacheVars, history
  <2> QED BY <2>1, <2>4, <2>5, <2>6
<1>2. CASE Tick
  BY <1>2 DEF KvTypeOK, Tick, workerVars, serverVars, history
<1>3. CASE Handle
  <2>1. Head(inbox) \in Messages /\ Tail(inbox) \in Seq(Messages)
    BY <1>3, Shortened DEF Handle, KvTypeOK
  <2>2. CallOf(Head(inbox)) \in Calls
    BY <2>1 DEF CallOf, Call, Calls, Messages, Modes
  <2>3. Append(queue, CallOf(Head(inbox))) \in Seq(Calls)
    BY <2>2, Appended DEF KvTypeOK
  <2> QED BY <1>3, <2>1, <2>3 DEF KvTypeOK, Handle, coordVars, cacheVars, history
<1>4. CASE GiveUp
  <2>1. \A i \in DOMAIN queue : queue[i] \in Calls
    BY DEF KvTypeOK
  <2>2. \A i \in DOMAIN queue : [queue[i] EXCEPT !.heard = FALSE] \in Calls
    BY <2>1 DEF Calls
  <2>3. queue' \in Seq(Calls)
    <3>1. queue' = [i \in 1..Len(queue) |-> [queue[i] EXCEPT !.heard = FALSE]]
      BY <1>4 DEF GiveUp, KvTypeOK
    <3> QED BY <2>2, <3>1 DEF KvTypeOK
  <2>4. job' \in {Free} \cup Jobs
    BY <1>4 DEF GiveUp, KvTypeOK, Jobs
  <2> QED BY <1>4, <2>3, <2>4 DEF KvTypeOK, GiveUp, coordVars, cacheVars, history
<1>5. CASE Take
  <2>1. Head(queue) \in Calls /\ Tail(queue) \in Seq(Calls)
    BY <1>5, Shortened DEF Take, KvTypeOK
  <2>2. job' \in Jobs
    BY <1>5, <2>1 DEF Take, Jobs, Calls
  <2> QED
    BY <1>5, <2>1, <2>2 DEF KvTypeOK, Take, coordVars, workerVars, cacheVars, history
<1>6. ASSUME job # Free, Failed, NEW S \in SUBSET Requests PROVE
        /\ queue' \in Seq(Calls) /\ job' \in {Free} \cup Jobs
        /\ rerun' \in SUBSET Requests /\ waiting' \in BOOLEAN
        /\ answered' = answered /\ skewed' = skewed
  <2>1. Call(job.mode, job.req, "http") \in Calls
    BY <1>6, AtExecutor DEF Call, Calls
  <2>2. Append(queue, Call(job.mode, job.req, "http")) \in Seq(Calls)
    BY <2>1, Appended DEF KvTypeOK
  <2> QED BY <1>6, <2>2, AtExecutor DEF Failed, KvTypeOK
<1>7. CASE CheckKv
  <2>1. CASE job.req \in cached /\ job' = [job EXCEPT !.at = "enter"]
             /\ UNCHANGED <<answered, waiting, queue, rerun, skewed>>
    <3>1. job' \in Jobs
      BY <1>7, <2>1, AtExecutor DEF CheckKv, Jobs
    <3> QED BY <1>7, <2>1, <3>1 DEF KvTypeOK, CheckKv, coordVars, cacheVars, history
  <2>2. CASE Failed
    BY <1>7, <2>2, <1>6 DEF KvTypeOK, CheckKv, coordVars, cacheVars, history
  <2> QED BY <1>7, <2>1, <2>2 DEF CheckKv
<1>8. CASE EnterCache
  <2>1. cached' \in SUBSET Requests
    BY <1>8, AtExecutor DEF EnterCache, Kept, KvTypeOK
  <2>2. newer' \in [Requests -> SUBSET Requests]
    BY <1>8, <2>1 DEF EnterCache
  <2>3. seen' \in [Requests -> Nat] /\ idle' \in [Requests -> Nat]
    BY <1>8 DEF EnterCache, KvTypeOK
  <2>4. since' \in [Requests -> SUBSET Requests] /\ crowded' \in SUBSET Requests
    BY <1>8, AtExecutor DEF EnterCache, KvTypeOK, Served
  <2>5. job' \in Jobs
    <3>1. DEFINE base == IF job.mode = "embed" \/ job.req \notin cached
                         THEN 0 ELSE seen[job.req]
    <3>2. base \in Nat
      BY <1>8, AtExecutor DEF EnterCache, KvTypeOK
    <3>3. job' = [job EXCEPT !.at = "run", !.base = base]
      BY <1>8 DEF EnterCache
    <3> HIDE DEF base
    <3> QED BY <1>8, <3>2, <3>3, AtExecutor DEF EnterCache, Jobs
  <2> QED
    BY <1>8, <2>1, <2>2, <2>3, <2>4, <2>5 DEF KvTypeOK, EnterCache, coordVars, workerVars
<1>9. CASE RunLayers
  <2>1. job # Free
    BY <1>9 DEF RunLayers
  <2>2. seen' \in [Requests -> Nat]
    <3> DEFINE length == job.base + Length(job.req)
    <3>1. length \in Nat
      BY <2>1, AtExecutor, KvAssumption DEF KvTypeOK, Length
    <3>2. seen' = seen \/ seen' = [seen EXCEPT ![job.req] = length]
      BY <1>9 DEF RunLayers
    <3> HIDE DEF length
    <3> QED BY <3>1, <3>2 DEF KvTypeOK
  <2>3. CASE Answered(job.base)
    <3>1. /\ job' \in {Free} \cup Jobs /\ waiting' \in BOOLEAN
          /\ answered' \in [Requests -> BOOLEAN] /\ skewed' \in SUBSET Requests
          /\ queue' = queue /\ rerun' = rerun
      <4>1. CASE job.heard
        <5> DEFINE alive == phase[job.req] = "live"
        <5>1. alive \in BOOLEAN /\ job.req \in Requests
          BY <2>1, AtExecutor
        <5>2. answered' = [answered EXCEPT ![job.req] = alive]
          BY <2>3, <4>1 DEF Answered
        <5>3. skewed' = skewed \/ skewed' = skewed \cup {job.req}
          BY <2>3, <4>1 DEF Answered
        <5>4. job' = Free /\ waiting' = FALSE /\ queue' = queue /\ rerun' = rerun
          BY <2>3, <4>1 DEF Answered
        <5> HIDE DEF alive
        <5>5. answered' \in [Requests -> BOOLEAN]
          BY <5>1, <5>2 DEF KvTypeOK
        <5>6. skewed' \in SUBSET Requests
          BY <5>1, <5>3 DEF KvTypeOK
        <5> QED BY <5>4, <5>5, <5>6
      <4>2. CASE ~job.heard
        BY <2>3, <4>2 DEF KvTypeOK, Answered
      <4> QED BY <4>1, <4>2
    <3> QED BY <1>9, <2>2, <3>1 DEF KvTypeOK, RunLayers, coordVars, history
  <2>4. CASE Failed
    BY <1>9, <2>1, <2>2, <2>4, <1>6 DEF KvTypeOK, RunLayers, coordVars, history
  <2> QED BY <1>9, <2>3, <2>4 DEF RunLayers
<1>10. ASSUME NEW rs, Forget(rs) PROVE
         /\ cached' \in SUBSET Requests /\ newer' \in [Requests -> SUBSET Requests]
         /\ seen' \in [Requests -> Nat] /\ idle' \in [Requests -> Nat]
  BY <1>10 DEF Forget, KvTypeOK
<1>11. CASE ClearCache
  <2>1. Forget({job.req})
    BY <1>11 DEF ClearCache
  <2> QED BY <1>11, <2>1, <1>10, AtExecutor DEF KvTypeOK, ClearCache, coordVars, history
<1>12. CASE Reap
  <2>1. Forget({r \in cached : idle[r] > IdleTime})
    BY <1>12 DEF Reap
  <2> QED
    BY <1>12, <2>1, <1>10 DEF KvTypeOK, Reap, coordVars, workerVars, serverVars, history
<1>13. CASE UNCHANGED vars
  BY <1>13 DEF KvTypeOK, vars, coordVars, workerVars, serverVars, cacheVars, history
<1> QED
  BY <1>1, <1>2, <1>3, <1>4, <1>5, <1>7, <1>8, <1>9, <1>11, <1>12, <1>13 DEF KvNext

----------------------------------------------------------------------------
(* Where a request is under way *)

\* The coordinator sends a message of a request that is nowhere under way, or of
\* one that is over.
LEMMA PlacesSent ==
  ASSUME KvTypeOK, Places, NEW r \in Requests, NEW m \in Messages, m.req = r,
         inbox' = Append(inbox, m), UNCHANGED <<world, queue, job>>,
         Live(r)' => m.kind = "pass" /\ ~Has(inbox, r) /\ ~Has(queue, r) /\ ~AtWork(r),
         Live(r)' => passes'[r] > 0 /\ ~answered'[r],
         phase'[r] \in {"live", "ended"},
         \A q \in Requests \ {r} : /\ phase'[q] = phase[q] /\ passes'[q] = passes[q]
                                   /\ answered'[q] = answered[q]
  PROVE  CallsOK' /\ OnePlace'
<1>1. /\ Elems(inbox') = Elems(inbox) \cup {m}
      /\ \A q : Has(inbox', q) <=> Has(inbox, q) \/ q = r
      /\ \A q : Once(inbox, q) /\ (q = r => ~Has(inbox, q)) => Once(inbox', q)
  <2>1. inbox \in Seq(Messages)
    BY DEF KvTypeOK
  <2>2. /\ Elems(Append(inbox, m)) = Elems(inbox) \cup {m}
        /\ \A q : Has(Append(inbox, m), q) <=> Has(inbox, q) \/ m.req = q
        /\ \A q : Once(inbox, q) /\ (m.req = q => ~Has(inbox, q))
             => Once(Append(inbox, m), q)
    BY <2>1, Appended
  <2>3. Elems(inbox') = Elems(inbox) \cup {m}
    BY <2>2
  <2>4. \A q : Has(inbox', q) <=> Has(inbox, q) \/ q = r
    BY <2>2
  <2>5. \A q : Once(inbox, q) /\ (q = r => ~Has(inbox, q)) => Once(inbox', q)
    BY <2>2
  <2> QED BY <2>3, <2>4, <2>5
<1>2. /\ \A c \in Elems(queue) : c \in Calls /\ c.req \in Requests
      /\ \A c \in Elems(inbox) : c \in Messages /\ c.req \in Requests
  BY InPlaces
<1>3. ASSUME NEW c \in Calls \cup Jobs, CallOK(c), Live(r)' => c.req # r
      PROVE  CallOK(c)'
  <2>1. c.req \in Requests
    BY DEF Calls, Jobs
  <2>2. CASE c.req = r
    BY <1>3, <2>2 DEF CallOK, Live
  <2>3. CASE c.req # r
    BY <1>3, <2>1, <2>3 DEF CallOK, Live, ModeOf
  <2> QED BY <2>2, <2>3
<1>4. \A e \in Elems(inbox') : MessageOK(e)'
  <2> SUFFICES ASSUME NEW e \in Elems(inbox') PROVE MessageOK(e)'
    OBVIOUS
  <2>1. CASE e.req = r
    BY <1>1, <1>2, <2>1 DEF MessageOK, Live, Has
  <2>2. CASE e.req # r
    BY <1>1, <1>2, <2>2 DEF MessageOK, Live, Places, CallsOK
  <2> QED BY <2>1, <2>2
<1>5. \A c \in Elems(queue) : CallOK(c)'
  BY <1>2, <1>3 DEF Places, CallsOK, Has
<1>6. job # Free => CallOK(job)'
  <2> SUFFICES ASSUME job # Free PROVE CallOK(job)'
    OBVIOUS
  <2>1. job \in Jobs /\ CallOK(job) /\ (Live(r)' => job.req # r)
    BY AtExecutor DEF Places, CallsOK, AtWork
  <2> HIDE DEF CallOK
  <2>2. \A c \in Calls \cup Jobs : CallOK(c) /\ (Live(r)' => c.req # r) => CallOK(c)'
    BY <1>3
  <2>3. PICK c \in Jobs : c = job
    BY <2>1
  <2>4. CallOK(c)'
    BY <2>1, <2>2, <2>3
  <2>5. job' = c
    BY <2>3
  <2> QED BY <2>4, <2>5, <2>3 DEF CallOK, Live, ModeOf
<1>7. CallsOK'
  BY <1>4, <1>5, <1>6 DEF CallsOK, Places, CallOK, Live, ModeOf
<1>8. OnePlace'
  <2> SUFFICES ASSUME NEW q \in Requests, Live(q)' PROVE Placed(q)'
    BY DEF OnePlace
  <2>1. (AtWork(q)' <=> AtWork(q)) /\ queue' = queue
    BY DEF AtWork
  <2>2. CASE q = r
    <3>1. ~Has(inbox, q) => Once(inbox, q) /\ Once(queue, q)
      BY <2>2 DEF Has, Once, Elems
    <3> QED BY <1>1, <2>1, <2>2, <3>1 DEF Placed
  <2>3. CASE q # r
    <3>1. Live(q) /\ Placed(q)
      BY <2>3 DEF Live, Places, OnePlace
    <3> QED BY <1>1, <2>1, <2>3, <3>1 DEF Placed
  <2> QED BY <2>2, <2>3
<1> QED BY <1>7, <1>8

\* A request begins, is asked for another pass, or ends.
LEMMA PlacesCoordinator ==
  ASSUME KvTypeOK, Places, NEW r \in Requests, Begin(r) \/ NextPass(r) \/ Finish(r)
  PROVE  Places'
<1>1. /\ Message("pass", r) \in Messages /\ Message("end", r) \in Messages
      /\ Message("pass", r).req = r /\ Message("end", r).req = r
      /\ Message("pass", r).kind = "pass"
  BY DEF Message, Messages
<1>2. phase[r] = "new" => ~Has(inbox, r) /\ ~Has(queue, r) /\ ~AtWork(r)
  BY DEF Places, CallsOK, CallOK, MessageOK, Has, AtWork
<1>3. CASE Begin(r)
  <2>1. CallsOK' /\ OnePlace'
    <3>1. /\ ~Has(inbox, r) /\ ~Has(queue, r) /\ ~AtWork(r)
          /\ passes'[r] > 0 /\ ~answered'[r] /\ phase'[r] = "live"
      BY <1>2, <1>3 DEF Begin, KvTypeOK, Places, Unborn
    <3> QED BY <1>1, <1>3, <3>1, PlacesSent DEF Begin, KvTypeOK, serverVars
  <2>2. Unborn'
    BY <1>3 DEF Begin, cacheVars, Places, Unborn, KvTypeOK
  <2> QED BY <2>1, <2>2 DEF Places
<1>4. CASE NextPass(r)
  <2>1. CallsOK' /\ OnePlace'
    <3>1. /\ ~Has(inbox, r) /\ ~Has(queue, r) /\ ~AtWork(r)
          /\ passes'[r] > 0 /\ ~answered'[r] /\ phase'[r] = "live"
      BY <1>4 DEF NextPass, KvTypeOK, Places, OnePlace, Placed, Live
    <3> QED BY <1>1, <1>4, <3>1, PlacesSent DEF NextPass, KvTypeOK, serverVars
  <2>2. Unborn'
    BY <1>4 DEF NextPass, cacheVars, Places, Unborn, KvTypeOK
  <2> QED BY <2>1, <2>2 DEF Places
<1>5. CASE Finish(r)
  <2>1. ~Live(r)' /\ phase'[r] = "ended"
    BY <1>5 DEF Finish, KvTypeOK, Live
  <2>2. CallsOK' /\ OnePlace'
    <3>1. CASE inbox' = Append(inbox, Message("end", r))
      BY <1>1, <1>5, <2>1, <3>1, PlacesSent DEF Finish, KvTypeOK, serverVars
    <3>2. CASE inbox' = inbox
      <4>1. UNCHANGED <<world, queue, job, passes>>
        BY <1>5 DEF Finish, serverVars
      <4>2. \A q \in Requests \ {r} : phase'[q] = phase[q] /\ answered'[q] = answered[q]
        BY <1>5 DEF Finish, KvTypeOK
      <4>3. \A m \in Elems(inbox) : MessageOK(m)'
        BY <2>1, <4>2, InPlaces DEF Places, CallsOK, MessageOK, Live
      <4>4. ASSUME NEW c \in Calls \cup Jobs, CallOK(c) PROVE CallOK(c)'
        <5>1. c.req \in Requests
          BY DEF Calls, Jobs
        <5> QED BY <2>1, <4>1, <4>2, <4>4, <5>1 DEF CallOK, Live, ModeOf
      <4>5. \A c \in Elems(queue) : CallOK(c)'
        BY <4>4, InPlaces DEF Places, CallsOK
      <4>6. job # Free => CallOK(job)'
        <5>1. job # Free => job \in Jobs /\ job.req \in Requests /\ CallOK(job)
          BY AtExecutor DEF Places, CallsOK
        <5> QED BY <2>1, <4>1, <4>2, <5>1 DEF CallOK, Live, ModeOf
      <4>7. CallsOK'
        BY <3>2, <4>1, <4>3, <4>5, <4>6
        DEF Places, CallsOK, CallOK, MessageOK, Live, ModeOf
      <4>8. ASSUME NEW q \in Requests, Live(q)' PROVE Placed(q)'
        <5>1. q # r /\ Live(q)
          BY <2>1, <4>2, <4>8 DEF Live
        <5> QED BY <3>2, <4>1, <4>2, <5>1 DEF Placed, Places, OnePlace, AtWork
      <4> QED BY <4>7, <4>8 DEF OnePlace
    <3> QED BY <1>5, <3>1, <3>2 DEF Finish
  <2>3. Unborn'
    BY <1>5, <2>1 DEF Finish, cacheVars, Places, Unborn, KvTypeOK
  <2> QED BY <2>2, <2>3 DEF Places
<1> QED BY <1>3, <1>4, <1>5

\* What a message or a call must be like depends on the requests alone.
LEMMA SameRequests ==
  ASSUME UNCHANGED <<world, phase, passes>>
  PROVE  /\ \A m : MessageOK(m)' <=> MessageOK(m)
         /\ \A c : CallOK(c)' <=> CallOK(c)
         /\ \A r \in Requests : Live(r)' <=> Live(r)
  BY DEF MessageOK, CallOK, Live, ModeOf

\* The worker turns to a message.
LEMMA PlacesHandled == ASSUME KvTypeOK, Places, Handle PROVE Places'
<1> DEFINE m == Head(inbox)
           c == CallOf(m)
<1>1. /\ inbox \in Seq(Messages) /\ queue \in Seq(Calls) /\ inbox # <<>>
      /\ inbox' = Tail(inbox) /\ queue' = Append(queue, c)
      /\ UNCHANGED <<world, phase, life, passes, answered, rerun, skewed, job, cached>>
  BY DEF Handle, KvTypeOK, coordVars, cacheVars
<1>2. m \in Messages /\ m \in Elems(inbox)
  BY <1>1, Shortened
<1>3. c \in Calls /\ c.req = m.req /\ m.req \in Requests
  BY <1>2 DEF CallOf, Call, Calls, Messages, Modes
<1>4. CallOK(c)
  <2>1. phase[m.req] # "new" /\ (Live(m.req) => m.kind = "pass")
    BY <1>2 DEF Places, CallsOK, MessageOK
  <2>2. c.heard /\ (c.via = "tcp" => world.role = "overTcp")
    BY <1>2 DEF CallOf, Call, Messages
  <2>3. Live(c.req) => c.mode = ModeOf(c.req)
    BY <1>3, <2>1 DEF CallOf, Call, ModeOf
  <2> QED BY <1>3, <2>1, <2>2, <2>3 DEF CallOK
<1> HIDE DEF c, m
<1>5. /\ Elems(Tail(inbox)) \subseteq Elems(inbox)
      /\ \A r : Has(inbox, r) <=> Has(Tail(inbox), r) \/ m.req = r
      /\ \A r : Once(inbox, r) =>
           Once(Tail(inbox), r) /\ (m.req = r => ~Has(Tail(inbox), r))
  BY <1>1, Shortened DEF m
<1>6. /\ Elems(Append(queue, c)) = Elems(queue) \cup {c}
      /\ \A r : Has(Append(queue, c), r) <=> Has(queue, r) \/ c.req = r
      /\ \A r : Once(queue, r) /\ (c.req = r => ~Has(queue, r))
           => Once(Append(queue, c), r)
  BY <1>1, <1>3, Appended
<1>7. CallsOK'
  <2>1. \A e \in Elems(inbox') : MessageOK(e)'
    BY <1>1, <1>5, SameRequests DEF Places, CallsOK
  <2>2. \A e \in Elems(queue') : CallOK(e)'
    BY <1>1, <1>4, <1>6, SameRequests DEF Places, CallsOK
  <2>3. job # Free => CallOK(job)'
    BY <1>1, SameRequests DEF Places, CallsOK
  <2> QED BY <1>1, <2>1, <2>2, <2>3 DEF Places, CallsOK, CallOK, Live, ModeOf
<1>8. OnePlace'
  <2> SUFFICES ASSUME NEW r \in Requests, Live(r)' PROVE Placed(r)'
    BY DEF OnePlace
  <2>1. Placed(r)
    BY <1>1 DEF Live, Places, OnePlace
  <2> QED BY <1>1, <1>3, <1>5, <1>6, <2>1 DEF Placed, AtWork
<1>9. Unborn'
  BY <1>1 DEF Unborn, Places
<1> QED BY <1>7, <1>8, <1>9 DEF Places

\* The worker no longer waits.
LEMMA PlacesGivenUp == ASSUME KvTypeOK, Places, GiveUp PROVE Places'
<1>1. UNCHANGED <<world, phase, life, passes, answered, inbox, rerun, skewed, cached>>
  BY DEF GiveUp, coordVars, cacheVars
<1>2. /\ queue' = [i \in DOMAIN queue |-> [queue[i] EXCEPT !.heard = FALSE]]
      /\ job' = IF job = Free THEN job ELSE [job EXCEPT !.heard = FALSE]
      /\ \A c \in Elems(queue) \cup ({job} \ {Free}) :
           c.heard => c.via = "http" /\ phase[c.req] = "ended"
  BY DEF GiveUp, Elems
<1>3. \A i \in DOMAIN queue : queue[i] \in Calls /\ queue[i] \in Elems(queue)
  BY InPlaces DEF Elems
<1>4. \A i \in DOMAIN queue :
        /\ queue'[i].req = queue[i].req /\ queue'[i].mode = queue[i].mode
        /\ queue'[i].via = queue[i].via
  BY <1>2, <1>3 DEF Calls
<1>5. \A i \in DOMAIN queue : phase[queue[i].req] = "ended" /\ CallOK(queue'[i])
  BY <1>2, <1>3, <1>4 DEF Places, CallsOK, CallOK, Live
<1>6. ASSUME job # Free
      PROVE  /\ job' \in Jobs /\ job' # Free /\ job'.req = job.req /\ job'.mode = job.mode
             /\ job'.via = job.via /\ job'.at = job.at
  BY <1>2, <1>6, AtExecutor, JobNotFree DEF Jobs
<1>7. ASSUME job # Free PROVE phase[job.req] = "ended" /\ CallOK(job')
  BY <1>2, <1>6, <1>7, AtExecutor DEF Places, CallsOK, CallOK, Live
<1>8. CallsOK'
  <2>1. \A m \in Elems(inbox') : MessageOK(m)'
    BY <1>1, SameRequests DEF Places, CallsOK
  <2>2. \A c \in Elems(queue') : CallOK(c)'
    BY <1>1, <1>2, <1>5, SameRequests DEF Elems
  <2>3. job' # Free => CallOK(job)'
    BY <1>1, <1>2, <1>7 DEF CallOK, Live, ModeOf
  <2> QED BY <1>2, <1>6, <2>1, <2>2, <2>3 DEF Places, CallsOK
<1>9. OnePlace'
  <2> SUFFICES ASSUME NEW r \in Requests, Live(r)' PROVE Placed(r)'
    BY DEF OnePlace
  <2>1. Placed(r) /\ phase[r] # "ended"
    BY <1>1 DEF Live, Places, OnePlace
  <2>2. ~Has(queue', r) /\ Once(queue', r)
    BY <1>2, <1>4, <1>5, <2>1 DEF Has, Once, Elems
  <2>3. ~AtWork(r)'
    BY <1>2, <1>6, <1>7, <2>1 DEF AtWork
  <2> QED BY <1>1, <2>1, <2>2, <2>3 DEF Placed
<1>10. Unborn'
  BY <1>1 DEF Unborn, Places
<1> QED BY <1>8, <1>9, <1>10 DEF Places

\* The executor takes a call.
LEMMA PlacesTaken == ASSUME KvTypeOK, Places, Take PROVE Places'
<1> DEFINE c == Head(queue)
<1>1. /\ queue \in Seq(Calls) /\ queue # <<>> /\ queue' = Tail(queue) /\ job = Free
      /\ UNCHANGED <<world, phase, life, passes, answered, inbox, rerun, skewed, cached>>
  BY DEF Take, KvTypeOK, coordVars, workerVars, cacheVars
<1>2. c \in Calls /\ c \in Elems(queue)
  BY <1>1, Shortened
<1>3. /\ job' # Free /\ job'.req = c.req /\ job'.mode = c.mode /\ job'.via = c.via
      /\ job'.heard = c.heard
      /\ job'.at = "check" => c.mode = "embed_step"
      /\ job'.at = "clear" => c.mode = "clear_cache"
  <2>1. job' \in Jobs
    BY <1>2 DEF Take, Jobs, Calls
  <2> QED BY <2>1, JobNotFree DEF Take
<1>4. /\ Elems(Tail(queue)) \subseteq Elems(queue)
      /\ \A r : Has(queue, r) <=> Has(Tail(queue), r) \/ c.req = r
      /\ \A r : Once(queue, r) =>
           Once(Tail(queue), r) /\ (c.req = r => ~Has(Tail(queue), r))
  BY <1>1, Shortened
<1> HIDE DEF c
<1>5. CallsOK'
  <2>1. \A m \in Elems(inbox') : MessageOK(m)'
    BY <1>1, SameRequests DEF Places, CallsOK
  <2>2. \A e \in Elems(queue') : CallOK(e)'
    BY <1>1, <1>4, SameRequests DEF Places, CallsOK
  <2>3. CallOK(job)'
    BY <1>1, <1>2, <1>3 DEF Places, CallsOK, CallOK, Live, ModeOf
  <2> QED BY <1>3, <2>1, <2>2, <2>3 DEF CallsOK
<1>6. OnePlace'
  <2> SUFFICES ASSUME NEW r \in Requests, Live(r)' PROVE Placed(r)'
    BY DEF OnePlace
  <2>1. Placed(r)
    BY <1>1 DEF Live, Places, OnePlace
  <2>2. AtWork(r)' <=> c.req = r
    BY <1>3 DEF AtWork
  <2> QED BY <1>1, <1>4, <2>1, <2>2 DEF Placed, AtWork
<1>7. Unborn'
  BY <1>1 DEF Unborn, Places
<1> QED BY <1>5, <1>6, <1>7 DEF Places

\* The executor answers with an error.
LEMMA PlacesFailed ==
  ASSUME KvTypeOK, Places, job # Free, Failed, UNCHANGED <<world, phase, passes, inbox>>
  PROVE  /\ CallsOK' /\ OnePlace' /\ answered' = answered /\ skewed' = skewed
         /\ \A r \in rerun' : r \in rerun \/
              (r = job.req /\ Live(r) /\ world.role = "overTcp" /\ Has(queue', r))
         /\ \A r : Has(queue', r) => Has(queue, r) \/
              (r = job.req /\ world.role = "overTcp" /\ (Live(r) => r \in rerun'))
         /\ job' = Free /\ rerun \subseteq rerun'
<1> DEFINE c == Call(job.mode, job.req, "http")
<1>1. /\ job' = Free /\ answered' = answered /\ skewed' = skewed /\ rerun \subseteq rerun'
      /\ job \in Jobs /\ job.req \in Requests /\ queue \in Seq(Calls)
      /\ CallOK(job)
  BY AtExecutor DEF Failed, KvTypeOK, Places, CallsOK
<1>2. /\ c \in Calls /\ c.req = job.req /\ c.mode = job.mode /\ c.heard
      /\ c.via = "http"
  BY AtExecutor DEF Call, Calls
<1>3. CallOK(c)
  BY <1>1, <1>2 DEF CallOK
<1> HIDE DEF c
<1>4. /\ Elems(Append(queue, c)) = Elems(queue) \cup {c}
      /\ \A r : Has(Append(queue, c), r) <=> Has(queue, r) \/ c.req = r
      /\ \A r : Once(queue, r) /\ (c.req = r => ~Has(queue, r))
           => Once(Append(queue, c), r)
  BY <1>1, <1>2, Appended
<1>5. \/ queue' = queue /\ rerun' = rerun
      \/ /\ queue' = Append(queue, c) /\ world.role = "overTcp"
         /\ rerun' = IF Live(job.req) THEN rerun \cup {job.req} ELSE rerun
  BY <1>1 DEF Failed, CallOK, Live, c
<1>6. CallsOK'
  <2>1. \A m \in Elems(inbox') : MessageOK(m)'
    BY SameRequests DEF Places, CallsOK
  <2>2. \A e \in Elems(queue') : CallOK(e)'
    BY <1>3, <1>4, <1>5, SameRequests DEF Places, CallsOK
  <2> QED BY <1>1, <2>1, <2>2 DEF CallsOK
<1>7. OnePlace'
  <2> SUFFICES ASSUME NEW r \in Requests, Live(r)' PROVE Placed(r)'
    BY DEF OnePlace
  <2>1. Placed(r)
    BY DEF Live, Places, OnePlace
  <2>2. ~AtWork(r)'
    BY <1>1 DEF AtWork
  <2>3. job.req = r => AtWork(r)
    BY DEF AtWork
  <2> QED BY <1>1, <1>2, <1>4, <1>5, <2>1, <2>2, <2>3 DEF Placed
<1>8. \A r \in rerun' : r \in rerun \/
        (r = job.req /\ Live(r) /\ world.role = "overTcp" /\ Has(queue', r))
  BY <1>2, <1>4, <1>5
<1>9. \A r : Has(queue', r) => Has(queue, r) \/
        (r = job.req /\ world.role = "overTcp" /\ (Live(r) => r \in rerun'))
  BY <1>2, <1>4, <1>5
<1> QED BY <1>1, <1>6, <1>7, <1>8, <1>9

\* The executor goes on with its call, or ends it.
LEMMA PlacesAtWork ==
  ASSUME KvTypeOK, Places, UNCHANGED <<world, phase, passes, inbox, queue>>,
         job' = Free \/ (/\ job # Free /\ job' \in Jobs /\ job'.req = job.req
                         /\ job'.mode = job.mode /\ job'.via = job.via
                         /\ job'.heard = job.heard /\ job'.at \in {job.at, "enter", "run"}),
         \A r \in Requests : answered'[r] = answered[r] \/ (job' = Free /\ AtWork(r))
  PROVE  CallsOK' /\ OnePlace'
<1>1. CallsOK'
  <2>1. \A m \in Elems(inbox') : MessageOK(m)'
    BY SameRequests DEF Places, CallsOK
  <2>2. \A e \in Elems(queue') : CallOK(e)'
    BY SameRequests DEF Places, CallsOK
  <2>3. job' # Free => CallOK(job)'
    BY DEF Places, CallsOK, CallOK, Live, ModeOf
  <2> QED BY <2>1, <2>2, <2>3 DEF Places, CallsOK
<1>2. OnePlace'
  <2> SUFFICES ASSUME NEW r \in Requests, Live(r)' PROVE Placed(r)'
    BY DEF OnePlace
  <2>1. Placed(r)
    BY DEF Live, Places, OnePlace
  <2>2. AtWork(r)' => AtWork(r) /\ job' # Free
    BY DEF AtWork
  <2> QED BY <2>1, <2>2 DEF Placed
<1> QED BY <1>1, <1>2

\* Each step keeps the places.
LEMMA PlacesInvariant == ASSUME KvTypeOK, Places, [KvNext]_vars PROVE Places'
<1>1. CASE \E r \in Requests : Begin(r) \/ NextPass(r) \/ Finish(r)
  BY <1>1, PlacesCoordinator
<1>2. CASE Tick
  <2>1. UNCHANGED <<world, phase, passes, inbox, queue, job, answered, rerun, skewed, cached>>
    BY <1>2 DEF Tick, workerVars, serverVars
  <2>2. CallsOK' /\ OnePlace'
    BY <2>1 DEF Places, CallsOK, MessageOK, CallOK, Live, ModeOf, OnePlace, Placed, AtWork
  <2>3. \A r \in Requests : phase[r] = "new" => life'[r] = life[r]
    BY <1>2 DEF Tick, KvTypeOK
  <2>4. Unborn'
    BY <2>1, <2>3 DEF Unborn, Places
  <2> QED BY <2>2, <2>4 DEF Places
<1>3. CASE Handle
  BY <1>3, PlacesHandled
<1>4. CASE GiveUp
  BY <1>4, PlacesGivenUp
<1>5. CASE Take
  BY <1>5, PlacesTaken
<1>6. job # Free => phase[job.req] # "new" /\ job.req \in Requests
  BY AtExecutor DEF Places, CallsOK, CallOK
<1>7. ASSUME job # Free, Failed, UNCHANGED <<world, phase, passes, life, inbox>>,
             cached' \subseteq cached
      PROVE  Places'
  <2>1. CallsOK' /\ OnePlace' /\ answered' = answered /\ skewed' = skewed
    BY <1>7, PlacesFailed
  <2>2. \A r \in rerun' : r \in rerun \/ Live(r)
    BY <1>7, PlacesFailed
  <2>3. Unborn'
    BY <1>7, <2>1, <2>2 DEF Unborn, Places, Live
  <2> QED BY <2>1, <2>3 DEF Places
<1>8. CASE CheckKv
  <2>1. job # Free /\ UNCHANGED <<world, phase, passes, life, inbox, cached>>
    BY <1>8 DEF CheckKv, coordVars, cacheVars
  <2>2. CASE job' = [job EXCEPT !.at = "enter"]
             /\ UNCHANGED <<answered, waiting, queue, rerun, skewed>>
    <3>1. /\ job' \in Jobs /\ job'.req = job.req /\ job'.mode = job.mode
          /\ job'.via = job.via /\ job'.heard = job.heard /\ job'.at = "enter"
      BY <2>1, <2>2, AtExecutor DEF Jobs
    <3>2. CallsOK' /\ OnePlace'
      BY <2>1, <2>2, <3>1, PlacesAtWork
    <3> QED BY <2>1, <2>2, <3>2 DEF Places, Unborn
  <2> QED BY <1>7, <1>8, <2>1, <2>2 DEF CheckKv
<1>9. CASE EnterCache
  <2>1. /\ job # Free
        /\ UNCHANGED <<world, phase, passes, life, inbox, queue, answered, rerun, skewed>>
    BY <1>9 DEF EnterCache, coordVars, workerVars
  <2>2. /\ job' \in Jobs /\ job'.req = job.req /\ job'.mode = job.mode
        /\ job'.via = job.via /\ job'.heard = job.heard /\ job'.at = "run"
    <3> DEFINE base == IF job.mode = "embed" \/ job.req \notin cached
                       THEN 0 ELSE seen[job.req]
    <3>1. base \in Nat
      BY <2>1, AtExecutor DEF KvTypeOK
    <3>2. job' = [job EXCEPT !.at = "run", !.base = base]
      BY <1>9 DEF EnterCache
    <3> HIDE DEF base
    <3> QED BY <2>1, <3>1, <3>2, AtExecutor DEF Jobs
  <2>3. CallsOK' /\ OnePlace'
    BY <2>1, <2>2, PlacesAtWork
  <2>4. \A r \in cached' : r \in cached \/ r = job.req
    BY <1>9 DEF EnterCache, Kept
  <2>5. Unborn'
    BY <1>6, <2>1, <2>4 DEF Places, Unborn
  <2> QED BY <2>3, <2>5 DEF Places
<1>10. CASE RunLayers
  <2>1. job # Free /\ UNCHANGED <<world, phase, passes, life, inbox, cached>>
    BY <1>10 DEF RunLayers, coordVars
  <2>2. CASE Answered(job.base)
    <3>1. job' = Free /\ UNCHANGED <<queue, rerun>>
      BY <2>2 DEF Answered
    <3>2. \A r \in Requests : r # job.req =>
             answered'[r] = answered[r] /\ (r \in skewed' <=> r \in skewed)
      BY <2>2 DEF Answered, KvTypeOK
    <3>3. \A r \in Requests : answered'[r] = answered[r] \/ AtWork(r)
      BY <2>1, <3>2 DEF AtWork
    <3>4. CallsOK' /\ OnePlace'
      BY <2>1, <3>1, <3>3, PlacesAtWork
    <3>5. Unborn'
      BY <1>6, <2>1, <3>1, <3>2 DEF Unborn, Places
    <3> QED BY <3>4, <3>5 DEF Places
  <2> QED BY <1>7, <1>10, <2>1, <2>2 DEF RunLayers
<1>11. CASE ClearCache
  <2>1. /\ job' = Free /\ cached' \subseteq cached
        /\ UNCHANGED <<world, phase, passes, life, inbox, queue, answered, rerun, skewed>>
    BY <1>11 DEF ClearCache, Forget, coordVars
  <2>2. CallsOK' /\ OnePlace'
    BY <2>1, PlacesAtWork
  <2> QED BY <2>1, <2>2 DEF Places, Unborn
<1>12. CASE Reap
  <2>1. /\ cached' \subseteq cached
        /\ UNCHANGED <<world, phase, passes, life, inbox, queue, job, answered, rerun, skewed>>
    BY <1>12 DEF Reap, Forget, coordVars, workerVars, serverVars
  <2>2. CallsOK' /\ OnePlace'
    BY <2>1 DEF Places, CallsOK, MessageOK, CallOK, Live, ModeOf, OnePlace, Placed, AtWork
  <2> QED BY <2>1, <2>2 DEF Places, Unborn
<1>13. CASE UNCHANGED vars
  BY <1>13 DEF vars, coordVars, workerVars, serverVars, cacheVars, history, Places,
     CallsOK, MessageOK, CallOK, Live, ModeOf, OnePlace, Placed, AtWork, Unborn
<1> QED
  BY <1>1, <1>2, <1>3, <1>4, <1>5, <1>8, <1>9, <1>10, <1>11, <1>12, <1>13 DEF KvNext

----------------------------------------------------------------------------
(* What the caches hold *)

\* A step that changes nothing of a live request leaves it intact; it may lose
\* entries used after its own.
LEMMA IntactKept ==
  ASSUME NEW r \in Requests, Intact(r),
         UNCHANGED <<world, passes>> \/ (UNCHANGED world /\ passes'[r] = passes[r]),
         answered'[r] = answered[r], seen'[r] = seen[r], since'[r] = since[r],
         life'[r] <= RequestTime, r \in cached => idle'[r] <= life'[r],
         newer'[r] \subseteq newer[r],
         r \in cached' <=> r \in cached, r \in crowded' <=> r \in crowded,
         r \in rerun' <=> r \in rerun,
         Asked(r)' <=> Asked(r), AtWork(r)' <=> AtWork(r), AtWork(r) => job' = job
  PROVE  Intact(r)'
<1>1. Fresh(r)'
  BY DEF Intact, Fresh
<1>2. (world.role = "first" \/ Undisturbed(r)) => Fits(r)'
  <2>1. (world.role = "first" \/ Undisturbed(r)) => Fits(r)
    BY DEF Intact
  <2> QED BY <2>1 DEF Fits, Earlier, Length
<1>3. Undisturbed(r)' <=> Undisturbed(r)
  BY DEF Undisturbed
<1>4. Due(r)' <=> Due(r)
  BY DEF Due
<1> QED BY <1>1, <1>2, <1>3, <1>4 DEF Intact

\* A message more, or one less.
LEMMA HasSent ==
  ASSUME KvTypeOK, NEW m \in Messages, inbox' = Append(inbox, m)
  PROVE  \A r : Has(inbox', r) <=> Has(inbox, r) \/ m.req = r
<1>1. inbox \in Seq(Messages)
  BY DEF KvTypeOK
<1>2. \A r : Has(Append(inbox, m), r) <=> Has(inbox, r) \/ m.req = r
  BY <1>1, Appended
<1> QED BY <1>2

\* The coordinator's steps.
LEMMA CachesBegin ==
  ASSUME KvTypeOK, Places, Caches, NEW r \in Requests, Begin(r)
  PROVE  Caches'
<1>1. /\ UNCHANGED <<world, life, answered, rerun, job, queue, cached, newer, seen,
                     idle, since, crowded>>
      /\ phase' = [phase EXCEPT ![r] = "live"] /\ passes' = [passes EXCEPT ![r] = 1]
      /\ phase[r] = "new"
  BY DEF Begin, serverVars, cacheVars, history
<1>2. \A q : Has(inbox', q) <=> Has(inbox, q) \/ q = r
  <2>1. Message("pass", r) \in Messages /\ Message("pass", r).req = r
    BY DEF Message, Messages
  <2> QED BY <2>1, HasSent DEF Begin
<1>3. SinceOK'
  BY <1>1 DEF Caches, SinceOK
<1>4. ASSUME NEW q \in Requests, Live(q)' PROVE Intact(q)'
  <2>1. AtWork(q)' <=> AtWork(q)
    BY <1>1 DEF AtWork
  <2>2. CASE q = r
    <3>1. r \notin cached /\ life[r] = 0 /\ ~answered[r] /\ ~AtWork(r)
      BY <1>1 DEF Places, Unborn, CallsOK, CallOK, AtWork
    <3>2. Fresh(r)'
      BY <1>1, <3>1, KvAssumption DEF Fresh
    <3>3. Fits(r)' /\ ~Due(r)'
      BY <1>1, <2>1, <2>2, <3>1 DEF Fits, Due, KvTypeOK
    <3> QED BY <2>2, <3>2, <3>3 DEF Intact
  <2>3. CASE q # r
    <3>1. Live(q) /\ Intact(q) /\ passes'[q] = passes[q]
      BY <1>1, <1>4, <2>3 DEF Live, Caches, KvTypeOK
    <3>2. Fresh(q)
      BY <3>1 DEF Intact
    <3>3. Asked(q)' <=> Asked(q)
      BY <1>1, <1>2, <2>1, <2>3 DEF Asked
    <3> QED BY <1>1, <2>1, <3>1, <3>2, <3>3, IntactKept DEF Fresh
  <2> QED BY <2>2, <2>3
<1> QED BY <1>3, <1>4 DEF Caches

\* The coordinator asks for the next pass: it must find what the answered one left.
LEMMA CachesNextPass ==
  ASSUME KvTypeOK, Places, Caches, NEW r \in Requests, NextPass(r)
  PROVE  Caches'
<1>1. /\ UNCHANGED <<world, phase, life, rerun, job, queue, cached, newer, seen,
                     idle, since, crowded>>
      /\ passes' = [passes EXCEPT ![r] = @ + 1]
      /\ answered' = [answered EXCEPT ![r] = FALSE]
      /\ phase[r] = "live" /\ answered[r]
  BY DEF NextPass, serverVars, cacheVars, history
<1>2. \A q : Has(inbox', q) <=> Has(inbox, q) \/ q = r
  <2>1. Message("pass", r) \in Messages /\ Message("pass", r).req = r
    BY DEF Message, Messages
  <2> QED BY <2>1, HasSent DEF NextPass
<1>3. SinceOK'
  BY <1>1 DEF Caches, SinceOK
<1>4. ASSUME NEW q \in Requests, Live(q)' PROVE Intact(q)'
  <2>1. (AtWork(q)' <=> AtWork(q)) /\ Live(q) /\ Intact(q)
    BY <1>1, <1>4 DEF AtWork, Live, Caches
  <2>2. Fresh(q)
    BY <2>1 DEF Intact
  <2>3. CASE q = r
    <3>1. ~AtWork(r) /\ passes[r] > 0 /\ passes[r] \in Nat
      BY <1>1, <2>1, <2>3 DEF Places, OnePlace, Placed, KvTypeOK
    <3>2. ~answered'[r] /\ passes'[r] = passes[r] + 1
      BY <1>1 DEF KvTypeOK
    <3>3. Earlier(r)' = Earlier(r) + Length(r)
      BY <3>1, <3>2, KvAssumption DEF Earlier, Length
    <3>4. Fresh(r)'
      BY <1>1, <2>2, <2>3 DEF Fresh
    <3>5. Fits(r) => Fits(r)'
      BY <1>1, <2>1, <2>3, <3>1, <3>2, <3>3 DEF Fits
    <3>6. Due(r)
      BY <1>1 DEF Due
    <3>7. Undisturbed(r)' <=> Undisturbed(r)
      BY <1>1 DEF Undisturbed
    <3> QED BY <1>1, <2>1, <2>3, <3>4, <3>5, <3>6, <3>7 DEF Intact
  <2>4. CASE q # r
    <3>1. passes'[q] = passes[q] /\ answered'[q] = answered[q]
      BY <1>1, <2>4 DEF KvTypeOK
    <3>2. Asked(q)' <=> Asked(q)
      BY <1>1, <1>2, <2>1, <2>4 DEF Asked
    <3> QED BY <1>1, <2>1, <2>2, <3>1, <3>2, IntactKept DEF Fresh
  <2> QED BY <2>3, <2>4
<1> QED BY <1>3, <1>4 DEF Caches

\* A request ends: nothing is asked of its cache any more.
LEMMA CachesFinish ==
  ASSUME KvTypeOK, Places, Caches, NEW r \in Requests, Finish(r)
  PROVE  Caches'
<1>1. /\ UNCHANGED <<world, passes, job, queue, cached, newer, seen, idle>>
      /\ phase' = [phase EXCEPT ![r] = "ended"]
      /\ life' = [life EXCEPT ![r] = 0] /\ answered' = [answered EXCEPT ![r] = FALSE]
      /\ since' = [since EXCEPT ![r] = {}] /\ crowded' = crowded \ {r}
      /\ rerun' = rerun \ {r}
  BY DEF Finish, serverVars, cacheVars
<1>2. \A q : q # r => (Has(inbox', q) <=> Has(inbox, q))
  <2>1. Message("end", r) \in Messages /\ Message("end", r).req = r
    BY DEF Message, Messages
  <2>2. CASE inbox' = Append(inbox, Message("end", r))
    BY <2>1, <2>2, HasSent
  <2> QED BY <2>2 DEF Finish
<1>3. SinceOK'
  <2>1. IsFiniteSet({}) /\ Cardinality({}) = 0
    BY FS_EmptySet
  <2>2. 0 < world.capacity
    BY InAWorld
  <2>3. since'[r] = {} /\ \A q \in Requests \ {r} : since'[q] = since[q]
    BY <1>1 DEF KvTypeOK
  <2> QED BY <1>1, <2>1, <2>2, <2>3 DEF Caches, SinceOK
<1>4. ASSUME NEW q \in Requests, Live(q)' PROVE Intact(q)'
  <2>1. q # r /\ Live(q) /\ Intact(q)
    BY <1>1, <1>4 DEF Live, Caches, KvTypeOK
  <2>2. AtWork(q)' <=> AtWork(q)
    BY <1>1 DEF AtWork
  <2>3. /\ life'[q] = life[q] /\ answered'[q] = answered[q] /\ since'[q] = since[q]
        /\ q \in crowded' <=> q \in crowded
        /\ q \in rerun' <=> q \in rerun
    BY <1>1, <2>1 DEF KvTypeOK
  <2>4. Asked(q)' <=> Asked(q)
    BY <1>1, <1>2, <2>1, <2>2 DEF Asked
  <2> QED BY <1>1, <2>1, <2>2, <2>3, <2>4, IntactKept DEF Intact, Fresh
<1> QED BY <1>3, <1>4 DEF Caches

\* Time passes.
LEMMA CachesTick == ASSUME KvTypeOK, Places, Caches, Tick PROVE Caches'
<1>1. UNCHANGED <<world, phase, passes, answered, inbox, waiting, rerun, queue, job,
                  cached, newer, seen, since, crowded>>
  BY DEF Tick, workerVars, serverVars, history
<1>2. SinceOK'
  BY <1>1 DEF Caches, SinceOK
<1>3. ASSUME NEW q \in Requests, Live(q)' PROVE Intact(q)'
  <2>1. Live(q) /\ Intact(q) /\ life[q] \in Nat /\ idle[q] \in Nat
    BY <1>1, <1>3 DEF Live, Caches, KvTypeOK
  <2>2. life[q] < RequestTime /\ life'[q] = life[q] + 1
    BY <2>1 DEF Tick, Live
  <2>3. idle'[q] = idle[q] \/ idle'[q] = idle[q] + 1
    BY <2>1 DEF Tick
  <2>4. life'[q] <= RequestTime /\ (q \in cached => idle'[q] <= life'[q])
    BY <2>1, <2>2, <2>3, KvAssumption DEF Intact, Fresh
  <2>5. (AtWork(q)' <=> AtWork(q)) /\ (Asked(q)' <=> Asked(q))
    BY <1>1 DEF AtWork, Asked
  <2> QED BY <1>1, <2>1, <2>4, <2>5, IntactKept
<1> QED BY <1>2, <1>3 DEF Caches

\* The worker turns to a message, or no longer waits; the executor takes a call.
LEMMA CachesHandled == ASSUME KvTypeOK, Places, Caches, Handle PROVE Caches'
<1> DEFINE m == Head(inbox)
           c == CallOf(m)
<1>1. /\ inbox \in Seq(Messages) /\ queue \in Seq(Calls) /\ inbox # <<>>
      /\ inbox' = Tail(inbox) /\ queue' = Append(queue, c)
      /\ UNCHANGED <<world, phase, life, passes, answered, rerun, job, cached, newer,
                     seen, idle, since, crowded>>
  BY DEF Handle, KvTypeOK, coordVars, cacheVars, history
<1>2. m \in Messages
  BY <1>1, Shortened
<1>3. c \in Calls /\ c.req = m.req
  BY <1>2 DEF CallOf, Call, Calls, Messages, Modes
<1> HIDE DEF c, m
<1>4. \A r : Has(inbox, r) <=> Has(Tail(inbox), r) \/ m.req = r
  BY <1>1, Shortened DEF m
<1>5. \A r : Has(Append(queue, c), r) <=> Has(queue, r) \/ c.req = r
  BY <1>1, <1>3, Appended
<1>6. SinceOK'
  BY <1>1 DEF Caches, SinceOK
<1>7. ASSUME NEW q \in Requests, Live(q)' PROVE Intact(q)'
  <2>1. Live(q) /\ Intact(q) /\ (AtWork(q)' <=> AtWork(q))
    BY <1>1, <1>7 DEF Live, Caches, AtWork
  <2>2. Asked(q)' <=> Asked(q)
    BY <1>1, <1>3, <1>4, <1>5, <2>1 DEF Asked
  <2> QED BY <1>1, <2>1, <2>2, IntactKept DEF Intact, Fresh
<1> QED BY <1>6, <1>7 DEF Caches

\* The worker stops waiting: only the calls of requests that are over are unheard.
LEMMA CachesGivenUp == ASSUME KvTypeOK, Places, Caches, GiveUp PROVE Caches'
<1>1. UNCHANGED <<world, phase, life, passes, answered, inbox, rerun, cached, newer,
                  seen, idle, since, crowded>>
  BY DEF GiveUp, coordVars, cacheVars, history
<1>2. /\ queue' = [i \in DOMAIN queue |-> [queue[i] EXCEPT !.heard = FALSE]]
      /\ job' = IF job = Free THEN job ELSE [job EXCEPT !.heard = FALSE]
  BY DEF GiveUp
<1>3. \A i \in DOMAIN queue : queue'[i].req = queue[i].req
  <2>1. \A i \in DOMAIN queue : queue[i] \in Calls
    BY DEF KvTypeOK
  <2> QED BY <1>2, <2>1 DEF Calls
<1>4. \A r : Has(queue', r) <=> Has(queue, r)
  BY <1>2, <1>3 DEF Has, Elems
<1>5. ASSUME job # Free PROVE phase[job.req] = "ended" /\ job' # Free /\ job'.req = job.req
  <2>1. job' \in Jobs /\ job'.req = job.req
    BY <1>2, <1>5, AtExecutor DEF Jobs
  <2>2. ~job.heard => phase[job.req] = "ended"
    BY <1>5 DEF Places, CallsOK, CallOK
  <2>3. job.heard => phase[job.req] = "ended"
    BY <1>5 DEF GiveUp
  <2> QED BY <2>1, <2>2, <2>3, JobNotFree
<1>6. SinceOK'
  BY <1>1 DEF Caches, SinceOK
<1>7. ASSUME NEW q \in Requests, Live(q)' PROVE Intact(q)'
  <2>1. Live(q) /\ Intact(q)
    BY <1>1, <1>7 DEF Live, Caches
  <2>2. ~AtWork(q) /\ ~AtWork(q)'
    BY <1>2, <1>5, <2>1 DEF AtWork, Live
  <2>3. Asked(q)' <=> Asked(q)
    BY <1>1, <1>4, <2>2 DEF Asked
  <2> QED BY <1>1, <2>1, <2>2, <2>3, IntactKept DEF Intact, Fresh
<1> QED BY <1>6, <1>7 DEF Caches

\* The executor takes the next call: it stays asked for.
LEMMA CachesTaken == ASSUME KvTypeOK, Places, Caches, Take PROVE Caches'
<1> DEFINE c == Head(queue)
<1>1. /\ queue \in Seq(Calls) /\ queue # <<>> /\ queue' = Tail(queue) /\ job = Free
      /\ UNCHANGED <<world, phase, life, passes, answered, inbox, rerun, cached, newer,
                     seen, idle, since, crowded>>
  BY DEF Take, KvTypeOK, coordVars, workerVars, cacheVars, history
<1>2. c \in Calls
  BY <1>1, Shortened
<1>3. /\ job' # Free /\ job'.req = c.req /\ job'.mode = c.mode /\ job'.at # "run"
      /\ job'.at = "enter" => c.mode # "embed_step"
  <2>1. job' \in Jobs
    BY <1>2 DEF Take, Jobs, Calls
  <2> QED BY <2>1, JobNotFree DEF Take
<1>4. \A r : Has(queue, r) <=> Has(Tail(queue), r) \/ c.req = r
  BY <1>1, Shortened
<1> HIDE DEF c
<1>5. SinceOK'
  BY <1>1 DEF Caches, SinceOK
<1>6. ASSUME NEW q \in Requests, Live(q)' PROVE Intact(q)'
  <2>1. Live(q) /\ Intact(q)
    BY <1>1, <1>6 DEF Live, Caches
  <2>2. ~AtWork(q) /\ (AtWork(q)' <=> c.req = q)
    BY <1>1, <1>3 DEF AtWork
  <2>3. Asked(q)' <=> Asked(q)
    BY <1>1, <1>3, <1>4, <2>2 DEF Asked
  <2>4. Fits(q) => Fits(q)'
    BY <1>1, <1>3, <2>2, <2>3 DEF Fits, Earlier, Length
  <2>5. Due(q)' <=> Due(q)
    BY <1>1, <1>3, <2>2, <2>3 DEF Due
  <2>6. Fresh(q)' /\ (Undisturbed(q)' <=> Undisturbed(q))
    BY <1>1, <2>1 DEF Intact, Fresh, Undisturbed
  <2> QED BY <1>1, <2>1, <2>4, <2>5, <2>6 DEF Intact
<1> QED BY <1>5, <1>6 DEF Caches

\* A call ends with an error: nothing comes of it, or it is run again.
LEMMA CachesFailed ==
  ASSUME KvTypeOK, Places, Caches, job # Free, Failed,
         UNCHANGED <<world, phase, life, passes, inbox, cached, newer, idle, since, crowded>>,
         \A q \in Requests : q # job.req => seen'[q] = seen[q]
  PROVE  Caches'
<1>1. /\ answered' = answered /\ job' = Free /\ rerun \subseteq rerun'
      /\ \A r \in rerun' : r \in rerun \/ r = job.req
      /\ \A r : Has(queue', r) => Has(queue, r) \/
           (r = job.req /\ world.role = "overTcp" /\ (Live(r) => r \in rerun'))
  BY PlacesFailed
<1>2. SinceOK'
  BY DEF Caches, SinceOK
<1>3. ASSUME NEW q \in Requests, Live(q)' PROVE Intact(q)'
  <2>1. Live(q) /\ Intact(q) /\ Placed(q) /\ ~AtWork(q)'
    BY <1>1, <1>3 DEF Live, Caches, AtWork, Places, OnePlace
  <2>2. CASE q = job.req
    <3>1. ~Has(inbox, q) /\ ~Has(queue, q) /\ ~answered[q]
      BY <2>1, <2>2 DEF Placed, AtWork
    <3>2. Asked(q)' => world.role = "overTcp" /\ q \in rerun'
      BY <1>1, <2>1, <3>1 DEF Asked
    <3>3. Fresh(q)'
      BY <2>1 DEF Intact, Fresh
    <3>4. (world.role = "first" \/ Undisturbed(q)') => Fits(q)'
      BY <1>1, <2>1, <3>1, <3>2 DEF Fits, Undisturbed
    <3>5. ~(Undisturbed(q)' /\ Due(q)')
      BY <1>1, <2>1, <3>1, <3>2 DEF Due, Undisturbed
    <3> QED BY <3>3, <3>4, <3>5 DEF Intact
  <2>3. CASE q # job.req
    <3>1. ~AtWork(q) /\ (q \in rerun' <=> q \in rerun)
      BY <1>1, <2>3 DEF AtWork
    <3>2. Has(queue', q) <=> Has(queue, q)
      <4> DEFINE c == Call(job.mode, job.req, "http")
      <4>1. c \in Calls /\ queue \in Seq(Calls)
        BY AtExecutor DEF Call, Calls, KvTypeOK
      <4>2. Has(queue, q) => Has(Append(queue, c), q)
        BY <4>1, Appended
      <4>3. queue' = queue \/ queue' = Append(queue, c)
        BY DEF Failed
      <4> QED BY <1>1, <2>3, <4>2, <4>3
    <3>3. Asked(q)' <=> Asked(q)
      BY <2>1, <3>1, <3>2 DEF Asked
    <3> QED BY <1>1, <2>1, <2>3, <3>1, <3>3, IntactKept DEF Intact, Fresh
  <2> QED BY <2>2, <2>3
<1> QED BY <1>2, <1>3 DEF Caches

\* A step of the first node has its cache, which nobody drops before it is used.
LEMMA CachesChecked == ASSUME KvTypeOK, Places, Caches, CheckKv PROVE Caches'
<1>1. /\ job # Free /\ job.at = "check"
      /\ UNCHANGED <<world, phase, life, passes, inbox, cached, newer, seen, idle,
                     since, crowded>>
  BY DEF CheckKv, coordVars, cacheVars, history
<1>2. CASE job.req \in cached /\ job' = [job EXCEPT !.at = "enter"]
           /\ UNCHANGED <<answered, waiting, queue, rerun, skewed>>
  <2>1. job' # Free /\ job'.req = job.req /\ job'.at = "enter"
    <3>1. job' \in Jobs /\ job'.req = job.req /\ job'.at = "enter"
      BY <1>1, <1>2, AtExecutor DEF Jobs
    <3> QED BY <3>1, JobNotFree
  <2>2. SinceOK'
    BY <1>1 DEF Caches, SinceOK
  <2>3. ASSUME NEW q \in Requests, Live(q)' PROVE Intact(q)'
    <3>1. Live(q) /\ Intact(q) /\ (AtWork(q)' <=> AtWork(q))
      BY <1>1, <2>1, <2>3 DEF Live, Caches, AtWork
    <3>2. Asked(q)' <=> Asked(q)
      BY <1>1, <1>2, <2>1, <3>1 DEF Asked
    <3>3. Fits(q) => Fits(q)'
      BY <1>1, <1>2, <2>1, <3>1, <3>2 DEF Fits, Earlier, Length, AtWork
    <3>4. Due(q)' <=> Due(q)
      BY <1>1, <1>2, <2>1, <3>1, <3>2 DEF Due
    <3>5. Fresh(q)' /\ (Undisturbed(q)' <=> Undisturbed(q))
      BY <1>1, <1>2, <3>1 DEF Intact, Fresh, Undisturbed
    <3> QED BY <1>1, <3>1, <3>3, <3>4, <3>5 DEF Intact
  <2> QED BY <2>2, <2>3 DEF Caches
<1>3. CASE Failed
  BY <1>1, <1>3, CachesFailed
<1> QED BY <1>2, <1>3 DEF CheckKv

\* An entry is used; those that must make room are of requests that too many
\* others were served since.
LEMMA CachesEntered == ASSUME KvTypeOK, Places, Caches, EnterCache PROVE Caches'
<1> DEFINE r == job.req
           fresh == job.mode = "embed" \/ r \notin cached
<1>1. /\ job # Free /\ job.at = "enter"
      /\ UNCHANGED <<world, phase, life, passes, answered, inbox, rerun, queue>>
  BY DEF EnterCache, coordVars, workerVars
<1>2. r \in Requests /\ CallOK(job)
  BY <1>1, AtExecutor DEF Places, CallsOK
<1>3. job' # Free /\ job'.req = r /\ job'.at = "run"
      /\ job'.base = (IF fresh THEN 0 ELSE seen[r])
  <2> DEFINE base == IF fresh THEN 0 ELSE seen[r]
  <2>1. base \in Nat
    BY <1>2 DEF KvTypeOK
  <2>2. job' = [job EXCEPT !.at = "run", !.base = base]
    BY DEF EnterCache
  <2> HIDE DEF base
  <2>3. job' \in Jobs /\ job'.req = r /\ job'.at = "run" /\ job'.base = base
    BY <1>1, <2>1, <2>2, AtExecutor DEF Jobs
  <2> QED BY <2>3, JobNotFree DEF base
<1>4. \A q \in Requests :
        since'[q] = IF q = r \/ phase[q] # "live" THEN {} ELSE since[q] \cup {r}
  BY DEF EnterCache, Served
<1>5. crowded' = crowded \cup {q \in Requests : Cardinality(since'[q]) >= world.capacity}
  BY DEF EnterCache
<1>6. cached' = {q \in cached \cup {r} : Cardinality(Used(r)[q]) < world.capacity}
  BY DEF EnterCache, Kept
<1>7. \A q \in Requests :
        /\ Used(r)[q] = IF q = r THEN {} ELSE newer[q] \cup {r}
        /\ newer'[q] = IF q \in cached' THEN Used(r)[q] \cap cached' ELSE {}
        /\ seen'[q] = IF q \in cached' /\ ~(q = r /\ fresh) THEN seen[q] ELSE 0
        /\ idle'[q] = IF q # r /\ q \in cached' THEN idle[q] ELSE 0
  BY DEF EnterCache, Used
<1> HIDE DEF r, fresh
<1>8. ASSUME NEW q \in Requests PROVE IsFiniteSet(since'[q]) /\ Cardinality(since'[q]) \in Nat
  <2>1. IsFiniteSet({}) /\ IsFiniteSet(since[q])
    BY FS_EmptySet DEF Caches, SinceOK
  <2>2. IsFiniteSet(since[q] \cup {r})
    BY <2>1, FS_AddElement
  <2>3. IsFiniteSet(since'[q])
    BY <1>4, <2>1, <2>2
  <2> QED BY <2>3, FS_CardinalityType
<1>9. world.capacity \in Nat /\ world.capacity > 0
  BY InAWorld
<1>10. SinceOK'
  BY <1>1, <1>5, <1>8, <1>9 DEF SinceOK
<1>11. r \in cached'
  <2>1. Cardinality({}) = 0
    BY FS_EmptySet
  <2> QED BY <1>2, <1>6, <1>7, <1>9, <2>1
<1>12. ASSUME NEW q \in Requests, Live(q)' PROVE Intact(q)'
  <2>1. Live(q) /\ Intact(q) /\ Placed(q)
    BY <1>1, <1>12 DEF Live, Caches, Places, OnePlace
  <2>2. Undisturbed(q)' => Undisturbed(q)
    BY <1>1, <1>5 DEF Undisturbed
  <2>3. CASE q = r
    <3>1. AtWork(q) /\ Asked(q) /\ AtWork(q)' /\ ~answered[q]
      BY <1>1, <1>3, <2>1, <2>3 DEF AtWork, Asked, Placed, r
    <3>2. ~Asked(q)'
      BY <1>1, <1>3, <2>1, <3>1 DEF Asked, Placed
    <3>3. Fresh(q)'
      <4>1. life'[q] = life[q] /\ life[q] \in Nat /\ life[q] <= RequestTime
        BY <1>1, <2>1 DEF Intact, Fresh, KvTypeOK
      <4>2. newer'[q] \subseteq {} /\ idle'[q] = 0
        BY <1>7, <2>3
      <4> QED BY <4>1, <4>2 DEF Fresh
    <3>4. job.mode = ModeOf(q) /\ passes[q] \in Nat /\ passes[q] > 0
      BY <1>2, <2>1, <2>3 DEF CallOK, Placed, KvTypeOK, r
    <3>5. ASSUME world.role = "first" \/ Undisturbed(q)' PROVE job'.base = Earlier(q)
      <4>1. Fits(q)
        BY <2>1, <2>2, <3>5 DEF Intact
      <4>2. CASE passes[q] = 1
        <5>1. q \notin cached
          BY <3>1, <4>1, <4>2 DEF Fits
        <5> QED BY <1>3, <2>3, <4>2, <5>1 DEF fresh, Earlier
      <4>3. CASE passes[q] > 1
        <5>1. q \in cached
          <6>1. CASE world.role = "first"
            BY <1>1, <3>1, <3>4, <4>1, <4>3, <6>1 DEF Fits, ModeOf
          <6>2. CASE Undisturbed(q)'
            BY <2>1, <2>2, <3>1, <4>3, <6>2 DEF Intact, Due
          <6> QED BY <3>5, <6>1, <6>2
        <5>2. seen[q] = Earlier(q) /\ job.mode # "embed"
          BY <3>1, <3>4, <4>1, <4>3, <5>1 DEF Fits, ModeOf
        <5> QED BY <1>3, <2>3, <5>1, <5>2 DEF fresh
      <4> QED BY <3>4, <4>2, <4>3
    <3>6. (world.role = "first" \/ Undisturbed(q)') => Fits(q)'
      BY <1>1, <1>3, <3>1, <3>2, <3>5 DEF Fits, Earlier
    <3> QED BY <1>1, <1>11, <2>3, <3>3, <3>6 DEF Intact
  <2>4. CASE q # r
    <3>1. ~AtWork(q) /\ ~AtWork(q)'
      BY <1>3, <2>4 DEF AtWork, r
    <3>2. Asked(q)' <=> Asked(q)
      BY <1>1, <3>1 DEF Asked
    <3>3. q \in cached' => q \in cached
      BY <1>6, <2>4
    <3>4. since'[q] = since[q] \cup {r}
      BY <1>4, <2>1, <2>4 DEF Live
    <3>5. Fresh(q)'
      <4>1. Fresh(q)
        BY <2>1 DEF Intact
      <4>2. q \in cached' => newer'[q] \subseteq newer[q] \cup {r} /\ idle'[q] = idle[q]
        BY <1>7, <2>4
      <4>3. life'[q] = life[q]
        BY <1>1
      <4>4. q \in cached' => idle'[q] <= life'[q]
        BY <3>3, <4>1, <4>2, <4>3 DEF Fresh
      <4>5. q \in cached' => newer'[q] \subseteq since'[q]
        <5>1. q \in cached' => newer[q] \subseteq since[q]
          BY <3>3, <4>1 DEF Fresh
        <5> QED BY <3>4, <4>2, <5>1
      <4> QED BY <4>1, <4>3, <4>4, <4>5 DEF Fresh
    <3>6. Fits(q) => Fits(q)'
      BY <1>1, <1>7, <2>4, <3>1, <3>2, <3>3 DEF Fits, Earlier, Length
    <3>7. (Due(q)' <=> Due(q))
      BY <1>1, <3>1, <3>2 DEF Due
    <3>8. ASSUME Undisturbed(q)', q \in cached PROVE q \in cached'
      <4>1. Used(r)[q] \subseteq since'[q]
        BY <1>7, <2>1, <2>4, <3>4, <3>8 DEF Intact, Fresh
      <4>2. Cardinality(since'[q]) < world.capacity
        BY <1>5, <1>8, <1>9, <3>8 DEF Undisturbed
      <4>3. /\ Cardinality(Used(r)[q]) <= Cardinality(since'[q])
            /\ Cardinality(Used(r)[q]) \in Nat
        BY <1>8, <4>1, FS_Subset, FS_CardinalityType
      <4> QED BY <1>6, <1>8, <1>9, <3>8, <4>2, <4>3
    <3> QED BY <1>1, <2>1, <2>2, <3>5, <3>6, <3>7, <3>8 DEF Intact
  <2> QED BY <2>3, <2>4
<1> QED BY <1>10, <1>12 DEF Caches

\* The layers run to their end, or one raises.
LEMMA CachesRun == ASSUME KvTypeOK, Places, Caches, RunLayers PROVE Caches'
<1> DEFINE longer == IF job.req \in cached
                     THEN [seen EXCEPT ![job.req] = job.base + Length(job.req)] ELSE seen
<1>1. /\ job # Free /\ job.at = "run"
      /\ UNCHANGED <<world, phase, life, passes, inbox, cached, newer, idle, since, crowded>>
  BY DEF RunLayers, coordVars, history
<1>2. job.req \in Requests /\ CallOK(job)
  BY <1>1, AtExecutor DEF Places, CallsOK
<1>3. \A q \in Requests : q # job.req => longer[q] = seen[q]
  BY DEF KvTypeOK
<1>4. job.req \in cached => longer[job.req] = job.base + Length(job.req)
  BY <1>2 DEF KvTypeOK
<1>5. CASE Answered(job.base) /\ seen' = longer
  <2>1. job' = Free /\ UNCHANGED <<queue, rerun>>
    BY <1>5 DEF Answered
  <2>2. SinceOK'
    BY <1>1 DEF Caches, SinceOK
  <2>3. ASSUME NEW q \in Requests, Live(q)' PROVE Intact(q)'
    <3>1. Live(q) /\ Intact(q) /\ Placed(q) /\ ~AtWork(q)'
      BY <1>1, <2>1, <2>3 DEF Live, Caches, AtWork, Places, OnePlace
    <3>2. Fresh(q)' /\ (Undisturbed(q)' <=> Undisturbed(q))
      BY <1>1, <2>1, <3>1 DEF Intact, Fresh, Undisturbed
    <3>3. CASE q = job.req
      <4>1. AtWork(q) /\ ~Asked(q)'
        BY <1>1, <2>1, <3>1, <3>3 DEF AtWork, Asked, Placed
      <4>2. Fits(q) => Fits(q)'
        BY <1>1, <1>4, <1>5, <3>1, <3>3, <4>1 DEF Fits, Earlier, Length
      <4>3. Due(q)
        BY <1>1, <4>1 DEF Due
      <4> QED BY <1>1, <3>1, <3>2, <4>2, <4>3 DEF Intact
    <3>4. CASE q # job.req
      <4>1. ~AtWork(q) /\ answered'[q] = answered[q] /\ seen'[q] = seen[q]
        BY <1>3, <1>5, <3>4 DEF AtWork, Answered, KvTypeOK
      <4>2. Asked(q)' <=> Asked(q)
        BY <1>1, <2>1, <3>1, <4>1 DEF Asked
      <4> QED BY <1>1, <2>1, <3>1, <4>1, <4>2, IntactKept DEF Intact, Fresh
    <3> QED BY <3>3, <3>4
  <2> QED BY <2>2, <2>3 DEF Caches
<1>6. CASE Failed /\ seen' \in {seen, longer}
  <2>1. \A q \in Requests : q # job.req => seen'[q] = seen[q]
    BY <1>3, <1>6
  <2> HIDE DEF longer
  <2> QED BY <1>1, <1>6, <2>1, CachesFailed
<1> QED BY <1>5, <1>6 DEF RunLayers

\* Entries are popped, none of them a live request's.
LEMMA CachesForgotten ==
  ASSUME KvTypeOK, Places, Caches, NEW rs, Forget(rs),
         \A q \in Requests : Live(q) /\ q \in cached => q \notin rs,
         UNCHANGED <<world, phase, life, passes, answered, inbox, queue, rerun, since, crowded>>,
         job' = job \/ (job' = Free /\ \A q \in Requests : Live(q) => ~AtWork(q))
  PROVE  Caches'
<1>1. SinceOK'
  BY DEF Caches, SinceOK
<1>2. ASSUME NEW q \in Requests, Live(q)' PROVE Intact(q)'
  <2>1. Live(q) /\ Intact(q)
    BY <1>2 DEF Live, Caches
  <2>2. (AtWork(q)' <=> AtWork(q)) /\ (AtWork(q) => job' = job)
    BY <2>1 DEF AtWork
  <2>3. Asked(q)' <=> Asked(q)
    BY <2>2 DEF Asked
  <2>4. q \in cached' <=> q \in cached
    BY <2>1 DEF Forget
  <2>5. CASE q \in rs
    <3>1. q \notin cached
      BY <2>1, <2>5
    <3>2. Fresh(q)'
      BY <2>1, <2>4, <3>1 DEF Intact, Fresh
    <3>3. Fits(q) => Fits(q)'
      BY <2>2, <2>3, <2>4, <3>1 DEF Fits, Earlier
    <3>4. (Due(q)' <=> Due(q)) /\ (Undisturbed(q)' <=> Undisturbed(q))
      BY <2>2, <2>3 DEF Due, Undisturbed
    <3> QED BY <2>1, <2>4, <3>2, <3>3, <3>4 DEF Intact
  <2>6. CASE q \notin rs
    <3>1. /\ newer'[q] \subseteq newer[q] /\ seen'[q] = seen[q] /\ idle'[q] = idle[q]
      BY <2>6 DEF Forget
    <3> QED BY <2>1, <2>2, <2>3, <2>4, <3>1, IntactKept DEF Intact, Fresh
  <2> QED BY <2>5, <2>6
<1> QED BY <1>1, <1>2 DEF Caches

\* InferenceEnd clears the cache of a request that is over.
LEMMA CachesCleared == ASSUME KvTypeOK, Places, Caches, ClearCache PROVE Caches'
<1>1. /\ job # Free /\ job.at = "clear" /\ job' = Free /\ Forget({job.req})
      /\ UNCHANGED <<world, phase, life, passes, answered, inbox, queue, rerun, since, crowded>>
  BY DEF ClearCache, coordVars, history
<1>2. job.mode = "clear_cache" /\ CallOK(job)
  BY <1>1 DEF Places, CallsOK
<1>3. ~Live(job.req)
  BY <1>2 DEF CallOK, ModeOf
<1>4. \A q \in Requests : Live(q) => ~AtWork(q) /\ q \notin {job.req}
  BY <1>3 DEF AtWork
<1> QED BY <1>1, <1>4, CachesForgotten

\* The reaper finds no entry of a live request: it is younger than IDLE.
LEMMA CachesReaped == ASSUME KvTypeOK, Places, Caches, Reap PROVE Caches'
<1> DEFINE rs == {q \in cached : idle[q] > IdleTime}
<1>1. /\ Forget(rs)
      /\ UNCHANGED <<world, phase, life, passes, answered, inbox, queue, job, rerun,
                     since, crowded>>
  BY DEF Reap, coordVars, workerVars, serverVars, history
<1>2. ASSUME NEW q \in Requests, Live(q), q \in cached PROVE q \notin rs
  <2>1. idle[q] <= life[q] /\ life[q] <= RequestTime /\ idle[q] \in Nat /\ life[q] \in Nat
    BY <1>2 DEF Caches, Intact, Fresh, KvTypeOK
  <2> QED BY <2>1, KvAssumption
<1> HIDE DEF rs
<1> QED BY <1>1, <1>2, CachesForgotten

\* Each step keeps the caches of live requests.
LEMMA CachesInvariant == ASSUME KvTypeOK, Places, Caches, [KvNext]_vars PROVE Caches'
<1>1. CASE UNCHANGED vars
  BY <1>1 DEF vars, coordVars, workerVars, serverVars, cacheVars, history, Caches,
     SinceOK, Live, Intact, Fresh, Fits, Due, Undisturbed, Asked, AtWork, Earlier, Length
<1> QED
  BY <1>1, CachesBegin, CachesNextPass, CachesFinish, CachesTick, CachesHandled,
     CachesGivenUp, CachesTaken, CachesChecked, CachesEntered, CachesRun,
     CachesCleared, CachesReaped DEF KvNext

\* What was answered from another context was crowded out or run twice.
LEMMA WholeInvariant ==
  ASSUME KvTypeOK, Places, Caches, AnswersWhole, [KvNext]_vars PROVE AnswersWhole'
<1>1. CASE UNCHANGED <<world, skewed>> /\ crowded \subseteq crowded' /\ rerun \subseteq rerun'
  BY <1>1 DEF AnswersWhole
<1>2. ASSUME NEW r \in Requests, Begin(r) \/ NextPass(r) \/ Finish(r) PROVE AnswersWhole'
  <2>1. CASE Begin(r) \/ NextPass(r)
    BY <1>1, <2>1 DEF Begin, NextPass, history
  <2>2. CASE Finish(r)
    BY <2>2 DEF Finish, AnswersWhole
  <2> QED BY <1>2, <2>1, <2>2
<1>3. CASE Tick \/ Handle \/ GiveUp \/ Take \/ ClearCache \/ Reap \/ UNCHANGED vars
  BY <1>1, <1>3 DEF Tick, Handle, GiveUp, Take, ClearCache, Reap, workerVars, history, vars
<1>4. ASSUME job # Free, Failed, UNCHANGED <<world, crowded>> PROVE AnswersWhole'
  BY <1>1, <1>4 DEF Failed
<1>5. CASE CheckKv
  BY <1>1, <1>4, <1>5 DEF CheckKv, history
<1>6. CASE EnterCache
  BY <1>1, <1>6 DEF EnterCache, workerVars
<1>7. CASE RunLayers
  <2>1. job # Free /\ job.at = "run" /\ UNCHANGED <<world, crowded>>
    BY <1>7 DEF RunLayers, history
  <2>2. CASE Answered(job.base)
    <3>1. rerun' = rerun
      BY <2>2 DEF Answered
    <3>2. \A q \in skewed' : q \in skewed \/
             (q = job.req /\ Live(q) /\ job.base # Earlier(q))
      BY <2>2 DEF Answered, Live
    <3>3. job.req \in Requests /\ AtWork(job.req)
      BY <2>1, AtExecutor DEF AtWork
    <3>4. Live(job.req) /\ job.base # Earlier(job.req)
            => world.role # "first" /\ ~Undisturbed(job.req)
      BY <2>1, <3>3 DEF Caches, Intact, Fits
    <3> QED BY <2>1, <3>1, <3>2, <3>4 DEF AnswersWhole, Undisturbed
  <2> QED BY <1>4, <1>7, <2>1, <2>2 DEF RunLayers
<1> QED BY <1>2, <1>3, <1>5, <1>6, <1>7 DEF KvNext

----------------------------------------------------------------------------
(* The theorems *)

\* At the start nothing is under way and nothing is cached.
LEMMA KvInitially == KvInit => IInv
<1> SUFFICES ASSUME KvInit PROVE IInv
  OBVIOUS
<1>1. KvTypeOK
  <2>1. inbox \in Seq(Messages) /\ queue \in Seq(Calls) /\ job \in {Free} \cup Jobs
    BY DEF KvInit
  <2>2. /\ phase \in [Requests -> {"new", "live", "ended"}]
        /\ life \in [Requests -> Nat] /\ passes \in [Requests -> Nat]
        /\ answered \in [Requests -> BOOLEAN] /\ waiting \in BOOLEAN
    BY DEF KvInit
  <2>3. /\ cached \in SUBSET Requests /\ newer \in [Requests -> SUBSET Requests]
        /\ seen \in [Requests -> Nat] /\ idle \in [Requests -> Nat]
        /\ since \in [Requests -> SUBSET Requests]
    BY DEF KvInit
  <2>4. /\ world \in Worlds /\ crowded \in SUBSET Requests
        /\ rerun \in SUBSET Requests /\ skewed \in SUBSET Requests
    BY DEF KvInit
  <2> QED BY <2>1, <2>2, <2>3, <2>4 DEF KvTypeOK
<1>2. inbox = <<>> /\ queue = <<>> /\ job = Free
  BY DEF KvInit
<1>3. Elems(inbox) = {} /\ Elems(queue) = {}
  BY <1>2 DEF Elems
<1>4. \A r \in Requests : phase[r] = "new" /\ ~Live(r)
  BY DEF KvInit, Live
<1>5. Places
  BY <1>2, <1>3, <1>4 DEF Places, CallsOK, Unborn, OnePlace, KvInit
<1>6. SinceOK
  <2>1. IsFiniteSet({}) /\ Cardinality({}) = 0
    BY FS_EmptySet
  <2> QED BY <1>1, <2>1, InAWorld DEF SinceOK, KvInit
<1> QED BY <1>1, <1>4, <1>5, <1>6 DEF IInv, Caches, AnswersWhole, KvInit

\* The inductive invariant: the variables have their types, a live request is
\* under way in one place at most, and its cache is what its next pass must find.
THEOREM KvInvariance == KvSpec => []IInv
<1>1. IInv /\ [KvNext]_vars => IInv'
  BY KvTypeInvariant, PlacesInvariant, CachesInvariant, WholeInvariant DEF IInv
<1> QED BY <1>1, KvInitially, PTL DEF KvSpec

\* A live request is answered from exactly its earlier tokens, for any number of
\* requests and passes, any room for caches and any idle time above that of a
\* request: the reaper never takes its cache, and only eviction and a pass that is
\* run again over HTTP can change its context, never at a first node.
THEOREM AnsweredWhole == KvSpec => []AnswersWhole
<1>1. IInv => AnswersWhole
  BY DEF IInv
<1> QED BY <1>1, KvInvariance, PTL

=============================================================================
