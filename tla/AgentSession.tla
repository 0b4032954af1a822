---------------------------- MODULE AgentSession ----------------------------
(***************************************************************************)
(* One session of the agent runtime of docs/archaeology/deepseek-harness:  *)
(* the loop that runs turns (runtime.py), the tools it calls               *)
(* (tool_runtime.py), the compaction of the model's context                *)
(* (compaction.py, surface.py) and the recovery of an interrupted session  *)
(* (recovery.py), over one append-only log (event_store.py).               *)
(*                                                                         *)
(* The log is the only state that survives the process.  The code appends  *)
(* its events in synchronous stretches that end at an await or a return;   *)
(* todo holds the events of the current stretch that are not yet appended, *)
(* and the process may die before each of them.  The next action of the    *)
(* code is taken when todo is empty.                                       *)
(*                                                                         *)
(* The model, the tools and the user are the environment.  Call ids are    *)
(* unique in a session: a call is named by its turn, step and position.    *)
(***************************************************************************)
EXTENDS Naturals, Sequences, FiniteSets, FiniteSetsExt

CONSTANT Setups     \* the sessions and environments that are explored

FaultKinds == {"model_error", "tool_error", "callback_error", "unknown_tool",
               "context"}

ASSUME SetupsAssumption ==
    Setups \subseteq [delegates : BOOLEAN, compacts : BOOLEAN,
                      faults : SUBSET FaultKinds,
                      turns : Nat, steps : Nat \ {0}, calls : Nat, crashes : Nat,
                      cancels : Nat, prunes : Nat, compactions : Nat]

VARIABLES
    log,        \* the events of the store, which are the lines of its file
    torn,       \* the file ends in an unterminated line
    todo,       \* events of the current stretch still to be appended
    pc,         \* where run_turn or resume stands once todo is appended
    turns,      \* len(session.turns)
    cur,        \* the current turn, step and attempt
    calls,      \* tool calls of the last ModelFinal of the attempt
    next,       \* the first of them that has not been dispatched
    concl,      \* some result of the step concludes the turn
    contexts,   \* additional contexts the step's results carry
    engine,     \* the compaction engine: in use, generation, overflow retries
    env         \* the setup of this session; crashes, cancels and prunes so far

vars == <<log, torn, todo, pc, turns, cur, calls, next, concl, contexts,
          engine, env>>

Delegates == env.setup.delegates    \* adapter.delegates_tools: the backend runs the tools
Compacts == env.setup.compacts      \* the caller gives run_turn a CompactionEngine
Faults == env.setup.faults          \* what the environment does: see FaultKinds

\* Bounds: turns, steps, calls of a message, crashes, cancels, prunes, compactions.
MaxTurns == env.setup.turns
MaxSteps == env.setup.steps
MaxCalls == env.setup.calls
MaxCrashes == env.setup.crashes
MaxCancels == env.setup.cancels
MaxPrunes == env.setup.prunes
MaxCompactions == env.setup.compactions

-----------------------------------------------------------------------------
(* Events.  A field that an event type does not use keeps its zero.        *)

Blank == [type |-> "", turn |-> 0, step |-> 0, att |-> 0, call |-> 0,
          calls |-> 0, from |-> 0, to |-> 0, src |-> {}, note |-> ""]

TurnEvent(type, t, note) ==
    [Blank EXCEPT !.type = type, !.turn = t, !.note = note]
StepEvent(type, t, s) ==
    [Blank EXCEPT !.type = type, !.turn = t, !.step = s]
AttemptEvent(type, t, s, a, note) ==
    [Blank EXCEPT !.type = type, !.turn = t, !.step = s, !.att = a, !.note = note]

Opening(t, s) == <<StepEvent("step/start", t, s),
                   StepEvent("agent/request", t, s)>>

Of(type) == {i \in DOMAIN log : log[i].type = type}

SameStep(i, j) == log[i].turn = log[j].turn /\ log[i].step = log[j].step
SameCall(i, j) == SameStep(i, j) /\ log[i].call = log[j].call

-----------------------------------------------------------------------------
(* The surface: what the model is shown of the log.                        *)

SurfaceType == {"user/message", "assistant/message", "tool/result"}

OnSurface(i) == log[i].type \in SurfaceType
Replaces(i) == OnSurface(i) /\ log[i].from # 0

\* _fold_active_seqs over the first n events: a surface event stays active
\* until a later event replaces a range it lies in.
ActiveUpTo(n) ==
    {i \in 1 .. n : /\ OnSurface(i)
                    /\ ~\E r \in i + 1 .. n : /\ Replaces(r)
                                              /\ i \in log[r].from .. log[r].to}

Active == ActiveUpTo(Len(log))

\* The conditions under which _fold_active_seqs does not raise.
SurfaceFolds ==
    \A r \in DOMAIN log :
        Replaces(r) =>
            LET before == ActiveUpTo(r - 1)
                gone == before \cap (log[r].from .. log[r].to)
            IN  /\ {log[r].from, log[r].to} \subseteq before
                /\ gone \subseteq log[r].src
                /\ log[r].type = "tool/result" =>
                       /\ Cardinality(gone) = 1
                       /\ \A i \in gone : /\ log[i].type = "tool/result"
                                          /\ SameCall(i, r)

\* _surface_units: the results right after an assistant message that lists
\* their calls stay with it; every other active event is a unit of its own.
ListedBy(r, m) ==
    /\ log[r].type = "tool/result"
    /\ log[m].type = "assistant/message"
    /\ SameStep(r, m)
    /\ log[r].call \in 1 .. log[m].calls

Paired(r) ==
    \E m \in Active :
        /\ m < r
        /\ \A i \in Active : i \in m + 1 .. r => ListedBy(i, m)

UnitHeads == {i \in Active : ~Paired(i)}

-----------------------------------------------------------------------------
(* Compaction.                                                             *)

\* _unmatched_compaction_start.
UnmatchedStart ==
    \E i \in Of("compaction/start") :
        \A j \in Of("compaction/end") : j < i

\* Mutant: only a result counts as committed.
RetrySafeBeforeResult ==
    LET last == Max({i \in DOMAIN log :
                         log[i].type \in {"tool/result", "agent/request", "step/end"}})
    IN  log[last].type = "agent/request"

\* retry_safe: no committed message or tool event since the latest request.
RetrySafe ==
    LET last == Max({i \in DOMAIN log :
                         log[i].type \in {"assistant/message", "tool/call",
                                          "tool/result", "agent/request",
                                          "step/end"}})
    IN  log[last].type = "agent/request"

\* Mutant: the surface is cut between any two of its events.
CutsAnywhere == Active \ {Min(Active)}

\* _select_range keeps the units from the one headed by keep on, and there is
\* something before it to compact.
Cuts == {i \in UnitHeads : i # Min(Active)}

\* Mutant: the summary names the seq it gets itself as its source.
CompactionCitesItself(keep) ==
    LET n == Len(log)
        shadowed == {i \in Active : i < keep}
        stamp == [Blank EXCEPT !.att = engine.gen + 1]
    IN  <<[stamp EXCEPT !.type = "compaction/start"],
          [stamp EXCEPT !.type = "compaction/summary", !.src = {n + 2}],
          [Blank EXCEPT !.type = "user/message", !.note = "summary",
                        !.from = Min(shadowed), !.to = Max(shadowed),
                        !.src = shadowed \cup {n + 1, n + 2}],
          [stamp EXCEPT !.type = "compaction/end"]>>

\* The four events of a committed compaction, in their order, when the first
\* of them gets seq Len(log) + 1.
Compaction(keep) ==
    LET n == Len(log)
        shadowed == {i \in Active : i < keep}
        stamp == [Blank EXCEPT !.att = engine.gen + 1]
    IN  <<[stamp EXCEPT !.type = "compaction/start"],
          [stamp EXCEPT !.type = "compaction/summary", !.src = {n + 1}],
          [Blank EXCEPT !.type = "user/message", !.note = "summary",
                        !.from = Min(shadowed), !.to = Max(shadowed),
                        !.src = shadowed \cup {n + 1, n + 2}],
          [stamp EXCEPT !.type = "compaction/end"]>>

-----------------------------------------------------------------------------
(* The loop of run_turn.                                                   *)

NoCur == [turn |-> 0, step |-> 0, att |-> 0]
NoEngine == [on |-> FALSE, gen |-> 0, retries |-> 0]

Init ==
    /\ env \in [setup : Setups, crashes : {0}, cancels : {0}, prunes : {0}]
    /\ log = <<>> /\ torn = FALSE
    /\ todo = <<>> /\ pc = "idle"
    /\ turns = 0 /\ cur = NoCur
    /\ calls = 0 /\ next = 1 /\ concl = FALSE /\ contexts = 0
    /\ engine = [NoEngine EXCEPT !.on = Compacts]

\* EventStore.append of the next event of the stretch.
Write ==
    /\ todo # <<>>
    /\ log' = Append(log, Head(todo))
    /\ todo' = Tail(todo)
    /\ UNCHANGED <<torn, pc, turns, cur, calls, next, concl, contexts, engine, env>>

At(label) == pc = label /\ todo = <<>>

\* A stretch that appends events and continues at label.
Then(events, label) ==
    /\ todo' = events
    /\ pc' = label
    /\ UNCHANGED <<log, torn, env>>

AttemptStart(a) == AttemptEvent("execution/attempt/start", cur.turn, cur.step, a, "")
AttemptEnd(status) ==
    AttemptEvent("execution/attempt/end", cur.turn, cur.step, cur.att, status)
StepEnd == StepEvent("step/end", cur.turn, cur.step)
TurnEnd(reason) == TurnEvent("turn/end", cur.turn, reason)

ForgetAttempt == calls' = 0 /\ next' = 1 /\ concl' = FALSE /\ contexts' = 0

\* The start of run_turn for turn t: two events of the turn and the first step.
Begin(t) ==
    /\ Then(<<TurnEvent("user/message", t, ""), TurnEvent("turn/start", t, "")>>
              \o Opening(t, 1), "requested")
    /\ turns' = t
    /\ cur' = [turn |-> t, step |-> 1, att |-> 0]
    /\ ForgetAttempt

RunTurn ==
    /\ At("idle")
    /\ turns < MaxTurns
    /\ Begin(turns + 1)
    /\ UNCHANGED engine

\* Mutant: the exception leaves with the step open.
UnwindTurnOnly(attemptEnd) ==
    /\ Then(attemptEnd \o <<TurnEnd("error")>>, "idle")
    /\ ForgetAttempt
    /\ UNCHANGED <<turns, cur>>

\* The except clause of run_turn: the attempt has been given its end event, or
\* has none; the step and the turn are ended and the exception leaves.
Unwind(attemptEnd) ==
    /\ Then(attemptEnd \o <<StepEnd, TurnEnd("error")>>, "idle")
    /\ ForgetAttempt
    /\ UNCHANGED <<turns, cur>>

\* maybe_compact before the request.  An engine that finds an unmatched start
\* raises before it looks at the pressure; otherwise there is no pressure or
\* nothing to cut, or the summary is too long and plan raises, or the surface
\* is replaced up to some unit.  Then the first attempt of the step starts.
\* Building the context raises when the surface does not fold.
StartAttempt(before) ==
    /\ Then(before \o <<AttemptStart(1)>>, "stream")
    /\ cur' = [cur EXCEPT !.att = 1]
    /\ ForgetAttempt
    /\ UNCHANGED turns

Request ==
    /\ At("requested")
    /\ IF ~SurfaceFolds \/ (engine.on /\ UnmatchedStart)
       THEN Unwind(<<>>) /\ UNCHANGED engine
       ELSE \/ StartAttempt(<<>>) /\ UNCHANGED engine
            \/ engine.on /\ Cuts # {} /\ Unwind(<<>>) /\ UNCHANGED engine
            \/ /\ engine.on
               /\ engine.gen < MaxCompactions
               /\ \E keep \in Cuts : StartAttempt(Compaction(keep))
               /\ engine' = [engine EXCEPT !.gen = @ + 1]

\* Mutant: the turn is ended before its step.
FinalAnswerTurnFirst ==
    /\ At("stream")
    /\ calls = 0
    /\ Then(<<StepEvent("assistant/message", cur.turn, cur.step),
              AttemptEnd("SUCCEEDED"), TurnEnd("completed"), StepEnd>>, "idle")
    /\ ForgetAttempt
    /\ UNCHANGED <<turns, cur, engine>>

\* ModelFinal without tool calls ends the turn.
FinalAnswer ==
    /\ At("stream")
    /\ calls = 0
    /\ Then(<<StepEvent("assistant/message", cur.turn, cur.step),
              AttemptEnd("SUCCEEDED"), StepEnd, TurnEnd("completed")>>, "idle")
    /\ ForgetAttempt
    /\ UNCHANGED <<turns, cur, engine>>

FinalCalls ==
    /\ At("stream")
    /\ calls = 0
    /\ cur.step < MaxSteps
    /\ \E n \in 1 .. MaxCalls :
          /\ Then(<<[StepEvent("assistant/message", cur.turn, cur.step)
                        EXCEPT !.calls = n]>>, "stream")
          /\ calls' = n
          /\ next' = 1
    /\ UNCHANGED <<turns, cur, concl, contexts, engine>>

CallEvent(i) == [StepEvent("tool/call", cur.turn, cur.step) EXCEPT !.call = i]
ResultEvent(i, seq, note) ==
    [StepEvent("tool/result", cur.turn, cur.step)
        EXCEPT !.call = i, !.src = {seq}, !.note = note]

\* A ModelToolCallEvent.  The runtime records the call of a registered tool and
\* awaits its callbacks.  Of a tool nobody registered it records the call only;
\* a backend that runs the tools itself then reports the failed result, and
\* _record_or_validate_tool_result appends that.
ToolCalled ==
    /\ At("stream")
    /\ next <= calls
    /\ \/ Then(<<CallEvent(next)>>, "tool") /\ UNCHANGED next
       \/ /\ "unknown_tool" \in Faults
          /\ Then(<<CallEvent(next)>> \o
                    IF Delegates
                    THEN <<ResultEvent(next, Len(log) + 1, "error")>> ELSE <<>>,
                  "stream")
          /\ next' = next + 1
    /\ UNCHANGED <<turns, cur, calls, concl, contexts, engine>>

\* The tool returns: ToolRuntime.execute records its result.  An error result
\* never concludes the turn.
ToolReturns ==
    /\ At("tool")
    /\ \E kind \in {"ok", "concludes", "context", "error"} :
          /\ kind = "error" => "tool_error" \in Faults
          /\ kind = "context" => "context" \in Faults
          /\ Then(<<ResultEvent(next, Len(log), kind)>>, "stream")
          /\ concl' = (concl \/ kind = "concludes")
          /\ contexts' = contexts + (IF kind = "context" THEN 1 ELSE 0)
    /\ next' = next + 1
    /\ UNCHANGED <<turns, cur, calls, engine>>

\* pre_execute, guard or approval raises.  Under a backend that runs the tools
\* the backend turns it into a failed result, which the runtime records.
CallbackRaises ==
    /\ At("tool")
    /\ "callback_error" \in Faults
    /\ IF Delegates
       THEN /\ Then(<<ResultEvent(next, Len(log), "error")>>, "stream")
            /\ next' = next + 1
            /\ UNCHANGED <<turns, cur, calls, concl, contexts>>
       ELSE Unwind(<<AttemptEnd("ABORTED")>>)
    /\ UNCHANGED engine

\* The stream ends: the attempt and the step end, and the turn too if a result
\* concludes it; otherwise the results' contexts join the surface and the next
\* step opens.
StreamEnds ==
    /\ At("stream")
    /\ calls # 0
    /\ next > calls
    /\ LET closed == <<AttemptEnd("SUCCEEDED"), StepEnd>>
           extra == [i \in 1 .. contexts |-> TurnEvent("user/message", cur.turn, "context")]
       IN  IF concl
           THEN Then(closed \o <<TurnEnd("completed")>>, "idle") /\ UNCHANGED cur
           ELSE /\ Then(closed \o extra \o Opening(cur.turn, cur.step + 1), "requested")
                /\ cur' = [cur EXCEPT !.step = @ + 1, !.att = 0]
    /\ ForgetAttempt
    /\ UNCHANGED <<turns, engine>>

\* A ModelRequestError that the runtime does not retry: it ends the attempt and
\* the turn.
GiveUp(status) == Unwind(<<AttemptEnd(status)>>) /\ UNCHANGED engine

\* handle_request_error: an overflow is retried once in the life of the engine,
\* when nothing was committed since the request and the surface was compacted
\* up to its last unit.  A summary that is too long, an unmatched start or an
\* empty range give up instead.
OverflowRetry ==
    /\ engine.on
    /\ RetrySafe
    /\ engine.retries < 1
    /\ ~UnmatchedStart
    /\ Cuts # {}
    /\ Then(Compaction(Max(Cuts)) \o
              <<AttemptEnd("FAILED"), AttemptStart(cur.att + 1)>>, "stream")
    /\ cur' = [cur EXCEPT !.att = @ + 1]
    /\ engine' = [engine EXCEPT !.gen = @ + 1, !.retries = @ + 1]
    /\ ForgetAttempt
    /\ UNCHANGED turns

ModelError ==
    /\ At("stream")
    /\ "model_error" \in Faults
    /\ calls = 0 \/ Delegates
    /\ \/ GiveUp("FAILED")
       \/ engine.on /\ ~RetrySafe /\ GiveUp("ABORTED")
       \/ OverflowRetry

\* The task that awaits run_turn is cancelled while it waits for the model or
\* for a callback of a tool: CancelledError is no Exception, nothing is ended,
\* and the session can be used again.
Cancel ==
    /\ pc \in {"stream", "tool"} /\ todo = <<>>
    /\ env.cancels < MaxCancels
    /\ pc' = "idle"
    /\ env' = [env EXCEPT !.cancels = @ + 1]
    /\ ForgetAttempt
    /\ UNCHANGED <<log, torn, todo, turns, cur, engine>>

\* prune_tool_result(store, seq): any result event of the log that is long
\* enough, whether or not it is still on the surface.
Prune ==
    /\ At("idle")
    /\ env.prunes < MaxPrunes
    /\ \E s \in Of("tool/result") :
          todo' = <<[Blank EXCEPT !.type = "compaction/prune", !.src = {s}],
                    [log[s] EXCEPT !.from = s, !.to = s, !.src = {s}]>>
    /\ env' = [env EXCEPT !.prunes = @ + 1]
    /\ UNCHANGED <<log, torn, pc, turns, cur, calls, next, concl, contexts, engine>>

-----------------------------------------------------------------------------
(* Recovery.                                                               *)

Crash ==
    /\ pc # "dead"
    /\ env.crashes < MaxCrashes
    /\ pc' = "dead"
    /\ torn' \in IF todo # <<>> THEN BOOLEAN ELSE {torn}
    /\ env' = [env EXCEPT !.crashes = @ + 1]
    /\ todo' = <<>> /\ turns' = 0 /\ cur' = NoCur
    /\ ForgetAttempt
    /\ engine' = [NoEngine EXCEPT !.on = Compacts]
    /\ UNCHANGED log

\* open(): the valid prefix of the file is the list of events.
Reopen ==
    /\ pc = "dead"
    /\ pc' = "opened"
    /\ UNCHANGED <<log, torn, todo, turns, cur, calls, next, concl, contexts, engine, env>>

\* Mutant: a result that recovery wrote does not resolve its call.
ResolvedByTool(i) ==
    \E r \in Of("tool/result") : SameCall(i, r) /\ log[r].note # "unknown"

\* find_unresolved_tools, _open_steps, _open_turns and the attempts without an
\* end, over the whole log.
Resolved(i) == \E r \in Of("tool/result") : i \in log[r].src /\ SameCall(i, r)
UnresolvedTools == {i \in Of("tool/call") : ~Resolved(i)}

OpenSteps ==
    {i \in Of("step/start") : ~\E j \in Of("step/end") : SameStep(i, j)}
OpenTurns ==
    {i \in Of("turn/start") : ~\E j \in Of("turn/end") : log[j].turn = log[i].turn}
OpenAttempts ==
    {i \in Of("execution/attempt/start") :
        ~\E j \in Of("execution/attempt/end") :
            SameStep(i, j) /\ log[j].att = log[i].att}

\* Closer(i) for every i of S, in the order of the log.
InOrder(S) ==
    [k \in 1 .. Cardinality(S) |-> CHOOSE i \in S : Cardinality({j \in S : j <= i}) = k]

Closers(S, Closer(_)) == [k \in 1 .. Cardinality(S) |-> Closer(InOrder(S)[k])]

\* Mutant: the torn tail is left in the file.
RepairKeepsTail ==
    /\ pc = "opened" \/ At("idle")
    /\ Cardinality(Of("turn/start")) < MaxTurns
    /\ todo' =
         Closers(OpenAttempts, LAMBDA i : [log[i] EXCEPT
                    !.type = "execution/attempt/end", !.note = "ABORTED"])
         \o Closers(UnresolvedTools, LAMBDA i : [log[i] EXCEPT
                    !.type = "tool/result", !.note = "unknown", !.src = {i}])
         \o Closers(OpenSteps, LAMBDA i : [log[i] EXCEPT !.type = "step/end"])
         \o Closers(OpenTurns, LAMBDA i : [log[i] EXCEPT
                    !.type = "turn/end", !.note = "interrupted"])
    /\ pc' = "repaired"
    /\ UNCHANGED <<log, torn, turns, cur, calls, next, concl, contexts, engine, env>>

\* Mutant: an attempt that was cut off is left open.
RepairKeepsAttempts ==
    /\ pc = "opened" \/ At("idle")
    /\ Cardinality(Of("turn/start")) < MaxTurns
    /\ torn' = FALSE
    /\ todo' =
         Closers(UnresolvedTools, LAMBDA i : [log[i] EXCEPT
                    !.type = "tool/result", !.note = "unknown", !.src = {i}])
         \o Closers(OpenSteps, LAMBDA i : [log[i] EXCEPT !.type = "step/end"])
         \o Closers(OpenTurns, LAMBDA i : [log[i] EXCEPT
                    !.type = "turn/end", !.note = "interrupted"])
    /\ pc' = "repaired"
    /\ UNCHANGED <<log, turns, cur, calls, next, concl, contexts, engine, env>>

\* resume: repair_tail, then the synthetic closers of repair_interrupted_turn.
Repair ==
    /\ pc = "opened" \/ At("idle")
    /\ Cardinality(Of("turn/start")) < MaxTurns
    /\ torn' = FALSE
    /\ todo' =
         Closers(OpenAttempts, LAMBDA i : [log[i] EXCEPT
                    !.type = "execution/attempt/end", !.note = "ABORTED"])
         \o Closers(UnresolvedTools, LAMBDA i : [log[i] EXCEPT
                    !.type = "tool/result", !.note = "unknown", !.src = {i}])
         \o Closers(OpenSteps, LAMBDA i : [log[i] EXCEPT !.type = "step/end"])
         \o Closers(OpenTurns, LAMBDA i : [log[i] EXCEPT
                    !.type = "turn/end", !.note = "interrupted"])
    /\ pc' = "repaired"
    /\ UNCHANGED <<log, turns, cur, calls, next, concl, contexts, engine, env>>

\* The latest turn/start or step/start before i, which is what rebuild_session
\* holds as its current turn and step.
Before(i, types) == {j \in 1 .. i - 1 : log[j].type \in types}
CurrentStep(i, j) ==
    /\ j \in Before(i, {"turn/start", "step/start"})
    /\ j = Max(Before(i, {"turn/start", "step/start"}))
    /\ log[j].type = "step/start"
CurrentTurn(i, j) ==
    j \in Before(i, {"turn/start"}) /\ j = Max(Before(i, {"turn/start"}))

\* rebuild_session does not raise.
Rebuilds ==
    \A i \in DOMAIN log :
        /\ log[i].type = "step/start" => \E j \in 1 .. i - 1 : CurrentTurn(i, j)
        /\ log[i].type = "tool/call" => \E j \in 1 .. i - 1 : CurrentStep(i, j)
        /\ log[i].type = "step/end" =>
               \E j \in 1 .. i - 1 : CurrentStep(i, j) /\ SameStep(i, j)
        /\ log[i].type = "turn/end" =>
               \E j \in 1 .. i - 1 : CurrentTurn(i, j) /\ log[i].turn = log[j].turn

\* rebuild_session, and the fresh turn that resume runs without an engine.
Rebuild ==
    /\ At("repaired")
    /\ IF Rebuilds
       THEN Begin(Cardinality(Of("turn/start")) + 1)
       ELSE /\ pc' = "failed"
            /\ UNCHANGED <<log, torn, todo, turns, cur, calls, next, concl, contexts, env>>
    /\ engine' = [engine EXCEPT !.on = FALSE]

\* The turn resume ran is over: the caller's next run_turn has the engine again.
EngineBack ==
    /\ At("idle")
    /\ engine.on # Compacts
    /\ engine' = [engine EXCEPT !.on = Compacts]
    /\ UNCHANGED <<log, torn, todo, pc, turns, cur, calls, next, concl, contexts, env>>

\* The session stops here: the user asks nothing more, or recovery failed.
Rest == pc \in {"idle", "dead", "opened", "failed"} /\ todo = <<>> /\ UNCHANGED vars

Program ==
    \/ Write \/ Request \/ FinalAnswer \/ FinalCalls \/ ToolCalled
    \/ ToolReturns \/ CallbackRaises \/ StreamEnds \/ ModelError \/ Rebuild

Next ==
    \/ Program
    \/ RunTurn \/ EngineBack \/ Cancel \/ Prune \/ Crash \/ Reopen \/ Repair
    \/ Rest

Spec == Init /\ [][Next]_vars

-----------------------------------------------------------------------------
(* The projection of the log that build_execution_record makes.            *)

\* A step is named by its step/start; its execution has the same id.
Attempts(s) == {i \in Of("execution/attempt/start") : SameStep(i, s)}

AttemptStatus(i) ==
    IF i \in OpenAttempts THEN "RUNNING"
    ELSE LET ends == {j \in Of("execution/attempt/end") :
                        SameStep(i, j) /\ log[j].att = log[i].att}
         IN  log[Max(ends)].note

FinalStatus(s) ==
    IF Attempts(s) = {} THEN "NONE" ELSE AttemptStatus(Max(Attempts(s)))

\* _turn_outcome_from_reason, _step_outcome and _execution_outcome.
TurnReason(s) ==
    LET ends == {j \in Of("turn/end") : log[j].turn = log[s].turn}
    IN  IF ends = {} THEN "none" ELSE log[Min(ends)].note

TurnOutcome(s) ==
    CASE TurnReason(s) = "completed"   -> "COMPLETED"
      [] TurnReason(s) = "interrupted" -> "ABORTED"
      [] TurnReason(s) = "error"       -> "FAILED"
      [] OTHER                         -> "NONE"

StepOutcome(s) ==
    IF FinalStatus(s) \in {"FAILED", "ABORTED"} THEN FinalStatus(s)
    ELSE IF s \in OpenSteps
         THEN IF TurnReason(s) = "interrupted" THEN "ABORTED" ELSE "UNKNOWN"
         ELSE IF FinalStatus(s) = "RUNNING" THEN "UNKNOWN" ELSE "COMPLETED"

ExecutionOutcome(s) ==
    CASE FinalStatus(s) = "SUCCEEDED"             -> "SUCCESS"
      [] FinalStatus(s) \in {"FAILED", "ABORTED"} -> FinalStatus(s)
      [] OTHER                                    -> "UNKNOWN"

\* unresolved_tools of the record: matched by call id within the step.
RecordUnresolved(s) ==
    {i \in Of("tool/call") :
        SameStep(i, s) /\ ~\E r \in Of("tool/result") : SameCall(i, r)}

\* active_attempt: the attempt of the execution that is open at event i, 0 for
\* none; a result outside any attempt is given the attempt of its call.
ActiveAttempt(i) ==
    LET starts == {j \in Of("execution/attempt/start") : SameStep(i, j) /\ j < i}
        ended == \E k \in Of("execution/attempt/end") :
                    /\ SameStep(i, k) /\ k < i
                    /\ log[k].att = log[Max(starts)].att
    IN  IF starts = {} \/ ended THEN 0 ELSE log[Max(starts)].att

\* Mutant: a result outside any attempt is given none.
ResultAttemptHere(r) == ActiveAttempt(r)

ResultAttempt(r) ==
    IF ActiveAttempt(r) # 0 THEN ActiveAttempt(r)
    ELSE LET made == {i \in Of("tool/call") : SameCall(i, r)}
         IN  IF made = {} THEN 0 ELSE ActiveAttempt(Max(made))

-----------------------------------------------------------------------------
(* Properties.                                                             *)

\* Every event has the fields of its type, and the control state is in range.
TypeOK ==
    /\ \A i \in DOMAIN log :
          /\ log[i].turn \in 0 .. MaxTurns
          /\ log[i].step \in 0 .. MaxSteps
          /\ log[i].call \in 0 .. MaxCalls
          /\ log[i].src \subseteq 1 .. i - 1
    /\ torn \in BOOLEAN
    /\ pc \in {"idle", "requested", "stream", "tool", "dead", "opened",
               "repaired", "failed"}
    /\ turns \in 0 .. MaxTurns
    /\ next \in 1 .. calls + 1

\* When repair_interrupted_turn returns, whatever was cut off and however often
\* repair itself was cut off, nothing of the log is open: no tool call without
\* a result, no attempt, step or turn without an end, no torn tail
\* (recovery.py:195-283, event_store.py:143-157).
RepairCloses ==
    At("repaired") => /\ UnresolvedTools = {} /\ OpenAttempts = {}
                      /\ OpenSteps = {} /\ OpenTurns = {}
                      /\ ~torn

\* Recovery can fail only in a session where a run_turn task was cancelled:
\* tools that raise, unknown tools and pruned results never make it fail
\* (recovery.py:286-329, runtime.py:412-441).
OnlyCancelWedges == pc = "failed" => env.cancels > 0

\* A tool call gets one result, from the tool or from recovery and never from
\* both, after its call event (tool_runtime.py:121-164, recovery.py:149-174,
\* 243-262, runtime.py:606-653).
OneResultPerCall ==
    \A r \in Of("tool/result") :
        ~Replaces(r) =>
            /\ \E i \in Of("tool/call") : i < r /\ SameCall(i, r)
            /\ \A q \in Of("tool/result") :
                  SameCall(q, r) /\ ~Replaces(q) => q = r

\* A request is sent again only if nothing of the attempt before it was
\* committed, so that no tool runs twice for one step; the attempts of a step
\* are numbered in order and each has ended, unsuccessfully, before the next
\* starts (compaction.py:177-187, 464-485, runtime.py:327-370).
RetriesAreClean ==
    \A i, j \in Of("execution/attempt/start") :
        SameStep(i, j) /\ i < j =>
            /\ log[i].att < log[j].att
            /\ \E k \in Of("execution/attempt/end") :
                  /\ k \in i + 1 .. j - 1 /\ SameStep(i, k)
                  /\ log[k].att = log[i].att /\ log[k].note = "FAILED"
            /\ \A k \in i + 1 .. j - 1 :
                  log[k].type \notin {"assistant/message", "tool/call", "tool/result"}

\* What the records say is what happened.  Of a completed turn, each execution
\* succeeded, each step completed, and no tool call is left without a result,
\* unless nobody had registered the tool; and every result, a synthetic one
\* too, is attributed to the attempt in which its call was made
\* (recovery.py:469-518, 521-803).
RecordsAreTrue ==
    /\ \A s \in Of("step/start") :
          TurnOutcome(s) = "COMPLETED" =>
              /\ ExecutionOutcome(s) = "SUCCESS"
              /\ StepOutcome(s) = "COMPLETED"
              /\ RecordUnresolved(s) = {} \/ ("unknown_tool" \in Faults /\ ~Delegates)
    /\ \A r \in Of("tool/result") :
          \A i \in Of("tool/call") :
              SameCall(i, r) => /\ ActiveAttempt(i) # 0
                                /\ ResultAttempt(r) = ActiveAttempt(i)

\* Whenever the model is asked, every tool result it is shown stands with the
\* assistant message that made the call, after crashes, repairs and
\* compactions.  But a pruned result comes last on the surface; so does one
\* that recovery supplies for the call of an unregistered tool long after its
\* turn, or for the call of a cancelled turn when the process dies just after
\* it wrote the next turn's message
\* (compaction.py:224-271, recovery.py:243-262, surface.py:68-109).
ContextPaired ==
    /\ At("stream") /\ calls = 0 /\ Delegates
    /\ env.prunes = 0 /\ env.cancels = 0
    =>  \A r \in Active : log[r].type = "tool/result" =>
            Paired(r) /\ \E m \in Active : m < r /\ ListedBy(r, m)

\* The session uses its store only by the operations of the store, so what the
\* store promises of an append that returned holds of every event of the log.
EventTypes ==
    {"user/message", "turn/start", "turn/end", "step/start", "step/end",
     "agent/request", "assistant/message", "execution/attempt/start",
     "execution/attempt/end", "tool/call", "tool/result", "compaction/start",
     "compaction/summary", "compaction/end", "compaction/prune"}

Lines == [i \in DOMAIN log |-> log[i].type]

Store == INSTANCE EventStore WITH
            Event <- EventTypes, MaxLog <- 100,
            file <- Lines, mem <- IF pc = "dead" THEN <<>> ELSE Lines,
            isOpen <- pc # "dead", badTail <- torn /\ pc # "dead",
            acked <- {<<i, Lines[i]>> : i \in DOMAIN log}

UsesStore == Store!Spec
=============================================================================
