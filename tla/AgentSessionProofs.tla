-------------------------- MODULE AgentSessionProofs --------------------------
(***************************************************************************)
(* What a session of the agent runtime keeps for every environment: any    *)
(* number of turns, steps and calls, any faults, and a process that is     *)
(* cancelled or dies anywhere.                                             *)
(*                                                                         *)
(* The log and the events of the current stretch that are still to be      *)
(* written make one sequence, the plan.  A write does not change it, a     *)
(* crash cuts it off at the log, and every other step of the code extends  *)
(* it.  So what is kept is said of the plan, in two parts: each of its     *)
(* events was allowed after the events before it, which every prefix of it *)
(* inherits; and the control state agrees with how far the plan has got.   *)
(*                                                                         *)
(* What the model is shown of the log needs an invariant of its own, of    *)
(* every prefix too: a result that is shown stands with the message that   *)
(* made its call, and a call that has no result yet is one of the message  *)
(* all of whose followers are results, so that the result joins them       *)
(* whether a tool or recovery writes it.                                   *)
(***************************************************************************)
EXTENDS AgentSession, TLAPS, SequenceTheorems, FiniteSetTheorems, WellFoundedInduction

Plan == log \o todo

Notes == {"", "ok", "error", "concludes", "context", "unknown", "summary",
          "SUCCEEDED", "FAILED", "ABORTED", "completed", "interrupted"}

Event == [type : EventTypes, turn : Nat, step : Nat, att : Nat, call : Nat, calls : Nat,
          from : Nat, to : Nat, src : SUBSET Nat, note : Notes]

EnvType == [setup : Setups, crashes : Nat, cancels : Nat, prunes : Nat]
CurType == [turn : Nat, step : Nat, att : Nat]
EngineType == [on : BOOLEAN, gen : Nat, retries : Nat]

Typed ==
    /\ log \in Seq(Event) /\ todo \in Seq(Event)
    /\ torn \in BOOLEAN
    /\ pc \in {"idle", "requested", "stream", "tool", "dead", "opened",
               "repaired", "failed"}
    /\ turns \in Nat /\ cur \in CurType
    /\ calls \in Nat /\ next \in Nat /\ concl \in BOOLEAN /\ contexts \in Nat
    /\ engine \in EngineType /\ env \in EnvType

-----------------------------------------------------------------------------
(* Events, and what two events may have in common.                         *)

Quiet == {"user/message", "compaction/start", "compaction/summary",
          "compaction/end", "compaction/prune"}
StepTypes ==
    {"step/start", "step/end", "agent/request", "assistant/message", "tool/call",
     "tool/result", "execution/attempt/start", "execution/attempt/end"}
Opens == {"step/start", "agent/request"}
Committed == {"assistant/message", "tool/call", "tool/result"}

OneStep(e, f) == e.turn = f.turn /\ e.step = f.step
OneCall(e, f) == OneStep(e, f) /\ e.call = f.call
OneAttempt(e, f) == OneStep(e, f) /\ e.att = f.att

TurnStarts(L, n) == {j \in 1 .. n : L[j].type = "turn/start"}
TurnCount(L, n) == Cardinality(TurnStarts(L, n))

\* What the first n events of L hold of a start i.
HasStepEnd(L, n, i) ==
    \E j \in 1 .. n : L[j].type = "step/end" /\ OneStep(L[j], L[i])
HasTurnEnd(L, n, t) ==
    \E j \in 1 .. n : L[j].type = "turn/end" /\ L[j].turn = t
HasAttemptEnd(L, n, a) ==
    \E j \in 1 .. n : L[j].type = "execution/attempt/end" /\ OneAttempt(L[j], L[a])
HasResult(L, n, i) ==
    \E r \in 1 .. n : L[r].type = "tool/result" /\ i \in L[r].src /\ OneCall(L[i], L[r])

StepsEnded(L, n) == \A i \in 1 .. n : L[i].type = "step/start" => HasStepEnd(L, n, i)
TurnsEnded(L, n) == \A i \in 1 .. n : L[i].type = "turn/start" => HasTurnEnd(L, n, L[i].turn)
AttemptsEnded(L, n) ==
    \A i \in 1 .. n : L[i].type = "execution/attempt/start" => HasAttemptEnd(L, n, i)
CallsResolved(L, n) == \A i \in 1 .. n : L[i].type = "tool/call" => HasResult(L, n, i)

\* The last event of the first n that has one of the types.
LatestOf(L, n, types, j) ==
    /\ j \in 1 .. n /\ L[j].type \in types
    /\ \A k \in j + 1 .. n : L[k].type \notin types

\* The last attempt of step e among the first n events.
LastAttempt(L, n, e, a) ==
    /\ a \in 1 .. n
    /\ L[a].type = "execution/attempt/start" /\ OneStep(L[a], e)
    /\ \A i \in a + 1 .. n : L[i].type = "execution/attempt/start" => ~OneStep(L[i], e)

\* The step ended, its last attempt succeeded, and its calls have results.
Excused(b) == "unknown_tool" \in b.faults /\ ~b.delegates
Succeeded(L, n, e) ==
    \E a \in 1 .. n :
        /\ LastAttempt(L, n, e, a)
        /\ \E k \in 1 .. n : /\ L[k].type = "execution/attempt/end"
                             /\ OneAttempt(L[k], L[a]) /\ L[k].note = "SUCCEEDED"
StepResolved(L, n, e, b) ==
    Excused(b) \/ \A i \in 1 .. n :
                      L[i].type = "tool/call" /\ OneStep(L[i], e) => HasResult(L, n, i)
StepDone(L, n, i, b) ==
    HasStepEnd(L, n, i) /\ Succeeded(L, n, L[i]) /\ StepResolved(L, n, L[i], b)

-----------------------------------------------------------------------------
(* What event n of a log may be, given the events before it.               *)

Bounded(L, n, b) ==
    /\ L[n].turn <= b.turns /\ L[n].step <= b.steps /\ L[n].call <= b.calls
    /\ L[n].src \subseteq 1 .. n - 1

Numbered(L, n) ==
    /\ L[n].type \in StepTypes \cup {"turn/end"} => L[n].turn <= TurnCount(L, n)
    /\ L[n].type = "turn/start" => L[n].turn = TurnCount(L, n)

CallsOnce(L, n) ==
    /\ L[n].type = "tool/call" =>
           \A i \in 1 .. n - 1 : L[i].type = "tool/call" => ~OneCall(L[i], L[n])
    /\ L[n].type = "tool/result" =>
           \E i \in 1 .. n - 1 : /\ L[i].type = "tool/call" /\ OneCall(L[i], L[n])
                                 /\ L[n].from = 0 => i \in L[n].src
    /\ L[n].type = "tool/result" /\ L[n].from = 0 =>
           \A i \in 1 .. n - 1 :
               L[i].type = "tool/result" /\ L[i].from = 0 => ~OneCall(L[i], L[n])

AttemptsInOrder(L, n) ==
    L[n].type = "execution/attempt/start" =>
        \A i \in 1 .. n - 1 :
            L[i].type = "execution/attempt/start" /\ OneStep(L[i], L[n]) =>
                /\ L[i].att < L[n].att
                /\ \E k \in i + 1 .. n - 1 :
                      /\ L[k].type = "execution/attempt/end" /\ OneAttempt(L[k], L[i])
                      /\ L[k].note = "FAILED"
                /\ \A k \in i + 1 .. n - 1 : L[k].type \notin Committed

Attributed(L, n) ==
    /\ L[n].type = "execution/attempt/start" => L[n].att # 0
    /\ L[n].type = "execution/attempt/end" =>
           /\ ~HasAttemptEnd(L, n - 1, n)
           /\ \E a \in 1 .. n - 1 :
                 L[a].type = "execution/attempt/start" /\ OneAttempt(L[a], L[n])
    /\ L[n].type = "tool/call" =>
           \E a \in 1 .. n - 1 : LastAttempt(L, n - 1, L[n], a) /\ ~HasAttemptEnd(L, n - 1, a)

Concluded(L, n, b) ==
    /\ L[n].type \in {"step/start", "execution/attempt/start", "tool/call"} =>
           ~HasTurnEnd(L, n - 1, L[n].turn)
    /\ L[n].type = "turn/end" /\ L[n].note = "completed" =>
           \A i \in 1 .. n - 1 :
               L[i].type = "step/start" /\ L[i].turn = L[n].turn => StepDone(L, n - 1, i, b)

Legal(L, n, b) ==
    /\ Bounded(L, n, b) /\ Numbered(L, n) /\ CallsOnce(L, n) /\ AttemptsInOrder(L, n)
    /\ Attributed(L, n) /\ Concluded(L, n, b)

\* Only a cancelled task leaves a step or a turn open behind it.
Starts == {"turn/start", "step/start"}
Within(L, n, e) ==
    \E j \in 1 .. n : LatestOf(L, n, Starts, j) /\ L[j].type = "step/start" /\ OneStep(L[j], e)
WithinTurn(L, n, t) ==
    \E j \in 1 .. n : LatestOf(L, n, {"turn/start"}, j) /\ L[j].turn = t

Nested(L, n) ==
    /\ L[n].type \in Starts => StepsEnded(L, n - 1)
    /\ L[n].type = "turn/start" => TurnsEnded(L, n - 1)
    /\ L[n].type \in {"step/start", "turn/end"} => WithinTurn(L, n - 1, L[n].turn)
    /\ L[n].type \in {"step/end", "tool/call"} => Within(L, n - 1, L[n])

\* A log that may be written; cancels counts the tasks cancelled in it.
Sound(L, b, cancels) ==
    /\ L \in Seq(Event)
    /\ \A n \in 1 .. Len(L) : Legal(L, n, b)
    /\ cancels = 0 => \A n \in 1 .. Len(L) : Nested(L, n)

-----------------------------------------------------------------------------
(* How far a log has got.                                                  *)

\* Between two turns, the last of which is t.
AtRest(L, t, cancels) ==
    /\ t = TurnCount(L, Len(L))
    /\ cancels = 0 => StepsEnded(L, Len(L)) /\ TurnsEnded(L, Len(L))

\* In turn t, after its step s.
InTurn(L, t, s, cancels) ==
    /\ t = TurnCount(L, Len(L)) /\ ~HasTurnEnd(L, Len(L), t)
    /\ \A i \in 1 .. Len(L) : L[i].type \in StepTypes /\ L[i].turn = t => L[i].step <= s
    /\ cancels = 0 => StepsEnded(L, Len(L)) /\ WithinTurn(L, Len(L), t)

TurnDone(L, t, b) ==
    \A i \in 1 .. Len(L) :
        L[i].type = "step/start" /\ L[i].turn = t => StepDone(L, Len(L), i, b)

\* In step c, whose request is the latest and comes before all else of the step.
OfStep(L, i, c) == L[i].type \in StepTypes /\ OneStep(L[i], c)
RequestIs(L, q, c) ==
    /\ LatestOf(L, Len(L), {"agent/request"}, q)
    /\ \A i \in 1 .. q : OfStep(L, i, c) => L[i].type \in Opens
InStep(L, c, cancels) ==
    /\ c.turn = TurnCount(L, Len(L)) /\ ~HasTurnEnd(L, Len(L), c.turn)
    /\ \A i \in 1 .. Len(L) :
          L[i].type \in StepTypes /\ L[i].turn = c.turn => L[i].step <= c.step
    /\ \E q \in 1 .. Len(L) : RequestIs(L, q, c)
    /\ cancels = 0 => Within(L, Len(L), c) /\ WithinTurn(L, Len(L), c.turn)
EarlierDone(L, c, b) ==
    \A i \in 1 .. Len(L) :
        L[i].type = "step/start" /\ L[i].turn = c.turn /\ L[i].step # c.step =>
            StepDone(L, Len(L), i, b)

\* Nothing of the step but its opening.
Fresh(L, c) == \A i \in 1 .. Len(L) : OfStep(L, i, c) => L[i].type \in Opens

\* The attempt of c is the last of the step, and it is running.
Running(L, c) ==
    \E a \in 1 .. Len(L) :
        LastAttempt(L, Len(L), c, a) /\ L[a].att = c.att /\ ~HasAttemptEnd(L, Len(L), a)

\* The calls of the step are numbered below m, and have results.
CallsBelow(L, c, m) ==
    \A i \in 1 .. Len(L) : L[i].type = "tool/call" /\ OneStep(L[i], c) => L[i].call < m
Streaming(L, c, m, b) ==
    Running(L, c) /\ CallsBelow(L, c, m) /\ StepResolved(L, Len(L), c, b)

\* Call m was the last event.
Calling(L, c, m, b) ==
    /\ Running(L, c) /\ CallsBelow(L, c, m + 1) /\ Len(L) > 0
    /\ L[Len(L)].type = "tool/call" /\ OneStep(L[Len(L)], c) /\ L[Len(L)].call = m
    /\ Excused(b) \/ \A i \in 1 .. Len(L) - 1 :
                        L[i].type = "tool/call" /\ OneStep(L[i], c) => HasResult(L, Len(L), i)

NothingOpen(L) ==
    /\ StepsEnded(L, Len(L)) /\ TurnsEnded(L, Len(L))
    /\ AttemptsEnded(L, Len(L)) /\ CallsResolved(L, Len(L))

-----------------------------------------------------------------------------
(* The invariant.                                                          *)

Busy == {"requested", "stream", "tool"}

Control ==
    /\ pc \in {"dead", "opened", "failed"} => todo = <<>>
    /\ torn => pc \in {"dead", "opened"}
    /\ next \in 1 .. calls + 1 /\ calls <= MaxCalls
    /\ calls # 0 => pc \in {"stream", "tool"} /\ cur.step < MaxSteps
    /\ turns <= MaxTurns
    /\ pc = "tool" => next <= calls
    /\ pc = "failed" => env.cancels # 0

Follows(L) ==
    /\ pc = "idle" => AtRest(L, turns, env.cancels)
    /\ pc \in Busy => /\ cur.turn = turns /\ cur.step \in 1 .. MaxSteps
                      /\ InStep(L, cur, env.cancels) /\ EarlierDone(L, cur, env.setup)
    /\ pc = "requested" => Fresh(L, cur)
    /\ pc = "stream" => Streaming(L, cur, next, env.setup)
    /\ pc = "tool" => Calling(L, cur, next, env.setup)
    /\ pc = "repaired" => NothingOpen(L) /\ TurnCount(L, Len(L)) < MaxTurns

SessionInv == Typed /\ Control /\ Sound(Plan, env.setup, env.cancels) /\ Follows(Plan)
-----------------------------------------------------------------------------
(* One event more.                                                         *)

Grown(L, e, M) ==
    /\ Len(L) \in Nat /\ Len(M) = Len(L) + 1
    /\ \A i \in 1 .. Len(L) : M[i] = L[i]
    /\ M[Len(L) + 1] = e

LEMMA AppendGrows ==
    ASSUME NEW L \in Seq(Event), NEW e \in Event
    PROVE  Append(L, e) \in Seq(Event) /\ Grown(L, e, Append(L, e))
BY DEF Grown

LEMMA EventFields ==
    ASSUME NEW e \in Event
    PROVE  /\ e.turn \in Nat /\ e.step \in Nat /\ e.att \in Nat /\ e.call \in Nat
           /\ e.calls \in Nat /\ e.from \in Nat /\ e.to \in Nat
           /\ e.src \subseteq Nat /\ e.type \in EventTypes /\ e.note \in Notes
BY DEF Event

LEMMA TurnStartsFinite ==
    ASSUME NEW L, NEW n \in Nat
    PROVE  IsFiniteSet(TurnStarts(L, n)) /\ TurnCount(L, n) \in Nat
<1>1. IsFiniteSet(1 .. n)
  BY FS_Interval
<1>2. TurnStarts(L, n) \subseteq 1 .. n
  BY DEF TurnStarts
<1>3. IsFiniteSet(TurnStarts(L, n))
  BY <1>1, <1>2, FS_Subset
<1> QED BY <1>3, FS_CardinalityType DEF TurnCount

LEMMA TurnCountAgrees ==
    ASSUME NEW L, NEW M, NEW n \in Nat, \A i \in 1 .. n : M[i] = L[i]
    PROVE  TurnCount(M, n) = TurnCount(L, n)
<1>1. TurnStarts(M, n) = TurnStarts(L, n)
  BY DEF TurnStarts
<1> QED BY <1>1 DEF TurnCount

LEMMA TurnCountGrows ==
    ASSUME NEW L, NEW e, NEW M, Grown(L, e, M)
    PROVE  TurnCount(M, Len(M)) = IF e.type = "turn/start" THEN TurnCount(L, Len(L)) + 1
                                                           ELSE TurnCount(L, Len(L))
<1> DEFINE n == Len(L)
<1>1. n \in Nat /\ Len(M) = n + 1 /\ (\A i \in 1 .. n : M[i] = L[i]) /\ M[n + 1] = e
  BY DEF Grown
<1>2. TurnStarts(M, n + 1) = IF e.type = "turn/start" THEN TurnStarts(L, n) \cup {n + 1}
                                                      ELSE TurnStarts(L, n)
  BY <1>1 DEF TurnStarts
<1>3. n + 1 \notin TurnStarts(L, n)
  BY <1>1 DEF TurnStarts
<1>4. IsFiniteSet(TurnStarts(L, n))
  BY <1>1, TurnStartsFinite
<1>5. Cardinality(TurnStarts(L, n) \cup {n + 1}) = Cardinality(TurnStarts(L, n)) + 1
  BY <1>3, <1>4, FS_AddElement
<1> HIDE DEF n
<1> QED BY <1>1, <1>2, <1>5 DEF TurnCount, n

\* Every event up to n is counted at n.
LEMMA TurnCountMonotonic ==
    ASSUME NEW L, NEW n \in Nat, NEW m \in 0 .. n
    PROVE  TurnCount(L, m) <= TurnCount(L, n)
<1>1. TurnStarts(L, m) \subseteq TurnStarts(L, n)
  BY DEF TurnStarts
<1>2. IsFiniteSet(TurnStarts(L, n))
  BY TurnStartsFinite
<1> QED BY <1>1, <1>2, FS_Subset DEF TurnCount

\* What the first n events of two logs hold is the same when they agree on them.
LEMMA LegalAgrees ==
    ASSUME NEW L, NEW M, NEW n \in Nat \ {0}, \A i \in 1 .. n : M[i] = L[i], NEW b,
           Legal(L, n, b)
    PROVE  Legal(M, n, b)
<1>0. n \in 1 .. n /\ M[n] = L[n] /\ (\A i \in 1 .. n - 1 : M[i] = L[i]) /\ n - 1 \in Nat
      /\ \A i \in 1 .. n - 1 : i \in 1 .. n /\ i \in Nat
  OBVIOUS
<1>1. Bounded(M, n, b)
  BY <1>0 DEF Legal, Bounded
<1>2. Numbered(M, n)
  BY <1>0, TurnCountAgrees DEF Legal, Numbered
<1>3. CallsOnce(M, n)
  BY <1>0 DEF Legal, CallsOnce
<1>4. AttemptsInOrder(M, n)
  <2>1. \A i \in 1 .. n - 1 : \A k \in i + 1 .. n - 1 : k \in 1 .. n - 1
    BY <1>0
  <2> QED BY <1>0, <2>1 DEF Legal, AttemptsInOrder
<1>5. Attributed(M, n)
  <2>1. \A a \in 1 .. n - 1 : /\ \A k \in a + 1 .. n - 1 : M[k] = L[k]
                              /\ HasAttemptEnd(M, n - 1, a) = HasAttemptEnd(L, n - 1, a)
    BY <1>0 DEF HasAttemptEnd
  <2>2. HasAttemptEnd(M, n - 1, n) = HasAttemptEnd(L, n - 1, n)
    BY <1>0 DEF HasAttemptEnd
  <2>3. \A a \in 1 .. n - 1 : LastAttempt(M, n - 1, M[n], a) = LastAttempt(L, n - 1, L[n], a)
    BY <1>0, <2>1 DEF LastAttempt
  <2> QED BY <1>0, <2>1, <2>2, <2>3 DEF Legal, Attributed
<1>6. Concluded(M, n, b)
  <2>1. \A t : HasTurnEnd(M, n - 1, t) = HasTurnEnd(L, n - 1, t)
    BY <1>0 DEF HasTurnEnd
  <2>2. ASSUME NEW i \in 1 .. n - 1, StepDone(L, n - 1, i, b) PROVE StepDone(M, n - 1, i, b)
    <3>1. HasStepEnd(M, n - 1, i)
      BY <1>0, <2>2 DEF StepDone, HasStepEnd
    <3>2. Succeeded(M, n - 1, M[i])
      <4>1. \A a \in 1 .. n - 1 : \A k \in a + 1 .. n - 1 : M[k] = L[k]
        BY <1>0
      <4> QED BY <1>0, <2>2, <4>1 DEF StepDone, Succeeded, LastAttempt
    <3>3. StepResolved(M, n - 1, M[i], b)
      BY <1>0, <2>2 DEF StepDone, StepResolved, HasResult
    <3> QED BY <3>1, <3>2, <3>3 DEF StepDone
  <2> QED BY <1>0, <2>1, <2>2 DEF Legal, Concluded
<1> QED BY <1>1, <1>2, <1>3, <1>4, <1>5, <1>6 DEF Legal

LEMMA NestedAgrees ==
    ASSUME NEW L, NEW M, NEW n \in Nat \ {0}, \A i \in 1 .. n : M[i] = L[i], Nested(L, n)
    PROVE  Nested(M, n)
<1>0. M[n] = L[n] /\ (\A i \in 1 .. n - 1 : M[i] = L[i]) /\ n - 1 \in Nat
  OBVIOUS
<1>1. \A j \in 1 .. n - 1 : \A k \in j + 1 .. n - 1 : M[k] = L[k]
  BY <1>0
<1>2. StepsEnded(M, n - 1) = StepsEnded(L, n - 1)
  BY <1>0 DEF StepsEnded, HasStepEnd
<1>3. TurnsEnded(M, n - 1) = TurnsEnded(L, n - 1)
  BY <1>0 DEF TurnsEnded, HasTurnEnd
<1>4. WithinTurn(M, n - 1, L[n].turn) = WithinTurn(L, n - 1, L[n].turn)
  BY <1>0, <1>1 DEF WithinTurn, LatestOf
<1>5. Within(M, n - 1, L[n]) = Within(L, n - 1, L[n])
  BY <1>0, <1>1 DEF Within, LatestOf
<1> QED BY <1>0, <1>2, <1>3, <1>4, <1>5 DEF Nested

LEMMA SoundGrows ==
    ASSUME NEW L, NEW e \in Event, NEW M, NEW b, NEW cancels \in Nat,
           M \in Seq(Event), Grown(L, e, M), Sound(L, b, cancels),
           Legal(M, Len(L) + 1, b), cancels = 0 => Nested(M, Len(L) + 1)
    PROVE  Sound(M, b, cancels)
<1>1. L \in Seq(Event)
  BY DEF Sound
<1>2. ASSUME NEW n \in 1 .. Len(M)
      PROVE  Legal(M, n, b) /\ (cancels = 0 => Nested(M, n))
  <2>1. CASE n = Len(L) + 1
    BY <2>1
  <2>2. CASE n # Len(L) + 1
    <3>1. n \in 1 .. Len(L) /\ n \in Nat \ {0} /\ \A i \in 1 .. n : M[i] = L[i]
      BY <1>1, <2>2 DEF Grown
    <3>2. Legal(L, n, b) /\ (cancels = 0 => Nested(L, n))
      BY <3>1 DEF Sound
    <3>3. Legal(M, n, b)
      BY <3>1, <3>2, LegalAgrees
    <3>4. cancels = 0 => Nested(M, n)
      BY <3>1, <3>2, NestedAgrees
    <3> QED BY <3>3, <3>4
  <2> QED BY <2>1, <2>2
<1> QED BY <1>1, <1>2 DEF Sound

\* A crash leaves a prefix, which is as sound.
LEMMA SoundPrefix ==
    ASSUME NEW L \in Seq(Event), NEW M, NEW b, NEW cancels \in Nat, Sound(M, b, cancels),
           Len(L) <= Len(M), \A i \in 1 .. Len(L) : M[i] = L[i]
    PROVE  Sound(L, b, cancels)
<1>1. ASSUME NEW n \in 1 .. Len(L) PROVE Legal(L, n, b) /\ (cancels = 0 => Nested(L, n))
  <2>1. n \in 1 .. Len(M) /\ n \in Nat \ {0} /\ \A i \in 1 .. n : L[i] = M[i]
    BY DEF Sound
  <2>2. Legal(M, n, b) /\ (cancels = 0 => Nested(M, n))
    BY <2>1 DEF Sound
  <2>3. Legal(L, n, b)
    BY <2>1, <2>2, LegalAgrees
  <2>4. cancels = 0 => Nested(L, n)
    BY <2>1, <2>2, NestedAgrees
  <2> QED BY <2>3, <2>4
<1> QED BY <1>1 DEF Sound

-----------------------------------------------------------------------------
(* What one event more does not disturb.                                   *)

LEMMA HasKeeps ==
    ASSUME NEW L, NEW x, NEW M, Grown(L, x, M), NEW i \in 1 .. Len(L)
    PROVE  /\ HasStepEnd(L, Len(L), i) => HasStepEnd(M, Len(M), i)
           /\ HasAttemptEnd(L, Len(L), i) => HasAttemptEnd(M, Len(M), i)
           /\ HasResult(L, Len(L), i) => HasResult(M, Len(M), i)
<1>1. /\ Len(L) \in Nat /\ Len(M) = Len(L) + 1 /\ M[i] = L[i]
      /\ \A j \in 1 .. Len(L) : j \in 1 .. Len(M) /\ M[j] = L[j]
  BY DEF Grown
<1> QED BY <1>1 DEF HasStepEnd, HasAttemptEnd, HasResult

LEMMA TurnEndKeeps ==
    ASSUME NEW L, NEW x, NEW M, Grown(L, x, M), NEW t
    PROVE  HasTurnEnd(M, Len(M), t) <=> (HasTurnEnd(L, Len(L), t) \/ (x.type = "turn/end" /\ x.turn = t))
<1>1. Len(L) \in Nat /\ Len(M) = Len(L) + 1 /\ M[Len(L) + 1] = x /\ \A j \in 1 .. Len(L) : M[j] = L[j]
  BY DEF Grown
<1>2. \A j \in 1 .. Len(M) : j = Len(L) + 1 \/ j \in 1 .. Len(L)
  BY <1>1
<1>3. (\A j \in 1 .. Len(L) : j \in 1 .. Len(M)) /\ Len(L) + 1 \in 1 .. Len(M)
  BY <1>1
<1> QED BY <1>1, <1>2, <1>3 DEF HasTurnEnd

LEMMA LatestKeeps ==
    ASSUME NEW L, NEW x, NEW M, Grown(L, x, M), NEW types, x.type \notin types, NEW j,
           LatestOf(L, Len(L), types, j)
    PROVE  LatestOf(M, Len(M), types, j) /\ M[j] = L[j]
<1>1. /\ Len(L) \in Nat /\ Len(M) = Len(L) + 1 /\ M[Len(L) + 1] = x
      /\ \A k \in 1 .. Len(L) : M[k] = L[k]
  BY DEF Grown
<1>2. j \in 1 .. Len(L) /\ L[j].type \in types /\ \A k \in j + 1 .. Len(L) : L[k].type \notin types
  BY DEF LatestOf
<1>3. ASSUME NEW k \in j + 1 .. Len(M) PROVE M[k].type \notin types
  <2>1. CASE k = Len(L) + 1
    BY <1>1, <2>1
  <2>2. CASE k # Len(L) + 1
    <3>1. k \in j + 1 .. Len(L) /\ k \in 1 .. Len(L)
      BY <1>1, <1>2, <2>2
    <3> QED BY <1>1, <1>2, <3>1
  <2> QED BY <2>1, <2>2
<1>4. j \in 1 .. Len(M) /\ M[j] = L[j]
  BY <1>1, <1>2
<1> QED BY <1>2, <1>3, <1>4 DEF LatestOf

LEMMA WithinKeeps ==
    ASSUME NEW L, NEW x, NEW M, Grown(L, x, M)
    PROVE  /\ \A c : x.type \notin Starts /\ Within(L, Len(L), c) => Within(M, Len(M), c)
           /\ \A t : x.type # "turn/start" /\ WithinTurn(L, Len(L), t) => WithinTurn(M, Len(M), t)
<1>1. ASSUME NEW c, x.type \notin Starts, Within(L, Len(L), c) PROVE Within(M, Len(M), c)
  <2>1. PICK j \in 1 .. Len(L) : LatestOf(L, Len(L), Starts, j) /\ L[j].type = "step/start" /\ OneStep(L[j], c)
    BY <1>1 DEF Within
  <2>2. LatestOf(M, Len(M), Starts, j) /\ M[j] = L[j]
    BY <1>1, <2>1, LatestKeeps
  <2>3. j \in 1 .. Len(M)
    BY <2>2 DEF LatestOf
  <2> QED BY <2>1, <2>2, <2>3 DEF Within
<1>2. ASSUME NEW t, x.type # "turn/start", WithinTurn(L, Len(L), t) PROVE WithinTurn(M, Len(M), t)
  <2>1. PICK j \in 1 .. Len(L) : LatestOf(L, Len(L), {"turn/start"}, j) /\ L[j].turn = t
    BY <1>2 DEF WithinTurn
  <2>2. x.type \notin {"turn/start"}
    BY <1>2
  <2>3. LatestOf(M, Len(M), {"turn/start"}, j) /\ M[j] = L[j]
    BY <2>1, <2>2, LatestKeeps
  <2>4. j \in 1 .. Len(M)
    BY <2>3 DEF LatestOf
  <2> QED BY <2>1, <2>3, <2>4 DEF WithinTurn
<1> QED BY <1>1, <1>2

LEMMA EndedKeeps ==
    ASSUME NEW L, NEW x, NEW M, Grown(L, x, M)
    PROVE  /\ x.type # "step/start" /\ StepsEnded(L, Len(L)) => StepsEnded(M, Len(M))
           /\ x.type # "turn/start" /\ TurnsEnded(L, Len(L)) => TurnsEnded(M, Len(M))
<1>1. /\ Len(L) \in Nat /\ Len(M) = Len(L) + 1 /\ M[Len(L) + 1] = x
      /\ \A k \in 1 .. Len(L) : M[k] = L[k]
  BY DEF Grown
<1>2. \A i \in 1 .. Len(M) : i = Len(L) + 1 \/ i \in 1 .. Len(L)
  BY <1>1
<1>3. ASSUME x.type # "step/start", StepsEnded(L, Len(L)), NEW i \in 1 .. Len(M), M[i].type = "step/start"
      PROVE  HasStepEnd(M, Len(M), i)
  <2>1. i \in 1 .. Len(L) /\ L[i].type = "step/start"
    BY <1>1, <1>2, <1>3
  <2>2. HasStepEnd(L, Len(L), i)
    BY <1>3, <2>1 DEF StepsEnded
  <2> QED BY <2>1, <2>2, HasKeeps
<1>4. ASSUME x.type # "turn/start", TurnsEnded(L, Len(L)), NEW i \in 1 .. Len(M), M[i].type = "turn/start"
      PROVE  HasTurnEnd(M, Len(M), M[i].turn)
  <2>1. i \in 1 .. Len(L) /\ L[i].type = "turn/start" /\ M[i] = L[i]
    BY <1>1, <1>2, <1>4
  <2>2. HasTurnEnd(L, Len(L), L[i].turn)
    BY <1>4, <2>1 DEF TurnsEnded
  <2> QED BY <2>1, <2>2, TurnEndKeeps
<1> QED BY <1>3, <1>4 DEF StepsEnded, TurnsEnded

LEMMA LastAttemptKeeps ==
    ASSUME NEW L, NEW x, NEW M, Grown(L, x, M), NEW e, NEW a,
           x.type = "execution/attempt/start" => ~OneStep(x, e),
           LastAttempt(L, Len(L), e, a)
    PROVE  LastAttempt(M, Len(M), e, a) /\ M[a] = L[a] /\ a \in 1 .. Len(M)
<1>1. /\ Len(L) \in Nat /\ Len(M) = Len(L) + 1 /\ M[Len(L) + 1] = x
      /\ \A k \in 1 .. Len(L) : M[k] = L[k]
  BY DEF Grown
<1>2. /\ a \in 1 .. Len(L) /\ L[a].type = "execution/attempt/start" /\ OneStep(L[a], e)
      /\ \A i \in a + 1 .. Len(L) : L[i].type = "execution/attempt/start" => ~OneStep(L[i], e)
  BY DEF LastAttempt
<1>3. ASSUME NEW k \in a + 1 .. Len(M), M[k].type = "execution/attempt/start" PROVE ~OneStep(M[k], e)
  <2>1. CASE k = Len(L) + 1
    BY <1>1, <1>3, <2>1
  <2>2. CASE k # Len(L) + 1
    <3>1. k \in a + 1 .. Len(L) /\ k \in 1 .. Len(L)
      BY <1>1, <1>2, <2>2
    <3> QED BY <1>1, <1>2, <1>3, <3>1
  <2> QED BY <2>1, <2>2
<1>4. a \in 1 .. Len(M) /\ M[a] = L[a]
  BY <1>1, <1>2
<1> QED BY <1>2, <1>3, <1>4 DEF LastAttempt

LEMMA SucceededKeeps ==
    ASSUME NEW L, NEW x, NEW M, Grown(L, x, M), NEW e,
           x.type = "execution/attempt/start" => ~OneStep(x, e),
           Succeeded(L, Len(L), e)
    PROVE  Succeeded(M, Len(M), e)
<1>1. PICK a \in 1 .. Len(L) :
          /\ LastAttempt(L, Len(L), e, a)
          /\ \E k \in 1 .. Len(L) : /\ L[k].type = "execution/attempt/end"
                                    /\ OneAttempt(L[k], L[a]) /\ L[k].note = "SUCCEEDED"
  BY DEF Succeeded
<1>2. LastAttempt(M, Len(M), e, a) /\ M[a] = L[a] /\ a \in 1 .. Len(M)
  BY <1>1, LastAttemptKeeps
<1>3. \A k \in 1 .. Len(L) : k \in 1 .. Len(M) /\ M[k] = L[k]
  BY DEF Grown
<1> QED BY <1>1, <1>2, <1>3 DEF Succeeded

LEMMA ResolvedKeeps ==
    ASSUME NEW L, NEW x, NEW M, Grown(L, x, M), NEW e, NEW b,
           x.type = "tool/call" => ~OneStep(x, e),
           StepResolved(L, Len(L), e, b)
    PROVE  StepResolved(M, Len(M), e, b)
<1>1. /\ Len(L) \in Nat /\ Len(M) = Len(L) + 1 /\ M[Len(L) + 1] = x
      /\ \A k \in 1 .. Len(L) : M[k] = L[k]
  BY DEF Grown
<1> SUFFICES ASSUME ~Excused(b), NEW i \in 1 .. Len(M), M[i].type = "tool/call", OneStep(M[i], e)
             PROVE  HasResult(M, Len(M), i)
  BY DEF StepResolved
<1>2. i \in 1 .. Len(L) /\ M[i] = L[i]
  <2>1. i # Len(L) + 1
    BY <1>1
  <2> QED BY <1>1, <2>1
<1>3. HasResult(L, Len(L), i)
  BY <1>2 DEF StepResolved
<1> QED BY <1>2, <1>3, HasKeeps

LEMMA StepDoneKeeps ==
    ASSUME NEW L, NEW x, NEW M, Grown(L, x, M), NEW i \in 1 .. Len(L), NEW b,
           x.type \in {"execution/attempt/start", "tool/call"} => ~OneStep(x, L[i]),
           StepDone(L, Len(L), i, b)
    PROVE  StepDone(M, Len(M), i, b)
<1>1. M[i] = L[i]
  BY DEF Grown
<1>2. HasStepEnd(M, Len(M), i)
  BY HasKeeps DEF StepDone
<1>3. Succeeded(M, Len(M), L[i])
  BY SucceededKeeps DEF StepDone
<1>4. StepResolved(M, Len(M), L[i], b)
  BY ResolvedKeeps DEF StepDone
<1> QED BY <1>1, <1>2, <1>3, <1>4 DEF StepDone

LEMMA InStepKeeps ==
    ASSUME NEW L, NEW x, NEW M, Grown(L, x, M), NEW c, NEW cancels,
           InStep(L, c, cancels),
           x.type \notin {"turn/start", "step/start", "agent/request", "turn/end"},
           x.type \in StepTypes /\ x.turn = c.turn => x.step <= c.step
    PROVE  InStep(M, c, cancels)
<1>1. /\ Len(L) \in Nat /\ Len(M) = Len(L) + 1 /\ M[Len(L) + 1] = x
      /\ \A k \in 1 .. Len(L) : M[k] = L[k]
  BY DEF Grown
<1>2. c.turn = TurnCount(M, Len(M))
  BY TurnCountGrows DEF InStep
<1>3. ~HasTurnEnd(M, Len(M), c.turn)
  BY TurnEndKeeps DEF InStep
<1>4. ASSUME NEW i \in 1 .. Len(M), M[i].type \in StepTypes, M[i].turn = c.turn
      PROVE  M[i].step <= c.step
  <2>1. i = Len(L) + 1 \/ i \in 1 .. Len(L)
    BY <1>1
  <2> QED BY <1>1, <1>4, <2>1 DEF InStep
<1>5. \E q \in 1 .. Len(M) : RequestIs(M, q, c)
  <2>1. PICK q \in 1 .. Len(L) : RequestIs(L, q, c)
    BY DEF InStep
  <2>2. x.type \notin {"agent/request"}
    OBVIOUS
  <2>3. LatestOf(M, Len(M), {"agent/request"}, q)
    BY <2>1, <2>2, LatestKeeps DEF RequestIs
  <2>4. q \in 1 .. Len(M) /\ \A i \in 1 .. q : i \in 1 .. Len(L) /\ M[i] = L[i]
    BY <1>1, <2>1
  <2> QED BY <2>1, <2>3, <2>4 DEF RequestIs, OfStep
<1>6. cancels = 0 => Within(M, Len(M), c) /\ WithinTurn(M, Len(M), c.turn)
  <2>1. x.type \notin Starts
    BY DEF Starts
  <2> QED BY <2>1, WithinKeeps DEF InStep
<1> QED BY <1>2, <1>3, <1>4, <1>5, <1>6 DEF InStep

LEMMA EarlierDoneKeeps ==
    ASSUME NEW L, NEW x, NEW M, Grown(L, x, M), NEW c, NEW b, EarlierDone(L, c, b),
           x.type # "step/start",
           x.type \in {"execution/attempt/start", "tool/call"} => OneStep(x, c)
    PROVE  EarlierDone(M, c, b)
<1>1. /\ Len(L) \in Nat /\ Len(M) = Len(L) + 1 /\ M[Len(L) + 1] = x
      /\ \A k \in 1 .. Len(L) : M[k] = L[k]
  BY DEF Grown
<1> SUFFICES ASSUME NEW i \in 1 .. Len(M), M[i].type = "step/start",
                    M[i].turn = c.turn, M[i].step # c.step
             PROVE  StepDone(M, Len(M), i, b)
  BY DEF EarlierDone
<1>2. i \in 1 .. Len(L) /\ M[i] = L[i]
  <2>1. i = Len(L) + 1 \/ i \in 1 .. Len(L)
    BY <1>1
  <2> QED BY <1>1, <2>1
<1>3. StepDone(L, Len(L), i, b)
  BY <1>2 DEF EarlierDone
<1>4. x.type \in {"execution/attempt/start", "tool/call"} => ~OneStep(x, L[i])
  BY <1>2 DEF OneStep
<1> QED BY <1>2, <1>3, <1>4, StepDoneKeeps

LEMMA RunningKeeps ==
    ASSUME NEW L, NEW x, NEW M, Grown(L, x, M), NEW c, Running(L, c),
           x.type \notin {"execution/attempt/start", "execution/attempt/end"}
    PROVE  Running(M, c)
<1>1. /\ Len(L) \in Nat /\ Len(M) = Len(L) + 1 /\ M[Len(L) + 1] = x
      /\ \A k \in 1 .. Len(L) : M[k] = L[k]
  BY DEF Grown
<1>2. PICK a \in 1 .. Len(L) : LastAttempt(L, Len(L), c, a) /\ L[a].att = c.att /\ ~HasAttemptEnd(L, Len(L), a)
  BY DEF Running
<1>3. LastAttempt(M, Len(M), c, a) /\ M[a] = L[a] /\ a \in 1 .. Len(M)
  BY <1>2, LastAttemptKeeps
<1>4. ~HasAttemptEnd(M, Len(M), a)
  <2>1. \A j \in 1 .. Len(M) : j = Len(L) + 1 \/ j \in 1 .. Len(L)
    BY <1>1
  <2> QED BY <1>1, <1>2, <1>3, <2>1 DEF HasAttemptEnd
<1> QED BY <1>2, <1>3, <1>4 DEF Running

LEMMA CallsBelowKeeps ==
    ASSUME NEW L, NEW x, NEW M, Grown(L, x, M), NEW c, NEW m, CallsBelow(L, c, m),
           x.type = "tool/call" => ~OneStep(x, c)
    PROVE  CallsBelow(M, c, m)
<1>1. /\ Len(L) \in Nat /\ Len(M) = Len(L) + 1 /\ M[Len(L) + 1] = x
      /\ \A k \in 1 .. Len(L) : M[k] = L[k]
  BY DEF Grown
<1>2. \A j \in 1 .. Len(M) : j = Len(L) + 1 \/ j \in 1 .. Len(L)
  BY <1>1
<1> QED BY <1>1, <1>2 DEF CallsBelow

LEMMA StreamingKeeps ==
    ASSUME NEW L, NEW x, NEW M, Grown(L, x, M), NEW c, NEW m, NEW b, Streaming(L, c, m, b),
           x.type \notin {"execution/attempt/start", "execution/attempt/end", "tool/call"}
    PROVE  Streaming(M, c, m, b)
BY RunningKeeps, CallsBelowKeeps, ResolvedKeeps DEF Streaming

LEMMA FreshKeeps ==
    ASSUME NEW L, NEW x, NEW M, Grown(L, x, M), NEW c, Fresh(L, c), x.type \notin StepTypes
    PROVE  Fresh(M, c)
<1>1. /\ Len(L) \in Nat /\ Len(M) = Len(L) + 1 /\ M[Len(L) + 1] = x
      /\ \A k \in 1 .. Len(L) : M[k] = L[k]
  BY DEF Grown
<1>2. \A j \in 1 .. Len(M) : j = Len(L) + 1 \/ j \in 1 .. Len(L)
  BY <1>1
<1> QED BY <1>1, <1>2 DEF Fresh, OfStep

LEMMA AtRestKeeps ==
    ASSUME NEW L, NEW x, NEW M, Grown(L, x, M), NEW t, NEW cancels, AtRest(L, t, cancels),
           x.type \notin Starts
    PROVE  AtRest(M, t, cancels)
<1>1. x.type # "turn/start" /\ x.type # "step/start"
  BY DEF Starts
<1>2. TurnCount(M, Len(M)) = TurnCount(L, Len(L))
  BY <1>1, TurnCountGrows
<1> QED BY <1>1, <1>2, EndedKeeps DEF AtRest

LEMMA InTurnKeeps ==
    ASSUME NEW L, NEW x, NEW M, Grown(L, x, M), NEW t, NEW s, NEW cancels, InTurn(L, t, s, cancels),
           x.type \in Quiet
    PROVE  InTurn(M, t, s, cancels)
<1>1. /\ Len(L) \in Nat /\ Len(M) = Len(L) + 1 /\ M[Len(L) + 1] = x
      /\ \A k \in 1 .. Len(L) : M[k] = L[k]
  BY DEF Grown
<1>2. \A j \in 1 .. Len(M) : j = Len(L) + 1 \/ j \in 1 .. Len(L)
  BY <1>1
<1>3. x.type \notin StepTypes /\ x.type # "turn/start" /\ x.type # "turn/end" /\ x.type # "step/start"
  BY DEF Quiet, StepTypes
<1>4. t = TurnCount(M, Len(M))
  BY <1>3, TurnCountGrows DEF InTurn
<1>5. ~HasTurnEnd(M, Len(M), t)
  BY <1>3, TurnEndKeeps DEF InTurn
<1>6. \A i \in 1 .. Len(M) : M[i].type \in StepTypes /\ M[i].turn = t => M[i].step <= s
  BY <1>1, <1>2, <1>3 DEF InTurn
<1>7. cancels = 0 => StepsEnded(M, Len(M)) /\ WithinTurn(M, Len(M), t)
  BY <1>3, EndedKeeps, WithinKeeps DEF InTurn
<1> QED BY <1>4, <1>5, <1>6, <1>7 DEF InTurn

LEMMA TurnDoneKeeps ==
    ASSUME NEW L, NEW x, NEW M, Grown(L, x, M), NEW t, NEW b, TurnDone(L, t, b),
           x.type \notin {"step/start", "execution/attempt/start", "tool/call"}
    PROVE  TurnDone(M, t, b)
<1>1. /\ Len(L) \in Nat /\ Len(M) = Len(L) + 1 /\ M[Len(L) + 1] = x
      /\ \A k \in 1 .. Len(L) : M[k] = L[k]
  BY DEF Grown
<1>2. \A j \in 1 .. Len(M) : j = Len(L) + 1 \/ j \in 1 .. Len(L)
  BY <1>1
<1>3. ASSUME NEW i \in 1 .. Len(L), StepDone(L, Len(L), i, b) PROVE StepDone(M, Len(M), i, b)
  BY <1>3, StepDoneKeeps
<1> QED BY <1>1, <1>2, <1>3 DEF TurnDone

-----------------------------------------------------------------------------
(* What makes a new event legal.                                           *)

BoundsOf(e, b, n) ==
    e.turn <= b.turns /\ e.step <= b.steps /\ e.call <= b.calls /\ e.src \subseteq 1 .. n

LEMMA LegalNew ==
    ASSUME NEW L, NEW e \in Event, NEW M, Grown(L, e, M), NEW b, BoundsOf(e, b, Len(L)),
           e.type \in StepTypes \cup {"turn/end"} => e.turn <= TurnCount(L, Len(L)),
           e.type = "turn/start" => e.turn = TurnCount(L, Len(L)) + 1,
           e.type \in {"tool/call", "tool/result"} => CallsOnce(M, Len(L) + 1),
           e.type = "execution/attempt/start" => AttemptsInOrder(M, Len(L) + 1),
           e.type \in {"execution/attempt/start", "execution/attempt/end", "tool/call"} =>
               Attributed(M, Len(L) + 1),
           (\/ e.type \in {"step/start", "execution/attempt/start", "tool/call"}
            \/ e.type = "turn/end" /\ e.note = "completed") => Concluded(M, Len(L) + 1, b)
    PROVE  Legal(M, Len(L) + 1, b)
<1>1. Len(L) \in Nat /\ M[Len(L) + 1] = e /\ (Len(L) + 1) - 1 = Len(L) /\ Len(M) = Len(L) + 1
  BY DEF Grown
<1>2. Bounded(M, Len(L) + 1, b)
  BY <1>1 DEF Bounded, BoundsOf
<1>3. Numbered(M, Len(L) + 1)
  <2>1. e.type \in StepTypes \cup {"turn/end"} => e.type # "turn/start"
    BY DEF StepTypes
  <2> QED BY <1>1, <2>1, TurnCountGrows DEF Numbered
<1>4. CallsOnce(M, Len(L) + 1)
  BY <1>1 DEF CallsOnce
<1>5. AttemptsInOrder(M, Len(L) + 1)
  BY <1>1 DEF AttemptsInOrder
<1>6. Attributed(M, Len(L) + 1)
  BY <1>1 DEF Attributed
<1>7. Concluded(M, Len(L) + 1, b)
  BY <1>1 DEF Concluded
<1> QED BY <1>2, <1>3, <1>4, <1>5, <1>6, <1>7 DEF Legal

LEMMA SamePrefix ==
    ASSUME NEW L, NEW e, NEW M, Grown(L, e, M)
    PROVE  /\ StepsEnded(M, Len(L)) = StepsEnded(L, Len(L))
           /\ TurnsEnded(M, Len(L)) = TurnsEnded(L, Len(L))
           /\ \A t : HasTurnEnd(M, Len(L), t) = HasTurnEnd(L, Len(L), t)
           /\ \A t : WithinTurn(M, Len(L), t) = WithinTurn(L, Len(L), t)
           /\ \A c : Within(M, Len(L), c) = Within(L, Len(L), c)
           /\ \A c, a : LastAttempt(M, Len(L), c, a) = LastAttempt(L, Len(L), c, a)
           /\ \A a \in 1 .. Len(L) : HasAttemptEnd(M, Len(L), a) = HasAttemptEnd(L, Len(L), a)
<1>1. /\ Len(L) \in Nat
      /\ \A k \in 1 .. Len(L) : M[k] = L[k]
      /\ \A j \in 1 .. Len(L) : \A k \in j + 1 .. Len(L) : M[k] = L[k]
  BY DEF Grown
<1>2. \A t : HasTurnEnd(M, Len(L), t) = HasTurnEnd(L, Len(L), t)
  BY <1>1 DEF HasTurnEnd
<1>3. StepsEnded(M, Len(L)) = StepsEnded(L, Len(L))
  BY <1>1 DEF StepsEnded, HasStepEnd
<1>4. TurnsEnded(M, Len(L)) = TurnsEnded(L, Len(L))
  BY <1>1, <1>2 DEF TurnsEnded
<1>5. \A types, j : LatestOf(M, Len(L), types, j) = LatestOf(L, Len(L), types, j)
  BY <1>1 DEF LatestOf
<1>6. \A t : WithinTurn(M, Len(L), t) = WithinTurn(L, Len(L), t)
  BY <1>1, <1>5 DEF WithinTurn
<1>7. \A c : Within(M, Len(L), c) = Within(L, Len(L), c)
  BY <1>1, <1>5 DEF Within
<1>8. \A c, a : LastAttempt(M, Len(L), c, a) = LastAttempt(L, Len(L), c, a)
  BY <1>1 DEF LastAttempt
<1>9. \A a \in 1 .. Len(L) : HasAttemptEnd(M, Len(L), a) = HasAttemptEnd(L, Len(L), a)
  BY <1>1 DEF HasAttemptEnd
<1> QED BY <1>2, <1>3, <1>4, <1>6, <1>7, <1>8, <1>9

LEMMA NestedNew ==
    ASSUME NEW L, NEW e \in Event, NEW M, Grown(L, e, M),
           e.type \in Starts => StepsEnded(L, Len(L)),
           e.type = "turn/start" => TurnsEnded(L, Len(L)),
           e.type \in {"step/start", "turn/end"} => WithinTurn(L, Len(L), e.turn),
           e.type \in {"step/end", "tool/call"} => Within(L, Len(L), e)
    PROVE  Nested(M, Len(L) + 1)
<1>1. Len(L) \in Nat /\ M[Len(L) + 1] = e /\ (Len(L) + 1) - 1 = Len(L)
  BY DEF Grown
<1> QED BY <1>1, SamePrefix DEF Nested

LEMMA TurnsBelow ==
    ASSUME NEW L, NEW b, NEW cancels, Sound(L, b, cancels),
           NEW i \in 1 .. Len(L), L[i].type \in StepTypes \cup {"turn/end"}
    PROVE  L[i].turn \in Nat /\ L[i].turn <= TurnCount(L, Len(L))
<1>1. L \in Seq(Event) /\ Len(L) \in Nat /\ Legal(L, i, b) /\ i \in 0 .. Len(L) /\ i \in Nat
  BY DEF Sound
<1>2. L[i].turn \in Nat
  BY <1>1, EventFields
<1>3. L[i].turn <= TurnCount(L, i)
  BY <1>1 DEF Legal, Numbered
<1>4. TurnCount(L, i) <= TurnCount(L, Len(L))
  BY <1>1, TurnCountMonotonic
<1>5. TurnCount(L, i) \in Nat /\ TurnCount(L, Len(L)) \in Nat
  BY <1>1, TurnStartsFinite
<1> QED BY <1>2, <1>3, <1>4, <1>5

-----------------------------------------------------------------------------
(* The steps of a log: each lemma adds one event.                          *)

LEMMA QuietAdded ==
    ASSUME NEW L, NEW e \in Event, NEW M, NEW b, NEW cancels \in Nat,
           M = Append(L, e), Sound(L, b, cancels),
           e.type \in Quiet, BoundsOf(e, b, Len(L))
    PROVE  Sound(M, b, cancels) /\ Grown(L, e, M)
<1>1. Grown(L, e, M) /\ M \in Seq(Event)
  BY AppendGrows DEF Sound
<1>2. /\ e.type \notin StepTypes \cup {"turn/end", "turn/start"}
      /\ e.type \notin Starts
      /\ e.type \notin {"tool/call", "tool/result", "execution/attempt/start",
                        "execution/attempt/end", "step/start", "step/end"}
  BY DEF Quiet, StepTypes, Starts
<1>3. Legal(M, Len(L) + 1, b)
  BY <1>1, <1>2, LegalNew
<1>4. Nested(M, Len(L) + 1)
  BY <1>1, <1>2, NestedNew
<1> QED BY <1>1, <1>3, <1>4, SoundGrows

LEMMA TurnOpens ==
    ASSUME NEW L, NEW e \in Event, NEW M, NEW b, NEW cancels \in Nat, NEW t \in Nat,
           M = Append(L, e), Sound(L, b, cancels), AtRest(L, t, cancels),
           e.type = "turn/start", e.turn = t + 1, BoundsOf(e, b, Len(L))
    PROVE  Sound(M, b, cancels) /\ InTurn(M, t + 1, 0, cancels) /\ TurnDone(M, t + 1, b)
<1>1. Grown(L, e, M) /\ M \in Seq(Event)
  BY AppendGrows DEF Sound
<1>2. t = TurnCount(L, Len(L)) /\ (cancels = 0 => StepsEnded(L, Len(L)) /\ TurnsEnded(L, Len(L)))
  BY DEF AtRest
<1>3. Legal(M, Len(L) + 1, b)
  BY <1>1, <1>2, LegalNew DEF StepTypes
<1>4. cancels = 0 => Nested(M, Len(L) + 1)
  BY <1>1, <1>2, NestedNew
<1>5. Sound(M, b, cancels)
  BY <1>1, <1>3, <1>4, SoundGrows
<1>6. /\ Len(L) \in Nat /\ Len(M) = Len(L) + 1 /\ M[Len(L) + 1] = e
      /\ \A k \in 1 .. Len(L) : M[k] = L[k]
  BY <1>1 DEF Grown
<1>7. \A j \in 1 .. Len(M) : j = Len(L) + 1 \/ j \in 1 .. Len(L)
  BY <1>6
<1>8. ASSUME NEW i \in 1 .. Len(M), M[i].type \in StepTypes \cup {"turn/end"}
      PROVE  M[i].turn # t + 1
  <2>1. i \in 1 .. Len(L) /\ M[i] = L[i]
    BY <1>6, <1>7, <1>8 DEF StepTypes
  <2>2. L[i].turn \in Nat /\ L[i].turn <= t
    BY <1>2, <1>8, <2>1, TurnsBelow
  <2> QED BY <2>1, <2>2
<1>9. InTurn(M, t + 1, 0, cancels)
  <2>1. t + 1 = TurnCount(M, Len(M))
    BY <1>1, <1>2, TurnCountGrows
  <2>2. ~HasTurnEnd(M, Len(M), t + 1)
    BY <1>8 DEF HasTurnEnd
  <2>3. cancels = 0 => StepsEnded(M, Len(M))
    BY <1>1, <1>2, EndedKeeps
  <2>4. WithinTurn(M, Len(M), t + 1)
    <3>1. LatestOf(M, Len(M), {"turn/start"}, Len(M))
      BY <1>6 DEF LatestOf
    <3>2. Len(M) \in 1 .. Len(M) /\ M[Len(M)].turn = t + 1
      BY <1>6
    <3> QED BY <3>1, <3>2 DEF WithinTurn
  <2> QED BY <1>8, <2>1, <2>2, <2>3, <2>4 DEF InTurn
<1>10. TurnDone(M, t + 1, b)
  BY <1>8 DEF TurnDone, StepTypes
<1> QED BY <1>5, <1>9, <1>10

LEMMA StepStarts ==
    ASSUME NEW L, NEW e \in Event, NEW M, NEW b, NEW cancels \in Nat,
           NEW t \in Nat, NEW s \in Nat,
           M = Append(L, e), Sound(L, b, cancels), InTurn(L, t, s, cancels), TurnDone(L, t, b),
           e.type = "step/start", e.turn = t, e.step = s + 1, BoundsOf(e, b, Len(L))
    PROVE  /\ Sound(M, b, cancels) /\ Grown(L, e, M)
           /\ t = TurnCount(M, Len(M)) /\ ~HasTurnEnd(M, Len(M), t)
           /\ \A i \in 1 .. Len(M) : M[i].type \in StepTypes /\ M[i].turn = t => M[i].step <= s + 1
           /\ \A i \in 1 .. Len(M) : OfStep(M, i, e) => M[i].type \in Opens
           /\ cancels = 0 => Within(M, Len(M), e) /\ WithinTurn(M, Len(M), t)
           /\ EarlierDone(M, e, b)
<1>1. Grown(L, e, M) /\ M \in Seq(Event)
  BY AppendGrows DEF Sound
<1>2. /\ t = TurnCount(L, Len(L)) /\ ~HasTurnEnd(L, Len(L), t)
      /\ \A i \in 1 .. Len(L) : L[i].type \in StepTypes /\ L[i].turn = t => L[i].step <= s
      /\ cancels = 0 => StepsEnded(L, Len(L)) /\ WithinTurn(L, Len(L), t)
  BY DEF InTurn
<1>6. /\ Len(L) \in Nat /\ Len(M) = Len(L) + 1 /\ M[Len(L) + 1] = e
      /\ \A k \in 1 .. Len(L) : M[k] = L[k]
  BY <1>1 DEF Grown
<1>7. \A j \in 1 .. Len(M) : j = Len(L) + 1 \/ j \in 1 .. Len(L)
  BY <1>6
<1>3. Legal(M, Len(L) + 1, b)
  <2>1. Concluded(M, Len(L) + 1, b)
    <3>1. ~HasTurnEnd(M, Len(L), t)
      BY <1>1, <1>2, SamePrefix
    <3>2. (Len(L) + 1) - 1 = Len(L)
      BY <1>6
    <3> QED BY <1>6, <3>1, <3>2 DEF Concluded
  <2> QED BY SMTT(30), <1>1, <1>2, <2>1, LegalNew
<1>4. cancels = 0 => Nested(M, Len(L) + 1)
  BY <1>1, <1>2, NestedNew
<1>5. Sound(M, b, cancels)
  BY <1>1, <1>3, <1>4, SoundGrows
<1>8. t = TurnCount(M, Len(M)) /\ ~HasTurnEnd(M, Len(M), t)
  BY <1>1, <1>2, TurnCountGrows, TurnEndKeeps
<1>9. ASSUME NEW i \in 1 .. Len(L) PROVE L[i].step \in Nat
  <2>1. L[i] \in Event
    BY DEF Sound
  <2> QED BY <2>1, EventFields
<1>10. \A i \in 1 .. Len(M) : M[i].type \in StepTypes /\ M[i].turn = t => M[i].step <= s + 1
  BY <1>2, <1>6, <1>7, <1>9
<1>11. ASSUME NEW i \in 1 .. Len(M), OfStep(M, i, e) PROVE M[i].type \in Opens
  <2>1. i = Len(L) + 1
    <3> SUFFICES ASSUME i \in 1 .. Len(L) PROVE FALSE
      BY <1>7
    <3>1. L[i].type \in StepTypes /\ L[i].turn = t /\ L[i].step = s + 1
      BY <1>6, <1>11 DEF OfStep, OneStep
    <3> QED BY <1>2, <1>9, <3>1
  <2> QED BY <1>6, <2>1 DEF Opens
<1>12. cancels = 0 => Within(M, Len(M), e) /\ WithinTurn(M, Len(M), t)
  <2>1. LatestOf(M, Len(M), Starts, Len(M))
    BY <1>6 DEF LatestOf, Starts
  <2>2. Within(M, Len(M), e)
    BY <1>6, <2>1 DEF Within, OneStep
  <2>3. cancels = 0 => WithinTurn(M, Len(M), t)
    BY <1>1, <1>2, WithinKeeps
  <2> QED BY <2>2, <2>3
<1>13. EarlierDone(M, e, b)
  <2> SUFFICES ASSUME NEW i \in 1 .. Len(M), M[i].type = "step/start", M[i].turn = t, M[i].step # s + 1
               PROVE  StepDone(M, Len(M), i, b)
    BY DEF EarlierDone
  <2>1. i \in 1 .. Len(L) /\ M[i] = L[i]
    BY <1>6, <1>7
  <2>2. StepDone(L, Len(L), i, b)
    BY <2>1 DEF TurnDone
  <2> QED BY <1>1, <2>1, <2>2, StepDoneKeeps
<1> QED BY <1>1, <1>5, <1>8, <1>10, <1>11, <1>12, <1>13

LEMMA StepOpens ==
    ASSUME NEW L, NEW e \in Event, NEW f \in Event, NEW M, NEW b, NEW cancels \in Nat,
           NEW t \in Nat, NEW s \in Nat, NEW c, c.turn = t, c.step = s + 1,
           M = Append(Append(L, e), f), Sound(L, b, cancels), InTurn(L, t, s, cancels), TurnDone(L, t, b),
           e.type = "step/start", e.turn = t, e.step = s + 1, BoundsOf(e, b, Len(L)),
           f.type = "agent/request", f.turn = t, f.step = s + 1, BoundsOf(f, b, Len(L))
    PROVE  Sound(M, b, cancels) /\ InStep(M, c, cancels) /\ Fresh(M, c) /\ EarlierDone(M, c, b)
<1> DEFINE N == Append(L, e)
<1>1. /\ Sound(N, b, cancels) /\ Grown(L, e, N)
      /\ t = TurnCount(N, Len(N)) /\ ~HasTurnEnd(N, Len(N), t)
      /\ \A i \in 1 .. Len(N) : N[i].type \in StepTypes /\ N[i].turn = t => N[i].step <= s + 1
      /\ \A i \in 1 .. Len(N) : OfStep(N, i, e) => N[i].type \in Opens
      /\ cancels = 0 => Within(N, Len(N), e) /\ WithinTurn(N, Len(N), t)
      /\ EarlierDone(N, e, b)
  BY StepStarts
<1>2. M = Append(N, f)
  OBVIOUS
<1> HIDE DEF N
<1>3. Grown(N, f, M) /\ M \in Seq(Event)
  BY <1>1, <1>2, AppendGrows DEF Sound
<1>4. /\ Len(N) \in Nat /\ Len(M) = Len(N) + 1 /\ M[Len(N) + 1] = f
      /\ \A k \in 1 .. Len(N) : M[k] = N[k]
  BY <1>3 DEF Grown
<1>5. \A j \in 1 .. Len(M) : j = Len(N) + 1 \/ j \in 1 .. Len(N)
  BY <1>4
<1>6. Legal(M, Len(N) + 1, b)
  <2>1. BoundsOf(f, b, Len(N))
    <3>1. Len(L) \in Nat /\ Len(N) = Len(L) + 1
      BY <1>1 DEF Grown
    <3>2. 1 .. Len(L) \subseteq 1 .. Len(N)
      BY <3>1
    <3> QED BY <3>2 DEF BoundsOf
  <2>2. f.turn <= TurnCount(N, Len(N))
    BY <1>1
  <2> QED BY <1>3, <2>1, <2>2, LegalNew
<1>7. Nested(M, Len(N) + 1)
  BY <1>3, NestedNew DEF Starts
<1>8. Sound(M, b, cancels)
  BY <1>1, <1>3, <1>6, <1>7, SoundGrows
<1>9. t = TurnCount(M, Len(M)) /\ ~HasTurnEnd(M, Len(M), t)
  <2>1. f.type # "turn/start" /\ f.type # "turn/end"
    OBVIOUS
  <2>2. TurnCount(M, Len(M)) = TurnCount(N, Len(N))
    BY <1>3, <2>1, TurnCountGrows
  <2> QED BY <1>1, <1>3, <2>1, <2>2, TurnEndKeeps
<1>10. \A i \in 1 .. Len(M) : M[i].type \in StepTypes /\ M[i].turn = t => M[i].step <= s + 1
  BY <1>1, <1>4, <1>5
<1>11. \A i \in 1 .. Len(M) : OfStep(M, i, c) => M[i].type \in Opens
  BY <1>1, <1>4, <1>5 DEF OfStep, OneStep, Opens
<1>12. RequestIs(M, Len(M), c) /\ Len(M) \in 1 .. Len(M)
  BY <1>4, <1>11 DEF RequestIs, LatestOf
<1>13. cancels = 0 => Within(M, Len(M), c) /\ WithinTurn(M, Len(M), t)
  <2>1. f.type \notin Starts /\ f.type # "turn/start"
    BY DEF Starts
  <2>2. cancels = 0 => Within(M, Len(M), e) /\ WithinTurn(M, Len(M), t)
    BY <1>1, <1>3, <2>1, WithinKeeps
  <2> QED BY <2>2 DEF Within, OneStep
<1>14. InStep(M, c, cancels)
  BY <1>9, <1>10, <1>12, <1>13 DEF InStep
<1>15. EarlierDone(M, c, b)
  <2>1. EarlierDone(N, c, b)
    BY <1>1 DEF EarlierDone
  <2> QED BY <1>3, <2>1, EarlierDoneKeeps
<1> QED BY <1>8, <1>11, <1>14, <1>15 DEF Fresh

\* An event of the step that opens, ends, calls and returns nothing.
LEMMA MessageAdded ==
    ASSUME NEW L, NEW e \in Event, NEW M, NEW b, NEW cancels \in Nat, NEW c \in CurType, NEW m,
           M = Append(L, e), Sound(L, b, cancels), InStep(L, c, cancels), EarlierDone(L, c, b),
           Streaming(L, c, m, b),
           e.type = "assistant/message", OneStep(e, c), BoundsOf(e, b, Len(L))
    PROVE  /\ Sound(M, b, cancels) /\ InStep(M, c, cancels) /\ EarlierDone(M, c, b)
           /\ Streaming(M, c, m, b)
<1>1. Grown(L, e, M) /\ M \in Seq(Event)
  BY AppendGrows DEF Sound
<1>2. c.step \in Nat /\ c.turn \in Nat /\ e.turn = c.turn /\ e.step = c.step
  BY DEF CurType, OneStep
<1>3. Legal(M, Len(L) + 1, b)
  <2>1. e.turn <= TurnCount(L, Len(L))
    BY <1>2 DEF InStep
  <2> QED BY <1>1, <2>1, LegalNew
<1>4. Nested(M, Len(L) + 1)
  BY <1>1, NestedNew DEF Starts
<1>5. Sound(M, b, cancels)
  BY <1>1, <1>3, <1>4, SoundGrows
<1>6. InStep(M, c, cancels)
  BY <1>1, <1>2, InStepKeeps
<1>7. EarlierDone(M, c, b)
  BY <1>1, EarlierDoneKeeps
<1>8. Streaming(M, c, m, b)
  BY <1>1, StreamingKeeps
<1> QED BY <1>5, <1>6, <1>7, <1>8

\* An attempt starts in a step that has no calls and no attempt of its number.
LEMMA AttemptStarts ==
    ASSUME NEW L, NEW e \in Event, NEW M, NEW b, NEW cancels \in Nat,
           NEW c \in CurType, NEW d \in CurType, OneStep(d, c),
           M = Append(L, e), Sound(L, b, cancels), InStep(L, c, cancels), EarlierDone(L, c, b),
           e.type = "execution/attempt/start", OneStep(e, c), e.att = d.att, d.att # 0,
           BoundsOf(e, b, Len(L)), AttemptsInOrder(M, Len(L) + 1),
           \A i \in 1 .. Len(L) : L[i].type = "tool/call" => ~OneStep(L[i], c),
           \A i \in 1 .. Len(L) : L[i].type = "execution/attempt/end" => ~OneAttempt(L[i], e)
    PROVE  /\ Sound(M, b, cancels) /\ InStep(M, d, cancels) /\ EarlierDone(M, d, b)
           /\ Streaming(M, d, 1, b)
<1>1. Grown(L, e, M) /\ M \in Seq(Event)
  BY AppendGrows DEF Sound
<1>2. c.step \in Nat /\ c.turn \in Nat /\ e.turn = c.turn /\ e.step = c.step
  BY DEF CurType, OneStep
<1>3. d.turn = c.turn /\ d.step = c.step
  BY DEF OneStep
<1>4. /\ Len(L) \in Nat /\ Len(M) = Len(L) + 1 /\ M[Len(L) + 1] = e
      /\ \A k \in 1 .. Len(L) : M[k] = L[k]
  BY <1>1 DEF Grown
<1>5. \A j \in 1 .. Len(M) : j = Len(L) + 1 \/ j \in 1 .. Len(L)
  BY <1>4
<1>6. (Len(L) + 1) - 1 = Len(L)
  BY <1>4
<1>7. Legal(M, Len(L) + 1, b)
  <2>1. e.turn <= TurnCount(L, Len(L))
    BY <1>2 DEF InStep
  <2>2. Attributed(M, Len(L) + 1)
    BY <1>4 DEF Attributed
  <2>3. Concluded(M, Len(L) + 1, b)
    <3>1. ~HasTurnEnd(M, Len(L), e.turn)
      BY <1>1, <1>2, SamePrefix DEF InStep
    <3> QED BY <1>4, <1>6, <3>1 DEF Concluded
  <2> QED BY <1>1, <2>1, <2>2, <2>3, LegalNew
<1>8. Nested(M, Len(L) + 1)
  BY <1>1, NestedNew DEF Starts
<1>9. Sound(M, b, cancels)
  BY <1>1, <1>7, <1>8, SoundGrows
<1>10. InStep(M, d, cancels)
  <2>1. InStep(M, c, cancels)
    BY <1>1, <1>2, InStepKeeps
  <2>2. \A i : OfStep(M, i, d) = OfStep(M, i, c)
    BY <1>3 DEF OfStep, OneStep
  <2>3. Within(M, Len(M), d) = Within(M, Len(M), c)
    BY <1>3 DEF Within, OneStep
  <2>4. \A q : RequestIs(M, q, d) = RequestIs(M, q, c)
    BY <2>2 DEF RequestIs
  <2> QED BY <1>3, <2>1, <2>3, <2>4 DEF InStep
<1>11. EarlierDone(M, d, b)
  <2>1. EarlierDone(M, c, b)
    BY <1>1, EarlierDoneKeeps
  <2> QED BY <1>3, <2>1 DEF EarlierDone
<1>12. Running(M, d)
  <2>1. LastAttempt(M, Len(M), d, Len(M))
    BY <1>2, <1>3, <1>4 DEF LastAttempt, OneStep
  <2>2. ~HasAttemptEnd(M, Len(M), Len(M))
    BY <1>4, <1>5 DEF HasAttemptEnd
  <2>3. Len(M) \in 1 .. Len(M) /\ M[Len(M)].att = d.att
    BY <1>4
  <2> QED BY <2>1, <2>2, <2>3 DEF Running
<1>13. \A i \in 1 .. Len(M) : M[i].type = "tool/call" => ~OneStep(M[i], d)
  BY <1>3, <1>4, <1>5 DEF OneStep
<1>14. Streaming(M, d, 1, b)
  BY <1>12, <1>13 DEF Streaming, CallsBelow, StepResolved
<1> QED BY <1>9, <1>10, <1>11, <1>14

LEMMA FirstAttempt ==
    ASSUME NEW L, NEW e \in Event, NEW M, NEW b, NEW cancels \in Nat,
           NEW c \in CurType, NEW d \in CurType, OneStep(d, c),
           M = Append(L, e), Sound(L, b, cancels), InStep(L, c, cancels), EarlierDone(L, c, b),
           Fresh(L, c),
           e.type = "execution/attempt/start", OneStep(e, c), e.att = d.att, d.att = 1,
           BoundsOf(e, b, Len(L))
    PROVE  /\ Sound(M, b, cancels) /\ InStep(M, d, cancels) /\ EarlierDone(M, d, b)
           /\ Streaming(M, d, 1, b)
<1>1. ASSUME NEW i \in 1 .. Len(L), L[i].type \in {"tool/call", "execution/attempt/end", "execution/attempt/start"}
      PROVE  ~OneStep(L[i], c)
  <2>1. L[i].type \in StepTypes /\ L[i].type \notin Opens
    BY <1>1 DEF StepTypes, Opens
  <2> QED BY <2>1 DEF Fresh, OfStep
<1>2. AttemptsInOrder(M, Len(L) + 1)
  <2>1. Grown(L, e, M)
    BY AppendGrows DEF Sound
  <2>2. M[Len(L) + 1] = e /\ (Len(L) + 1) - 1 = Len(L) /\ \A i \in 1 .. Len(L) : M[i] = L[i]
    BY <2>1 DEF Grown
  <2>3. \A i \in 1 .. Len(L) : L[i].type = "execution/attempt/start" => ~OneStep(L[i], e)
    BY <1>1 DEF OneStep
  <2> QED BY <2>2, <2>3 DEF AttemptsInOrder
<1>3. \A i \in 1 .. Len(L) : L[i].type = "execution/attempt/end" => ~OneAttempt(L[i], e)
  BY <1>1 DEF OneAttempt, OneStep
<1>4. \A i \in 1 .. Len(L) : L[i].type = "tool/call" => ~OneStep(L[i], c)
  BY <1>1
<1>5. d.att # 0
  OBVIOUS
<1> QED BY <1>2, <1>3, <1>4, <1>5, AttemptStarts

LEMMA CallAdded ==
    ASSUME NEW L, NEW e \in Event, NEW M, NEW b, NEW cancels \in Nat, NEW c \in CurType, NEW m \in Nat,
           M = Append(L, e), Sound(L, b, cancels), InStep(L, c, cancels), EarlierDone(L, c, b),
           Streaming(L, c, m, b),
           e.type = "tool/call", OneStep(e, c), e.call = m, BoundsOf(e, b, Len(L))
    PROVE  /\ Sound(M, b, cancels) /\ InStep(M, c, cancels) /\ EarlierDone(M, c, b)
           /\ Calling(M, c, m, b)
<1>1. Grown(L, e, M) /\ M \in Seq(Event)
  BY AppendGrows DEF Sound
<1>2. c.step \in Nat /\ c.turn \in Nat /\ e.turn = c.turn /\ e.step = c.step
  BY DEF CurType, OneStep
<1>4. /\ Len(L) \in Nat /\ Len(M) = Len(L) + 1 /\ M[Len(L) + 1] = e
      /\ \A k \in 1 .. Len(L) : M[k] = L[k]
  BY <1>1 DEF Grown
<1>5. \A j \in 1 .. Len(M) : j = Len(L) + 1 \/ j \in 1 .. Len(L)
  BY <1>4
<1>6. (Len(L) + 1) - 1 = Len(L)
  BY <1>4
<1>7. Legal(M, Len(L) + 1, b)
  <2>1. e.turn <= TurnCount(L, Len(L))
    BY <1>2 DEF InStep
  <2>2. Attributed(M, Len(L) + 1)
    <3>1. PICK a \in 1 .. Len(L) : LastAttempt(L, Len(L), c, a) /\ ~HasAttemptEnd(L, Len(L), a)
      BY DEF Streaming, Running
    <3>2. LastAttempt(L, Len(L), e, a)
      BY <1>2, <3>1 DEF LastAttempt, OneStep
    <3>3. LastAttempt(M, Len(L), e, a) /\ ~HasAttemptEnd(M, Len(L), a)
      BY <1>1, <3>1, <3>2, SamePrefix
    <3> QED BY <1>4, <1>6, <3>3 DEF Attributed
  <2>3. Concluded(M, Len(L) + 1, b)
    <3>1. ~HasTurnEnd(M, Len(L), e.turn)
      BY <1>1, <1>2, SamePrefix DEF InStep
    <3> QED BY <1>4, <1>6, <3>1 DEF Concluded
  <2>4. CallsOnce(M, Len(L) + 1)
    <3>1. ASSUME NEW i \in 1 .. Len(L), L[i].type = "tool/call", OneCall(L[i], e) PROVE FALSE
      <4>1. OneStep(L[i], c) /\ L[i].call = m
        BY <1>2, <3>1 DEF OneCall, OneStep
      <4>2. L[i].call < m
        BY <3>1, <4>1 DEF Streaming, CallsBelow
      <4> QED BY <4>1, <4>2
    <3> QED BY <1>4, <1>6, <3>1 DEF CallsOnce
  <2> QED BY <1>1, <2>1, <2>2, <2>3, <2>4, LegalNew
<1>8. cancels = 0 => Nested(M, Len(L) + 1)
  <2>1. cancels = 0 => Within(L, Len(L), e)
    BY <1>2 DEF InStep, Within, OneStep
  <2> QED BY <1>1, <2>1, NestedNew DEF Starts
<1>9. Sound(M, b, cancels)
  BY <1>1, <1>7, <1>8, SoundGrows
<1>10. InStep(M, c, cancels)
  BY <1>1, <1>2, InStepKeeps
<1>11. EarlierDone(M, c, b)
  BY <1>1, EarlierDoneKeeps
<1>12. Running(M, c)
  BY <1>1, RunningKeeps DEF Streaming
<1>13. CallsBelow(M, c, m + 1)
  <2> SUFFICES ASSUME NEW i \in 1 .. Len(M), M[i].type = "tool/call", OneStep(M[i], c)
               PROVE  M[i].call < m + 1
    BY DEF CallsBelow
  <2>1. CASE i = Len(L) + 1
    BY <1>4, <2>1
  <2>2. CASE i \in 1 .. Len(L)
    <3>1. L[i].call < m
      BY <1>4, <2>2 DEF Streaming, CallsBelow
    <3>2. L[i].call \in Nat
      <4>1. L[i] \in Event
        BY <2>2 DEF Sound
      <4> QED BY <4>1, EventFields
    <3> QED BY <1>4, <2>2, <3>1, <3>2
  <2> QED BY <1>5, <2>1, <2>2
<1>14. Excused(b) \/ \A i \in 1 .. Len(M) - 1 :
                        M[i].type = "tool/call" /\ OneStep(M[i], c) => HasResult(M, Len(M), i)
  <2> SUFFICES ASSUME ~Excused(b), NEW i \in 1 .. Len(M) - 1, M[i].type = "tool/call", OneStep(M[i], c)
               PROVE  HasResult(M, Len(M), i)
    OBVIOUS
  <2>1. i \in 1 .. Len(L) /\ M[i] = L[i]
    BY <1>4
  <2>2. HasResult(L, Len(L), i)
    BY <2>1 DEF Streaming, StepResolved
  <2> QED BY <1>1, <2>1, <2>2, HasKeeps
<1>15. Len(M) > 0 /\ M[Len(M)] = e
  BY <1>4
<1> QED BY <1>9, <1>10, <1>11, <1>12, <1>13, <1>14, <1>15 DEF Calling

\* A call and its results are one.
LEMMA CallUnique ==
    ASSUME NEW L, NEW b, NEW cancels, Sound(L, b, cancels),
           NEW i \in 1 .. Len(L), NEW j \in 1 .. Len(L),
           L[i].type = "tool/call", L[j].type = "tool/call", OneCall(L[i], L[j])
    PROVE  i = j
<1>1. OneCall(L[j], L[i])
  BY DEF OneCall, OneStep
<1>2. /\ \A k \in 1 .. i - 1 : L[k].type = "tool/call" => ~OneCall(L[k], L[i])
      /\ \A k \in 1 .. j - 1 : L[k].type = "tool/call" => ~OneCall(L[k], L[j])
  BY DEF Sound, Legal, CallsOnce
<1>3. Len(L) \in Nat
  BY DEF Sound
<1> QED BY <1>1, <1>2, <1>3

LEMMA ResultHasCall ==
    ASSUME NEW L, NEW b, NEW cancels, Sound(L, b, cancels),
           NEW r \in 1 .. Len(L), L[r].type = "tool/result"
    PROVE  \E i \in 1 .. r - 1 : /\ L[i].type = "tool/call" /\ OneCall(L[i], L[r])
                                 /\ L[r].from = 0 => i \in L[r].src
BY DEF Sound, Legal, CallsOnce

LEMMA ResultAdded ==
    ASSUME NEW L, NEW e \in Event, NEW M, NEW b, NEW cancels \in Nat, NEW c \in CurType, NEW m \in Nat,
           M = Append(L, e), Sound(L, b, cancels), InStep(L, c, cancels), EarlierDone(L, c, b),
           Calling(L, c, m, b),
           e.type = "tool/result", OneStep(e, c), e.call = m, e.from = 0, e.src = {Len(L)},
           BoundsOf(e, b, Len(L))
    PROVE  /\ Sound(M, b, cancels) /\ InStep(M, c, cancels) /\ EarlierDone(M, c, b)
           /\ Streaming(M, c, m + 1, b)
<1>1. Grown(L, e, M) /\ M \in Seq(Event)
  BY AppendGrows DEF Sound
<1>2. c.step \in Nat /\ c.turn \in Nat /\ e.turn = c.turn /\ e.step = c.step
  BY DEF CurType, OneStep
<1>3. /\ Len(L) > 0 /\ L[Len(L)].type = "tool/call" /\ OneStep(L[Len(L)], c) /\ L[Len(L)].call = m
      /\ Running(L, c) /\ CallsBelow(L, c, m + 1)
  BY DEF Calling
<1>4. /\ Len(L) \in Nat /\ Len(M) = Len(L) + 1 /\ M[Len(L) + 1] = e
      /\ \A k \in 1 .. Len(L) : M[k] = L[k]
  BY <1>1 DEF Grown
<1>5. Len(L) \in 1 .. Len(L) /\ OneCall(L[Len(L)], e) /\ (Len(L) + 1) - 1 = Len(L)
  BY <1>2, <1>3, <1>4 DEF OneCall, OneStep
<1>6. CallsOnce(M, Len(L) + 1)
  <2>1. ASSUME NEW r \in 1 .. Len(L), L[r].type = "tool/result", OneCall(L[r], e) PROVE FALSE
    <3>1. PICK i \in 1 .. r - 1 : L[i].type = "tool/call" /\ OneCall(L[i], L[r])
      BY <2>1, ResultHasCall
    <3>2. i \in 1 .. Len(L) /\ i # Len(L)
      BY <1>4, <3>1
    <3>3. OneCall(L[i], L[Len(L)])
      BY <1>5, <2>1, <3>1 DEF OneCall, OneStep
    <3> QED BY <1>3, <1>5, <3>1, <3>2, <3>3, CallUnique
  <2> QED BY SMTT(30), <1>3, <1>4, <1>5, <2>1 DEF CallsOnce
<1>7. Legal(M, Len(L) + 1, b)
  <2>1. e.turn <= TurnCount(L, Len(L))
    BY <1>2 DEF InStep
  <2> QED BY <1>1, <1>6, <2>1, LegalNew
<1>8. Nested(M, Len(L) + 1)
  BY <1>1, NestedNew DEF Starts
<1>9. Sound(M, b, cancels)
  BY <1>1, <1>7, <1>8, SoundGrows
<1>10. InStep(M, c, cancels)
  BY <1>1, <1>2, InStepKeeps
<1>11. EarlierDone(M, c, b)
  BY <1>1, EarlierDoneKeeps
<1>12. Running(M, c) /\ CallsBelow(M, c, m + 1)
  BY <1>1, <1>3, RunningKeeps, CallsBelowKeeps
<1>13. StepResolved(M, Len(M), c, b)
  <2> SUFFICES ASSUME ~Excused(b), NEW i \in 1 .. Len(M), M[i].type = "tool/call", OneStep(M[i], c)
               PROVE  HasResult(M, Len(M), i)
    BY DEF StepResolved
  <2>1. i \in 1 .. Len(L) /\ M[i] = L[i]
    <3>1. i # Len(L) + 1
      BY <1>4
    <3> QED BY <1>4, <3>1
  <2>2. CASE i = Len(L)
    <3>1. Len(M) \in 1 .. Len(M) /\ M[Len(M)] = e /\ i \in e.src
      BY <1>4, <2>2
    <3> QED BY <1>5, <2>1, <2>2, <3>1 DEF HasResult
  <2>3. CASE i # Len(L)
    <3>1. i \in 1 .. Len(L) - 1
      BY <1>4, <2>1, <2>3
    <3>2. HasResult(L, Len(L), i)
      BY <2>1, <3>1 DEF Calling
    <3> QED BY <1>1, <2>1, <3>2, HasKeeps
  <2> QED BY <2>2, <2>3
<1> QED BY <1>9, <1>10, <1>11, <1>12, <1>13 DEF Streaming

\* Nobody reports a result for the call of a tool nobody registered.
LEMMA CallForgotten ==
    ASSUME NEW L, NEW c, NEW m, NEW b, Calling(L, c, m, b), Excused(b)
    PROVE  Streaming(L, c, m + 1, b)
BY DEF Calling, Streaming, StepResolved

\* The running attempt ends, in whatever way.
LEMMA AttemptEnds ==
    ASSUME NEW L, NEW e \in Event, NEW M, NEW b, NEW cancels \in Nat, NEW c \in CurType,
           M = Append(L, e), Sound(L, b, cancels), InStep(L, c, cancels), EarlierDone(L, c, b),
           Running(L, c),
           e.type = "execution/attempt/end", OneAttempt(e, c), BoundsOf(e, b, Len(L))
    PROVE  /\ Sound(M, b, cancels) /\ InStep(M, c, cancels) /\ EarlierDone(M, c, b)
           /\ Grown(L, e, M)
           /\ e.note = "SUCCEEDED" => Succeeded(M, Len(M), c)
<1>1. Grown(L, e, M) /\ M \in Seq(Event)
  BY AppendGrows DEF Sound
<1>2. c.step \in Nat /\ c.turn \in Nat /\ e.turn = c.turn /\ e.step = c.step /\ e.att = c.att
  BY DEF CurType, OneAttempt, OneStep
<1>3. PICK a \in 1 .. Len(L) : LastAttempt(L, Len(L), c, a) /\ L[a].att = c.att /\ ~HasAttemptEnd(L, Len(L), a)
  BY DEF Running
<1>4. /\ Len(L) \in Nat /\ Len(M) = Len(L) + 1 /\ M[Len(L) + 1] = e
      /\ \A k \in 1 .. Len(L) : M[k] = L[k]
  BY <1>1 DEF Grown
<1>5. (Len(L) + 1) - 1 = Len(L)
  BY <1>4
<1>6. /\ L[a].type = "execution/attempt/start" /\ OneAttempt(L[a], e)
      /\ L[a].turn = e.turn /\ L[a].step = e.step /\ L[a].att = e.att
  BY <1>2, <1>3 DEF LastAttempt, OneAttempt, OneStep
<1>7. Legal(M, Len(L) + 1, b)
  <2>1. e.turn <= TurnCount(L, Len(L))
    BY <1>2 DEF InStep
  <2>2. ~HasAttemptEnd(M, Len(L), Len(L) + 1)
    BY <1>3, <1>4, <1>6 DEF HasAttemptEnd, OneAttempt, OneStep
  <2>3. Attributed(M, Len(L) + 1)
    BY <1>4, <1>5, <1>6, <2>2 DEF Attributed
  <2> QED BY <1>1, <2>1, <2>3, LegalNew
<1>8. Nested(M, Len(L) + 1)
  BY <1>1, NestedNew DEF Starts
<1>9. Sound(M, b, cancels)
  BY <1>1, <1>7, <1>8, SoundGrows
<1>10. InStep(M, c, cancels)
  BY SMTT(30), <1>1, <1>2, InStepKeeps
<1>11. EarlierDone(M, c, b)
  BY <1>1, EarlierDoneKeeps
<1>12. ASSUME e.note = "SUCCEEDED" PROVE Succeeded(M, Len(M), c)
  <2>1. LastAttempt(M, Len(M), c, a) /\ M[a] = L[a] /\ a \in 1 .. Len(M)
    BY <1>1, <1>3, LastAttemptKeeps
  <2>2. Len(M) \in 1 .. Len(M) /\ M[Len(M)] = e
    BY <1>4
  <2>3. OneAttempt(e, M[a])
    BY <1>6, <2>1 DEF OneAttempt, OneStep
  <2> QED BY <1>12, <2>1, <2>2, <2>3 DEF Succeeded
<1> QED BY <1>1, <1>9, <1>10, <1>11, <1>12

LEMMA StepEnds ==
    ASSUME NEW L, NEW e \in Event, NEW M, NEW b, NEW cancels \in Nat, NEW c \in CurType,
           M = Append(L, e), Sound(L, b, cancels), InStep(L, c, cancels), EarlierDone(L, c, b),
           e.type = "step/end", OneStep(e, c), BoundsOf(e, b, Len(L))
    PROVE  /\ Sound(M, b, cancels) /\ InTurn(M, c.turn, c.step, cancels)
           /\ Succeeded(L, Len(L), c) /\ StepResolved(L, Len(L), c, b) => TurnDone(M, c.turn, b)
<1>1. Grown(L, e, M) /\ M \in Seq(Event)
  BY AppendGrows DEF Sound
<1>2. c.step \in Nat /\ c.turn \in Nat /\ e.turn = c.turn /\ e.step = c.step
  BY DEF CurType, OneStep
<1>4. /\ Len(L) \in Nat /\ Len(M) = Len(L) + 1 /\ M[Len(L) + 1] = e
      /\ \A k \in 1 .. Len(L) : M[k] = L[k]
  BY <1>1 DEF Grown
<1>5. \A j \in 1 .. Len(M) : j = Len(L) + 1 \/ j \in 1 .. Len(L)
  BY <1>4
<1>6. Len(M) \in 1 .. Len(M) /\ M[Len(M)] = e
  BY <1>4
<1>7. Legal(M, Len(L) + 1, b)
  <2>1. e.turn <= TurnCount(L, Len(L))
    BY <1>2 DEF InStep
  <2> QED BY <1>1, <2>1, LegalNew
<1>8. cancels = 0 => Nested(M, Len(L) + 1)
  <2>1. cancels = 0 => Within(L, Len(L), e)
    BY <1>2 DEF InStep, Within, OneStep
  <2> QED BY <1>1, <2>1, NestedNew DEF Starts
<1>9. Sound(M, b, cancels)
  BY <1>1, <1>7, <1>8, SoundGrows
<1>10. InStep(M, c, cancels)
  BY <1>1, <1>2, InStepKeeps
<1>11. ASSUME NEW i \in 1 .. Len(M), OneStep(M[i], c) PROVE HasStepEnd(M, Len(M), i)
  <2>1. OneStep(e, M[i])
    BY <1>2, <1>11 DEF OneStep
  <2> QED BY <1>6, <2>1 DEF HasStepEnd
<1>12. ASSUME cancels = 0 PROVE StepsEnded(M, Len(M))
  <2> SUFFICES ASSUME NEW i \in 1 .. Len(M), M[i].type = "step/start" PROVE HasStepEnd(M, Len(M), i)
    BY DEF StepsEnded
  <2>1. i \in 1 .. Len(L) /\ M[i] = L[i]
    BY <1>4, <1>5
  <2>2. PICK j \in 1 .. Len(L) : LatestOf(L, Len(L), Starts, j) /\ L[j].type = "step/start" /\ OneStep(L[j], c)
    BY <1>12 DEF InStep, Within
  <2>3. CASE i = j
    BY <1>11, <2>1, <2>2, <2>3
  <2>4. CASE i < j
    <3>1. StepsEnded(L, j - 1)
      BY <1>12, <2>2 DEF Sound, Nested, Starts
    <3>2. i \in 1 .. j - 1
      BY <2>1, <2>4
    <3>3. HasStepEnd(L, j - 1, i)
      BY <2>1, <3>1, <3>2 DEF StepsEnded
    <3>4. \A k \in 1 .. j - 1 : k \in 1 .. Len(L)
      BY <1>4
    <3>5. HasStepEnd(L, Len(L), i)
      BY <3>3, <3>4 DEF HasStepEnd
    <3> QED BY <1>1, <2>1, <3>5, HasKeeps
  <2>5. CASE i > j
    <3>1. i \in j + 1 .. Len(L)
      BY <1>4, <2>1, <2>5
    <3> QED BY <2>1, <2>2, <3>1 DEF LatestOf, Starts
  <2> QED BY <2>1, <2>3, <2>4, <2>5
<1>13. InTurn(M, c.turn, c.step, cancels)
  BY <1>10, <1>12 DEF InStep, InTurn
<1>14. ASSUME Succeeded(L, Len(L), c), StepResolved(L, Len(L), c, b) PROVE TurnDone(M, c.turn, b)
  <2> SUFFICES ASSUME NEW i \in 1 .. Len(M), M[i].type = "step/start", M[i].turn = c.turn
               PROVE  StepDone(M, Len(M), i, b)
    BY DEF TurnDone
  <2>1. i \in 1 .. Len(L) /\ M[i] = L[i]
    BY <1>4, <1>5
  <2>2. CASE M[i].step # c.step
    <3>1. EarlierDone(M, c, b)
      BY <1>1, EarlierDoneKeeps
    <3> QED BY <2>2, <3>1 DEF EarlierDone
  <2>3. CASE M[i].step = c.step
    <3>1. OneStep(M[i], c)
      BY <2>3 DEF OneStep
    <3>2. HasStepEnd(M, Len(M), i)
      BY <1>11, <3>1
    <3>3. Succeeded(M, Len(M), c) /\ StepResolved(M, Len(M), c, b)
      BY <1>1, <1>14, SucceededKeeps, ResolvedKeeps
    <3>4. Succeeded(M, Len(M), M[i])
      BY <2>3, <3>3 DEF Succeeded, LastAttempt, OneStep
    <3>5. StepResolved(M, Len(M), M[i], b)
      BY <2>3, <3>3 DEF StepResolved, OneStep
    <3> QED BY <3>2, <3>4, <3>5 DEF StepDone
  <2> QED BY <2>2, <2>3
<1> QED BY <1>9, <1>13, <1>14

LEMMA TurnEnds ==
    ASSUME NEW L, NEW e \in Event, NEW M, NEW b, NEW cancels \in Nat, NEW t \in Nat, NEW s,
           M = Append(L, e), Sound(L, b, cancels), InTurn(L, t, s, cancels),
           e.note = "completed" => TurnDone(L, t, b),
           e.type = "turn/end", e.turn = t, BoundsOf(e, b, Len(L))
    PROVE  Sound(M, b, cancels) /\ AtRest(M, t, cancels)
<1>1. Grown(L, e, M) /\ M \in Seq(Event)
  BY AppendGrows DEF Sound
<1>4. /\ Len(L) \in Nat /\ Len(M) = Len(L) + 1 /\ M[Len(L) + 1] = e
      /\ \A k \in 1 .. Len(L) : M[k] = L[k]
  BY <1>1 DEF Grown
<1>5. \A j \in 1 .. Len(M) : j = Len(L) + 1 \/ j \in 1 .. Len(L)
  BY <1>4
<1>6. (Len(L) + 1) - 1 = Len(L)
  BY <1>4
<1>7. Legal(M, Len(L) + 1, b)
  <2>1. e.turn <= TurnCount(L, Len(L))
    BY DEF InTurn
  <2>2. e.note = "completed" => Concluded(M, Len(L) + 1, b)
    <3> SUFFICES ASSUME e.note = "completed", NEW i \in 1 .. Len(L), L[i].type = "step/start", L[i].turn = t
                 PROVE  StepDone(M, Len(L), i, b)
      BY <1>4, <1>6 DEF Concluded
    <3>1. StepDone(L, Len(L), i, b)
      BY DEF TurnDone
    <3>2. HasStepEnd(M, Len(L), i)
      BY <1>4, <3>1 DEF StepDone, HasStepEnd
    <3>3. Succeeded(M, Len(L), M[i])
      BY <1>1, <1>4, <3>1, SamePrefix DEF StepDone, Succeeded
    <3>4. StepResolved(M, Len(L), M[i], b)
      BY <1>4, <3>1 DEF StepDone, StepResolved, HasResult
    <3> QED BY <3>2, <3>3, <3>4 DEF StepDone
  <2> QED BY <1>1, <2>1, <2>2, LegalNew DEF StepTypes
<1>8. cancels = 0 => Nested(M, Len(L) + 1)
  <2>1. cancels = 0 => WithinTurn(L, Len(L), e.turn)
    BY DEF InTurn
  <2> QED BY <1>1, <2>1, NestedNew DEF Starts
<1>9. Sound(M, b, cancels)
  BY <1>1, <1>7, <1>8, SoundGrows
<1>10. t = TurnCount(M, Len(M))
  BY <1>1, TurnCountGrows DEF InTurn
<1>11. cancels = 0 => StepsEnded(M, Len(M))
  BY <1>1, EndedKeeps DEF InTurn
<1>12. ASSUME cancels = 0 PROVE TurnsEnded(M, Len(M))
  <2> SUFFICES ASSUME NEW i \in 1 .. Len(M), M[i].type = "turn/start"
               PROVE  HasTurnEnd(M, Len(M), M[i].turn)
    BY DEF TurnsEnded
  <2>1. i \in 1 .. Len(L) /\ M[i] = L[i]
    BY <1>4, <1>5
  <2>2. PICK j \in 1 .. Len(L) : LatestOf(L, Len(L), {"turn/start"}, j) /\ L[j].turn = t
    BY <1>12 DEF InTurn, WithinTurn
  <2>3. CASE i = j
    <3>1. M[i].turn = t
      BY <2>1, <2>2, <2>3
    <3>2. HasTurnEnd(M, Len(M), t)
      BY <1>1, TurnEndKeeps
    <3> QED BY <3>1, <3>2
  <2>4. CASE i < j
    <3>1. TurnsEnded(L, j - 1)
      BY <1>12, <2>2 DEF Sound, Nested, LatestOf
    <3>2. i \in 1 .. j - 1
      BY <2>1, <2>4
    <3>3. HasTurnEnd(L, j - 1, L[i].turn)
      BY <2>1, <3>1, <3>2 DEF TurnsEnded
    <3>4. \A k \in 1 .. j - 1 : k \in 1 .. Len(L)
      BY <1>4
    <3>5. HasTurnEnd(L, Len(L), L[i].turn)
      BY <3>3, <3>4 DEF HasTurnEnd
    <3> DEFINE u == L[i].turn
    <3> HIDE DEF u
    <3>6. HasTurnEnd(M, Len(M), u)
      <4>1. HasTurnEnd(L, Len(L), u)
        BY <3>5 DEF u
      <4> QED BY <1>1, <4>1, TurnEndKeeps
    <3> QED BY <2>1, <3>6 DEF u
  <2>5. CASE i > j
    <3>1. i \in j + 1 .. Len(L)
      BY <1>4, <2>1, <2>5
    <3> QED BY <2>1, <2>2, <3>1 DEF LatestOf
  <2> QED BY <2>1, <2>3, <2>4, <2>5
<1> QED BY <1>9, <1>10, <1>11, <1>12 DEF AtRest

-----------------------------------------------------------------------------
(* A request is sent again.                                                *)

\* Whatever else the step has comes after its request.
LEMMA AfterRequest ==
    ASSUME NEW L, NEW c, NEW q, RequestIs(L, q, c), NEW i \in 1 .. Len(L),
           OfStep(L, i, c), L[i].type \notin Opens, Len(L) \in Nat
    PROVE  q \in 1 .. Len(L) /\ i \in q + 1 .. Len(L)
<1>1. q \in 1 .. Len(L) /\ \A k \in 1 .. q : OfStep(L, k, c) => L[k].type \in Opens
  BY DEF RequestIs, LatestOf
<1>2. i \notin 1 .. q
  BY <1>1
<1> QED BY <1>1, <1>2

LEMMA AttemptsBelow ==
    ASSUME NEW L, NEW b, NEW cancels, Sound(L, b, cancels), NEW c, NEW a,
           LastAttempt(L, Len(L), c, a), NEW i \in 1 .. Len(L),
           L[i].type = "execution/attempt/start", OneStep(L[i], c)
    PROVE  i <= a /\ (i # a => /\ L[i].att < L[a].att /\ i < a
                               /\ \E k \in i + 1 .. a - 1 :
                                     /\ L[k].type = "execution/attempt/end" /\ OneAttempt(L[k], L[i])
                                     /\ L[k].note = "FAILED")
<1>0. L \in Seq(Event) /\ Len(L) \in Nat
  BY DEF Sound
<1>1. /\ a \in 1 .. Len(L) /\ L[a].type = "execution/attempt/start" /\ OneStep(L[a], c)
      /\ \A j \in a + 1 .. Len(L) : L[j].type = "execution/attempt/start" => ~OneStep(L[j], c)
  BY DEF LastAttempt
<1>2. i <= a
  <2>1. i \notin a + 1 .. Len(L)
    BY <1>1
  <2> QED BY <1>0, <1>1, <2>1
<1>3. ASSUME i # a
      PROVE  /\ L[i].att < L[a].att /\ i < a
             /\ \E k \in i + 1 .. a - 1 :
                   /\ L[k].type = "execution/attempt/end" /\ OneAttempt(L[k], L[i])
                   /\ L[k].note = "FAILED"
  <2>1. i \in 1 .. a - 1 /\ i < a
    BY <1>0, <1>1, <1>2, <1>3
  <2>2. AttemptsInOrder(L, a)
    BY <1>1 DEF Sound, Legal
  <2>3. OneStep(L[i], L[a])
    BY <1>1 DEF OneStep
  <2> QED BY <1>1, <2>1, <2>2, <2>3 DEF AttemptsInOrder
<1> QED BY <1>2, <1>3

LEMMA RetryInOrder ==
    ASSUME NEW L, NEW e, NEW N, NEW f, NEW M, Grown(L, e, N), Grown(N, f, M), NEW c,
           NEW q \in 1 .. Len(L), \A i \in q + 1 .. Len(L) : L[i].type \notin Committed,
           NEW a \in 1 .. Len(L), L[a].att = c.att, c.att \in Nat,
           \A i \in 1 .. Len(L) :
               L[i].type = "execution/attempt/start" /\ OneStep(L[i], c) =>
                   /\ L[i].att \in Nat /\ i > q
                   /\ IF i = a THEN TRUE
                      ELSE /\ L[i].att < c.att
                           /\ \E k \in i + 1 .. a - 1 :
                                 /\ L[k].type = "execution/attempt/end" /\ OneAttempt(L[k], L[i])
                                 /\ L[k].note = "FAILED",
           e.type = "execution/attempt/end", e.note = "FAILED",
           e.turn = c.turn, e.step = c.step, e.att = c.att,
           f.turn = c.turn, f.step = c.step, f.att = c.att + 1
    PROVE  AttemptsInOrder(M, Len(N) + 1)
<1>1. /\ Len(L) \in Nat /\ Len(N) = Len(L) + 1 /\ N[Len(L) + 1] = e
      /\ \A k \in 1 .. Len(L) : N[k] = L[k]
  BY DEF Grown
<1>2. /\ M[Len(N) + 1] = f /\ (Len(N) + 1) - 1 = Len(N)
      /\ \A k \in 1 .. Len(N) : M[k] = N[k]
  BY <1>1 DEF Grown
<1>3. \A i \in 1 .. Len(N) : \A k \in i + 1 .. Len(N) : k \in 1 .. Len(N)
  BY <1>1
<1> SUFFICES ASSUME NEW i \in 1 .. Len(N), N[i].type = "execution/attempt/start", OneStep(N[i], f)
             PROVE  /\ N[i].att < f.att
                    /\ \E k \in i + 1 .. Len(N) :
                          /\ N[k].type = "execution/attempt/end" /\ OneAttempt(N[k], N[i])
                          /\ N[k].note = "FAILED"
                    /\ \A k \in i + 1 .. Len(N) : N[k].type \notin Committed
  BY SMTT(30), <1>2, <1>3 DEF AttemptsInOrder
<1>4. i \in 1 .. Len(L) /\ N[i] = L[i]
  <2>1. i # Len(L) + 1
    BY <1>1
  <2> QED BY <1>1, <2>1
<1>5. OneStep(L[i], c) /\ L[i].att \in Nat /\ i > q
  BY <1>4 DEF OneStep
<1>6. ASSUME NEW k \in i + 1 .. Len(N) PROVE N[k].type \notin Committed
  <2>1. CASE k = Len(L) + 1
    BY <1>1, <2>1 DEF Committed
  <2>2. CASE k # Len(L) + 1
    <3>1. k \in q + 1 .. Len(L) /\ k \in 1 .. Len(L)
      BY SMTT(30), <1>1, <1>4, <1>5, <2>2
    <3> QED BY <1>1, <3>1
  <2> QED BY <2>1, <2>2
<1>7. CASE i = a
  <2>1. OneAttempt(e, N[i]) /\ N[i].att < f.att
    BY <1>4, <1>5, <1>7 DEF OneAttempt, OneStep
  <2>2. Len(N) \in i + 1 .. Len(N) /\ N[Len(N)] = e
    BY <1>1, <1>4
  <2> QED BY <1>6, <2>1, <2>2
<1>8. CASE i # a
  <2>1. /\ L[i].att < c.att
        /\ \E k \in i + 1 .. a - 1 :
              /\ L[k].type = "execution/attempt/end" /\ OneAttempt(L[k], L[i])
              /\ L[k].note = "FAILED"
    BY <1>4, <1>5, <1>8
  <2>2. ASSUME NEW k \in i + 1 .. a - 1 PROVE k \in i + 1 .. Len(N) /\ N[k] = L[k]
    <3>1. Len(L) \in Nat /\ Len(N) = Len(L) + 1 /\ i \in Nat /\ i > 0 /\ a \in Nat /\ a <= Len(L)
      BY <1>1, <1>4
    <3>2. k \in i + 1 .. Len(N) /\ k \in 1 .. Len(L)
      BY <3>1
    <3> QED BY <1>1, <3>2
  <2>3. N[i].att < f.att
    BY <1>4, <1>5, <2>1
  <2> QED BY <1>4, <1>6, <2>1, <2>2, <2>3
<1> QED BY <1>7, <1>8

LEMMA Retried ==
    ASSUME NEW L, NEW e \in Event, NEW f \in Event, NEW M, NEW b, NEW cancels \in Nat,
           NEW c \in CurType, NEW d \in CurType, OneStep(d, c), d.att = c.att + 1, NEW m, NEW q,
           M = Append(Append(L, e), f),
           Sound(L, b, cancels), InStep(L, c, cancels), EarlierDone(L, c, b), Streaming(L, c, m, b),
           RequestIs(L, q, c), \A i \in q + 1 .. Len(L) : L[i].type \notin Committed,
           e.type = "execution/attempt/end", OneAttempt(e, c), e.note = "FAILED", BoundsOf(e, b, Len(L)),
           f.type = "execution/attempt/start", OneAttempt(f, d), BoundsOf(f, b, Len(L))
    PROVE  /\ Sound(M, b, cancels) /\ InStep(M, d, cancels) /\ EarlierDone(M, d, b)
           /\ Streaming(M, d, 1, b)
<1> DEFINE N == Append(L, e)
<1>1. /\ Sound(N, b, cancels) /\ InStep(N, c, cancels) /\ EarlierDone(N, c, b)
      /\ Grown(L, e, N)
  BY AttemptEnds DEF Streaming
<1>2. M = Append(N, f)
  OBVIOUS
<1> HIDE DEF N
<1>3. /\ Len(L) \in Nat /\ Len(N) = Len(L) + 1 /\ N[Len(L) + 1] = e
      /\ \A k \in 1 .. Len(L) : N[k] = L[k]
  BY <1>1 DEF Grown
<1>4. \A j \in 1 .. Len(N) : j = Len(L) + 1 \/ j \in 1 .. Len(L)
  BY <1>3
<1>5. PICK a \in 1 .. Len(L) : LastAttempt(L, Len(L), c, a) /\ L[a].att = c.att /\ ~HasAttemptEnd(L, Len(L), a)
  BY DEF Streaming, Running
<1>6. c.att \in Nat /\ d.turn = c.turn /\ d.step = c.step /\ d.att = c.att + 1
  BY DEF CurType, OneStep
<1>7. f.turn = c.turn /\ f.step = c.step /\ f.att = c.att + 1
  BY <1>6 DEF OneAttempt, OneStep
<1>8. e.turn = c.turn /\ e.step = c.step /\ e.att = c.att
  BY DEF OneAttempt, OneStep
<1>9. ASSUME NEW i \in 1 .. Len(L), L[i].type = "tool/call" PROVE ~OneStep(L[i], c)
  <2> SUFFICES ASSUME OneStep(L[i], c) PROVE FALSE
    OBVIOUS
  <2>1. i \in q + 1 .. Len(L)
    BY <1>3, <1>9, AfterRequest DEF OfStep, StepTypes, Opens
  <2> QED BY <1>9, <2>1 DEF Committed
<1>10. \A i \in 1 .. Len(N) : N[i].type = "tool/call" => ~OneStep(N[i], c)
  BY <1>3, <1>4, <1>9
<1>11. ASSUME NEW i \in 1 .. Len(N), N[i].type = "execution/attempt/end", OneAttempt(N[i], f) PROVE FALSE
  <2>1. i \in 1 .. Len(L) /\ N[i] = L[i]
    BY <1>3, <1>4, <1>6, <1>7, <1>8, <1>11 DEF OneAttempt
  <2>2. PICK k \in 1 .. i - 1 : L[k].type = "execution/attempt/start" /\ OneAttempt(L[k], L[i])
    BY <1>11, <2>1 DEF Sound, Legal, Attributed
  <2>3. k \in 1 .. Len(L) /\ OneStep(L[k], c) /\ L[k].att = c.att + 1
    BY <1>3, <1>7, <1>11, <2>1, <2>2 DEF OneAttempt, OneStep
  <2> QED BY SMTT(30), <1>5, <1>6, <2>2, <2>3, AttemptsBelow
<1>12. Grown(N, f, M)
  BY <1>1, <1>2, AppendGrows DEF Sound
<1>13. /\ M[Len(N) + 1] = f /\ (Len(N) + 1) - 1 = Len(N)
       /\ \A k \in 1 .. Len(N) : M[k] = N[k]
  BY SMTT(30), <1>3, <1>12 DEF Grown
<1>14. AttemptsInOrder(M, Len(N) + 1)
  <2>1. \A i \in 1 .. Len(L) :
            L[i].type = "execution/attempt/start" /\ OneStep(L[i], c) =>
                /\ L[i].att \in Nat /\ i > q
                /\ IF i = a THEN TRUE
                   ELSE /\ L[i].att < c.att
                        /\ \E k \in i + 1 .. a - 1 :
                              /\ L[k].type = "execution/attempt/end" /\ OneAttempt(L[k], L[i])
                              /\ L[k].note = "FAILED"
    <3> SUFFICES ASSUME NEW i \in 1 .. Len(L), L[i].type = "execution/attempt/start", OneStep(L[i], c)
                 PROVE  /\ L[i].att \in Nat /\ i > q
                        /\ i # a => /\ L[i].att < c.att
                                    /\ \E k \in i + 1 .. a - 1 :
                                          /\ L[k].type = "execution/attempt/end"
                                          /\ OneAttempt(L[k], L[i]) /\ L[k].note = "FAILED"
      OBVIOUS
    <3>1. L[i].att \in Nat
      <4>1. L[i] \in Event
        BY DEF Sound
      <4> QED BY <4>1, EventFields
    <3>2. i \in q + 1 .. Len(L) /\ q \in 1 .. Len(L)
      <4>1. OfStep(L, i, c) /\ L[i].type \notin Opens
        BY DEF OfStep, StepTypes, Opens
      <4> QED BY <1>3, <4>1, AfterRequest
    <3>3. i > q
      BY <1>3, <3>2
    <3>4. i # a => /\ L[i].att < L[a].att
                   /\ \E k \in i + 1 .. a - 1 :
                         /\ L[k].type = "execution/attempt/end"
                         /\ OneAttempt(L[k], L[i]) /\ L[k].note = "FAILED"
      BY <1>5, AttemptsBelow
    <3> QED BY <1>5, <3>1, <3>3, <3>4
  <2>2. q \in 1 .. Len(L)
    BY DEF RequestIs, LatestOf
  <2>3. L[a].att = c.att /\ c.att \in Nat
    BY <1>5, <1>6
  <2>4. Grown(L, e, N)
    BY <1>1
  <2> QED BY SMTT(30), <1>7, <1>8, <1>12, <2>1, <2>2, <2>3, <2>4, RetryInOrder
<1>15. BoundsOf(f, b, Len(N))
  <2>1. 1 .. Len(L) \subseteq 1 .. Len(N)
    BY <1>3
  <2> QED BY <2>1 DEF BoundsOf
<1>16. OneStep(f, c) /\ f.att = d.att /\ d.att # 0
  BY <1>6, <1>7 DEF OneStep
<1> QED BY <1>1, <1>2, <1>10, <1>11, <1>14, <1>15, <1>16, AttemptStarts

-----------------------------------------------------------------------------
(* Recovery closes what is open.                                           *)

\* InOrder lists every element of a finite set of numbers, each of them once.
LEMMA InOrderLists ==
    ASSUME NEW S \in SUBSET Nat, IsFiniteSet(S)
    PROVE  /\ Cardinality(S) \in Nat
           /\ \A k \in 1 .. Cardinality(S) : InOrder(S)[k] \in S
           /\ \A j, k \in 1 .. Cardinality(S) : InOrder(S)[j] = InOrder(S)[k] => j = k
           /\ \A i \in S : \E k \in 1 .. Cardinality(S) : InOrder(S)[k] = i
<1> DEFINE n == Cardinality(S)
           UpTo(i) == {j \in S : j <= i}
           rank == [i \in S |-> Cardinality(UpTo(i))]
<1>1. n \in Nat
  BY FS_CardinalityType
<1>2. ASSUME NEW i \in S PROVE IsFiniteSet(UpTo(i)) /\ Cardinality(UpTo(i)) \in 1 .. n
  <2>1. UpTo(i) \subseteq S /\ i \in UpTo(i)
    OBVIOUS
  <2>2. IsFiniteSet(UpTo(i)) /\ Cardinality(UpTo(i)) <= n
    BY <2>1, FS_Subset
  <2>3. Cardinality(UpTo(i)) \in Nat /\ (Cardinality(UpTo(i)) = 0 <=> UpTo(i) = {})
    BY <2>2, FS_CardinalityType, FS_EmptySet
  <2> HIDE DEF UpTo, n
  <2> QED BY <1>1, <2>1, <2>2, <2>3
<1>3. ASSUME NEW i \in S, NEW j \in S, i < j
      PROVE  Cardinality(UpTo(i)) # Cardinality(UpTo(j))
  <2>0. i \in Nat /\ j \in Nat /\ \A k \in S : k \in Nat
    OBVIOUS
  <2>a. \A k \in S : k <= i => k <= j
    BY <1>3, <2>0
  <2>b. j <= j /\ ~(j <= i)
    BY <1>3, <2>0
  <2>1. UpTo(i) \subseteq UpTo(j) /\ j \in UpTo(j) /\ j \notin UpTo(i)
    BY <2>a, <2>b
  <2>2. IsFiniteSet(UpTo(j))
    BY <1>2
  <2> HIDE DEF UpTo
  <2> QED BY <2>1, <2>2, FS_Subset
<1>4. \A i, j \in S : Cardinality(UpTo(i)) = Cardinality(UpTo(j)) => i = j
  <2> SUFFICES ASSUME NEW i \in S, NEW j \in S, i # j
               PROVE  Cardinality(UpTo(i)) # Cardinality(UpTo(j))
    OBVIOUS
  <2>1. i \in Nat /\ j \in Nat
    OBVIOUS
  <2>2. i < j \/ j < i
    BY <2>1
  <2> HIDE DEF UpTo
  <2> QED BY <1>3, <2>2
<1>5. rank \in Injection(S, 1 .. n)
  <2> HIDE DEF UpTo, n
  <2>1. rank \in [S -> 1 .. n]
    BY <1>2
  <2> QED BY <1>4, <2>1 DEF Injection, IsInjective
<1>6. \A k \in 1 .. n : \E i \in S : Cardinality(UpTo(i)) = k
  <2>1. IsFiniteSet(1 .. n) /\ Cardinality(1 .. n) = n
    BY <1>1, FS_Interval
  <2> HIDE DEF UpTo
  <2>2. rank \in Surjection(S, 1 .. n)
    <3> HIDE DEF rank
    <3> QED BY <1>5, <2>1, FS_Injection
  <2> HIDE DEF n
  <2> QED BY <2>2 DEF Surjection
<1>7. \A k \in 1 .. n : InOrder(S)[k] = CHOOSE i \in S : Cardinality(UpTo(i)) = k
  BY DEF InOrder
<1> HIDE DEF UpTo
<1>8. \A k \in 1 .. n : InOrder(S)[k] \in S /\ Cardinality(UpTo(InOrder(S)[k])) = k
  <2> HIDE DEF n
  <2> QED BY <1>6, <1>7
<1>9. \A i \in S : \E k \in 1 .. n : InOrder(S)[k] = i
  <2> HIDE DEF n
  <2> QED BY <1>2, <1>4, <1>8
<1>10. \A j, k \in 1 .. n : InOrder(S)[j] = InOrder(S)[k] => j = k
  <2> HIDE DEF n
  <2> QED BY <1>8
<1> QED BY <1>1, <1>8, <1>9, <1>10

LEMMA AttemptUnique ==
    ASSUME NEW L, NEW b, NEW cancels, Sound(L, b, cancels),
           NEW i \in 1 .. Len(L), NEW j \in 1 .. Len(L),
           L[i].type = "execution/attempt/start", L[j].type = "execution/attempt/start",
           OneAttempt(L[i], L[j])
    PROVE  i = j
<1>1. OneStep(L[i], L[j]) /\ OneStep(L[j], L[i]) /\ L[i].att = L[j].att
  BY DEF OneAttempt, OneStep
<1>2. AttemptsInOrder(L, i) /\ AttemptsInOrder(L, j)
  BY DEF Sound, Legal
<1>3. /\ \A k \in 1 .. i - 1 : L[k].type = "execution/attempt/start" /\ OneStep(L[k], L[i]) =>
                                   L[k].att < L[i].att
      /\ \A k \in 1 .. j - 1 : L[k].type = "execution/attempt/start" /\ OneStep(L[k], L[j]) =>
                                   L[k].att < L[j].att
  BY <1>2 DEF AttemptsInOrder
<1>4. Len(L) \in Nat /\ L[i].att \in Nat
  <2>1. L \in Seq(Event) /\ L[i] \in Event
    BY DEF Sound
  <2> QED BY <2>1, EventFields
<1>5. ~(i < j) /\ ~(j < i)
  <2>1. i < j => i \in 1 .. j - 1
    BY <1>4
  <2>2. j < i => j \in 1 .. i - 1
    BY <1>4
  <2> QED BY <1>1, <1>3, <1>4, <2>1, <2>2
<1> QED BY <1>4, <1>5

LEMMA SoundExtends ==
    ASSUME NEW L, NEW M \in Seq(Event), NEW b, NEW cancels \in Nat, Sound(L, b, cancels),
           Len(L) <= Len(M), \A i \in 1 .. Len(L) : M[i] = L[i],
           \A n \in Len(L) + 1 .. Len(M) : Legal(M, n, b) /\ (cancels = 0 => Nested(M, n))
    PROVE  Sound(M, b, cancels)
<1>1. L \in Seq(Event) /\ Len(L) \in Nat
  BY DEF Sound
<1>2. ASSUME NEW n \in 1 .. Len(M)
      PROVE  Legal(M, n, b) /\ (cancels = 0 => Nested(M, n))
  <2>1. CASE n \in Len(L) + 1 .. Len(M)
    BY <2>1
  <2>2. CASE n \notin Len(L) + 1 .. Len(M)
    <3>1. n \in 1 .. Len(L) /\ n \in Nat \ {0} /\ \A i \in 1 .. n : M[i] = L[i]
      BY <1>1, <2>2
    <3>2. Legal(L, n, b) /\ (cancels = 0 => Nested(L, n))
      BY <3>1 DEF Sound
    <3>3. Legal(M, n, b)
      BY <3>1, <3>2, LegalAgrees
    <3>4. cancels = 0 => Nested(M, n)
      BY <3>1, <3>2, NestedAgrees
    <3> QED BY <3>3, <3>4
  <2> QED BY <2>1, <2>2
<1> QED BY <1>1, <1>2 DEF Sound

\* Event e ends what event i of L left open.
Closes(L, i, e) ==
    /\ e.turn = L[i].turn /\ e.step = L[i].step /\ e.att = L[i].att /\ e.call = L[i].call
    /\ e.from = L[i].from
    /\ e.src = L[i].src \/ e.src = {i}
    /\ \/ /\ L[i].type = "execution/attempt/start" /\ e.type = "execution/attempt/end"
          /\ ~HasAttemptEnd(L, Len(L), i)
       \/ /\ L[i].type = "tool/call" /\ e.type = "tool/result" /\ e.src = {i}
          /\ ~HasResult(L, Len(L), i)
       \/ /\ L[i].type = "step/start" /\ e.type = "step/end"
          /\ ~HasStepEnd(L, Len(L), i)
       \/ /\ L[i].type = "turn/start" /\ e.type = "turn/end" /\ e.note # "completed"
          /\ ~HasTurnEnd(L, Len(L), L[i].turn)

IsOpen(L, i) ==
    \/ L[i].type = "execution/attempt/start" /\ ~HasAttemptEnd(L, Len(L), i)
    \/ L[i].type = "tool/call" /\ ~HasResult(L, Len(L), i)
    \/ L[i].type = "step/start" /\ ~HasStepEnd(L, Len(L), i)
    \/ L[i].type = "turn/start" /\ ~HasTurnEnd(L, Len(L), L[i].turn)

\* M closes each open event of L once: f names it.
ClosesAll(L, M, f) ==
    /\ Len(L) \in Nat /\ Len(M) \in Nat /\ Len(L) <= Len(M)
    /\ \A i \in 1 .. Len(L) : M[i] = L[i]
    /\ \A n \in Len(L) + 1 .. Len(M) : f[n] \in 1 .. Len(L) /\ Closes(L, f[n], M[n])
    /\ \A n, m \in Len(L) + 1 .. Len(M) : f[n] = f[m] => n = m
    /\ \A i \in 1 .. Len(L) : IsOpen(L, i) => \E n \in Len(L) + 1 .. Len(M) : f[n] = i

CloserTypes == {"execution/attempt/end", "tool/result", "step/end", "turn/end"}

LEMMA ClosersLegal ==
    ASSUME NEW L, NEW M \in Seq(Event), NEW b, NEW cancels \in Nat, Sound(L, b, cancels), NEW f,
           ClosesAll(L, M, f), NEW n \in Len(L) + 1 .. Len(M)
    PROVE  Legal(M, n, b)
<1> DEFINE i == f[n]
<1>1. /\ Len(L) \in Nat /\ Len(M) \in Nat /\ Len(L) <= Len(M)
      /\ \A k \in 1 .. Len(L) : M[k] = L[k]
      /\ i \in 1 .. Len(L) /\ Closes(L, i, M[n])
  BY DEF ClosesAll
<1>2. \A k \in Len(L) + 1 .. Len(M) : f[k] \in 1 .. Len(L) /\ Closes(L, f[k], M[k]) /\ (f[k] = i => k = n)
  BY DEF ClosesAll
<1> HIDE DEF i
<1>3. n \in Nat /\ n - 1 \in Nat /\ n > Len(L) /\ n > i /\ i \in 1 .. n - 1
  BY <1>1
<1>4. \A k \in 1 .. n - 1 : k \in 1 .. Len(L) \/ (k \in Len(L) + 1 .. Len(M) /\ k # n)
  BY <1>1, <1>3
<1>5. Legal(L, i, b) /\ M[n] \in Event /\ M[n].type \in CloserTypes
  BY <1>1, <1>3 DEF Sound, Closes, CloserTypes
<1>6. Bounded(M, n, b)
  <2>1. L[i].src \subseteq 1 .. i - 1 /\ L[i].turn <= b.turns /\ L[i].step <= b.steps /\ L[i].call <= b.calls
    BY <1>5 DEF Legal, Bounded
  <2>2. 1 .. i - 1 \subseteq 1 .. n - 1
    BY <1>1, <1>3
  <2> QED BY <1>1, <1>3, <2>1, <2>2 DEF Bounded, Closes
<1>7. Numbered(M, n)
  <2>1. L[i].turn <= TurnCount(L, i) /\ L[i].turn \in Nat
    <3>1. L[i] \in Event /\ i \in Nat
      BY <1>1 DEF Sound
    <3>2. L[i].turn \in Nat
      BY <3>1, EventFields
    <3>3. TurnCount(L, i) \in Nat
      BY <3>1, TurnStartsFinite
    <3>4. L[i].type \in StepTypes \/ L[i].type = "turn/start"
      BY <1>1 DEF Closes, StepTypes
    <3> QED BY <1>5, <3>2, <3>3, <3>4 DEF Legal, Numbered
  <2>2. TurnCount(M, i) = TurnCount(L, i)
    <3>1. i \in Nat /\ \A k \in 1 .. i : M[k] = L[k]
      BY <1>1
    <3> QED BY <3>1, TurnCountAgrees
  <2>3. TurnCount(M, i) <= TurnCount(M, n) /\ TurnCount(M, i) \in Nat /\ TurnCount(M, n) \in Nat
    <3>1. i \in 0 .. n /\ i \in Nat
      BY <1>1, <1>3
    <3> QED BY <1>3, <3>1, TurnCountMonotonic, TurnStartsFinite
  <2>4. L[i].turn <= TurnCount(M, n)
    BY <2>1, <2>2, <2>3
  <2> QED BY <1>1, <1>5, <2>4 DEF Numbered, Closes, CloserTypes
<1>8. CallsOnce(M, n)
  <2> SUFFICES ASSUME M[n].type = "tool/result"
               PROVE  /\ \E j \in 1 .. n - 1 : /\ M[j].type = "tool/call" /\ OneCall(M[j], M[n])
                                               /\ j \in M[n].src
                      /\ \A r \in 1 .. n - 1 :
                            M[r].type = "tool/result" /\ M[r].from = 0 => ~OneCall(M[r], M[n])
    BY <1>5 DEF CallsOnce, CloserTypes
  <2>1. /\ L[i].type = "tool/call" /\ M[n].src = {i} /\ ~HasResult(L, Len(L), i)
        /\ OneCall(L[i], M[n])
    BY <1>1 DEF Closes, OneCall, OneStep
  <2>2. ASSUME NEW r \in 1 .. Len(L), L[r].type = "tool/result", L[r].from = 0, OneCall(L[r], M[n])
        PROVE  FALSE
    <3>1. PICK j \in 1 .. r - 1 : L[j].type = "tool/call" /\ OneCall(L[j], L[r]) /\ j \in L[r].src
      BY <2>2, ResultHasCall
    <3>2. j \in 1 .. Len(L) /\ OneCall(L[j], L[i])
      BY <1>1, <2>1, <2>2, <3>1 DEF OneCall, OneStep
    <3>3. j = i
      BY <1>1, <2>1, <3>1, <3>2, CallUnique
    <3> QED BY <2>1, <2>2, <3>1, <3>3 DEF HasResult
  <2>3. ASSUME NEW r \in Len(L) + 1 .. Len(M), r # n, M[r].type = "tool/result", OneCall(M[r], M[n])
        PROVE  FALSE
    <3>1. f[r] \in 1 .. Len(L) /\ L[f[r]].type = "tool/call" /\ OneCall(L[f[r]], M[r])
      BY <1>2, <2>3 DEF Closes, OneCall, OneStep
    <3>2. OneCall(L[f[r]], L[i])
      BY <2>1, <2>3, <3>1 DEF OneCall, OneStep
    <3>3. f[r] = i
      BY <1>1, <2>1, <3>1, <3>2, CallUnique
    <3> QED BY <1>2, <2>3, <3>3
  <2>4. ASSUME NEW r \in 1 .. n - 1, M[r].type = "tool/result", M[r].from = 0, OneCall(M[r], M[n])
        PROVE  FALSE
    BY <1>1, <1>4, <2>2, <2>3, <2>4
  <2> QED BY <1>1, <1>3, <2>1, <2>4
<1>9. AttemptsInOrder(M, n) /\ Concluded(M, n, b)
  BY <1>1 DEF AttemptsInOrder, Concluded, Closes
<1>10. Attributed(M, n)
  <2> SUFFICES ASSUME M[n].type = "execution/attempt/end"
               PROVE  /\ ~HasAttemptEnd(M, n - 1, n)
                      /\ \E a \in 1 .. n - 1 :
                            M[a].type = "execution/attempt/start" /\ OneAttempt(M[a], M[n])
    BY <1>5 DEF Attributed, CloserTypes
  <2>1. /\ L[i].type = "execution/attempt/start" /\ ~HasAttemptEnd(L, Len(L), i)
        /\ OneAttempt(L[i], M[n])
    BY <1>1 DEF Closes, OneAttempt, OneStep
  <2>2. ASSUME NEW j \in 1 .. n - 1, M[j].type = "execution/attempt/end", OneAttempt(M[j], M[n])
        PROVE  FALSE
    <3>1. OneAttempt(M[j], L[i])
      BY <2>1, <2>2 DEF OneAttempt, OneStep
    <3>2. CASE j \in 1 .. Len(L)
      BY <1>1, <2>1, <2>2, <3>1, <3>2 DEF HasAttemptEnd
    <3>3. CASE j \in Len(L) + 1 .. Len(M) /\ j # n
      <4>1. f[j] \in 1 .. Len(L) /\ L[f[j]].type = "execution/attempt/start" /\ OneAttempt(L[f[j]], L[i])
        BY <1>2, <2>2, <3>1, <3>3 DEF Closes, OneAttempt, OneStep
      <4>2. f[j] = i
        BY <1>1, <2>1, <4>1, AttemptUnique
      <4> QED BY <1>2, <3>3, <4>2
    <3> QED BY <1>4, <3>2, <3>3
  <2> QED BY <1>1, <1>3, <2>1, <2>2 DEF HasAttemptEnd
<1> QED BY <1>6, <1>7, <1>8, <1>9, <1>10 DEF Legal

LEMMA ClosersNested ==
    ASSUME NEW L, NEW M \in Seq(Event), NEW b, NEW cancels \in Nat, Sound(L, b, cancels), NEW f,
           ClosesAll(L, M, f), NEW n \in Len(L) + 1 .. Len(M), cancels = 0
    PROVE  Nested(M, n)
<1> DEFINE i == f[n]
<1>1. /\ Len(L) \in Nat /\ Len(M) \in Nat /\ Len(L) <= Len(M)
      /\ \A k \in 1 .. Len(L) : M[k] = L[k]
      /\ i \in 1 .. Len(L) /\ Closes(L, i, M[n])
      /\ \A k \in Len(L) + 1 .. Len(M) : M[k].type \in CloserTypes
  BY DEF ClosesAll, Closes, CloserTypes
<1> HIDE DEF i
<1>2. n \in Nat /\ n - 1 \in Nat /\ n > Len(L) /\ n > i /\ i \in 1 .. n - 1
  BY <1>1
<1>3. \A k \in i + 1 .. n - 1 : k \in 1 .. Len(L) \/ k \in Len(L) + 1 .. Len(M)
  BY <1>1, <1>2
<1>4. M[n].type \in CloserTypes
  BY <1>1
<1>5. ASSUME M[n].type = "step/end" PROVE Within(M, n - 1, M[n])
  <2>1. L[i].type = "step/start" /\ ~HasStepEnd(L, Len(L), i) /\ OneStep(L[i], M[n])
    BY <1>1, <1>5 DEF Closes, OneStep
  <2>2. ASSUME NEW k \in i + 1 .. n - 1 PROVE M[k].type \notin Starts
    <3>1. CASE k \in Len(L) + 1 .. Len(M)
      BY <1>1, <3>1 DEF CloserTypes, Starts
    <3>2. CASE k \in 1 .. Len(L)
      <4> SUFFICES ASSUME L[k].type \in Starts PROVE FALSE
        BY <1>1, <3>2
      <4>1. StepsEnded(L, k - 1)
        BY <3>2 DEF Sound, Nested
      <4>2. i \in 1 .. k - 1
        BY <1>1, <3>2
      <4>3. HasStepEnd(L, k - 1, i)
        BY <2>1, <4>1, <4>2 DEF StepsEnded
      <4>4. \A j \in 1 .. k - 1 : j \in 1 .. Len(L)
        BY <1>1, <3>2
      <4> QED BY <2>1, <4>3, <4>4 DEF HasStepEnd
    <3> QED BY <1>3, <3>1, <3>2
  <2>3. LatestOf(M, n - 1, Starts, i)
    BY <1>1, <1>2, <2>1, <2>2 DEF LatestOf, Starts
  <2> QED BY <1>1, <1>2, <2>1, <2>3 DEF Within
<1>6. ASSUME M[n].type = "turn/end" PROVE WithinTurn(M, n - 1, M[n].turn)
  <2>1. L[i].type = "turn/start" /\ ~HasTurnEnd(L, Len(L), L[i].turn) /\ L[i].turn = M[n].turn
    BY <1>1, <1>6 DEF Closes
  <2>2. ASSUME NEW k \in i + 1 .. n - 1 PROVE M[k].type \notin {"turn/start"}
    <3>1. CASE k \in Len(L) + 1 .. Len(M)
      BY <1>1, <3>1 DEF CloserTypes
    <3>2. CASE k \in 1 .. Len(L)
      <4> SUFFICES ASSUME L[k].type = "turn/start" PROVE FALSE
        BY <1>1, <3>2
      <4>1. TurnsEnded(L, k - 1)
        BY <3>2 DEF Sound, Nested
      <4>2. i \in 1 .. k - 1
        BY <1>1, <3>2
      <4>3. HasTurnEnd(L, k - 1, L[i].turn)
        BY <2>1, <4>1, <4>2 DEF TurnsEnded
      <4>4. \A j \in 1 .. k - 1 : j \in 1 .. Len(L)
        BY <1>1, <3>2
      <4> QED BY <2>1, <4>3, <4>4 DEF HasTurnEnd
    <3> QED BY <1>3, <3>1, <3>2
  <2>3. LatestOf(M, n - 1, {"turn/start"}, i)
    BY <1>1, <1>2, <2>1, <2>2 DEF LatestOf
  <2> QED BY <1>1, <1>2, <2>1, <2>3 DEF WithinTurn
<1> QED BY <1>4, <1>5, <1>6 DEF Nested, CloserTypes, Starts

LEMMA RepairAdds ==
    ASSUME NEW L, NEW M \in Seq(Event), NEW b, NEW cancels \in Nat, Sound(L, b, cancels), NEW f,
           ClosesAll(L, M, f)
    PROVE  /\ Sound(M, b, cancels) /\ NothingOpen(M)
           /\ TurnCount(M, Len(M)) = TurnCount(L, Len(L))
<1>1. /\ Len(L) \in Nat /\ Len(M) \in Nat /\ Len(L) <= Len(M)
      /\ \A k \in 1 .. Len(L) : M[k] = L[k]
      /\ \A k \in Len(L) + 1 .. Len(M) : f[k] \in 1 .. Len(L) /\ Closes(L, f[k], M[k])
      /\ \A i \in 1 .. Len(L) : IsOpen(L, i) => \E n \in Len(L) + 1 .. Len(M) : f[n] = i
  BY DEF ClosesAll
<1>2. \A k \in Len(L) + 1 .. Len(M) : M[k].type \in CloserTypes
  BY <1>1 DEF Closes, CloserTypes
<1>3. \A k \in 1 .. Len(M) : k \in 1 .. Len(L) \/ k \in Len(L) + 1 .. Len(M)
  BY <1>1
<1>4. \A k \in 1 .. Len(L) : k \in 1 .. Len(M)
  BY <1>1
<1>5. \A k \in Len(L) + 1 .. Len(M) : k \in 1 .. Len(M)
  BY <1>1
<1>6. Sound(M, b, cancels)
  <2>1. \A n \in Len(L) + 1 .. Len(M) : Legal(M, n, b) /\ (cancels = 0 => Nested(M, n))
    BY ClosersLegal, ClosersNested
  <2> QED BY <1>1, <2>1, SoundExtends
<1>7. TurnCount(M, Len(M)) = TurnCount(L, Len(L))
  <2>1. TurnStarts(M, Len(M)) = TurnStarts(L, Len(L))
    BY SMTT(30), <1>1, <1>2, <1>3, <1>4 DEF TurnStarts, CloserTypes
  <2> QED BY <2>1 DEF TurnCount
<1>8. StepsEnded(M, Len(M))
  <2> SUFFICES ASSUME NEW i \in 1 .. Len(M), M[i].type = "step/start" PROVE HasStepEnd(M, Len(M), i)
    BY DEF StepsEnded
  <2>1. i \in 1 .. Len(L) /\ M[i] = L[i]
    BY <1>1, <1>2, <1>3 DEF CloserTypes
  <2>2. CASE HasStepEnd(L, Len(L), i)
    BY <1>1, <1>4, <2>1, <2>2 DEF HasStepEnd
  <2>3. CASE ~HasStepEnd(L, Len(L), i)
    <3>1. PICK n \in Len(L) + 1 .. Len(M) : f[n] = i
      BY <1>1, <2>1, <2>3 DEF IsOpen
    <3>2. M[n].type = "step/end" /\ OneStep(M[n], M[i]) /\ n \in 1 .. Len(M)
      BY <1>1, <1>5, <2>1, <3>1 DEF Closes, OneStep
    <3> QED BY <3>2 DEF HasStepEnd
  <2> QED BY <2>2, <2>3
<1>9. TurnsEnded(M, Len(M))
  <2> SUFFICES ASSUME NEW i \in 1 .. Len(M), M[i].type = "turn/start" PROVE HasTurnEnd(M, Len(M), M[i].turn)
    BY DEF TurnsEnded
  <2>1. i \in 1 .. Len(L) /\ M[i] = L[i]
    BY <1>1, <1>2, <1>3 DEF CloserTypes
  <2>2. CASE HasTurnEnd(L, Len(L), L[i].turn)
    BY <1>1, <1>4, <2>1, <2>2 DEF HasTurnEnd
  <2>3. CASE ~HasTurnEnd(L, Len(L), L[i].turn)
    <3>1. PICK n \in Len(L) + 1 .. Len(M) : f[n] = i
      BY <1>1, <2>1, <2>3 DEF IsOpen
    <3>2. M[n].type = "turn/end" /\ M[n].turn = M[i].turn /\ n \in 1 .. Len(M)
      BY <1>1, <1>5, <2>1, <3>1 DEF Closes
    <3> QED BY <3>2 DEF HasTurnEnd
  <2> QED BY <2>2, <2>3
<1>10. AttemptsEnded(M, Len(M))
  <2> SUFFICES ASSUME NEW i \in 1 .. Len(M), M[i].type = "execution/attempt/start"
               PROVE  HasAttemptEnd(M, Len(M), i)
    BY DEF AttemptsEnded
  <2>1. i \in 1 .. Len(L) /\ M[i] = L[i]
    BY <1>1, <1>2, <1>3 DEF CloserTypes
  <2>2. CASE HasAttemptEnd(L, Len(L), i)
    BY <1>1, <1>4, <2>1, <2>2 DEF HasAttemptEnd
  <2>3. CASE ~HasAttemptEnd(L, Len(L), i)
    <3>1. PICK n \in Len(L) + 1 .. Len(M) : f[n] = i
      BY <1>1, <2>1, <2>3 DEF IsOpen
    <3>2. M[n].type = "execution/attempt/end" /\ OneAttempt(M[n], M[i]) /\ n \in 1 .. Len(M)
      BY SMTT(30), <1>1, <1>5, <2>1, <3>1 DEF Closes, OneAttempt, OneStep
    <3> QED BY <3>2 DEF HasAttemptEnd
  <2> QED BY <2>2, <2>3
<1>11. CallsResolved(M, Len(M))
  <2> SUFFICES ASSUME NEW i \in 1 .. Len(M), M[i].type = "tool/call" PROVE HasResult(M, Len(M), i)
    BY DEF CallsResolved
  <2>1. i \in 1 .. Len(L) /\ M[i] = L[i]
    BY <1>1, <1>2, <1>3 DEF CloserTypes
  <2>2. CASE HasResult(L, Len(L), i)
    BY <1>1, <1>4, <2>1, <2>2 DEF HasResult
  <2>3. CASE ~HasResult(L, Len(L), i)
    <3>1. PICK n \in Len(L) + 1 .. Len(M) : f[n] = i
      BY <1>1, <2>1, <2>3 DEF IsOpen
    <3>2. M[n].type = "tool/result" /\ OneCall(M[i], M[n]) /\ i \in M[n].src /\ n \in 1 .. Len(M)
      BY <1>1, <1>5, <2>1, <3>1 DEF Closes, OneCall, OneStep
    <3> QED BY <3>2 DEF HasResult
  <2> QED BY <2>2, <2>3
<1> QED BY <1>6, <1>7, <1>8, <1>9, <1>10, <1>11 DEF NothingOpen

-----------------------------------------------------------------------------
(* The events the code appends, and the stretches they make.               *)

LEMMA Stretches ==
    ASSUME NEW L \in Seq(Event), NEW a \in Event, NEW b \in Event, NEW c \in Event, NEW d \in Event
    PROVE  /\ Append(L, a) \in Seq(Event)
           /\ <<a>> \in Seq(Event) /\ L \o <<a>> = Append(L, a)
           /\ <<a, b>> \in Seq(Event) /\ L \o <<a, b>> = Append(Append(L, a), b)
           /\ <<a, b, c>> \in Seq(Event)
           /\ L \o <<a, b, c>> = Append(Append(Append(L, a), b), c)
           /\ <<a, b, c, d>> \in Seq(Event)
           /\ L \o <<a, b, c, d>> = Append(Append(Append(Append(L, a), b), c), d)
BY SMTT(30)

LEMMA Later ==
    ASSUME NEW L \in Seq(Event), NEW A \in Seq(Event), NEW B \in Seq(Event)
    PROVE  A \o B \in Seq(Event) /\ L \o (A \o B) = (L \o A) \o B
BY SMTT(30), ConcatProperties, ConcatAssociative

LEMMA SetupIs ==
    ASSUME Typed
    PROVE  /\ env.setup \in Setups /\ env.cancels \in Nat /\ Delegates \in BOOLEAN
           /\ MaxTurns \in Nat /\ MaxSteps \in Nat \ {0} /\ MaxCalls \in Nat
           /\ env.setup.turns = MaxTurns /\ env.setup.steps = MaxSteps
           /\ env.setup.calls = MaxCalls
BY SetupsAssumption DEF Typed, EnvType, MaxTurns, MaxSteps, MaxCalls, Delegates

LEMMA CurIs ==
    ASSUME Typed
    PROVE  cur.turn \in Nat /\ cur.step \in Nat /\ cur.att \in Nat
BY DEF Typed, CurType

LEMMA OwnEvents ==
    ASSUME Typed, cur.turn <= MaxTurns, cur.step <= MaxSteps
    PROVE  /\ StepEnd \in Event /\ StepEnd.type = "step/end" /\ OneStep(StepEnd, cur)
           /\ \A n : BoundsOf(StepEnd, env.setup, n)
           /\ \A note \in Notes :
                 LET e == AttemptEnd(note)
                 IN  /\ e \in Event /\ e.type = "execution/attempt/end" /\ e.note = note
                     /\ OneAttempt(e, cur) /\ \A n : BoundsOf(e, env.setup, n)
           /\ \A note \in Notes :
                 LET e == TurnEnd(note)
                 IN  /\ e \in Event /\ e.type = "turn/end" /\ e.note = note
                     /\ e.turn = cur.turn /\ \A n : BoundsOf(e, env.setup, n)
<1>1. MaxTurns \in Nat /\ MaxSteps \in Nat /\ MaxCalls \in Nat
      /\ env.setup.turns = MaxTurns /\ env.setup.steps = MaxSteps
      /\ env.setup.calls = MaxCalls /\ 0 <= MaxSteps /\ 0 <= MaxCalls
  BY SetupIs
<1>2. cur.turn \in Nat /\ cur.step \in Nat /\ cur.att \in Nat
  BY CurIs
<1>3. ASSUME NEW e, e.turn <= MaxTurns, e.step <= MaxSteps, e.call = 0, e.src = {}
      PROVE  \A n : BoundsOf(e, env.setup, n)
  BY <1>1, <1>3 DEF BoundsOf
<1>4. "" \in Notes /\ "step/end" \in EventTypes /\ "turn/end" \in EventTypes
      /\ "execution/attempt/end" \in EventTypes
  BY DEF Notes, EventTypes
<1>5. /\ StepEnd \in Event /\ StepEnd.type = "step/end" /\ OneStep(StepEnd, cur)
      /\ StepEnd.call = 0 /\ StepEnd.src = {}
  BY <1>2, <1>4 DEF StepEnd, StepEvent, Blank, Event, OneStep
<1>6. ASSUME NEW note \in Notes
      PROVE  LET e == AttemptEnd(note)
             IN  /\ e \in Event /\ e.type = "execution/attempt/end" /\ e.note = note
                 /\ OneAttempt(e, cur) /\ OneStep(e, cur) /\ e.call = 0 /\ e.src = {}
  BY <1>2, <1>4 DEF AttemptEnd, AttemptEvent, Blank, Event, OneStep, OneAttempt
<1>7. ASSUME NEW note \in Notes
      PROVE  LET e == TurnEnd(note)
             IN  /\ e \in Event /\ e.type = "turn/end" /\ e.note = note
                 /\ e.turn = cur.turn /\ e.step = 0 /\ e.call = 0 /\ e.src = {}
  BY <1>2, <1>4 DEF TurnEnd, TurnEvent, Blank, Event
<1>8. \A n : BoundsOf(StepEnd, env.setup, n)
  BY <1>3, <1>5 DEF OneStep
<1>9. ASSUME NEW note \in Notes PROVE \A n : BoundsOf(AttemptEnd(note), env.setup, n)
  <2> DEFINE e == AttemptEnd(note)
  <2>1. e.turn = cur.turn /\ e.step = cur.step /\ e.call = 0 /\ e.src = {}
    BY <1>6 DEF OneStep
  <2> HIDE DEF e
  <2>2. \A n : BoundsOf(e, env.setup, n)
    BY <1>3, <2>1
  <2> QED BY <2>2 DEF e
<1>10. ASSUME NEW note \in Notes PROVE \A n : BoundsOf(TurnEnd(note), env.setup, n)
  <2> DEFINE e == TurnEnd(note)
  <2>1. e.turn = cur.turn /\ e.step = 0 /\ e.call = 0 /\ e.src = {}
    BY <1>7
  <2> HIDE DEF e
  <2>2. \A n : BoundsOf(e, env.setup, n)
    BY <1>1, <1>3, <2>1
  <2> QED BY <2>2 DEF e
<1> QED BY <1>5, <1>6, <1>7, <1>8, <1>9, <1>10

\* The step and the turn are ended.
LEMMA TurnCloses ==
    ASSUME Typed, cur.turn <= MaxTurns, cur.step <= MaxSteps,
           NEW N, NEW reason \in Notes, NEW M, M = Append(Append(N, StepEnd), TurnEnd(reason)),
           Sound(N, env.setup, env.cancels), InStep(N, cur, env.cancels),
           EarlierDone(N, cur, env.setup),
           reason = "completed" =>
               Succeeded(N, Len(N), cur) /\ StepResolved(N, Len(N), cur, env.setup)
    PROVE  Sound(M, env.setup, env.cancels) /\ AtRest(M, cur.turn, env.cancels)
<1> DEFINE K == Append(N, StepEnd)
           e == TurnEnd(reason)
<1>1. env.cancels \in Nat /\ cur \in CurType /\ cur.turn \in Nat
  BY SetupIs, CurIs DEF Typed
<1>2. /\ StepEnd \in Event /\ StepEnd.type = "step/end" /\ OneStep(StepEnd, cur)
      /\ BoundsOf(StepEnd, env.setup, Len(N))
  BY OwnEvents
<1>3. /\ e \in Event /\ e.type = "turn/end" /\ e.note = reason /\ e.turn = cur.turn
      /\ BoundsOf(e, env.setup, Len(K))
  BY OwnEvents
<1>4. M = Append(K, e)
  OBVIOUS
<1>0. K = Append(N, StepEnd)
  OBVIOUS
<1> HIDE DEF K, e
<1>5. /\ Sound(K, env.setup, env.cancels) /\ InTurn(K, cur.turn, cur.step, env.cancels)
      /\ Succeeded(N, Len(N), cur) /\ StepResolved(N, Len(N), cur, env.setup) =>
             TurnDone(K, cur.turn, env.setup)
  BY <1>0, <1>1, <1>2, StepEnds
<1>6. e.note = "completed" => TurnDone(K, cur.turn, env.setup)
  BY <1>3, <1>5
<1> QED BY <1>1, <1>3, <1>4, <1>5, <1>6, TurnEnds

-----------------------------------------------------------------------------
(* The invariant holds at first, and every step keeps it.                  *)

LEMMA FreshEngine ==
    ASSUME env \in EnvType
    PROVE  [NoEngine EXCEPT !.on = Compacts] \in EngineType
<1>1. Compacts \in BOOLEAN
  BY SetupsAssumption DEF EnvType, Compacts
<1> QED BY <1>1 DEF NoEngine, EngineType

LEMMA InitKeeps ==
    ASSUME Init
    PROVE  SessionInv
<1>1. Typed
  <2>1. env \in EnvType
    BY DEF Init, EnvType
  <2>2. engine \in EngineType
    BY <2>1, FreshEngine DEF Init
  <2>3. cur \in CurType
    BY DEF Init, CurType, NoCur
  <2>4. torn \in BOOLEAN /\ concl \in BOOLEAN
    BY DEF Init
  <2>5. log \in Seq(Event) /\ todo \in Seq(Event) /\ turns \in Nat /\ calls \in Nat
        /\ next \in Nat /\ contexts \in Nat /\ pc = "idle"
    BY DEF Init
  <2> QED BY <2>1, <2>2, <2>3, <2>4, <2>5 DEF Typed
<1>2. Plan = <<>> /\ Plan \in Seq(Event) /\ Len(Plan) = 0
  BY DEF Init, Plan
<1>3. Control
  <2>1. MaxTurns \in Nat /\ MaxCalls \in Nat
    BY <1>1, SetupIs
  <2> QED BY <2>1 DEF Init, Control, Busy
<1>4. Sound(Plan, env.setup, env.cancels)
  BY <1>2 DEF Sound
<1>5. AtRest(Plan, 0, env.cancels)
  <2>1. TurnStarts(Plan, 0) = {}
    BY DEF TurnStarts
  <2>2. TurnCount(Plan, 0) = 0
    BY <2>1, FS_EmptySet DEF TurnCount
  <2> QED BY <1>2, <2>2 DEF AtRest, StepsEnded, TurnsEnded
<1> QED BY <1>1, <1>3, <1>4, <1>5 DEF SessionInv, Follows, Init, Busy

\* At the end of a stretch the plan is the log.
LEMMA PlanIsLog ==
    ASSUME Typed, todo = <<>>
    PROVE  Plan = log /\ log \in Seq(Event)
BY DEF Plan, Typed

LEMMA WriteKeeps ==
    ASSUME SessionInv, Write
    PROVE  SessionInv'
<1> USE DEF SessionInv
<1>1. todo # <<>> /\ log' = Append(log, Head(todo)) /\ todo' = Tail(todo)
  BY DEF Write
<1>2. log \in Seq(Event) /\ todo \in Seq(Event)
  BY DEF Typed
<1>3. log' \in Seq(Event) /\ todo' \in Seq(Event)
  BY <1>1, <1>2
<1>4. Plan' = Plan
  BY <1>1, <1>2 DEF Plan
<1>5. Typed'
  BY <1>3 DEF Typed, Write
<1>6. Control'
  BY <1>1, <1>2 DEF Control, Write, Busy, MaxTurns, MaxSteps, MaxCalls
<1>7. Follows(Plan)'
  BY <1>4 DEF Follows, Write, MaxTurns, MaxSteps
<1>8. Sound(Plan, env.setup, env.cancels)'
  BY <1>4 DEF Write
<1> QED BY <1>5, <1>6, <1>7, <1>8

LEMMA CrashKeeps ==
    ASSUME SessionInv, Crash
    PROVE  SessionInv'
<1> USE DEF SessionInv
<1>1. log' = log /\ todo' = <<>> /\ pc' = "dead" /\ env' = [env EXCEPT !.crashes = @ + 1]
  BY DEF Crash
<1>2. log \in Seq(Event) /\ todo \in Seq(Event)
  BY DEF Typed
<1>3. env' \in EnvType /\ env'.setup = env.setup /\ env'.cancels = env.cancels
  BY <1>1 DEF Typed, EnvType
<1>4. Typed'
  <2>1. engine' \in EngineType
    BY FreshEngine DEF Crash, Typed
  <2>2. torn' \in BOOLEAN
    BY DEF Crash, Typed
  <2>3. cur' \in CurType /\ concl' \in BOOLEAN
    BY DEF Crash, NoCur, CurType, ForgetAttempt
  <2>4. log' \in Seq(Event) /\ todo' \in Seq(Event)
    BY <1>1, <1>2
  <2>5. turns' \in Nat /\ calls' \in Nat /\ next' \in Nat /\ contexts' \in Nat
    BY DEF Crash, ForgetAttempt
  <2> QED BY <1>1, <1>3, <2>1, <2>2, <2>3, <2>4, <2>5 DEF Typed
<1>5. Control'
  <2>1. MaxTurns' = MaxTurns /\ 0 <= MaxTurns
    BY <1>3, SetupIs DEF MaxTurns
  <2> QED BY <1>1, <1>3, <2>1, SetupIs DEF Control, Crash, ForgetAttempt, Busy, MaxCalls
<1>6. Plan' = log
  BY <1>1, <1>2 DEF Plan
<1>7. Sound(log, env.setup, env.cancels)
  <2>1. Len(log) <= Len(Plan) /\ \A i \in 1 .. Len(log) : Plan[i] = log[i]
    BY <1>2, ConcatProperties DEF Plan
  <2> QED BY <1>2, <2>1, SetupIs, SoundPrefix
<1>8. Follows(Plan)'
  BY <1>1 DEF Follows, Busy
<1> QED BY <1>3, <1>4, <1>5, <1>6, <1>7, <1>8

LEMMA CancelKeeps ==
    ASSUME SessionInv, Cancel
    PROVE  SessionInv'
<1> USE DEF SessionInv
<1>1. /\ pc \in {"stream", "tool"} /\ todo = <<>> /\ pc' = "idle"
      /\ UNCHANGED <<log, torn, todo, turns, cur, engine>>
  BY DEF Cancel
<1>2. env.cancels \in Nat
  BY SetupIs
<1>3. env' \in EnvType /\ env'.setup = env.setup /\ env'.cancels = env.cancels + 1
  BY DEF Cancel, Typed, EnvType
<1>4. Typed'
  BY <1>1, <1>3 DEF Typed, Cancel, ForgetAttempt
<1>5. Control'
  BY <1>1, <1>3, SetupIs DEF Control, Cancel, ForgetAttempt, Busy, MaxCalls, MaxTurns
<1>6. Plan' = Plan
  BY <1>1 DEF Plan
<1>7. Sound(Plan, env.setup, env.cancels + 1)
  <2>1. env.cancels + 1 # 0
    BY <1>2
  <2> QED BY <2>1 DEF Sound
<1>8. AtRest(Plan, turns, env.cancels + 1)
  <2>1. cur.turn = turns /\ InStep(Plan, cur, env.cancels)
    BY <1>1 DEF Follows, Busy
  <2>2. env.cancels + 1 # 0
    BY <1>2
  <2> QED BY <2>1, <2>2 DEF InStep, AtRest
<1>9. Follows(Plan)'
  BY <1>1, <1>3, <1>6, <1>8 DEF Follows, Busy
<1> QED BY <1>3, <1>4, <1>5, <1>6, <1>7, <1>9

LEMMA ReopenKeeps ==
    ASSUME SessionInv, Reopen
    PROVE  SessionInv'
<1> USE DEF SessionInv
<1>1. /\ pc = "dead" /\ pc' = "opened"
      /\ UNCHANGED <<log, torn, todo, turns, cur, calls, next, concl, contexts, engine, env>>
  BY DEF Reopen
<1>2. Plan' = Plan
  BY <1>1 DEF Plan
<1>3. Typed'
  BY <1>1 DEF Typed
<1>4. Control'
  BY <1>1 DEF Control, Busy, MaxCalls, MaxTurns, MaxSteps
<1>5. Follows(Plan)'
  BY <1>1 DEF Follows, Busy
<1> QED BY <1>1, <1>2, <1>3, <1>4, <1>5

LEMMA EngineBackKeeps ==
    ASSUME SessionInv, EngineBack
    PROVE  SessionInv'
<1> USE DEF SessionInv
<1>1. UNCHANGED <<log, torn, todo, pc, turns, cur, calls, next, concl, contexts, env>>
  BY DEF EngineBack
<1>2. Plan' = Plan
  BY <1>1 DEF Plan
<1>3. Compacts \in BOOLEAN
  BY SetupIs, SetupsAssumption DEF Compacts
<1>4. Typed'
  BY <1>1, <1>3 DEF Typed, EngineBack, EngineType
<1>5. Control'
  BY <1>1 DEF Control, Busy, MaxCalls, MaxTurns, MaxSteps
<1>6. Follows(Plan)'
  BY <1>1, <1>2 DEF Follows, MaxSteps, MaxTurns
<1> QED BY <1>1, <1>2, <1>4, <1>5, <1>6

LEMMA StutterKeeps ==
    ASSUME SessionInv, UNCHANGED vars
    PROVE  SessionInv'
<1> USE DEF SessionInv
<1>1. Plan' = Plan
  BY DEF Plan, vars
<1>2. Typed'
  BY DEF Typed, vars
<1>3. Control'
  BY DEF Control, Busy, MaxCalls, MaxTurns, MaxSteps, vars
<1>4. Follows(Plan)'
  BY <1>1 DEF Follows, MaxSteps, MaxTurns, vars
<1> QED BY <1>1, <1>2, <1>3, <1>4 DEF vars

\* A quiet event changes no status.
LEMMA QuietKeeps ==
    ASSUME NEW L, NEW x, NEW M, Grown(L, x, M), x.type \in Quiet, NEW c, NEW b, NEW cancels
    PROVE  /\ InStep(L, c, cancels) => InStep(M, c, cancels)
           /\ EarlierDone(L, c, b) => EarlierDone(M, c, b)
           /\ Fresh(L, c) => Fresh(M, c)
           /\ \A m : Streaming(L, c, m, b) => Streaming(M, c, m, b)
           /\ \A t : AtRest(L, t, cancels) => AtRest(M, t, cancels)
           /\ \A t : TurnDone(L, t, b) => TurnDone(M, t, b)
<1>1. /\ x.type \notin StepTypes /\ x.type \notin Starts
      /\ x.type \notin {"turn/start", "step/start", "agent/request", "turn/end",
                        "execution/attempt/start", "execution/attempt/end", "tool/call"}
  BY DEF Quiet, StepTypes, Starts
<1>2. InStep(L, c, cancels) => InStep(M, c, cancels)
  BY <1>1, InStepKeeps
<1>3. EarlierDone(L, c, b) => EarlierDone(M, c, b)
  BY <1>1, EarlierDoneKeeps
<1>4. Fresh(L, c) => Fresh(M, c)
  BY <1>1, FreshKeeps
<1>5. \A m : Streaming(L, c, m, b) => Streaming(M, c, m, b)
  BY <1>1, StreamingKeeps
<1>6. \A t : AtRest(L, t, cancels) => AtRest(M, t, cancels)
  BY <1>1, AtRestKeeps
<1>7. \A t : TurnDone(L, t, b) => TurnDone(M, t, b)
  BY <1>1, TurnDoneKeeps
<1> QED BY <1>2, <1>3, <1>4, <1>5, <1>6, <1>7

\* A pruned result stands for a result that is there already.
LEMMA ResultReplaced ==
    ASSUME NEW L, NEW e \in Event, NEW M, NEW b, NEW cancels \in Nat,
           M = Append(L, e), Sound(L, b, cancels),
           NEW s \in 1 .. Len(L), L[s].type = "tool/result", OneCall(L[s], e),
           e.type = "tool/result", e.from # 0, e.src = {s}
    PROVE  Sound(M, b, cancels) /\ Grown(L, e, M)
<1>1. Grown(L, e, M) /\ M \in Seq(Event)
  BY AppendGrows DEF Sound
<1>2. /\ Len(L) \in Nat /\ Len(M) = Len(L) + 1 /\ M[Len(L) + 1] = e
      /\ \A k \in 1 .. Len(L) : M[k] = L[k]
  BY <1>1 DEF Grown
<1>3. e.turn = L[s].turn /\ e.step = L[s].step /\ e.call = L[s].call
  BY DEF OneCall, OneStep
<1>4. BoundsOf(e, b, Len(L))
  <2>1. Bounded(L, s, b)
    BY DEF Sound, Legal
  <2> QED BY <1>3, <2>1 DEF Bounded, BoundsOf
<1>5. e.turn <= TurnCount(L, Len(L))
  <2>1. L[s].type \in StepTypes \cup {"turn/end"}
    BY DEF StepTypes
  <2> QED BY <1>3, <2>1, TurnsBelow
<1>6. CallsOnce(M, Len(L) + 1)
  <2>1. PICK i \in 1 .. s - 1 : L[i].type = "tool/call" /\ OneCall(L[i], L[s])
    BY ResultHasCall
  <2>2. i \in 1 .. Len(L) /\ i \in 1 .. (Len(L) + 1) - 1 /\ M[i] = L[i]
    BY <1>2, <2>1
  <2>3. OneCall(M[i], e)
    BY <2>1, <2>2, <1>3 DEF OneCall, OneStep
  <2> QED BY <1>2, <2>1, <2>2, <2>3 DEF CallsOnce
<1>7. Legal(M, Len(L) + 1, b)
  BY <1>1, <1>4, <1>5, <1>6, LegalNew
<1>8. Nested(M, Len(L) + 1)
  BY <1>1, NestedNew DEF Starts
<1> QED BY <1>1, <1>7, <1>8, SoundGrows

LEMMA PruneKeeps ==
    ASSUME SessionInv, Prune
    PROVE  SessionInv'
<1> USE DEF SessionInv
<1>0. PICK s \in Of("tool/result") :
          todo' = <<[Blank EXCEPT !.type = "compaction/prune", !.src = {s}],
                    [log[s] EXCEPT !.from = s, !.to = s, !.src = {s}]>>
  BY DEF Prune
<1>1. PICK e, f : /\ e = [Blank EXCEPT !.type = "compaction/prune", !.src = {s}]
                  /\ f = [log[s] EXCEPT !.from = s, !.to = s, !.src = {s}]
  OBVIOUS
<1>2. /\ pc = "idle" /\ todo = <<>> /\ todo' = <<e, f>>
      /\ UNCHANGED <<log, torn, pc, turns, cur, calls, next, concl, contexts, engine>>
  BY <1>0, <1>1 DEF Prune, At
<1>3. log \in Seq(Event) /\ Plan = log /\ Len(log) \in Nat
  BY <1>2, PlanIsLog
<1>4. s \in 1 .. Len(log) /\ log[s].type = "tool/result" /\ log[s] \in Event
  BY <1>3 DEF Of
<1>5. e \in Event /\ e.type = "compaction/prune" /\ e.turn = 0 /\ e.step = 0 /\ e.call = 0
      /\ e.src = {s}
  <2>1. "" \in Notes /\ "compaction/prune" \in EventTypes
    BY DEF Notes, EventTypes
  <2>2. {s} \in SUBSET Nat
    BY <1>4
  <2>3. e = [[Blank EXCEPT !.type = "compaction/prune"] EXCEPT !.src = {s}]
    BY <1>1
  <2> QED BY <2>1, <2>2, <2>3 DEF Blank, Event
<1>6. f \in Event /\ f.type = "tool/result" /\ f.from = s /\ f.src = {s}
      /\ f.turn = log[s].turn /\ f.step = log[s].step /\ f.call = log[s].call
  <2>1. {s} \in SUBSET Nat /\ s \in Nat
    BY <1>4
  <2>2. f = [log[s] EXCEPT !.from = s, !.to = s, !.src = {s}]
    BY <1>1
  <2> QED BY <1>4, <2>1, <2>2 DEF Event
<1>7. PICK N, M : N = Append(log, e) /\ M = Append(N, f)
  OBVIOUS
<1>8. Plan' = M /\ <<e, f>> \in Seq(Event)
  BY <1>2, <1>3, <1>5, <1>6, <1>7, Stretches DEF Plan
<1>9. env' \in EnvType /\ env'.setup = env.setup /\ env'.cancels = env.cancels
      /\ env.cancels \in Nat
  <2>1. env \in EnvType /\ env' = [env EXCEPT !.prunes = @ + 1]
    BY DEF Prune, Typed
  <2> QED BY <2>1 DEF EnvType
<1>10. Sound(N, env.setup, env.cancels) /\ Grown(log, e, N)
  <2>1. BoundsOf(e, env.setup, Len(log))
    BY <1>4, <1>5, SetupIs DEF BoundsOf
  <2> QED BY <1>3, <1>5, <1>7, <1>9, <2>1, QuietAdded DEF Quiet
<1>11. s \in 1 .. Len(N) /\ N[s] = log[s]
  BY <1>4, <1>10 DEF Grown
<1>12. Sound(M, env.setup, env.cancels) /\ Grown(N, f, M)
  <2>1. OneCall(N[s], f) /\ N[s].type = "tool/result" /\ f.from # 0
    BY <1>4, <1>6, <1>11 DEF OneCall, OneStep
  <2> QED BY <1>6, <1>7, <1>9, <1>10, <1>11, <2>1, ResultReplaced
<1>13. AtRest(M, turns, env.cancels)
  <2>1. AtRest(log, turns, env.cancels)
    BY <1>2, <1>3 DEF Follows
  <2>2. e.type \notin Starts /\ f.type \notin Starts
    BY <1>5, <1>6 DEF Starts
  <2>3. AtRest(N, turns, env.cancels)
    BY <1>10, <2>1, <2>2, AtRestKeeps
  <2> QED BY <1>12, <2>2, <2>3, AtRestKeeps
<1>14. Typed'
  BY <1>2, <1>3, <1>8, <1>9 DEF Typed
<1>15. Control'
  BY <1>2, <1>9 DEF Control, Busy, MaxCalls, MaxTurns, MaxSteps
<1>16. Follows(Plan)'
  BY <1>2, <1>8, <1>9, <1>13 DEF Follows, Busy
<1> QED BY <1>8, <1>9, <1>12, <1>14, <1>15, <1>16

\* run_turn begins turn t + 1 with its first step.
LEMMA TurnBegins ==
    ASSUME Typed, NEW L, Sound(L, env.setup, env.cancels), NEW t \in Nat, t < MaxTurns,
           AtRest(L, t, env.cancels), Begin(t + 1), todo = <<>>, L = log
    PROVE  /\ todo' \in Seq(Event) /\ cur' \in CurType /\ turns' \in Nat
           /\ cur'.turn = t + 1 /\ cur'.step = 1
           /\ Sound(Plan', env.setup, env.cancels)
           /\ InStep(Plan', cur', env.cancels) /\ Fresh(Plan', cur')
           /\ EarlierDone(Plan', cur', env.setup)
<1> DEFINE u == t + 1
<1>1. u \in Nat /\ u = t + 1 /\ 0 <= MaxSteps /\ 1 <= MaxSteps /\ u <= MaxTurns
      /\ 0 <= MaxCalls
  BY SetupIs
<1> HIDE DEF u
<1>2. PICK e1, e2, e3, e4 : /\ e1 = TurnEvent("user/message", u, "")
                            /\ e2 = TurnEvent("turn/start", u, "")
                            /\ e3 = StepEvent("step/start", u, 1)
                            /\ e4 = StepEvent("agent/request", u, 1)
  OBVIOUS
<1>3. /\ todo' = <<e1, e2>> \o <<e3, e4>> /\ log' = log
      /\ cur' = [turn |-> u, step |-> 1, att |-> 0] /\ turns' = u
  BY <1>1, <1>2 DEF Begin, Then, Opening
<1>4. "" \in Notes /\ {"user/message", "turn/start", "step/start", "agent/request"} \subseteq EventTypes
  BY DEF Notes, EventTypes
<1>5. e1 \in Event /\ e1.type = "user/message" /\ e1.turn = u /\ e1.step = 0
      /\ e1.call = 0 /\ e1.src = {}
  BY <1>1, <1>2, <1>4 DEF TurnEvent, Blank, Event
<1>6. e2 \in Event /\ e2.type = "turn/start" /\ e2.turn = u /\ e2.step = 0
      /\ e2.call = 0 /\ e2.src = {}
  BY <1>1, <1>2, <1>4 DEF TurnEvent, Blank, Event
<1>7. e3 \in Event /\ e3.type = "step/start" /\ e3.turn = u /\ e3.step = 1
      /\ e3.call = 0 /\ e3.src = {}
  BY <1>1, <1>2, <1>4 DEF StepEvent, Blank, Event
<1>8. e4 \in Event /\ e4.type = "agent/request" /\ e4.turn = u /\ e4.step = 1
      /\ e4.call = 0 /\ e4.src = {}
  BY <1>1, <1>2, <1>4 DEF StepEvent, Blank, Event
<1>9. PICK M1, M2, M3, M4 : /\ M1 = Append(log, e1) /\ M2 = Append(M1, e2)
                            /\ M3 = Append(M2, e3) /\ M4 = Append(M3, e4)
  OBVIOUS
<1>10. todo' \in Seq(Event) /\ Plan' = M4
  <2>1. log \in Seq(Event)
    BY DEF Typed
  <2>2. <<e1, e2>> \in Seq(Event) /\ <<e3, e4>> \in Seq(Event)
    BY <1>5, <1>6, <1>7, <1>8
  <2>3. log \o <<e1, e2>> = M2 /\ M2 \in Seq(Event)
    BY <1>5, <1>6, <1>9, <2>1, Stretches
  <2>4. M2 \o <<e3, e4>> = M4
    BY <1>7, <1>8, <1>9, <2>3, Stretches
  <2>5. <<e1, e2>> \o <<e3, e4>> \in Seq(Event)
        /\ log \o (<<e1, e2>> \o <<e3, e4>>) = (log \o <<e1, e2>>) \o <<e3, e4>>
    BY <2>1, <2>2, Later
  <2> QED BY <1>3, <2>3, <2>4, <2>5 DEF Plan
<1>11. ASSUME NEW e, e.turn = u, e.step \in {0, 1}, e.call = 0, e.src = {}
       PROVE  \A n : BoundsOf(e, env.setup, n)
  BY <1>1, <1>11, SetupIs DEF BoundsOf
<1>12. env.cancels \in Nat
  BY SetupIs
<1>13. Sound(M1, env.setup, env.cancels) /\ AtRest(M1, t, env.cancels)
  <2>1. BoundsOf(e1, env.setup, Len(log))
    BY <1>5, <1>11
  <2>2. Sound(M1, env.setup, env.cancels) /\ Grown(log, e1, M1)
    BY <1>5, <1>9, <1>12, <2>1, QuietAdded DEF Quiet
  <2>3. e1.type \notin Starts
    BY <1>5 DEF Starts
  <2> QED BY <2>2, <2>3, AtRestKeeps
<1>14. Sound(M2, env.setup, env.cancels) /\ InTurn(M2, u, 0, env.cancels)
       /\ TurnDone(M2, u, env.setup)
  <2>1. BoundsOf(e2, env.setup, Len(M1))
    BY <1>6, <1>11
  <2>2. e2.turn = t + 1
    BY <1>1, <1>6
  <2>3. /\ Sound(M2, env.setup, env.cancels) /\ InTurn(M2, t + 1, 0, env.cancels)
        /\ TurnDone(M2, t + 1, env.setup)
    BY <1>6, <1>9, <1>12, <1>13, <2>1, <2>2, TurnOpens
  <2> QED BY <1>1, <2>3
<1>15. cur' \in CurType /\ cur'.turn = u /\ cur'.step = 1
  BY <1>1, <1>3 DEF CurType
<1>16. /\ Sound(M4, env.setup, env.cancels) /\ InStep(M4, cur', env.cancels)
       /\ Fresh(M4, cur') /\ EarlierDone(M4, cur', env.setup)
  <2>1. BoundsOf(e3, env.setup, Len(M2)) /\ BoundsOf(e4, env.setup, Len(M2))
    BY <1>7, <1>8, <1>11
  <2>2. PICK c : c = cur'
    OBVIOUS
  <2>3. c.turn = u /\ c.step = 0 + 1 /\ 0 \in Nat
    BY <1>15, <2>2
  <2>4. M4 = Append(Append(M2, e3), e4)
    BY <1>9
  <2>5. e3.step = 0 + 1 /\ e4.step = 0 + 1
    BY <1>7, <1>8
  <2>6. /\ Sound(M4, env.setup, env.cancels) /\ InStep(M4, c, env.cancels)
        /\ Fresh(M4, c) /\ EarlierDone(M4, c, env.setup)
    BY <1>1, <1>7, <1>8, <1>12, <1>14, <2>1, <2>3, <2>4, <2>5, StepOpens
  <2> QED BY <2>2, <2>6
<1> QED BY <1>1, <1>3, <1>10, <1>15, <1>16

\* A turn that has begun is waiting for its first request.
LEMMA BeginKeeps ==
    ASSUME SessionInv, NEW t \in Nat, t < MaxTurns, todo = <<>>,
           ~torn, AtRest(log, t, env.cancels), Begin(t + 1), engine' \in EngineType
    PROVE  SessionInv'
<1> USE DEF SessionInv
<1>1. Plan = log
  BY PlanIsLog
<1>2. /\ todo' \in Seq(Event) /\ cur' \in CurType /\ turns' \in Nat
      /\ cur'.turn = t + 1 /\ cur'.step = 1
      /\ Sound(Plan', env.setup, env.cancels)
      /\ InStep(Plan', cur', env.cancels) /\ Fresh(Plan', cur')
      /\ EarlierDone(Plan', cur', env.setup)
  BY <1>1, TurnBegins
<1>3. /\ pc' = "requested" /\ turns' = t + 1 /\ UNCHANGED <<log, torn, env>>
      /\ calls' = 0 /\ next' = 1 /\ concl' = FALSE /\ contexts' = 0
  BY DEF Begin, Then, ForgetAttempt
<1>4. Typed'
  BY <1>2, <1>3 DEF Typed
<1>6. Control'
  BY <1>3, SetupIs DEF Control, Busy, MaxCalls, MaxTurns
<1>7. Follows(Plan)'
  BY <1>2, <1>3, SetupIs DEF Follows, Busy, MaxSteps
<1> QED BY <1>2, <1>3, <1>4, <1>6, <1>7

LEMMA RunTurnKeeps ==
    ASSUME SessionInv, RunTurn
    PROVE  SessionInv'
<1> USE DEF SessionInv
<1>1. pc = "idle" /\ todo = <<>> /\ turns < MaxTurns /\ Begin(turns + 1) /\ engine' = engine
  BY DEF RunTurn, At
<1>2. AtRest(log, turns, env.cancels)
  BY <1>1, PlanIsLog DEF Follows
<1>3. turns \in Nat /\ engine' \in EngineType /\ ~torn
  BY <1>1 DEF Typed, Control
<1> QED BY <1>1, <1>2, <1>3, BeginKeeps

LEMMA MaxIs ==
    ASSUME NEW S \in SUBSET Nat, NEW j \in S, \A k \in S : k <= j
    PROVE  Max(S) = j
<1>1. j \in S /\ \A k \in S : j >= k
  OBVIOUS
<1>2. \A i \in S : (\A k \in S : i >= k) => i = j
  OBVIOUS
<1> QED BY <1>1, <1>2 DEF Max

\* What rebuild_session holds as current is the latest start of its kind.
LEMMA LatestIsCurrent ==
    ASSUME NEW i \in Nat, NEW types, NEW j, LatestOf(log, i - 1, types, j)
    PROVE  j \in 1 .. i - 1 /\ j \in Before(i, types) /\ j = Max(Before(i, types))
<1>1. j \in 1 .. i - 1 /\ log[j].type \in types /\ \A k \in j + 1 .. i - 1 : log[k].type \notin types
  BY DEF LatestOf
<1>2. Before(i, types) \in SUBSET Nat /\ j \in Before(i, types)
  BY <1>1 DEF Before
<1>3. \A k \in Before(i, types) : k <= j
  BY <1>1 DEF Before
<1> QED BY <1>1, <1>2, <1>3, MaxIs

LEMMA NestedRebuilds ==
    ASSUME log \in Seq(Event), \A n \in 1 .. Len(log) : Nested(log, n)
    PROVE  Rebuilds
<1> SUFFICES ASSUME NEW i \in 1 .. Len(log)
             PROVE  /\ log[i].type = "step/start" => \E j \in 1 .. i - 1 : CurrentTurn(i, j)
                    /\ log[i].type = "tool/call" => \E j \in 1 .. i - 1 : CurrentStep(i, j)
                    /\ log[i].type = "step/end" =>
                           \E j \in 1 .. i - 1 : CurrentStep(i, j) /\ SameStep(i, j)
                    /\ log[i].type = "turn/end" =>
                           \E j \in 1 .. i - 1 : CurrentTurn(i, j) /\ log[i].turn = log[j].turn
  BY DEF Rebuilds
<1>1. Nested(log, i) /\ i \in Nat
  OBVIOUS
<1>2. ASSUME log[i].type \in {"step/start", "turn/end"}
      PROVE  \E j \in 1 .. i - 1 : CurrentTurn(i, j) /\ log[i].turn = log[j].turn
  <2>1. PICK j \in 1 .. i - 1 : LatestOf(log, i - 1, {"turn/start"}, j) /\ log[j].turn = log[i].turn
    BY <1>1, <1>2 DEF Nested, WithinTurn
  <2> QED BY <1>1, <2>1, LatestIsCurrent DEF CurrentTurn
<1>3. ASSUME log[i].type \in {"step/end", "tool/call"}
      PROVE  \E j \in 1 .. i - 1 : CurrentStep(i, j) /\ SameStep(i, j)
  <2>1. PICK j \in 1 .. i - 1 : /\ LatestOf(log, i - 1, Starts, j) /\ log[j].type = "step/start"
                                /\ OneStep(log[j], log[i])
    BY <1>1, <1>3 DEF Nested, Within
  <2>2. Starts = {"turn/start", "step/start"}
    BY DEF Starts
  <2>3. SameStep(i, j)
    BY <2>1 DEF OneStep, SameStep
  <2> QED BY <1>1, <2>1, <2>2, <2>3, LatestIsCurrent DEF CurrentStep
<1> QED BY <1>2, <1>3

LEMMA RebuildKeeps ==
    ASSUME SessionInv, Rebuild
    PROVE  SessionInv'
<1> USE DEF SessionInv
<1>1. pc = "repaired" /\ todo = <<>> /\ engine' = [engine EXCEPT !.on = FALSE]
  BY DEF Rebuild, At
<1>2. Plan = log /\ log \in Seq(Event) /\ Len(log) \in Nat
  BY <1>1, PlanIsLog
<1>3. engine' \in EngineType /\ ~torn
  BY <1>1 DEF Typed, EngineType, Control
<1>4. CASE Rebuilds
  <2> DEFINE t == Cardinality(Of("turn/start"))
  <2>1. Of("turn/start") = TurnStarts(log, Len(log))
    BY <1>2 DEF Of, TurnStarts
  <2>2. t = TurnCount(log, Len(log)) /\ t \in Nat
    BY <1>2, <2>1, TurnStartsFinite DEF TurnCount
  <2>3. Begin(t + 1)
    BY <1>4 DEF Rebuild
  <2> HIDE DEF t
  <2>4. NothingOpen(log) /\ t < MaxTurns
    BY <1>1, <1>2, <2>2 DEF Follows
  <2>5. AtRest(log, t, env.cancels)
    BY <2>2, <2>4 DEF NothingOpen, AtRest
  <2> QED BY <1>1, <1>3, <2>2, <2>3, <2>4, <2>5, BeginKeeps
<1>5. CASE ~Rebuilds
  <2>1. /\ pc' = "failed"
        /\ UNCHANGED <<log, torn, todo, turns, cur, calls, next, concl, contexts, env>>
    BY <1>5 DEF Rebuild
  <2>2. env.cancels # 0
    BY <1>2, <1>5, NestedRebuilds DEF Sound
  <2>3. Plan' = Plan
    BY <2>1 DEF Plan
  <2>4. Typed'
    BY <1>3, <2>1 DEF Typed
  <2>5. Control'
    BY <1>1, <1>3, <2>1, <2>2 DEF Control, Busy, MaxCalls, MaxTurns, MaxSteps
  <2>6. Follows(Plan)'
    BY <2>1 DEF Follows, Busy
  <2> QED BY <2>1, <2>3, <2>4, <2>5, <2>6
<1> QED BY <1>4, <1>5

-----------------------------------------------------------------------------
(* Sets of numbers.                                                        *)

\* A set of numbers that is not empty has a least element.
LEMMA Least ==
    ASSUME NEW S \in SUBSET Nat, S # {}
    PROVE  \E x \in S : \A y \in S : x <= y
<1>1. PICK x \in S : \A y \in S : ~(<<y, x>> \in OpToRel(<, Nat))
  BY NatLessThanWellFounded, WFMin
<1>2. OpToRel(<, Nat) = {ss \in Nat \X Nat : ss[1] < ss[2]}
  BY DEF OpToRel
<1>3. ASSUME NEW y \in S, y < x PROVE FALSE
  <2>1. <<y, x>> \in {ss \in Nat \X Nat : ss[1] < ss[2]}
    BY <1>3
  <2> QED BY <1>1, <1>2, <2>1
<1>4. \A y \in S : x \in Nat /\ y \in Nat
  OBVIOUS
<1> QED BY <1>3, <1>4

LEMMA MinIs ==
    ASSUME NEW S \in SUBSET Nat, S # {}
    PROVE  Min(S) \in S /\ \A y \in S : Min(S) <= y
<1>1. \E x \in S : \A y \in S : x <= y
  BY Least
<1> QED BY <1>1 DEF Min

\* A set of numbers up to n that is not empty has a greatest element.
LEMMA MaxIsGreatest ==
    ASSUME NEW n \in Nat, NEW S \in SUBSET (1 .. n), S # {}
    PROVE  Max(S) \in S /\ \A y \in S : y <= Max(S)
<1> DEFINE T == {n - x : x \in S}
<1>1. T \in SUBSET Nat /\ T # {}
  <2>1. PICK x : x \in S
    OBVIOUS
  <2>2. n - x \in T
    BY <2>1
  <2>3. \A y \in S : y \in 1 .. n
    OBVIOUS
  <2>4. \A y \in S : n - y \in Nat
    BY <2>3
  <2> QED BY <2>2, <2>4
<1>2. PICK u \in T : \A y \in T : u <= y
  BY <1>1, Least
<1>3. PICK x \in S : u = n - x
  OBVIOUS
<1>4. ASSUME NEW y \in S PROVE x >= y
  <2>1. n - x <= n - y
    BY <1>2, <1>3
  <2>2. x \in Nat /\ y \in Nat
    OBVIOUS
  <2> QED BY <2>1, <2>2
<1>5. \E z \in S : \A y \in S : z >= y
  BY <1>4
<1>6. Max(S) \in S /\ \A y \in S : Max(S) >= y
  BY <1>5 DEF Max
<1>7. \A y \in S : y \in Nat
  OBVIOUS
<1> QED BY <1>6, <1>7

-----------------------------------------------------------------------------
(* Stretches of quiet events.                                              *)

\* Nothing was committed since request q of step c.
Untouched(L, q, c) ==
    RequestIs(L, q, c) /\ \A i \in q + 1 .. Len(L) : L[i].type \notin Committed

SameStatus(L, M, c, b, cancels) ==
    /\ InStep(L, c, cancels) => InStep(M, c, cancels)
    /\ EarlierDone(L, c, b) => EarlierDone(M, c, b)
    /\ Fresh(L, c) => Fresh(M, c)
    /\ \A m : Streaming(L, c, m, b) => Streaming(M, c, m, b)
    /\ \A q : Untouched(L, q, c) => Untouched(M, q, c)
    /\ \A t, s : InTurn(L, t, s, cancels) => InTurn(M, t, s, cancels)
    /\ \A t : TurnDone(L, t, b) => TurnDone(M, t, b)

LEMMA SameStatusGoesOn ==
    ASSUME NEW L, NEW M, NEW N, NEW c, NEW b, NEW cancels,
           SameStatus(L, M, c, b, cancels), SameStatus(M, N, c, b, cancels)
    PROVE  SameStatus(L, N, c, b, cancels)
BY DEF SameStatus

LEMMA UntouchedKeeps ==
    ASSUME NEW L, NEW x, NEW M, Grown(L, x, M), x.type \notin Committed \cup {"agent/request"},
           NEW q, NEW c, Untouched(L, q, c)
    PROVE  Untouched(M, q, c)
<1>1. /\ Len(L) \in Nat /\ Len(M) = Len(L) + 1 /\ M[Len(L) + 1] = x
      /\ \A i \in 1 .. Len(L) : M[i] = L[i]
  BY DEF Grown
<1>2. LatestOf(L, Len(L), {"agent/request"}, q)
  BY DEF Untouched, RequestIs
<1>3. LatestOf(M, Len(M), {"agent/request"}, q)
  BY <1>2, LatestKeeps
<1>4. q \in 1 .. Len(L)
  BY <1>2 DEF LatestOf
<1>5. \A i \in 1 .. q : OfStep(M, i, c) => M[i].type \in Opens
  <2>1. \A i \in 1 .. q : M[i] = L[i] /\ (OfStep(L, i, c) => L[i].type \in Opens)
    BY <1>1, <1>4 DEF Untouched, RequestIs
  <2> QED BY <2>1 DEF OfStep
<1>6. \A i \in q + 1 .. Len(M) : M[i].type \notin Committed
  <2> SUFFICES ASSUME NEW i \in q + 1 .. Len(M) PROVE M[i].type \notin Committed
    OBVIOUS
  <2>1. CASE i = Len(L) + 1
    BY <1>1, <2>1
  <2>2. CASE i # Len(L) + 1
    <3>1. i \in q + 1 .. Len(L) /\ i \in 1 .. Len(L)
      BY <1>1, <1>4, <2>2
    <3> QED BY <1>1, <3>1 DEF Untouched
  <2> QED BY <2>1, <2>2
<1> QED BY <1>3, <1>5, <1>6 DEF Untouched, RequestIs

LEMMA QuietKeepsStatus ==
    ASSUME NEW L, NEW x, NEW M, Grown(L, x, M), x.type \in Quiet, NEW c, NEW b, NEW cancels
    PROVE  SameStatus(L, M, c, b, cancels)
<1>1. x.type \notin Committed \cup {"agent/request"}
  BY DEF Quiet, Committed
<1>2. \A q : Untouched(L, q, c) => Untouched(M, q, c)
  BY <1>1, UntouchedKeeps
<1>3. \A t, s : InTurn(L, t, s, cancels) => InTurn(M, t, s, cancels)
  BY InTurnKeeps
<1> QED BY <1>2, <1>3, QuietKeeps DEF SameStatus

\* Induction, for a property given as the set of numbers that have it.
LEMMA Induction ==
    ASSUME NEW S, 0 \in S, \A n \in Nat : n \in S => n + 1 \in S
    PROVE  \A n \in Nat : n \in S
<1> DEFINE T == {n \in Nat : n \notin S}
<1> SUFFICES ASSUME T # {} PROVE FALSE
  OBVIOUS
<1>1. PICK m \in T : \A y \in T : m <= y
  BY Least
<1>2. m \in Nat /\ m \notin S /\ m # 0
  OBVIOUS
<1>3. m - 1 \in Nat /\ ~(m <= m - 1) /\ (m - 1) + 1 = m
  BY <1>2
<1>4. m - 1 \in S
  BY <1>1, <1>3
<1> QED BY <1>2, <1>3, <1>4

LEMMA QuietStretch ==
    ASSUME NEW L, NEW b, NEW cancels \in Nat, Sound(L, b, cancels), NEW A \in Seq(Event),
           \A i \in 1 .. Len(A) :
               A[i].type \in Quiet /\ BoundsOf(A[i], b, Len(L) + (i - 1)),
           NEW c
    PROVE  Sound(L \o A, b, cancels) /\ SameStatus(L, L \o A, c, b, cancels)
<1> DEFINE Q(k) == L \o SubSeq(A, 1, k)
           S == {k \in Nat : k <= Len(A) =>
                    /\ Sound(Q(k), b, cancels) /\ Len(Q(k)) = Len(L) + k
                    /\ SameStatus(L, Q(k), c, b, cancels)}
<1>1. L \in Seq(Event) /\ Len(L) \in Nat /\ Len(A) \in Nat
  BY DEF Sound
<1>2. 0 \in S
  <2>1. SubSeq(A, 1, 0) = <<>>
    BY <1>1
  <2>2. Q(0) = L
    BY <1>1, <2>1
  <2>3. SameStatus(L, L, c, b, cancels)
    BY DEF SameStatus
  <2> HIDE DEF Q
  <2> QED BY <1>1, <2>2, <2>3
<1>3. ASSUME NEW k \in Nat, k \in S PROVE k + 1 \in S
  <2> SUFFICES ASSUME k + 1 <= Len(A)
               PROVE  /\ Sound(Q(k + 1), b, cancels) /\ Len(Q(k + 1)) = Len(L) + (k + 1)
                      /\ SameStatus(L, Q(k + 1), c, b, cancels)
    OBVIOUS
  <2> DEFINE e == A[k + 1]
  <2>1. k \in 0 .. Len(A) /\ k + 1 \in 1 .. Len(A) /\ (k + 1) - 1 = k
    BY <1>1
  <2>2. e \in Event /\ e.type \in Quiet /\ BoundsOf(e, b, Len(L) + k)
    BY <2>1
  <2>3. SubSeq(A, 1, k) \in Seq(Event) /\ SubSeq(A, 1, k + 1) = Append(SubSeq(A, 1, k), e)
    <3>1. SubSeq(A, 1, k) \in Seq(Event) /\ SubSeq(A, 1, k + 1) \in Seq(Event)
          /\ Len(SubSeq(A, 1, k)) = k /\ Len(SubSeq(A, 1, k + 1)) = k + 1
      BY <2>1
    <3>2. /\ \A i \in 1 .. k : SubSeq(A, 1, k)[i] = A[i]
          /\ \A i \in 1 .. k + 1 : SubSeq(A, 1, k + 1)[i] = A[i]
      BY <2>1
    <3> QED BY <2>2, <3>1, <3>2
  <2>4. Q(k + 1) = Append(Q(k), e)
    BY SMTT(30), <1>1, <2>2, <2>3
  <2>5. Sound(Q(k), b, cancels) /\ Len(Q(k)) = Len(L) + k /\ SameStatus(L, Q(k), c, b, cancels)
    BY <1>3, <2>1
  <2> HIDE DEF Q, S, e
  <2>6. Sound(Q(k + 1), b, cancels) /\ Grown(Q(k), e, Q(k + 1))
    BY <2>2, <2>4, <2>5, QuietAdded
  <2>7. SameStatus(Q(k), Q(k + 1), c, b, cancels)
    BY <2>2, <2>6, QuietKeepsStatus
  <2>8. SameStatus(L, Q(k + 1), c, b, cancels)
    BY <2>5, <2>7, SameStatusGoesOn
  <2>9. Len(Q(k + 1)) = Len(L) + (k + 1)
    <3>1. Len(Q(k + 1)) = Len(Q(k)) + 1
      BY <2>6 DEF Grown
    <3> QED BY <1>1, <2>5, <3>1
  <2> QED BY <2>6, <2>8, <2>9
<1>4. Len(A) \in S
  <2> HIDE DEF S
  <2> QED BY <1>1, <1>2, <1>3, Induction
<1>5. SubSeq(A, 1, Len(A)) = A
  BY <1>1
<1>6. Q(Len(A)) = L \o A
  BY <1>5
<1>7. Sound(Q(Len(A)), b, cancels) /\ SameStatus(L, Q(Len(A)), c, b, cancels)
  BY <1>1, <1>4
<1> HIDE DEF Q
<1> QED BY <1>6, <1>7

\* A compaction is a quiet stretch.
LEMMA CompactionIs ==
    ASSUME Typed, NEW keep \in Cuts
    PROVE  /\ Compaction(keep) \in Seq(Event)
           /\ \A i \in 1 .. Len(Compaction(keep)) :
                 /\ Compaction(keep)[i].type \in Quiet
                 /\ BoundsOf(Compaction(keep)[i], env.setup, Len(log) + (i - 1))
<1> DEFINE n == Len(log)
<1>1. n \in Nat /\ engine.gen \in Nat
  BY DEF Typed, EngineType
<1> HIDE DEF n
<1>2. PICK sh, st : /\ sh = {i \in Active : i < keep}
                    /\ st = [Blank EXCEPT !.att = engine.gen + 1]
  OBVIOUS
<1>3. sh \in SUBSET (1 .. n) /\ sh # {}
  <2>1. Active \in SUBSET (1 .. n) /\ Active \in SUBSET Nat
    BY <1>1 DEF Active, ActiveUpTo, n
  <2>2. keep \in Active /\ keep # Min(Active)
    BY DEF Cuts, UnitHeads
  <2>3. Min(Active) \in Active /\ Min(Active) <= keep
    BY <2>1, <2>2, MinIs
  <2>4. \A m, k \in Nat : m <= k /\ m # k => m < k
    OBVIOUS
  <2>5. Min(Active) \in Nat /\ keep \in Nat
    BY <2>1, <2>2, <2>3
  <2>6. Min(Active) < keep
    BY <2>2, <2>3, <2>4, <2>5
  <2> QED BY <1>2, <2>1, <2>3, <2>6
<1>4. Min(sh) \in Nat /\ Max(sh) \in Nat
  <2>1. sh \in SUBSET Nat
    BY <1>3
  <2> QED BY <1>1, <1>3, <2>1, MinIs, MaxIsGreatest
<1>5. PICK c1, c2, c3, c4 :
         /\ c1 = [st EXCEPT !.type = "compaction/start"]
         /\ c2 = [st EXCEPT !.type = "compaction/summary", !.src = {n + 1}]
         /\ c3 = [Blank EXCEPT !.type = "user/message", !.note = "summary",
                               !.from = Min(sh), !.to = Max(sh), !.src = sh \cup {n + 1, n + 2}]
         /\ c4 = [st EXCEPT !.type = "compaction/end"]
  OBVIOUS
<1>6. Compaction(keep) = <<c1, c2, c3, c4>>
  BY <1>2, <1>5 DEF Compaction, n
<1>7. /\ {"", "summary"} \subseteq Notes
      /\ {"compaction/start", "compaction/summary", "user/message", "compaction/end"}
             \subseteq EventTypes
  BY DEF Notes, EventTypes
<1>g. engine.gen + 1 \in Nat
  BY <1>1
<1>8. st = [type |-> "", turn |-> 0, step |-> 0, att |-> engine.gen + 1, call |-> 0,
            calls |-> 0, from |-> 0, to |-> 0, src |-> {}, note |-> ""]
  BY <1>2 DEF Blank
<1>9. c1 \in Event /\ c1.type = "compaction/start" /\ c1.turn = 0 /\ c1.step = 0
      /\ c1.call = 0 /\ c1.src = {}
  <2>2. c1 = [type |-> "compaction/start", turn |-> 0, step |-> 0, att |-> engine.gen + 1, call |-> 0,
              calls |-> 0, from |-> 0, to |-> 0, src |-> {}, note |-> ""]
    BY <1>5, <1>8
  <2> QED BY <1>g, <1>7, <2>2 DEF Event
<1>10. c2 \in Event /\ c2.type = "compaction/summary" /\ c2.turn = 0 /\ c2.step = 0
       /\ c2.call = 0 /\ c2.src = {n + 1}
  <2>1. {n + 1} \in SUBSET Nat
    BY <1>1
  <2>2. c2 = [type |-> "compaction/summary", turn |-> 0, step |-> 0, att |-> engine.gen + 1, call |-> 0,
              calls |-> 0, from |-> 0, to |-> 0, src |-> {n + 1}, note |-> ""]
    BY <1>5, <1>8
  <2> QED BY <1>g, <1>7, <2>1, <2>2 DEF Event
<1>11. c3 \in Event /\ c3.type = "user/message" /\ c3.turn = 0 /\ c3.step = 0
       /\ c3.call = 0 /\ c3.src = sh \cup {n + 1, n + 2}
  <2>1. sh \cup {n + 1, n + 2} \in SUBSET Nat
    BY <1>1, <1>3
  <2> QED BY <1>1, <1>4, <1>5, <1>7, <2>1 DEF Blank, Event
<1>12. c4 \in Event /\ c4.type = "compaction/end" /\ c4.turn = 0 /\ c4.step = 0
       /\ c4.call = 0 /\ c4.src = {}
  <2>2. c4 = [type |-> "compaction/end", turn |-> 0, step |-> 0, att |-> engine.gen + 1, call |-> 0,
              calls |-> 0, from |-> 0, to |-> 0, src |-> {}, note |-> ""]
    BY <1>5, <1>8
  <2> QED BY <1>g, <1>7, <2>2 DEF Event
<1>13. Compaction(keep) \in Seq(Event) /\ Len(Compaction(keep)) = 4
  BY <1>6, <1>9, <1>10, <1>11, <1>12
<1>14. 0 <= MaxTurns /\ 0 <= MaxSteps /\ 0 <= MaxCalls
       /\ env.setup.turns = MaxTurns /\ env.setup.steps = MaxSteps /\ env.setup.calls = MaxCalls
  BY SetupIs
<1>15. ASSUME NEW i \in 1 .. 4
       PROVE  /\ Compaction(keep)[i].type \in Quiet
              /\ BoundsOf(Compaction(keep)[i], env.setup, n + (i - 1))
  <2>1. CASE i = 1
    <3>1. Compaction(keep)[i] = c1
      BY <1>6, <2>1
    <3> QED BY <1>9, <1>14, <3>1 DEF Quiet, BoundsOf
  <2>2. CASE i = 2
    <3>1. Compaction(keep)[i] = c2
      BY <1>6, <2>2
    <3>2. {n + 1} \subseteq 1 .. n + (i - 1)
      BY <1>1, <2>2
    <3> QED BY <1>10, <1>14, <3>1, <3>2 DEF Quiet, BoundsOf
  <2>3. CASE i = 3
    <3>1. Compaction(keep)[i] = c3
      BY <1>6, <2>3
    <3>2. sh \cup {n + 1, n + 2} \subseteq 1 .. n + (i - 1)
      BY <1>1, <1>3, <2>3
    <3> QED BY <1>11, <1>14, <3>1, <3>2 DEF Quiet, BoundsOf
  <2>4. CASE i = 4
    <3>1. Compaction(keep)[i] = c4
      BY <1>6, <2>4
    <3> QED BY <1>12, <1>14, <3>1 DEF Quiet, BoundsOf
  <2> QED BY <2>1, <2>2, <2>3, <2>4
<1> QED BY <1>13, <1>15 DEF n

-----------------------------------------------------------------------------
(* The steps of a turn.                                                    *)

\* Where the code stands in a turn.
LEMMA InTheTurn ==
    ASSUME SessionInv, pc \in Busy, todo = <<>>
    PROVE  /\ Plan = log /\ log \in Seq(Event) /\ Len(log) \in Nat
           /\ cur \in CurType /\ cur.turn \in Nat /\ cur.step \in Nat /\ cur.att \in Nat
           /\ cur.turn = turns /\ cur.turn <= MaxTurns
           /\ cur.step \in 1 .. MaxSteps /\ cur.step <= MaxSteps
           /\ InStep(log, cur, env.cancels) /\ EarlierDone(log, cur, env.setup)
           /\ Sound(log, env.setup, env.cancels)
           /\ env.cancels \in Nat
           /\ pc = "requested" => Fresh(log, cur)
           /\ pc = "stream" => Streaming(log, cur, next, env.setup) /\ Running(log, cur)
           /\ pc = "tool" => Calling(log, cur, next, env.setup) /\ Running(log, cur)
<1> USE DEF SessionInv
<1>1. Plan = log /\ log \in Seq(Event) /\ Len(log) \in Nat
  BY PlanIsLog
<1>2. cur \in CurType /\ cur.turn \in Nat /\ cur.step \in Nat /\ cur.att \in Nat
  BY CurIs DEF Typed
<1>3. turns <= MaxTurns
  BY DEF Control
<1>4. /\ cur.turn = turns /\ cur.step \in 1 .. MaxSteps
      /\ InStep(log, cur, env.cancels) /\ EarlierDone(log, cur, env.setup)
      /\ pc = "requested" => Fresh(log, cur)
      /\ pc = "stream" => Streaming(log, cur, next, env.setup)
      /\ pc = "tool" => Calling(log, cur, next, env.setup)
  BY <1>1 DEF Follows
<1>5. cur.step <= MaxSteps
  BY <1>4, SetupIs
<1> QED BY <1>1, <1>2, <1>3, <1>4, <1>5, SetupIs DEF Streaming, Calling

\* The exception that ends a turn leaves the session at rest.
LEMMA UnwindKeeps ==
    ASSUME SessionInv, pc \in Busy, todo = <<>>, NEW A \in Seq(Event), Unwind(A),
           NEW N, N = log \o A, Sound(N, env.setup, env.cancels),
           InStep(N, cur, env.cancels), EarlierDone(N, cur, env.setup), engine' = engine
    PROVE  SessionInv'
<1> USE DEF SessionInv
<1>1. /\ log \in Seq(Event) /\ cur.turn <= MaxTurns /\ cur.step <= MaxSteps
      /\ cur.turn = turns
  BY InTheTurn
<1>2. /\ todo' = A \o <<StepEnd, TurnEnd("error")>> /\ pc' = "idle"
      /\ calls' = 0 /\ next' = 1 /\ concl' = FALSE /\ contexts' = 0
      /\ UNCHANGED <<log, torn, env, turns, cur>>
  BY DEF Unwind, Then, ForgetAttempt
<1>3. "error" \in Notes
  BY DEF Notes
<1>4. StepEnd \in Event /\ TurnEnd("error") \in Event
  BY <1>1, <1>3, OwnEvents
<1>5. PICK M : M = Append(Append(N, StepEnd), TurnEnd("error"))
  OBVIOUS
<1>6. todo' \in Seq(Event) /\ Plan' = M
  <2>1. <<StepEnd, TurnEnd("error")>> \in Seq(Event)
    BY <1>4
  <2>2. /\ A \o <<StepEnd, TurnEnd("error")>> \in Seq(Event)
        /\ log \o (A \o <<StepEnd, TurnEnd("error")>>) = N \o <<StepEnd, TurnEnd("error")>>
    BY <1>1, <2>1, Later
  <2>3. N \in Seq(Event)
    BY DEF Sound
  <2>4. N \o <<StepEnd, TurnEnd("error")>> = M
    BY <1>4, <1>5, <2>3, Stretches
  <2> QED BY <1>2, <2>2, <2>4 DEF Plan
<1>7. Sound(M, env.setup, env.cancels) /\ AtRest(M, turns, env.cancels)
  BY <1>1, <1>3, <1>5, TurnCloses
<1>8. Typed'
  BY <1>2, <1>6 DEF Typed
<1>9. Control'
  BY <1>1, <1>2, SetupIs DEF Control, Busy, MaxCalls, MaxTurns
<1>10. Follows(Plan)'
  BY <1>2, <1>6, <1>7 DEF Follows, Busy
<1> QED BY <1>2, <1>6, <1>7, <1>8, <1>9, <1>10

\* The running attempt ends, and the exception leaves.
LEMMA AbandonKeeps ==
    ASSUME SessionInv, pc \in {"stream", "tool"}, todo = <<>>, NEW note \in Notes,
           Unwind(<<AttemptEnd(note)>>), engine' = engine
    PROVE  SessionInv'
<1> DEFINE e == AttemptEnd(note)
<1>1. pc \in Busy
  BY DEF Busy
<1>2. /\ log \in Seq(Event) /\ cur.turn <= MaxTurns /\ cur.step <= MaxSteps
      /\ cur \in CurType /\ env.cancels \in Nat
      /\ Sound(log, env.setup, env.cancels) /\ InStep(log, cur, env.cancels)
      /\ EarlierDone(log, cur, env.setup) /\ Running(log, cur)
  BY <1>1, InTheTurn
<1>3. /\ e \in Event /\ e.type = "execution/attempt/end" /\ OneAttempt(e, cur)
      /\ BoundsOf(e, env.setup, Len(log))
  BY <1>2, OwnEvents DEF SessionInv
<1>4. Unwind(<<e>>)
  OBVIOUS
<1> HIDE DEF e
<1>5. PICK N : N = Append(log, e)
  OBVIOUS
<1>6. <<e>> \in Seq(Event) /\ N = log \o <<e>>
  BY <1>2, <1>3, <1>5, Stretches
<1>7. /\ Sound(N, env.setup, env.cancels) /\ InStep(N, cur, env.cancels)
      /\ EarlierDone(N, cur, env.setup)
  BY <1>2, <1>3, <1>5, AttemptEnds
<1> QED BY <1>1, <1>4, <1>6, <1>7, UnwindKeeps

\* The first attempt of a step starts after the events of A.
LEMMA StartKeeps ==
    ASSUME SessionInv, pc = "requested", todo = <<>>, NEW A \in Seq(Event), StartAttempt(A),
           NEW N, N = log \o A, Sound(N, env.setup, env.cancels),
           InStep(N, cur, env.cancels), EarlierDone(N, cur, env.setup), Fresh(N, cur),
           engine' \in EngineType
    PROVE  SessionInv'
<1> USE DEF SessionInv
<1>0. pc \in Busy
  BY DEF Busy
<1>1. /\ log \in Seq(Event) /\ cur.turn <= MaxTurns /\ cur.step <= MaxSteps
      /\ cur.turn = turns /\ cur \in CurType /\ env.cancels \in Nat
      /\ cur.turn \in Nat /\ cur.step \in Nat /\ cur.step \in 1 .. MaxSteps
  BY <1>0, InTheTurn
<1>2. PICK e : e = AttemptStart(1)
  OBVIOUS
<1>3. /\ todo' = A \o <<e>> /\ pc' = "stream" /\ cur' = [cur EXCEPT !.att = 1]
      /\ calls' = 0 /\ next' = 1 /\ concl' = FALSE /\ contexts' = 0
      /\ UNCHANGED <<log, torn, env, turns>>
  BY <1>2 DEF StartAttempt, Then, ForgetAttempt
<1>4. "" \in Notes /\ "execution/attempt/start" \in EventTypes
  BY DEF Notes, EventTypes
<1>5. e \in Event /\ e.type = "execution/attempt/start" /\ e.turn = cur.turn
      /\ e.step = cur.step /\ e.att = 1 /\ e.call = 0 /\ e.src = {}
  BY <1>1, <1>2, <1>4 DEF AttemptStart, AttemptEvent, Blank, Event
<1>6. PICK d : d = [cur EXCEPT !.att = 1]
  OBVIOUS
<1>7. d \in CurType /\ d.turn = cur.turn /\ d.step = cur.step /\ d.att = 1
  BY <1>1, <1>6 DEF CurType
<1>8. PICK M : M = Append(N, e)
  OBVIOUS
<1>9. todo' \in Seq(Event) /\ Plan' = M
  <2>1. <<e>> \in Seq(Event)
    BY <1>5
  <2>2. A \o <<e>> \in Seq(Event) /\ log \o (A \o <<e>>) = N \o <<e>>
    BY <1>1, <2>1, Later
  <2>3. N \in Seq(Event)
    BY DEF Sound
  <2>4. N \o <<e>> = M
    BY <1>5, <1>8, <2>3, Stretches
  <2> QED BY <1>3, <2>2, <2>4 DEF Plan
<1>10. BoundsOf(e, env.setup, Len(N))
  BY <1>1, <1>5, SetupIs DEF BoundsOf
<1>11. OneStep(d, cur) /\ OneStep(e, cur)
  BY <1>5, <1>7 DEF OneStep
<1>12. /\ Sound(M, env.setup, env.cancels) /\ InStep(M, d, env.cancels)
       /\ EarlierDone(M, d, env.setup) /\ Streaming(M, d, 1, env.setup)
  BY <1>1, <1>5, <1>7, <1>8, <1>10, <1>11, FirstAttempt
<1>13. Typed'
  BY <1>3, <1>6, <1>7, <1>9 DEF Typed
<1>14. Control'
  BY <1>1, <1>3, SetupIs DEF Control, Busy, MaxCalls, MaxTurns
<1>15. Follows(Plan)'
  BY <1>1, <1>3, <1>6, <1>7, <1>9, <1>12 DEF Follows, Busy, MaxSteps
<1> QED BY <1>3, <1>9, <1>12, <1>13, <1>14, <1>15

LEMMA RequestKeeps ==
    ASSUME SessionInv, Request
    PROVE  SessionInv'
<1>1. pc = "requested" /\ todo = <<>> /\ pc \in Busy
  BY DEF Request, At, Busy
<1>2. /\ log \in Seq(Event) /\ env.cancels \in Nat
      /\ Sound(log, env.setup, env.cancels) /\ InStep(log, cur, env.cancels)
      /\ EarlierDone(log, cur, env.setup) /\ Fresh(log, cur)
  BY <1>1, InTheTurn
<1>3. <<>> \in Seq(Event) /\ log \o <<>> = log
  BY <1>2
<1>4. CASE Unwind(<<>>) /\ UNCHANGED engine
  BY <1>1, <1>2, <1>3, <1>4, UnwindKeeps
<1>5. CASE StartAttempt(<<>>) /\ UNCHANGED engine
  <2>1. engine' \in EngineType
    BY <1>5 DEF SessionInv, Typed
  <2> QED BY <1>1, <1>2, <1>3, <1>5, <2>1, StartKeeps
<1>6. ASSUME NEW keep \in Cuts, StartAttempt(Compaction(keep)),
             engine' = [engine EXCEPT !.gen = @ + 1]
      PROVE  SessionInv'
  <2>1. PICK A : A = Compaction(keep)
    OBVIOUS
  <2>2. A \in Seq(Event) /\ \A i \in 1 .. Len(A) :
            A[i].type \in Quiet /\ BoundsOf(A[i], env.setup, Len(log) + (i - 1))
    BY <2>1, CompactionIs DEF SessionInv
  <2>3. /\ Sound(log \o A, env.setup, env.cancels)
        /\ SameStatus(log, log \o A, cur, env.setup, env.cancels)
    BY <1>2, <2>2, QuietStretch
  <2>4. PICK N : N = log \o A
    OBVIOUS
  <2>5. InStep(N, cur, env.cancels) /\ EarlierDone(N, cur, env.setup) /\ Fresh(N, cur)
    BY <1>2, <2>3, <2>4 DEF SameStatus
  <2>6. engine' \in EngineType
    BY SMTT(30), <1>6 DEF SessionInv, Typed, EngineType
  <2>7. StartAttempt(A)
    BY <1>6, <2>1
  <2> QED BY <1>1, <2>2, <2>3, <2>4, <2>5, <2>6, <2>7, StartKeeps
<1> QED BY <1>4, <1>5, <1>6 DEF Request

\* The code waits for the model's next event.
LEMMA StreamKeeps ==
    ASSUME SessionInv, pc \in {"stream", "tool"}, todo = <<>>, NEW A \in Seq(Event),
           todo' = A, pc' = "stream", UNCHANGED <<log, torn, env, turns, cur, engine>>,
           NEW M, M = log \o A, Sound(M, env.setup, env.cancels), InStep(M, cur, env.cancels),
           EarlierDone(M, cur, env.setup), Streaming(M, cur, next', env.setup),
           calls' \in Nat, calls' <= MaxCalls, calls' # 0 => cur.step < MaxSteps,
           next' \in 1 .. calls' + 1, concl' \in BOOLEAN, contexts' \in Nat
    PROVE  SessionInv'
<1> USE DEF SessionInv
<1>1. pc \in Busy
  BY DEF Busy
<1>2. cur.turn = turns /\ cur.turn <= MaxTurns /\ cur.step \in 1 .. MaxSteps
  BY <1>1, InTheTurn
<1>3. Plan' = M
  BY DEF Plan
<1>4. next' \in Nat
  OBVIOUS
<1>5. Typed'
  BY <1>4 DEF Typed
<1>6. Control'
  BY <1>2 DEF Control, Busy, MaxCalls, MaxTurns, MaxSteps
<1>7. Follows(Plan)'
  BY <1>2, <1>3 DEF Follows, Busy, MaxSteps
<1> QED BY <1>3, <1>5, <1>6, <1>7

\* The model's message: its events, whether or not it calls tools.
LEMMA MessageIs ==
    ASSUME Typed, cur.turn <= MaxTurns, cur.step <= MaxSteps, NEW n \in Nat,
           NEW e, e = [StepEvent("assistant/message", cur.turn, cur.step) EXCEPT !.calls = n]
                  \/ e = StepEvent("assistant/message", cur.turn, cur.step)
    PROVE  /\ e \in Event /\ e.type = "assistant/message" /\ OneStep(e, cur)
           /\ \A m : BoundsOf(e, env.setup, m)
<1>1. "" \in Notes /\ "assistant/message" \in EventTypes
  BY DEF Notes, EventTypes
<1>2. PICK d : d = StepEvent("assistant/message", cur.turn, cur.step)
  OBVIOUS
<1>3. d \in Event /\ d.type = "assistant/message" /\ d.turn = cur.turn /\ d.step = cur.step
      /\ d.call = 0 /\ d.src = {}
  BY <1>1, <1>2, CurIs DEF StepEvent, Blank, Event
<1>4. e = [d EXCEPT !.calls = n] \/ e = d
  BY <1>2
<1>5. e \in Event /\ e.type = "assistant/message" /\ e.turn = cur.turn /\ e.step = cur.step
      /\ e.call = 0 /\ e.src = {}
  BY <1>3, <1>4 DEF Event
<1>6. 0 <= MaxCalls /\ env.setup.turns = MaxTurns /\ env.setup.steps = MaxSteps
      /\ env.setup.calls = MaxCalls
  BY SetupIs
<1> QED BY <1>5, <1>6 DEF OneStep, BoundsOf

LEMMA FinalAnswerKeeps ==
    ASSUME SessionInv, FinalAnswer
    PROVE  SessionInv'
<1> USE DEF SessionInv
<1>1. pc = "stream" /\ todo = <<>> /\ pc \in Busy /\ calls = 0
  BY DEF FinalAnswer, At, Busy
<1>2. /\ log \in Seq(Event) /\ cur.turn <= MaxTurns /\ cur.step <= MaxSteps
      /\ cur.turn = turns /\ cur \in CurType /\ env.cancels \in Nat
      /\ Sound(log, env.setup, env.cancels) /\ InStep(log, cur, env.cancels)
      /\ EarlierDone(log, cur, env.setup) /\ Streaming(log, cur, next, env.setup)
  BY <1>1, InTheTurn
<1>3. PICK e, f, g : /\ e = StepEvent("assistant/message", cur.turn, cur.step)
                     /\ f = AttemptEnd("SUCCEEDED") /\ g = TurnEnd("completed")
  OBVIOUS
<1>4. "SUCCEEDED" \in Notes /\ "completed" \in Notes
  BY DEF Notes
<1>5. e \in Event /\ e.type = "assistant/message" /\ OneStep(e, cur)
      /\ BoundsOf(e, env.setup, Len(log))
  BY <1>2, <1>3, MessageIs
<1>6. PICK N1, N2, M : N1 = Append(log, e) /\ N2 = Append(N1, f) /\ M = Append(Append(N2, StepEnd), g)
  OBVIOUS
<1>7. f \in Event /\ f.type = "execution/attempt/end" /\ f.note = "SUCCEEDED"
      /\ OneAttempt(f, cur) /\ BoundsOf(f, env.setup, Len(N1)) /\ StepEnd \in Event /\ g \in Event
  BY <1>2, <1>3, <1>4, OwnEvents
<1>8. /\ todo' = <<e, f, StepEnd, g>> /\ pc' = "idle"
      /\ calls' = 0 /\ next' = 1 /\ concl' = FALSE /\ contexts' = 0
      /\ UNCHANGED <<log, torn, env, turns, cur, engine>>
  BY <1>3 DEF FinalAnswer, Then, ForgetAttempt
<1>9. todo' \in Seq(Event) /\ Plan' = M
  BY SMTT(30), <1>2, <1>5, <1>6, <1>7, <1>8, Stretches DEF Plan
<1>10. /\ Sound(N1, env.setup, env.cancels) /\ InStep(N1, cur, env.cancels)
       /\ EarlierDone(N1, cur, env.setup) /\ Streaming(N1, cur, next, env.setup)
  BY <1>2, <1>5, <1>6, MessageAdded
<1>11. /\ Sound(N2, env.setup, env.cancels) /\ InStep(N2, cur, env.cancels)
       /\ EarlierDone(N2, cur, env.setup) /\ Grown(N1, f, N2) /\ Succeeded(N2, Len(N2), cur)
  BY <1>2, <1>6, <1>7, <1>10, AttemptEnds DEF Streaming
<1>12. StepResolved(N2, Len(N2), cur, env.setup)
  BY <1>7, <1>10, <1>11, ResolvedKeeps DEF Streaming
<1>13. Sound(M, env.setup, env.cancels) /\ AtRest(M, turns, env.cancels)
  BY <1>2, <1>3, <1>4, <1>6, <1>11, <1>12, TurnCloses
<1>14. Typed'
  BY <1>8, <1>9 DEF Typed
<1>15. Control'
  <2>1. MaxCalls \in Nat /\ MaxTurns \in Nat
    BY SetupIs
  <2>2. ~torn
    BY <1>1 DEF Control
  <2>3. /\ pc' = "idle" /\ calls' = 0 /\ next' = 1
        /\ UNCHANGED <<torn, env, turns, cur>>
    BY <1>8
  <2> QED BY <1>2, <2>1, <2>2, <2>3 DEF Control, Busy, MaxCalls, MaxTurns
<1>16. Follows(Plan)'
  BY <1>8, <1>9, <1>13 DEF Follows, Busy
<1> QED BY <1>8, <1>9, <1>13, <1>14, <1>15, <1>16

LEMMA FinalCallsKeeps ==
    ASSUME SessionInv, FinalCalls
    PROVE  SessionInv'
<1>1. pc = "stream" /\ todo = <<>> /\ pc \in Busy /\ calls = 0
  BY DEF FinalCalls, At, Busy
<1>2. /\ log \in Seq(Event) /\ cur.turn <= MaxTurns /\ cur.step <= MaxSteps
      /\ cur \in CurType /\ env.cancels \in Nat
      /\ Sound(log, env.setup, env.cancels) /\ InStep(log, cur, env.cancels)
      /\ EarlierDone(log, cur, env.setup) /\ Streaming(log, cur, next, env.setup)
  BY <1>1, InTheTurn
<1>a. PICK n \in 1 .. MaxCalls :
         /\ todo' = <<[StepEvent("assistant/message", cur.turn, cur.step) EXCEPT !.calls = n]>>
         /\ calls' = n
  BY DEF FinalCalls, Then
<1>3. PICK e :
         /\ e = [StepEvent("assistant/message", cur.turn, cur.step) EXCEPT !.calls = n]
         /\ todo' = <<e>> /\ calls' = n /\ n \in 1 .. MaxCalls
  BY <1>a
<1>4. /\ pc' = "stream" /\ next' = 1 /\ cur.step < MaxSteps
      /\ UNCHANGED <<log, torn, env, turns, cur, engine, concl, contexts>>
  BY DEF FinalCalls, Then
<1>5. n \in Nat /\ n <= MaxCalls /\ 1 \in 1 .. n + 1
  BY <1>3, SetupIs DEF SessionInv
<1>6. e \in Event /\ e.type = "assistant/message" /\ OneStep(e, cur)
      /\ BoundsOf(e, env.setup, Len(log))
  BY <1>2, <1>3, <1>5, MessageIs DEF SessionInv
<1>7. next = 1
  BY <1>1 DEF SessionInv, Control
<1>8. PICK M : M = Append(log, e)
  OBVIOUS
<1>9. <<e>> \in Seq(Event) /\ M = log \o <<e>>
  BY <1>2, <1>6, <1>8, Stretches
<1>10. /\ Sound(M, env.setup, env.cancels) /\ InStep(M, cur, env.cancels)
       /\ EarlierDone(M, cur, env.setup) /\ Streaming(M, cur, next, env.setup)
  BY <1>2, <1>6, <1>8, MessageAdded
<1>11. concl' \in BOOLEAN /\ contexts' \in Nat
  BY <1>4 DEF SessionInv, Typed
<1> QED BY <1>1, <1>3, <1>4, <1>5, <1>7, <1>9, <1>10, <1>11, StreamKeeps

LEMMA CallIs ==
    ASSUME Typed, cur.turn <= MaxTurns, cur.step <= MaxSteps, next <= MaxCalls,
           NEW e, e = CallEvent(next)
    PROVE  /\ e \in Event /\ e.type = "tool/call" /\ OneStep(e, cur) /\ e.call = next
           /\ \A m : BoundsOf(e, env.setup, m)
<1>1. "" \in Notes /\ "tool/call" \in EventTypes /\ next \in Nat
  BY DEF Notes, EventTypes, Typed
<1>2. PICK d : d = StepEvent("tool/call", cur.turn, cur.step)
  OBVIOUS
<1>3. d \in Event /\ d.type = "tool/call" /\ d.turn = cur.turn /\ d.step = cur.step
      /\ d.src = {}
  BY <1>1, <1>2, CurIs DEF StepEvent, Blank, Event
<1>4. e = [d EXCEPT !.call = next]
  BY <1>2 DEF CallEvent
<1>5. e \in Event /\ e.type = "tool/call" /\ e.turn = cur.turn /\ e.step = cur.step
      /\ e.call = next /\ e.src = {}
  BY <1>1, <1>3, <1>4 DEF Event
<1>6. env.setup.turns = MaxTurns /\ env.setup.steps = MaxSteps /\ env.setup.calls = MaxCalls
  BY SetupIs
<1> QED BY <1>5, <1>6 DEF OneStep, BoundsOf

LEMMA ResultIs ==
    ASSUME Typed, cur.turn <= MaxTurns, cur.step <= MaxSteps, next <= MaxCalls,
           NEW q \in Nat \ {0}, NEW note \in Notes, NEW e, e = ResultEvent(next, q, note)
    PROVE  /\ e \in Event /\ e.type = "tool/result" /\ OneStep(e, cur) /\ e.call = next
           /\ e.from = 0 /\ e.src = {q} /\ BoundsOf(e, env.setup, q)
<1>1. "" \in Notes /\ "tool/result" \in EventTypes /\ next \in Nat
  BY DEF Notes, EventTypes, Typed
<1>2. PICK d : d = StepEvent("tool/result", cur.turn, cur.step)
  OBVIOUS
<1>3. d \in Event /\ d.type = "tool/result" /\ d.turn = cur.turn /\ d.step = cur.step
      /\ d.from = 0
  BY <1>1, <1>2, CurIs DEF StepEvent, Blank, Event
<1>4. e = [d EXCEPT !.call = next, !.src = {q}, !.note = note]
  BY <1>2 DEF ResultEvent
<1>5. {q} \in SUBSET Nat
  OBVIOUS
<1>6. e \in Event /\ e.type = "tool/result" /\ e.turn = cur.turn /\ e.step = cur.step
      /\ e.call = next /\ e.from = 0 /\ e.src = {q}
  BY <1>1, <1>3, <1>4, <1>5 DEF Event
<1>7. env.setup.turns = MaxTurns /\ env.setup.steps = MaxSteps /\ env.setup.calls = MaxCalls
  BY SetupIs
<1>8. {q} \subseteq 1 .. q
  OBVIOUS
<1> QED BY <1>6, <1>7, <1>8 DEF OneStep, BoundsOf

\* What the counters say while the model's calls are dispatched.
LEMMA Dispatching ==
    ASSUME SessionInv, next <= calls
    PROVE  /\ next \in Nat /\ calls \in Nat /\ calls # 0 /\ next <= MaxCalls /\ calls <= MaxCalls
           /\ cur.step < MaxSteps /\ next \in 1 .. calls + 1 /\ next + 1 \in 1 .. calls + 1
<1>1. next \in 1 .. calls + 1 /\ calls <= MaxCalls /\ next \in Nat /\ calls \in Nat
      /\ (calls # 0 => cur.step < MaxSteps)
  BY DEF SessionInv, Control, Typed
<1>2. MaxCalls \in Nat
  BY SetupIs DEF SessionInv
<1>3. calls # 0
  BY <1>1
<1> QED BY <1>1, <1>2, <1>3

LEMMA ToolCalledKeeps ==
    ASSUME SessionInv, ToolCalled
    PROVE  SessionInv'
<1>1. pc = "stream" /\ todo = <<>> /\ pc \in Busy /\ next <= calls
  BY DEF ToolCalled, At, Busy
<1>2. /\ log \in Seq(Event) /\ Len(log) \in Nat /\ cur.turn <= MaxTurns /\ cur.step <= MaxSteps
      /\ cur \in CurType /\ env.cancels \in Nat /\ cur.turn = turns /\ cur.step \in 1 .. MaxSteps
      /\ Sound(log, env.setup, env.cancels) /\ InStep(log, cur, env.cancels)
      /\ EarlierDone(log, cur, env.setup) /\ Streaming(log, cur, next, env.setup)
  BY <1>1, InTheTurn
<1>3. /\ next \in Nat /\ calls \in Nat /\ calls # 0 /\ next <= MaxCalls /\ calls <= MaxCalls
      /\ cur.step < MaxSteps /\ next \in 1 .. calls + 1 /\ next + 1 \in 1 .. calls + 1
  BY <1>1, Dispatching
<1>4. PICK e : e = CallEvent(next)
  OBVIOUS
<1>5. /\ e \in Event /\ e.type = "tool/call" /\ OneStep(e, cur) /\ e.call = next
      /\ BoundsOf(e, env.setup, Len(log))
  BY <1>2, <1>3, <1>4, CallIs DEF SessionInv
<1>6. PICK N : N = Append(log, e)
  OBVIOUS
<1>7. /\ Sound(N, env.setup, env.cancels) /\ InStep(N, cur, env.cancels)
      /\ EarlierDone(N, cur, env.setup) /\ Calling(N, cur, next, env.setup)
  BY <1>2, <1>3, <1>5, <1>6, CallAdded
<1>8. <<e>> \in Seq(Event) /\ N = log \o <<e>> /\ Len(N) = Len(log) + 1 /\ N \in Seq(Event)
  BY <1>2, <1>5, <1>6, Stretches
<1>9. UNCHANGED <<log, torn, env, turns, cur, engine, calls, concl, contexts>>
  BY DEF ToolCalled, Then
<1>10. concl' \in BOOLEAN /\ contexts' \in Nat
  BY <1>9 DEF SessionInv, Typed
<1>11. CASE Then(<<CallEvent(next)>>, "tool") /\ UNCHANGED next
  <2>1. todo' = <<e>> /\ pc' = "tool" /\ next' = next
    BY <1>4, <1>11 DEF Then
  <2>2. Plan' = N
    BY <1>8, <1>9, <2>1 DEF Plan
  <2>3. Typed'
    BY <1>8, <1>9, <2>1 DEF SessionInv, Typed
  <2>4. Control'
    BY <1>1, <1>3, <1>9, <2>1 DEF SessionInv, Control, Busy, MaxCalls, MaxTurns, MaxSteps
  <2>5. Follows(Plan)'
    BY <1>2, <1>7, <1>9, <2>1, <2>2 DEF Follows, Busy, MaxSteps
  <2> QED BY <1>7, <1>9, <2>2, <2>3, <2>4, <2>5 DEF SessionInv
<1>12. ASSUME "unknown_tool" \in Faults, next' = next + 1,
              Then(<<CallEvent(next)>> \o
                    IF Delegates
                    THEN <<ResultEvent(next, Len(log) + 1, "error")>> ELSE <<>>, "stream")
       PROVE  SessionInv'
  <2>1. CASE Delegates
    <3>1. PICK f : f = ResultEvent(next, Len(log) + 1, "error")
      OBVIOUS
    <3>2. "error" \in Notes
      BY DEF Notes
    <3>3. PICK q \in Nat \ {0} : q = Len(log) + 1
      BY <1>2
    <3>4. f = ResultEvent(next, q, "error")
      BY <3>1, <3>3
    <3>5. /\ f \in Event /\ f.type = "tool/result" /\ OneStep(f, cur) /\ f.call = next
          /\ f.from = 0 /\ f.src = {q} /\ BoundsOf(f, env.setup, q)
      BY <1>2, <1>3, <3>2, <3>4, ResultIs DEF SessionInv
    <3>6. PICK M : M = Append(N, f)
      OBVIOUS
    <3>7. f.src = {Len(N)} /\ BoundsOf(f, env.setup, Len(N))
      BY <1>8, <3>3, <3>5
    <3>8. /\ Sound(M, env.setup, env.cancels) /\ InStep(M, cur, env.cancels)
          /\ EarlierDone(M, cur, env.setup) /\ Streaming(M, cur, next + 1, env.setup)
      BY <1>2, <1>3, <1>7, <3>5, <3>6, <3>7, ResultAdded
    <3>9. PICK A : A = <<e>> \o <<f>>
      OBVIOUS
    <3>10. <<f>> \in Seq(Event) /\ N \o <<f>> = M
      BY <1>8, <3>5, <3>6, Stretches
    <3>11. A \in Seq(Event) /\ M = log \o A
      BY <1>2, <1>8, <3>9, <3>10, Later
    <3>12. todo' = A /\ pc' = "stream"
      BY <1>4, <1>12, <2>1, <3>1, <3>9 DEF Then
    <3> QED BY <1>1, <1>3, <1>9, <1>10, <1>12, <3>8, <3>11, <3>12, StreamKeeps
  <2>2. CASE ~Delegates
    <3>1. Excused(env.setup)
      BY <1>12, <2>2 DEF Excused, Delegates, Faults
    <3>2. Streaming(N, cur, next + 1, env.setup)
      BY <1>7, <3>1, CallForgotten
    <3>3. todo' = <<e>> /\ pc' = "stream"
      <4>1. <<e>> \o <<>> = <<e>>
        BY <1>8
      <4> QED BY <1>4, <1>12, <2>2, <4>1 DEF Then
    <3> QED BY <1>1, <1>3, <1>7, <1>8, <1>9, <1>10, <1>12, <3>2, <3>3, StreamKeeps
  <2> QED BY <2>1, <2>2
<1> QED BY <1>11, <1>12 DEF ToolCalled

\* The result of the call that was made last.
LEMMA ResultKeeps ==
    ASSUME SessionInv, pc = "tool", todo = <<>>, NEW note \in Notes,
           Then(<<ResultEvent(next, Len(log), note)>>, "stream"), next' = next + 1,
           UNCHANGED <<turns, cur, calls, engine>>, concl' \in BOOLEAN, contexts' \in Nat
    PROVE  SessionInv'
<1>1. pc \in Busy /\ next <= calls
  BY DEF SessionInv, Control, Busy
<1>2. /\ log \in Seq(Event) /\ Len(log) \in Nat /\ cur.turn <= MaxTurns /\ cur.step <= MaxSteps
      /\ cur \in CurType /\ env.cancels \in Nat
      /\ Sound(log, env.setup, env.cancels) /\ InStep(log, cur, env.cancels)
      /\ EarlierDone(log, cur, env.setup) /\ Calling(log, cur, next, env.setup)
  BY <1>1, InTheTurn
<1>3. /\ next \in Nat /\ calls \in Nat /\ calls # 0 /\ next <= MaxCalls /\ calls <= MaxCalls
      /\ cur.step < MaxSteps /\ next \in 1 .. calls + 1 /\ next + 1 \in 1 .. calls + 1
  BY <1>1, Dispatching
<1>4. PICK q \in Nat \ {0} : q = Len(log)
  BY <1>2 DEF Calling
<1>5. PICK f : f = ResultEvent(next, q, note)
  OBVIOUS
<1>6. /\ f \in Event /\ f.type = "tool/result" /\ OneStep(f, cur) /\ f.call = next
      /\ f.from = 0 /\ f.src = {q} /\ BoundsOf(f, env.setup, q)
  BY <1>2, <1>3, <1>5, ResultIs DEF SessionInv
<1>7. PICK M : M = Append(log, f)
  OBVIOUS
<1>8. f.src = {Len(log)} /\ BoundsOf(f, env.setup, Len(log))
  BY <1>4, <1>6
<1>9. /\ Sound(M, env.setup, env.cancels) /\ InStep(M, cur, env.cancels)
      /\ EarlierDone(M, cur, env.setup) /\ Streaming(M, cur, next + 1, env.setup)
  BY <1>2, <1>3, <1>6, <1>7, <1>8, ResultAdded
<1>10. <<f>> \in Seq(Event) /\ M = log \o <<f>>
  BY <1>2, <1>6, <1>7, Stretches
<1>11. todo' = <<f>> /\ pc' = "stream" /\ UNCHANGED <<log, torn, env>>
  BY <1>4, <1>5 DEF Then
<1> QED BY <1>3, <1>9, <1>10, <1>11, StreamKeeps

LEMMA ToolReturnsKeeps ==
    ASSUME SessionInv, ToolReturns
    PROVE  SessionInv'
<1>1. PICK kind \in {"ok", "concludes", "context", "error"} :
         /\ Then(<<ResultEvent(next, Len(log), kind)>>, "stream")
         /\ concl' = (concl \/ kind = "concludes")
         /\ contexts' = contexts + (IF kind = "context" THEN 1 ELSE 0)
  BY DEF ToolReturns
<1>2. kind \in Notes
  BY DEF Notes
<1>3. /\ pc = "tool" /\ todo = <<>> /\ next' = next + 1 /\ UNCHANGED <<turns, cur, calls, engine>>
  BY DEF ToolReturns, At
<1>4. contexts' \in Nat
  BY <1>1 DEF SessionInv, Typed
<1>5. concl' \in BOOLEAN
  BY <1>1
<1> QED BY <1>1, <1>2, <1>3, <1>4, <1>5, ResultKeeps

LEMMA CallbackRaisesKeeps ==
    ASSUME SessionInv, CallbackRaises
    PROVE  SessionInv'
<1>1. pc = "tool" /\ todo = <<>> /\ engine' = engine
  BY DEF CallbackRaises, At
<1>2. "error" \in Notes /\ "ABORTED" \in Notes
  BY DEF Notes
<1>3. CASE Delegates
  <2>1. /\ Then(<<ResultEvent(next, Len(log), "error")>>, "stream") /\ next' = next + 1
        /\ UNCHANGED <<turns, cur, calls, concl, contexts>>
    BY <1>3 DEF CallbackRaises
  <2>2. concl' \in BOOLEAN /\ contexts' \in Nat
    BY <2>1 DEF SessionInv, Typed
  <2> QED BY <1>1, <1>2, <2>1, <2>2, ResultKeeps
<1>4. CASE ~Delegates
  <2>1. Unwind(<<AttemptEnd("ABORTED")>>)
    BY <1>4 DEF CallbackRaises
  <2> QED BY <1>1, <1>2, <2>1, AbandonKeeps
<1> QED BY <1>3, <1>4

LEMMA StreamEndsKeeps ==
    ASSUME SessionInv, StreamEnds
    PROVE  SessionInv'
<1> USE DEF SessionInv
<1>1. pc = "stream" /\ todo = <<>> /\ pc \in Busy /\ calls # 0 /\ ~torn
  BY DEF StreamEnds, At, Busy, Control
<1>2. /\ log \in Seq(Event) /\ cur.turn <= MaxTurns /\ cur.step <= MaxSteps
      /\ cur.turn \in Nat /\ cur.step \in Nat
      /\ cur \in CurType /\ env.cancels \in Nat /\ cur.turn = turns
      /\ Sound(log, env.setup, env.cancels) /\ InStep(log, cur, env.cancels)
      /\ EarlierDone(log, cur, env.setup) /\ Streaming(log, cur, next, env.setup)
  BY <1>1, InTheTurn
<1>3. cur.step < MaxSteps /\ contexts \in Nat
  BY <1>1 DEF Control, Typed
<1>4. "SUCCEEDED" \in Notes /\ "completed" \in Notes /\ "context" \in Notes /\ "" \in Notes
  BY DEF Notes
<1>5. PICK f, N1, N2 : /\ f = AttemptEnd("SUCCEEDED")
                       /\ N1 = Append(log, f) /\ N2 = Append(N1, StepEnd)
  OBVIOUS
<1>6. /\ f \in Event /\ f.type = "execution/attempt/end" /\ f.note = "SUCCEEDED"
      /\ OneAttempt(f, cur) /\ BoundsOf(f, env.setup, Len(log))
      /\ StepEnd \in Event /\ StepEnd.type = "step/end" /\ OneStep(StepEnd, cur)
      /\ BoundsOf(StepEnd, env.setup, Len(N1))
  BY <1>2, <1>4, <1>5, OwnEvents
<1>7. /\ Sound(N1, env.setup, env.cancels) /\ InStep(N1, cur, env.cancels)
      /\ EarlierDone(N1, cur, env.setup) /\ Grown(log, f, N1) /\ Succeeded(N1, Len(N1), cur)
  BY <1>2, <1>5, <1>6, AttemptEnds DEF Streaming
<1>8. StepResolved(N1, Len(N1), cur, env.setup)
  BY <1>2, <1>6, <1>7, ResolvedKeeps DEF Streaming
<1>9. PICK closed : closed = <<f, StepEnd>>
  OBVIOUS
<1>10. closed \in Seq(Event) /\ log \o closed = N2 /\ N2 \in Seq(Event)
  BY <1>2, <1>5, <1>6, <1>9, Stretches
<1>11. UNCHANGED <<log, torn, env, turns, engine>>
       /\ calls' = 0 /\ next' = 1 /\ concl' = FALSE /\ contexts' = 0
  BY DEF StreamEnds, Then, ForgetAttempt
<1>12. MaxCalls \in Nat /\ MaxTurns \in Nat /\ MaxSteps \in Nat
  BY SetupIs
<1>13. CASE concl
  <2>1. PICK g, M : g = TurnEnd("completed") /\ M = Append(N2, g)
    OBVIOUS
  <2>2. g \in Event
    BY <1>2, <1>4, <2>1, OwnEvents
  <2>3. todo' = closed \o <<g>> /\ pc' = "idle" /\ cur' = cur
    BY <1>5, <1>9, <1>13, <2>1 DEF StreamEnds, Then
  <2>4. todo' \in Seq(Event) /\ Plan' = M
    <3>1. <<g>> \in Seq(Event) /\ N2 \o <<g>> = M
      BY <1>10, <2>1, <2>2, Stretches
    <3>2. closed \o <<g>> \in Seq(Event) /\ log \o (closed \o <<g>>) = M
      BY ZenonT(40), <1>2, <1>10, <3>1, Later
    <3> QED BY <1>11, <2>3, <3>2 DEF Plan
  <2>5. Sound(M, env.setup, env.cancels) /\ AtRest(M, turns, env.cancels)
    BY <1>2, <1>4, <1>5, <1>7, <1>8, <2>1, TurnCloses
  <2>6. Typed'
    BY <1>11, <2>3, <2>4 DEF Typed
  <2>7. Control'
    BY <1>1, <1>2, <1>11, <1>12, <2>3 DEF Control, Busy, MaxCalls, MaxTurns
  <2>8. Follows(Plan)'
    BY <1>11, <2>3, <2>4, <2>5 DEF Follows, Busy
  <2> QED BY <1>11, <2>4, <2>5, <2>6, <2>7, <2>8
<1>14. CASE ~concl
  <2> DEFINE s == cur.step
             t == cur.turn
  <2>1. PICK extra : extra = [i \in 1 .. contexts |-> TurnEvent("user/message", t, "context")]
    OBVIOUS
  <2>2. PICK e3, e4 : e3 = StepEvent("step/start", t, s + 1) /\ e4 = StepEvent("agent/request", t, s + 1)
    OBVIOUS
  <2>3. /\ todo' = (closed \o extra) \o <<e3, e4>> /\ pc' = "requested"
        /\ cur' = [cur EXCEPT !.step = @ + 1, !.att = 0]
    BY <1>5, <1>9, <1>14, <2>1, <2>2 DEF StreamEnds, Then, Opening
  <2>s. s \in Nat /\ t \in Nat /\ s + 1 \in Nat /\ s + 1 <= MaxSteps /\ t <= MaxTurns
    BY <1>2, <1>3, <1>12
  <2>d. {"user/message", "step/start", "agent/request"} \subseteq EventTypes
    BY DEF EventTypes
  <2>4. e3 \in Event /\ e3.type = "step/start" /\ e3.turn = t /\ e3.step = s + 1
        /\ e3.call = 0 /\ e3.src = {}
    BY <1>4, <2>2, <2>d, <2>s DEF StepEvent, Blank, Event
  <2>5. e4 \in Event /\ e4.type = "agent/request" /\ e4.turn = t /\ e4.step = s + 1
        /\ e4.call = 0 /\ e4.src = {}
    BY <1>4, <2>2, <2>d, <2>s DEF StepEvent, Blank, Event
  <2>6. cur' \in CurType /\ cur'.turn = t /\ cur'.step = s + 1
    <3>1. cur \in CurType /\ cur' = [cur EXCEPT !.step = cur.step + 1, !.att = 0]
      BY <1>2, <2>3
    <3>2. cur.step + 1 \in Nat
      BY <1>2
    <3> QED BY <3>1, <3>2 DEF CurType
  <2>7. env.setup.turns = MaxTurns /\ env.setup.steps = MaxSteps /\ env.setup.calls = MaxCalls
        /\ 0 <= MaxCalls /\ 0 <= MaxSteps
    BY SetupIs
  <2>8. PICK x : x = TurnEvent("user/message", t, "context")
    OBVIOUS
  <2>9. x \in Event /\ x.type = "user/message" /\ x.turn = t /\ x.step = 0 /\ x.call = 0
        /\ x.src = {}
    BY <1>4, <2>8, <2>d, <2>s DEF TurnEvent, Blank, Event
  <2>10. extra \in Seq(Event) /\ Len(extra) = contexts /\ \A i \in 1 .. Len(extra) : extra[i] = x
    BY <1>3, <2>1, <2>8, <2>9
  <2>11. /\ Sound(N2, env.setup, env.cancels) /\ InTurn(N2, t, s, env.cancels)
         /\ TurnDone(N2, t, env.setup)
    BY <1>2, <1>5, <1>6, <1>7, <1>8, StepEnds
  <2> HIDE DEF s, t
  <2>12. \A i \in 1 .. Len(extra) :
             extra[i].type \in Quiet /\ BoundsOf(extra[i], env.setup, Len(N2) + (i - 1))
    BY <2>7, <2>9, <2>10, <2>s DEF Quiet, BoundsOf
  <2>13. PICK N3 : N3 = N2 \o extra
    OBVIOUS
  <2>14. /\ Sound(N3, env.setup, env.cancels)
         /\ SameStatus(N2, N3, cur, env.setup, env.cancels)
    BY <1>2, <2>10, <2>11, <2>12, <2>13, QuietStretch
  <2>15. InTurn(N3, t, s, env.cancels) /\ TurnDone(N3, t, env.setup)
    BY <2>11, <2>14 DEF SameStatus
  <2>16. PICK c, M : c = cur' /\ M = Append(Append(N3, e3), e4)
    OBVIOUS
  <2>17. BoundsOf(e3, env.setup, Len(N3)) /\ BoundsOf(e4, env.setup, Len(N3))
    BY <2>4, <2>5, <2>7, <2>s DEF BoundsOf
  <2>18. /\ Sound(M, env.setup, env.cancels) /\ InStep(M, c, env.cancels) /\ Fresh(M, c)
         /\ EarlierDone(M, c, env.setup)
    <3>1. c.turn = t /\ c.step = s + 1
      BY <2>6, <2>16
    <3> QED BY <1>2, <2>4, <2>5, <2>14, <2>15, <2>16, <2>17, <2>s, <3>1, StepOpens
  <2>19. todo' \in Seq(Event) /\ Plan' = M
    <3>1. PICK A, B : A = closed \o extra /\ B = <<e3, e4>>
      OBVIOUS
    <3>2. A \in Seq(Event) /\ log \o A = N3
      BY ZenonT(40), <1>2, <1>10, <2>10, <2>13, <3>1, Later
    <3>3. B \in Seq(Event) /\ N3 \o B = M
      BY <2>4, <2>5, <2>14, <2>16, <3>1, Stretches DEF Sound
    <3>4. A \o B \in Seq(Event) /\ log \o (A \o B) = (log \o A) \o B
      BY ZenonT(40), <1>2, <3>2, <3>3, Later
    <3>5. todo' = A \o B
      BY <2>3, <3>1
    <3> QED BY <1>11, <3>2, <3>3, <3>4, <3>5 DEF Plan
  <2>20. Typed'
    BY <1>11, <2>3, <2>6, <2>19 DEF Typed
  <2>21. Control'
    BY <1>1, <1>2, <1>11, <1>12, <2>3 DEF Control, Busy, MaxCalls, MaxTurns
  <2>22. Follows(Plan)'
    <3>1. cur'.turn = turns' /\ cur'.step \in 1 .. MaxSteps'
      BY <1>2, <1>11, <1>12, <2>6, <2>s DEF MaxSteps, t
    <3> QED BY <1>11, <2>3, <2>16, <2>18, <2>19, <3>1 DEF Follows, Busy
  <2> QED BY <1>11, <2>18, <2>19, <2>20, <2>21, <2>22
<1> QED BY <1>13, <1>14

\* retry_safe: nothing was committed since the request of the step.
LEMMA RetrySafeUntouched ==
    ASSUME log \in Seq(Event), NEW c, NEW cancels, InStep(log, c, cancels), RetrySafe
    PROVE  \E q \in 1 .. Len(log) : Untouched(log, q, c)
<1> DEFINE S == {i \in DOMAIN log :
                    log[i].type \in {"assistant/message", "tool/call", "tool/result",
                                     "agent/request", "step/end"}}
           last == Max(S)
<1>1. DOMAIN log = 1 .. Len(log) /\ Len(log) \in Nat
  OBVIOUS
<1>2. PICK q \in 1 .. Len(log) : RequestIs(log, q, c)
  BY DEF InStep
<1>3. log[q].type = "agent/request" /\ \A k \in q + 1 .. Len(log) : log[k].type # "agent/request"
  BY <1>2 DEF RequestIs, LatestOf
<1>4. q \in S /\ S \in SUBSET (1 .. Len(log))
  BY <1>1, <1>3
<1>5. log[last].type = "agent/request"
  BY DEF RetrySafe
<1>6. last \in S /\ \A i \in S : i <= last
  <2> HIDE DEF S
  <2> QED BY <1>1, <1>4, MaxIsGreatest
<1>7. last \in 1 .. Len(log) /\ q <= last
  BY <1>4, <1>6
<1>8. last = q
  <2> HIDE DEF last, S
  <2>1. last # q => last \in q + 1 .. Len(log)
    BY <1>1, <1>7
  <2> QED BY <1>3, <1>5, <2>1
<1>9. \A i \in q + 1 .. Len(log) : i \notin S
  <2> HIDE DEF last, S
  <2> QED BY <1>6, <1>8
<1>10. \A i \in q + 1 .. Len(log) : log[i].type \notin Committed
  <2>1. \A i \in q + 1 .. Len(log) : i \in DOMAIN log
    BY <1>1
  <2> HIDE DEF last
  <2> QED BY <1>9, <2>1 DEF Committed
<1> QED BY <1>2, <1>10 DEF Untouched

LEMMA OverflowRetryKeeps ==
    ASSUME SessionInv, pc = "stream", todo = <<>>, OverflowRetry
    PROVE  SessionInv'
<1> USE DEF SessionInv
<1>1. pc \in Busy /\ ~torn
  BY DEF Busy, Control
<1>2. /\ log \in Seq(Event) /\ cur.turn <= MaxTurns /\ cur.step <= MaxSteps
      /\ Len(log) \in Nat /\ cur.step \in 1 .. MaxSteps
      /\ cur.turn \in Nat /\ cur.step \in Nat /\ cur.att \in Nat
      /\ cur \in CurType /\ env.cancels \in Nat /\ cur.turn = turns
      /\ Sound(log, env.setup, env.cancels) /\ InStep(log, cur, env.cancels)
      /\ EarlierDone(log, cur, env.setup) /\ Streaming(log, cur, next, env.setup)
  BY <1>1, InTheTurn
<1>3. Max(Cuts) \in Cuts
  <2>1. Cuts \in SUBSET (1 .. Len(log))
    BY <1>2 DEF Cuts, UnitHeads, Active, ActiveUpTo
  <2> QED BY <1>2, <2>1, MaxIsGreatest DEF OverflowRetry
<1>4. PICK A : A = Compaction(Max(Cuts))
  OBVIOUS
<1>5. A \in Seq(Event) /\ \A i \in 1 .. Len(A) :
          A[i].type \in Quiet /\ BoundsOf(A[i], env.setup, Len(log) + (i - 1))
  BY <1>3, <1>4, CompactionIs
<1>6. PICK N : N = log \o A
  OBVIOUS
<1>7. Sound(N, env.setup, env.cancels) /\ SameStatus(log, N, cur, env.setup, env.cancels)
  BY <1>2, <1>5, <1>6, QuietStretch
<1>8. PICK q : Untouched(log, q, cur)
  BY <1>2, RetrySafeUntouched DEF OverflowRetry
<1>9. /\ InStep(N, cur, env.cancels) /\ EarlierDone(N, cur, env.setup)
      /\ Streaming(N, cur, next, env.setup) /\ Untouched(N, q, cur)
  BY <1>2, <1>7, <1>8 DEF SameStatus
<1>10. PICK e, f : e = AttemptEnd("FAILED") /\ f = AttemptStart(cur.att + 1)
  OBVIOUS
<1>11. "FAILED" \in Notes /\ "" \in Notes /\ "execution/attempt/start" \in EventTypes
  BY DEF Notes, EventTypes
<1>12. /\ e \in Event /\ e.type = "execution/attempt/end" /\ e.note = "FAILED"
       /\ OneAttempt(e, cur) /\ BoundsOf(e, env.setup, Len(N))
  BY <1>2, <1>10, <1>11, OwnEvents
<1>13. f \in Event /\ f.type = "execution/attempt/start" /\ f.turn = cur.turn
       /\ f.step = cur.step /\ f.att = cur.att + 1 /\ f.call = 0 /\ f.src = {}
  <2>1. PICK n \in Nat : n = cur.att + 1
    BY <1>2
  <2>2. f = AttemptStart(n)
    BY <1>10, <2>1
  <2> QED BY <1>2, <1>11, <2>1, <2>2 DEF AttemptStart, AttemptEvent, Blank, Event
<1>14. BoundsOf(f, env.setup, Len(N))
  BY <1>2, <1>13, SetupIs DEF BoundsOf
<1>15. PICK d : d = [cur EXCEPT !.att = @ + 1]
  OBVIOUS
<1>16. d \in CurType /\ d.turn = cur.turn /\ d.step = cur.step /\ d.att = cur.att + 1
  BY <1>2, <1>15 DEF CurType
<1>17. OneStep(d, cur) /\ OneAttempt(f, d)
  BY <1>13, <1>16 DEF OneStep, OneAttempt
<1>18. PICK M : M = Append(Append(N, e), f)
  OBVIOUS
<1>19. /\ Sound(M, env.setup, env.cancels) /\ InStep(M, d, env.cancels)
       /\ EarlierDone(M, d, env.setup) /\ Streaming(M, d, 1, env.setup)
  <2>1. RequestIs(N, q, cur) /\ \A i \in q + 1 .. Len(N) : N[i].type \notin Committed
    BY <1>9 DEF Untouched
  <2> QED BY <1>2, <1>7, <1>9, <1>12, <1>13, <1>14, <1>16, <1>17, <1>18, <2>1, Retried
<1>20. /\ todo' = A \o <<e, f>> /\ pc' = "stream" /\ cur' = d
       /\ calls' = 0 /\ next' = 1 /\ concl' = FALSE /\ contexts' = 0
       /\ UNCHANGED <<log, torn, env, turns>>
  BY <1>4, <1>10, <1>15 DEF OverflowRetry, Then, ForgetAttempt
<1>21. todo' \in Seq(Event) /\ Plan' = M
  <2>1. <<e, f>> \in Seq(Event) /\ N \o <<e, f>> = M
    BY <1>7, <1>12, <1>13, <1>18, Stretches DEF Sound
  <2>2. A \o <<e, f>> \in Seq(Event) /\ log \o (A \o <<e, f>>) = M
    BY ZenonT(40), <1>2, <1>5, <1>6, <2>1, Later
  <2> QED BY <1>20, <2>2 DEF Plan
<1>22. engine' \in EngineType
  <2>1. /\ engine \in EngineType
        /\ engine' = [engine EXCEPT !.gen = engine.gen + 1, !.retries = engine.retries + 1]
    BY DEF OverflowRetry, Typed
  <2>2. engine.gen + 1 \in Nat /\ engine.retries + 1 \in Nat
    BY <2>1 DEF EngineType
  <2> QED BY <2>1, <2>2 DEF EngineType
<1>23. Typed'
  BY <1>16, <1>20, <1>21, <1>22 DEF Typed
<1>24. Control'
  BY <1>1, <1>2, <1>20, SetupIs DEF Control, Busy, MaxCalls, MaxTurns
<1>25. Follows(Plan)'
  BY <1>2, <1>16, <1>19, <1>20, <1>21 DEF Follows, Busy, MaxSteps
<1> QED BY <1>19, <1>20, <1>21, <1>23, <1>24, <1>25

LEMMA ModelErrorKeeps ==
    ASSUME SessionInv, ModelError
    PROVE  SessionInv'
<1>1. pc = "stream" /\ todo = <<>>
  BY DEF ModelError, At
<1>2. ASSUME NEW status \in {"FAILED", "ABORTED"}, GiveUp(status) PROVE SessionInv'
  <2>1. status \in Notes
    BY DEF Notes
  <2>2. Unwind(<<AttemptEnd(status)>>) /\ engine' = engine
    BY <1>2 DEF GiveUp
  <2> QED BY <1>1, <2>1, <2>2, AbandonKeeps
<1> QED BY <1>1, <1>2, OverflowRetryKeeps DEF ModelError

-----------------------------------------------------------------------------
(* The closers recovery appends, block by block.                           *)

LEMMA FirstNumbersFinite ==
    ASSUME NEW n \in Nat
    PROVE  IsFiniteSet(1 .. n)
<1>1. 1 \in Int /\ n \in Int
  OBVIOUS
<1> QED BY <1>1, FS_Interval

LEMMA FunctionIsList ==
    ASSUME NEW S, NEW n \in Nat, NEW A, A = [k \in 1 .. n |-> A[k]], \A k \in 1 .. n : A[k] \in S
    PROVE  A \in Seq(S) /\ Len(A) = n
<1>1. [k \in 1 .. n |-> A[k]] \in Seq(S) /\ Len([k \in 1 .. n |-> A[k]]) = n
  OBVIOUS
<1> QED BY <1>1

\* A closes the events of S, each once: g names them.
ClosesBy(L, S, A, g) ==
    /\ A \in Seq(Event)
    /\ \A k \in 1 .. Len(A) : g[k] \in S /\ Closes(L, g[k], A[k])
    /\ \A j, k \in 1 .. Len(A) : g[j] = g[k] => j = k
    /\ \A i \in S : \E k \in 1 .. Len(A) : g[k] = i
ClosesSome(L, S, A) == \E g : ClosesBy(L, S, A, g)

LEMMA CloserBlock ==
    ASSUME NEW L \in Seq(Event), NEW S \in SUBSET (1 .. Len(L)), NEW A,
           A = [k \in 1 .. Cardinality(S) |-> A[k]],
           \A k \in 1 .. Cardinality(S) :
               InOrder(S)[k] \in S => A[k] \in Event /\ Closes(L, InOrder(S)[k], A[k])
    PROVE  ClosesSome(L, S, A)
<1>1. S \in SUBSET Nat /\ IsFiniteSet(S)
  <2>1. PICK n \in Nat : n = Len(L)
    OBVIOUS
  <2>2. IsFiniteSet(1 .. n)
    BY FirstNumbersFinite
  <2>3. S \subseteq 1 .. n
    BY <2>1
  <2> QED BY <2>2, <2>3, FS_Subset
<1>2. /\ Cardinality(S) \in Nat
      /\ \A k \in 1 .. Cardinality(S) : InOrder(S)[k] \in S
      /\ \A j, k \in 1 .. Cardinality(S) : InOrder(S)[j] = InOrder(S)[k] => j = k
      /\ \A i \in S : \E k \in 1 .. Cardinality(S) : InOrder(S)[k] = i
  BY <1>1, InOrderLists
<1>3. A \in Seq(Event) /\ Len(A) = Cardinality(S)
  <2>1. \A k \in 1 .. Cardinality(S) : A[k] \in Event
    BY <1>2
  <2> QED BY <1>2, <2>1, FunctionIsList
<1>4. ClosesBy(L, S, A, InOrder(S))
  BY <1>2, <1>3 DEF ClosesBy
<1> QED BY <1>4 DEF ClosesSome

LEMMA BlocksJoin ==
    ASSUME NEW L, NEW S, NEW A, NEW T, NEW B, S \cap T = {},
           ClosesSome(L, S, A), ClosesSome(L, T, B)
    PROVE  ClosesSome(L, S \cup T, A \o B)
<1>1. PICK g : ClosesBy(L, S, A, g)
  BY DEF ClosesSome
<1>2. PICK h : ClosesBy(L, T, B, h)
  BY DEF ClosesSome
<1> DEFINE n == Len(A)
           m == Len(B)
           f == [k \in 1 .. n + m |-> IF k <= n THEN g[k] ELSE h[k - n]]
<1>3. A \in Seq(Event) /\ B \in Seq(Event) /\ n \in Nat /\ m \in Nat
  BY <1>1, <1>2 DEF ClosesBy
<1>4. /\ A \o B \in Seq(Event) /\ Len(A \o B) = n + m
      /\ \A k \in 1 .. n : (A \o B)[k] = A[k]
      /\ \A k \in 1 .. m : (A \o B)[n + k] = B[k]
  BY <1>3
<1>5. \A k \in 1 .. n : f[k] = g[k] /\ k \in 1 .. n + m
  BY <1>3
<1>6. \A k \in 1 .. m : f[n + k] = h[k] /\ n + k \in 1 .. n + m
  <2> SUFFICES ASSUME NEW k \in 1 .. m PROVE f[n + k] = h[k] /\ n + k \in 1 .. n + m
    OBVIOUS
  <2>1. n + k \in 1 .. n + m /\ ~(n + k <= n) /\ (n + k) - n = k
    BY <1>3
  <2> QED BY <2>1
<1>7. \A k \in 1 .. n + m : k \in 1 .. n \/ \E j \in 1 .. m : k = n + j
  <2> SUFFICES ASSUME NEW k \in 1 .. n + m, k \notin 1 .. n PROVE \E j \in 1 .. m : k = n + j
    OBVIOUS
  <2>1. k - n \in 1 .. m /\ k = n + (k - n)
    BY <1>3
  <2> QED BY <2>1
<1>a. \A i, j \in 1 .. m : n + i = n + j => i = j
  BY <1>3
<1> HIDE DEF n, m, f
<1>8. /\ \A k \in 1 .. n : g[k] \in S /\ Closes(L, g[k], A[k])
      /\ \A j, k \in 1 .. n : g[j] = g[k] => j = k
      /\ \A i \in S : \E k \in 1 .. n : g[k] = i
  BY <1>1 DEF ClosesBy, n
<1>9. /\ \A k \in 1 .. m : h[k] \in T /\ Closes(L, h[k], B[k])
      /\ \A j, k \in 1 .. m : h[j] = h[k] => j = k
      /\ \A i \in T : \E k \in 1 .. m : h[k] = i
  BY <1>2 DEF ClosesBy, m
<1>10. \A k \in 1 .. n + m : f[k] \in S \cup T /\ Closes(L, f[k], (A \o B)[k])
  <2> SUFFICES ASSUME NEW k \in 1 .. n + m
               PROVE  f[k] \in S \cup T /\ Closes(L, f[k], (A \o B)[k])
    OBVIOUS
  <2>1. CASE k \in 1 .. n
    BY <1>4, <1>5, <1>8, <2>1
  <2>2. ASSUME NEW j \in 1 .. m, k = n + j PROVE f[k] \in S \cup T /\ Closes(L, f[k], (A \o B)[k])
    BY <1>4, <1>6, <1>9, <2>2
  <2> QED BY <1>7, <2>1, <2>2
<1>11. \A j, k \in 1 .. n + m : f[j] = f[k] => j = k
  <2> SUFFICES ASSUME NEW j \in 1 .. n + m, NEW k \in 1 .. n + m, f[j] = f[k] PROVE j = k
    OBVIOUS
  <2>1. CASE j \in 1 .. n /\ k \in 1 .. n
    BY <1>5, <1>8, <2>1
  <2>2. ASSUME NEW u \in 1 .. m, j = n + u, k \in 1 .. n PROVE FALSE
    BY <1>5, <1>6, <1>8, <1>9, <2>2
  <2>3. ASSUME NEW u \in 1 .. m, k = n + u, j \in 1 .. n PROVE FALSE
    BY <1>5, <1>6, <1>8, <1>9, <2>3
  <2>4. ASSUME NEW u \in 1 .. m, NEW v \in 1 .. m, j = n + u, k = n + v PROVE j = k
    BY <1>6, <1>9, <2>4
  <2> QED BY <1>7, <2>1, <2>2, <2>3, <2>4
<1>12. \A i \in S \cup T : \E k \in 1 .. n + m : f[k] = i
  <2> SUFFICES ASSUME NEW i \in S \cup T PROVE \E k \in 1 .. n + m : f[k] = i
    OBVIOUS
  <2>1. CASE i \in S
    BY <1>5, <1>8, <2>1
  <2>2. CASE i \in T
    BY <1>6, <1>9, <2>2
  <2> QED BY <2>1, <2>2
<1>13. ClosesBy(L, S \cup T, A \o B, f)
  BY <1>4, <1>10, <1>11, <1>12 DEF ClosesBy
<1> QED BY <1>13 DEF ClosesSome

LEMMA BlocksClose ==
    ASSUME NEW L \in Seq(Event), NEW S \in SUBSET (1 .. Len(L)), NEW A, ClosesSome(L, S, A),
           \A i \in 1 .. Len(L) : IsOpen(L, i) => i \in S
    PROVE  \E f : ClosesAll(L, L \o A, f) /\ L \o A \in Seq(Event)
<1>1. PICK g : ClosesBy(L, S, A, g)
  BY DEF ClosesSome
<1> DEFINE n == Len(L)
           m == Len(A)
           f == [k \in n + 1 .. n + m |-> g[k - n]]
<1>2. A \in Seq(Event) /\ n \in Nat /\ m \in Nat
  BY <1>1 DEF ClosesBy
<1>3. /\ L \o A \in Seq(Event) /\ Len(L \o A) = n + m
      /\ \A k \in 1 .. n : (L \o A)[k] = L[k]
      /\ \A k \in n + 1 .. n + m : (L \o A)[k] = A[k - n]
  BY <1>2
<1>4. \A k \in n + 1 .. n + m : f[k] = g[k - n] /\ k - n \in 1 .. m
  BY <1>2
<1>5. \A k \in 1 .. m : n + k \in n + 1 .. n + m /\ f[n + k] = g[k]
  <2> SUFFICES ASSUME NEW k \in 1 .. m PROVE n + k \in n + 1 .. n + m /\ f[n + k] = g[k]
    OBVIOUS
  <2>1. n + k \in n + 1 .. n + m /\ (n + k) - n = k
    BY <1>2
  <2> QED BY <2>1
<1>a. \A j, k \in n + 1 .. n + m : j - n = k - n => j = k
  BY <1>2
<1>b. n <= n + m /\ n + m \in Nat
  BY <1>2
<1> HIDE DEF n, m, f
<1>6. /\ \A k \in 1 .. m : g[k] \in S /\ Closes(L, g[k], A[k])
      /\ \A j, k \in 1 .. m : g[j] = g[k] => j = k
      /\ \A i \in S : \E k \in 1 .. m : g[k] = i
  BY <1>1 DEF ClosesBy, m
<1>7. \A k \in n + 1 .. n + m : f[k] \in 1 .. n /\ Closes(L, f[k], (L \o A)[k])
  BY <1>3, <1>4, <1>6 DEF n
<1>8. \A j, k \in n + 1 .. n + m : f[j] = f[k] => j = k
  BY <1>a, <1>4, <1>6
<1>9. \A i \in 1 .. n : IsOpen(L, i) => \E k \in n + 1 .. n + m : f[k] = i
  BY <1>5, <1>6 DEF n
<1>10. ClosesAll(L, L \o A, f)
  <2> DEFINE M == L \o A
  <2>1. Len(L) = n /\ Len(M) = n + m
    BY <1>3 DEF n
  <2>2. \A k \in 1 .. n : M[k] = L[k]
    BY <1>3
  <2>3. \A k \in n + 1 .. n + m : f[k] \in 1 .. n /\ Closes(L, f[k], M[k])
    BY <1>7
  <2> HIDE DEF M
  <2>4. ClosesAll(L, M, f)
    BY <1>2, <1>8, <1>9, <1>b, <2>1, <2>2, <2>3 DEF ClosesAll
  <2> QED BY <2>4 DEF M
<1> QED BY <1>3, <1>10

\* What recovery finds open is open.
LEMMA OpenSets ==
    ASSUME log \in Seq(Event), NEW i \in 1 .. Len(log)
    PROVE  /\ i \in OpenAttempts <=> /\ log[i].type = "execution/attempt/start"
                                     /\ ~HasAttemptEnd(log, Len(log), i)
           /\ i \in UnresolvedTools <=> /\ log[i].type = "tool/call"
                                        /\ ~HasResult(log, Len(log), i)
           /\ i \in OpenSteps <=> /\ log[i].type = "step/start"
                                  /\ ~HasStepEnd(log, Len(log), i)
           /\ i \in OpenTurns <=> /\ log[i].type = "turn/start"
                                  /\ ~HasTurnEnd(log, Len(log), log[i].turn)
<1>1. \A type : Of(type) = {j \in 1 .. Len(log) : log[j].type = type}
  BY DEF Of
<1>2. i \in OpenAttempts <=> log[i].type = "execution/attempt/start" /\ ~HasAttemptEnd(log, Len(log), i)
  BY <1>1 DEF OpenAttempts, HasAttemptEnd, SameStep, OneAttempt, OneStep
<1>3. i \in UnresolvedTools <=> log[i].type = "tool/call" /\ ~HasResult(log, Len(log), i)
  BY <1>1 DEF UnresolvedTools, Resolved, HasResult, SameCall, SameStep, OneCall, OneStep
<1>4. i \in OpenSteps <=> log[i].type = "step/start" /\ ~HasStepEnd(log, Len(log), i)
  BY <1>1 DEF OpenSteps, HasStepEnd, SameStep, OneStep
<1>5. i \in OpenTurns <=> log[i].type = "turn/start" /\ ~HasTurnEnd(log, Len(log), log[i].turn)
  BY <1>1 DEF OpenTurns, HasTurnEnd
<1> QED BY <1>2, <1>3, <1>4, <1>5

\* What recovery appends for an open event closes it.
LEMMA CloserCloses ==
    ASSUME NEW L \in Seq(Event), NEW i \in 1 .. Len(L), NEW d,
           \/ /\ L[i].type = "execution/attempt/start" /\ ~HasAttemptEnd(L, Len(L), i)
              /\ d = [L[i] EXCEPT !.type = "execution/attempt/end", !.note = "ABORTED"]
           \/ /\ L[i].type = "tool/call" /\ ~HasResult(L, Len(L), i)
              /\ d = [L[i] EXCEPT !.type = "tool/result", !.note = "unknown", !.src = {i}]
           \/ /\ L[i].type = "step/start" /\ ~HasStepEnd(L, Len(L), i)
              /\ d = [L[i] EXCEPT !.type = "step/end"]
           \/ /\ L[i].type = "turn/start" /\ ~HasTurnEnd(L, Len(L), L[i].turn)
              /\ d = [L[i] EXCEPT !.type = "turn/end", !.note = "interrupted"]
    PROVE  d \in Event /\ Closes(L, i, d)
<1>1. PICK e \in Event : e = L[i]
  OBVIOUS
<1>2. {i} \in SUBSET Nat
  OBVIOUS
<1>3. CASE /\ L[i].type = "execution/attempt/start" /\ ~HasAttemptEnd(L, Len(L), i)
           /\ d = [L[i] EXCEPT !.type = "execution/attempt/end", !.note = "ABORTED"]
  <2>1. d = [e EXCEPT !.type = "execution/attempt/end", !.note = "ABORTED"]
    BY <1>1, <1>3
  <2>2. /\ d \in Event /\ d.type = "execution/attempt/end" /\ d.turn = e.turn /\ d.step = e.step
        /\ d.att = e.att /\ d.call = e.call /\ d.from = e.from /\ d.src = e.src
    BY <2>1 DEF Event, EventTypes, Notes
  <2> QED BY <1>1, <1>3, <2>2 DEF Closes
<1>4. CASE /\ L[i].type = "tool/call" /\ ~HasResult(L, Len(L), i)
           /\ d = [L[i] EXCEPT !.type = "tool/result", !.note = "unknown", !.src = {i}]
  <2>1. d = [e EXCEPT !.type = "tool/result", !.note = "unknown", !.src = {i}]
    BY <1>1, <1>4
  <2>2. /\ d \in Event /\ d.type = "tool/result" /\ d.turn = e.turn /\ d.step = e.step
        /\ d.att = e.att /\ d.call = e.call /\ d.from = e.from /\ d.src = {i}
    BY <1>2, <2>1 DEF Event, EventTypes, Notes
  <2> QED BY <1>1, <1>4, <2>2 DEF Closes
<1>5. CASE /\ L[i].type = "step/start" /\ ~HasStepEnd(L, Len(L), i)
           /\ d = [L[i] EXCEPT !.type = "step/end"]
  <2>1. d = [e EXCEPT !.type = "step/end"]
    BY <1>1, <1>5
  <2>2. /\ d \in Event /\ d.type = "step/end" /\ d.turn = e.turn /\ d.step = e.step
        /\ d.att = e.att /\ d.call = e.call /\ d.from = e.from /\ d.src = e.src
    BY <2>1 DEF Event, EventTypes
  <2> QED BY <1>1, <1>5, <2>2 DEF Closes
<1>6. CASE /\ L[i].type = "turn/start" /\ ~HasTurnEnd(L, Len(L), L[i].turn)
           /\ d = [L[i] EXCEPT !.type = "turn/end", !.note = "interrupted"]
  <2>1. d = [e EXCEPT !.type = "turn/end", !.note = "interrupted"]
    BY <1>1, <1>6
  <2>2. /\ d \in Event /\ d.type = "turn/end" /\ d.turn = e.turn /\ d.step = e.step
        /\ d.att = e.att /\ d.call = e.call /\ d.from = e.from /\ d.src = e.src /\ d.note = "interrupted"
    BY <2>1 DEF Event, EventTypes, Notes
  <2> QED BY <1>1, <1>6, <2>2 DEF Closes
<1> QED BY <1>3, <1>4, <1>5, <1>6

\* The four blocks that recovery appends, each for one kind of open event.
LEMMA ClosersClose ==
    ASSUME Typed, NEW B1, NEW B2, NEW B3, NEW B4,
           B1 = Closers(OpenAttempts, LAMBDA i : [log[i] EXCEPT
                    !.type = "execution/attempt/end", !.note = "ABORTED"]),
           B2 = Closers(UnresolvedTools, LAMBDA i : [log[i] EXCEPT
                    !.type = "tool/result", !.note = "unknown", !.src = {i}]),
           B3 = Closers(OpenSteps, LAMBDA i : [log[i] EXCEPT !.type = "step/end"]),
           B4 = Closers(OpenTurns, LAMBDA i : [log[i] EXCEPT
                    !.type = "turn/end", !.note = "interrupted"])
    PROVE  /\ ClosesSome(log, OpenAttempts, B1) /\ ClosesSome(log, UnresolvedTools, B2)
           /\ ClosesSome(log, OpenSteps, B3) /\ ClosesSome(log, OpenTurns, B4)
<1>1. log \in Seq(Event)
  BY DEF Typed
<1>2. /\ OpenAttempts \in SUBSET (1 .. Len(log)) /\ UnresolvedTools \in SUBSET (1 .. Len(log))
      /\ OpenSteps \in SUBSET (1 .. Len(log)) /\ OpenTurns \in SUBSET (1 .. Len(log))
  BY <1>1 DEF OpenAttempts, UnresolvedTools, OpenSteps, OpenTurns, Of
<1>3. ClosesSome(log, OpenAttempts, B1)
  <2> DEFINE S == OpenAttempts
  <2>1. B1 = [k \in 1 .. Cardinality(S) |-> [log[InOrder(S)[k]] EXCEPT
                    !.type = "execution/attempt/end", !.note = "ABORTED"]]
    BY ZenonT(40) DEF Closers
  <2>2. ASSUME NEW k \in 1 .. Cardinality(S), InOrder(S)[k] \in S
        PROVE  B1[k] \in Event /\ Closes(log, InOrder(S)[k], B1[k])
    <3>1. PICK i \in 1 .. Len(log) : i = InOrder(S)[k] /\ i \in OpenAttempts
      BY <1>2, <2>2
    <3>2. B1[k] = [log[i] EXCEPT !.type = "execution/attempt/end", !.note = "ABORTED"]
      BY <2>1, <3>1
    <3>3. log[i].type = "execution/attempt/start" /\ ~HasAttemptEnd(log, Len(log), i)
      BY <1>1, <3>1, OpenSets
    <3> QED BY Zenon, <1>1, <3>1, <3>2, <3>3, CloserCloses
  <2>3. B1 = [k \in 1 .. Cardinality(S) |-> B1[k]]
    BY <2>1
  <2> HIDE DEF S
  <2>4. S \in SUBSET (1 .. Len(log))
    BY <1>2 DEF S
  <2>5. ClosesSome(log, S, B1)
    BY <1>1, <2>2, <2>3, <2>4, CloserBlock
  <2> QED BY <2>5 DEF S
<1>4. ClosesSome(log, UnresolvedTools, B2)
  <2> DEFINE S == UnresolvedTools
  <2>1. B2 = [k \in 1 .. Cardinality(S) |-> [log[InOrder(S)[k]] EXCEPT
                    !.type = "tool/result", !.note = "unknown", !.src = {InOrder(S)[k]}]]
    BY DEF Closers
  <2>2. ASSUME NEW k \in 1 .. Cardinality(S), InOrder(S)[k] \in S
        PROVE  B2[k] \in Event /\ Closes(log, InOrder(S)[k], B2[k])
    <3>1. PICK i \in 1 .. Len(log) : i = InOrder(S)[k] /\ i \in UnresolvedTools
      BY <1>2, <2>2
    <3>2. B2[k] = [log[i] EXCEPT !.type = "tool/result", !.note = "unknown", !.src = {i}]
      BY <2>1, <3>1
    <3>3. log[i].type = "tool/call" /\ ~HasResult(log, Len(log), i)
      BY <1>1, <3>1, OpenSets
    <3> QED BY Zenon, <1>1, <3>1, <3>2, <3>3, CloserCloses
  <2>3. B2 = [k \in 1 .. Cardinality(S) |-> B2[k]]
    BY <2>1
  <2> HIDE DEF S
  <2>4. S \in SUBSET (1 .. Len(log))
    BY <1>2 DEF S
  <2>5. ClosesSome(log, S, B2)
    BY <1>1, <2>2, <2>3, <2>4, CloserBlock
  <2> QED BY <2>5 DEF S
<1>5. ClosesSome(log, OpenSteps, B3)
  <2> DEFINE S == OpenSteps
  <2>1. B3 = [k \in 1 .. Cardinality(S) |-> [log[InOrder(S)[k]] EXCEPT !.type = "step/end"]]
    BY DEF Closers
  <2>2. ASSUME NEW k \in 1 .. Cardinality(S), InOrder(S)[k] \in S
        PROVE  B3[k] \in Event /\ Closes(log, InOrder(S)[k], B3[k])
    <3>1. PICK i \in 1 .. Len(log) : i = InOrder(S)[k] /\ i \in OpenSteps
      BY <1>2, <2>2
    <3>2. B3[k] = [log[i] EXCEPT !.type = "step/end"]
      BY <2>1, <3>1
    <3>3. log[i].type = "step/start" /\ ~HasStepEnd(log, Len(log), i)
      BY <1>1, <3>1, OpenSets
    <3> QED BY Zenon, <1>1, <3>1, <3>2, <3>3, CloserCloses
  <2>3. B3 = [k \in 1 .. Cardinality(S) |-> B3[k]]
    BY <2>1
  <2> HIDE DEF S
  <2>4. S \in SUBSET (1 .. Len(log))
    BY <1>2 DEF S
  <2>5. ClosesSome(log, S, B3)
    BY <1>1, <2>2, <2>3, <2>4, CloserBlock
  <2> QED BY <2>5 DEF S
<1>6. ClosesSome(log, OpenTurns, B4)
  <2> DEFINE S == OpenTurns
  <2>1. B4 = [k \in 1 .. Cardinality(S) |-> [log[InOrder(S)[k]] EXCEPT
                    !.type = "turn/end", !.note = "interrupted"]]
    BY ZenonT(40) DEF Closers
  <2>2. ASSUME NEW k \in 1 .. Cardinality(S), InOrder(S)[k] \in S
        PROVE  B4[k] \in Event /\ Closes(log, InOrder(S)[k], B4[k])
    <3>1. PICK i \in 1 .. Len(log) : i = InOrder(S)[k] /\ i \in OpenTurns
      BY <1>2, <2>2
    <3>2. B4[k] = [log[i] EXCEPT !.type = "turn/end", !.note = "interrupted"]
      BY <2>1, <3>1
    <3>3. log[i].type = "turn/start" /\ ~HasTurnEnd(log, Len(log), log[i].turn)
      BY <1>1, <3>1, OpenSets
    <3> QED BY Zenon, <1>1, <3>1, <3>2, <3>3, CloserCloses
  <2>3. B4 = [k \in 1 .. Cardinality(S) |-> B4[k]]
    BY <2>1
  <2> HIDE DEF S
  <2>4. S \in SUBSET (1 .. Len(log))
    BY <1>2 DEF S
  <2>5. ClosesSome(log, S, B4)
    BY <1>1, <2>2, <2>3, <2>4, CloserBlock
  <2> QED BY <2>5 DEF S
<1> QED BY <1>3, <1>4, <1>5, <1>6

\* What recovery appends closes every open event of the log.
LEMMA RepairIs ==
    ASSUME SessionInv, Repair
    PROVE  /\ todo' \in Seq(Event)
           /\ \E f : ClosesAll(log, log \o todo', f) /\ log \o todo' \in Seq(Event)
<1> USE DEF SessionInv
<1>1. todo = <<>>
  BY DEF Repair, At, Control
<1>3. Plan = log /\ log \in Seq(Event) /\ Len(log) \in Nat /\ env.cancels \in Nat
  BY <1>1, PlanIsLog DEF Typed, EnvType
<1>4. PICK B1 : B1 = Closers(OpenAttempts, LAMBDA i : [log[i] EXCEPT
                    !.type = "execution/attempt/end", !.note = "ABORTED"])
  OBVIOUS
<1>5. PICK B2 : B2 = Closers(UnresolvedTools, LAMBDA i : [log[i] EXCEPT
                    !.type = "tool/result", !.note = "unknown", !.src = {i}])
  OBVIOUS
<1>6. PICK B3 : B3 = Closers(OpenSteps, LAMBDA i : [log[i] EXCEPT !.type = "step/end"])
  OBVIOUS
<1>7. PICK B4 : B4 = Closers(OpenTurns, LAMBDA i : [log[i] EXCEPT
                    !.type = "turn/end", !.note = "interrupted"])
  OBVIOUS
<1>8. todo' = B1 \o B2 \o B3 \o B4
  BY <1>4, <1>5, <1>6, <1>7 DEF Repair
<1>9. /\ ClosesSome(log, OpenAttempts, B1) /\ ClosesSome(log, UnresolvedTools, B2)
      /\ ClosesSome(log, OpenSteps, B3) /\ ClosesSome(log, OpenTurns, B4)
  BY <1>4, <1>5, <1>6, <1>7, ClosersClose
<1>10. PICK S : S = OpenAttempts \cup UnresolvedTools \cup OpenSteps \cup OpenTurns
  OBVIOUS
<1>11. /\ \A i \in OpenAttempts : log[i].type = "execution/attempt/start"
       /\ \A i \in UnresolvedTools : log[i].type = "tool/call"
       /\ \A i \in OpenSteps : log[i].type = "step/start"
       /\ \A i \in OpenTurns : log[i].type = "turn/start"
       /\ S \in SUBSET (1 .. Len(log))
  BY <1>3, <1>10 DEF OpenAttempts, UnresolvedTools, OpenSteps, OpenTurns, Of
<1>12. ClosesSome(log, S, todo')
  <2>1. /\ OpenAttempts \cap UnresolvedTools = {}
        /\ (OpenAttempts \cup UnresolvedTools) \cap OpenSteps = {}
        /\ (OpenAttempts \cup UnresolvedTools \cup OpenSteps) \cap OpenTurns = {}
    BY <1>11
  <2>2. ClosesSome(log, OpenAttempts \cup UnresolvedTools, B1 \o B2)
    BY <1>9, <2>1, BlocksJoin
  <2>3. ClosesSome(log, OpenAttempts \cup UnresolvedTools \cup OpenSteps, B1 \o B2 \o B3)
    BY <1>9, <2>1, <2>2, BlocksJoin
  <2>4. ClosesSome(log, OpenAttempts \cup UnresolvedTools \cup OpenSteps \cup OpenTurns,
                   B1 \o B2 \o B3 \o B4)
    BY <1>9, <2>1, <2>3, BlocksJoin
  <2> QED BY <1>8, <1>10, <2>4
<1>13. \A i \in 1 .. Len(log) : IsOpen(log, i) => i \in S
  BY <1>3, <1>10, OpenSets DEF IsOpen
<1>14. PICK A : A = todo'
  OBVIOUS
<1>15. todo' \in Seq(Event)
  BY <1>12 DEF ClosesSome, ClosesBy
<1>16. \E f : ClosesAll(log, log \o A, f) /\ log \o A \in Seq(Event)
  BY <1>3, <1>11, <1>12, <1>13, <1>14, BlocksClose
<1> QED BY <1>14, <1>15, <1>16

LEMMA RepairKeeps ==
    ASSUME SessionInv, Repair
    PROVE  SessionInv'
<1> USE DEF SessionInv
<1>1. /\ pc \in {"opened", "idle"} /\ todo = <<>> /\ calls = 0
      /\ Cardinality(Of("turn/start")) < MaxTurns
  BY DEF Repair, At, Control
<1>2. /\ pc' = "repaired" /\ torn' = FALSE
      /\ UNCHANGED <<log, turns, cur, calls, next, concl, contexts, engine, env>>
  BY DEF Repair
<1>3. Plan = log /\ log \in Seq(Event) /\ Len(log) \in Nat /\ env.cancels \in Nat
  BY <1>1, PlanIsLog DEF Typed, EnvType
<1>4. PICK A : A = todo'
  OBVIOUS
<1>5. PICK f : ClosesAll(log, log \o A, f) /\ log \o A \in Seq(Event)
  BY <1>4, RepairIs
<1>6. PICK M : M = log \o A
  OBVIOUS
<1>7. Sound(M, env.setup, env.cancels) /\ NothingOpen(M)
       /\ TurnCount(M, Len(M)) = TurnCount(log, Len(log))
  BY <1>3, <1>5, <1>6, RepairAdds
<1>8. Plan' = M
  BY <1>2, <1>4, <1>6 DEF Plan
<1>9. TurnCount(log, Len(log)) < MaxTurns
  <2>1. Of("turn/start") = TurnStarts(log, Len(log))
    BY <1>3 DEF Of, TurnStarts
  <2> QED BY <1>1, <2>1 DEF TurnCount
<1>10. todo' \in Seq(Event)
  BY RepairIs
<1>11. Typed'
  BY <1>2, <1>10 DEF Typed
<1>12. Control'
  BY <1>1, <1>2 DEF Control, Busy, MaxCalls, MaxTurns, MaxSteps
<1>13. Follows(Plan)'
  BY <1>2, <1>7, <1>8, <1>9 DEF Follows, Busy, MaxTurns
<1> QED BY <1>2, <1>7, <1>8, <1>11, <1>12, <1>13

-----------------------------------------------------------------------------
(* The invariant holds, whatever the session is.                           *)

\* What is on the log or about to be written was allowed after the events
\* before it, and the control state agrees with how far the log has got, after
\* any steps, crashes, cancels and repairs.
THEOREM Invariant == Spec => []SessionInv
<1>1. Init => SessionInv
  BY InitKeeps
<1>2. SessionInv /\ [Next]_vars => SessionInv'
  <2> SUFFICES ASSUME SessionInv, [Next]_vars
               PROVE  SessionInv'
    OBVIOUS
  <2>1. CASE Write
    BY <2>1, WriteKeeps
  <2>2. CASE Request
    BY <2>2, RequestKeeps
  <2>3. CASE FinalAnswer
    BY <2>3, FinalAnswerKeeps
  <2>4. CASE FinalCalls
    BY <2>4, FinalCallsKeeps
  <2>5. CASE ToolCalled
    BY <2>5, ToolCalledKeeps
  <2>6. CASE ToolReturns
    BY <2>6, ToolReturnsKeeps
  <2>7. CASE CallbackRaises
    BY <2>7, CallbackRaisesKeeps
  <2>8. CASE StreamEnds
    BY <2>8, StreamEndsKeeps
  <2>9. CASE ModelError
    BY <2>9, ModelErrorKeeps
  <2>10. CASE Rebuild
    BY <2>10, RebuildKeeps
  <2>11. CASE RunTurn
    BY <2>11, RunTurnKeeps
  <2>12. CASE EngineBack
    BY <2>12, EngineBackKeeps
  <2>13. CASE Cancel
    BY <2>13, CancelKeeps
  <2>14. CASE Prune
    BY <2>14, PruneKeeps
  <2>15. CASE Crash
    BY <2>15, CrashKeeps
  <2>16. CASE Reopen
    BY <2>16, ReopenKeeps
  <2>17. CASE Repair
    BY <2>17, RepairKeeps
  <2>18. CASE Rest \/ UNCHANGED vars
    BY <2>18, StutterKeeps DEF Rest
  <2> QED BY <2>1, <2>2, <2>3, <2>4, <2>5, <2>6, <2>7, <2>8, <2>9, <2>10, <2>11, <2>12,
             <2>13, <2>14, <2>15, <2>16, <2>17, <2>18 DEF Next, Program
<1> QED BY <1>1, <1>2, PTL DEF Spec

-----------------------------------------------------------------------------
(* What follows for the log.                                               *)

\* What is written was allowed when it was written.
LEMMA LogIsSound ==
    ASSUME SessionInv
    PROVE  /\ Sound(log, env.setup, env.cancels) /\ log \in Seq(Event)
           /\ Len(log) \in Nat /\ DOMAIN log = 1 .. Len(log)
           /\ \A n \in 1 .. Len(log) : Legal(log, n, env.setup)
<1>1. log \in Seq(Event) /\ todo \in Seq(Event) /\ env.cancels \in Nat
  BY DEF SessionInv, Typed, EnvType
<1>2. Len(log) <= Len(Plan) /\ \A i \in 1 .. Len(log) : log[i] = Plan[i]
  BY <1>1 DEF Plan
<1>3. Sound(log, env.setup, env.cancels)
  BY <1>1, <1>2, SoundPrefix DEF SessionInv
<1> QED BY <1>1, <1>3 DEF Sound

LEMMA OfIs ==
    ASSUME SessionInv, NEW type, NEW i
    PROVE  i \in Of(type) <=> i \in 1 .. Len(log) /\ log[i].type = type
BY LogIsSound DEF Of

\* The events of the log and the control state are in range: no turn, step or
\* call is outside what the session may do, and an event names only earlier
\* ones as its sources.
THEOREM TypeCorrect == Spec => []TypeOK
<1>1. SessionInv => TypeOK
  <2> SUFFICES ASSUME SessionInv PROVE TypeOK
    OBVIOUS
  <2>1. /\ MaxTurns \in Nat /\ MaxSteps \in Nat /\ MaxCalls \in Nat
        /\ env.setup.turns = MaxTurns /\ env.setup.steps = MaxSteps
        /\ env.setup.calls = MaxCalls
    BY SetupIs DEF SessionInv
  <2>2. ASSUME NEW i \in DOMAIN log
        PROVE  /\ log[i].turn \in 0 .. MaxTurns /\ log[i].step \in 0 .. MaxSteps
               /\ log[i].call \in 0 .. MaxCalls /\ log[i].src \subseteq 1 .. i - 1
    <3>1. i \in 1 .. Len(log) /\ log[i] \in Event
      BY LogIsSound
    <3>2. Bounded(log, i, env.setup)
      BY <3>1, LogIsSound DEF Legal
    <3>3. log[i].turn \in Nat /\ log[i].step \in Nat /\ log[i].call \in Nat
      BY <3>1, EventFields
    <3> QED BY <2>1, <3>2, <3>3 DEF Bounded
  <2>3. turns \in 0 .. MaxTurns /\ next \in 1 .. calls + 1
    BY <2>1 DEF SessionInv, Typed, Control
  <2>4. torn \in BOOLEAN /\ pc \in {"idle", "requested", "stream", "tool", "dead", "opened",
                                    "repaired", "failed"}
    BY DEF SessionInv, Typed
  <2> QED BY <2>2, <2>3, <2>4 DEF TypeOK
<1> QED BY <1>1, Invariant, PTL

\* When repair_interrupted_turn returns, nothing of the log is open and its tail
\* is not torn, whatever was cut off and however often repair was cut off
\* (recovery.py:195-283, event_store.py:143-157).
THEOREM RecoveryCloses == Spec => []RepairCloses
<1>1. SessionInv => RepairCloses
  <2> SUFFICES ASSUME SessionInv, At("repaired")
               PROVE  /\ UnresolvedTools = {} /\ OpenAttempts = {}
                      /\ OpenSteps = {} /\ OpenTurns = {} /\ ~torn
    BY DEF RepairCloses
  <2>1. pc = "repaired" /\ todo = <<>>
    BY DEF At
  <2>2. Plan = log /\ log \in Seq(Event)
    BY <2>1, PlanIsLog DEF SessionInv
  <2>3. NothingOpen(log)
    BY <2>1, <2>2 DEF SessionInv, Follows
  <2>4. ~torn
    BY <2>1 DEF SessionInv, Control
  <2>5. ASSUME NEW i \in 1 .. Len(log)
        PROVE  /\ i \notin UnresolvedTools /\ i \notin OpenAttempts
               /\ i \notin OpenSteps /\ i \notin OpenTurns
    BY <2>2, <2>3, OpenSets DEF NothingOpen, StepsEnded, TurnsEnded, AttemptsEnded, CallsResolved
  <2>6. \A i \in UnresolvedTools \cup OpenAttempts \cup OpenSteps \cup OpenTurns :
            i \in 1 .. Len(log)
    BY <2>2 DEF UnresolvedTools, OpenAttempts, OpenSteps, OpenTurns, Of
  <2> QED BY <2>4, <2>5, <2>6
<1> QED BY <1>1, Invariant, PTL

\* Recovery fails only in a session in which a run_turn task was cancelled:
\* every other way to stop leaves turns and steps that rebuild_session reads
\* (recovery.py:286-329, runtime.py:412-441).
THEOREM WedgedByCancel == Spec => []OnlyCancelWedges
<1>1. SessionInv => OnlyCancelWedges
  BY SetupIs DEF SessionInv, Control, OnlyCancelWedges
<1> QED BY <1>1, Invariant, PTL

\* A tool call gets one result, after its call event, from the tool or from
\* recovery (tool_runtime.py:121-164, recovery.py:149-174, 243-262,
\* runtime.py:606-653).
THEOREM OneResult == Spec => []OneResultPerCall
<1>1. SessionInv => OneResultPerCall
  <2> SUFFICES ASSUME SessionInv, NEW r \in Of("tool/result"), ~Replaces(r)
               PROVE  /\ \E i \in Of("tool/call") : i < r /\ SameCall(i, r)
                      /\ \A q \in Of("tool/result") : SameCall(q, r) /\ ~Replaces(q) => q = r
    BY DEF OneResultPerCall
  <2>1. /\ Len(log) \in Nat
        /\ \A n \in 1 .. Len(log) : CallsOnce(log, n)
    BY LogIsSound DEF Legal
  <2>2. r \in 1 .. Len(log) /\ log[r].type = "tool/result" /\ log[r].from = 0
    BY OfIs DEF Replaces, OnSurface, SurfaceType
  <2>3. \E i \in Of("tool/call") : i < r /\ SameCall(i, r)
    <3>1. PICK i \in 1 .. r - 1 : log[i].type = "tool/call" /\ OneCall(log[i], log[r])
      BY <2>1, <2>2 DEF CallsOnce
    <3>2. i \in 1 .. Len(log) /\ i < r
      BY <2>1, <2>2
    <3> QED BY <3>1, <3>2, OfIs DEF SameCall, SameStep, OneCall, OneStep
  <2>4. ASSUME NEW q \in Of("tool/result"), SameCall(q, r), ~Replaces(q) PROVE q = r
    <3>1. q \in 1 .. Len(log) /\ log[q].type = "tool/result" /\ log[q].from = 0
      BY <2>4, OfIs DEF Replaces, OnSurface, SurfaceType
    <3>2. OneCall(log[q], log[r]) /\ OneCall(log[r], log[q])
      BY <2>4 DEF SameCall, SameStep, OneCall, OneStep
    <3>3. ~(q \in 1 .. r - 1) /\ ~(r \in 1 .. q - 1)
      BY <2>1, <2>2, <3>1, <3>2 DEF CallsOnce
    <3> QED BY <2>1, <2>2, <3>1, <3>3
  <2> QED BY <2>3, <2>4
<1> QED BY <1>1, Invariant, PTL

\* The attempts of a step are numbered in order, each has failed before the
\* next starts, and nothing was committed in between: no tool runs twice for
\* one step (compaction.py:177-187, 464-485, runtime.py:327-370).
THEOREM CleanRetries == Spec => []RetriesAreClean
<1>1. SessionInv => RetriesAreClean
  <2> SUFFICES ASSUME SessionInv, NEW i \in Of("execution/attempt/start"),
                      NEW j \in Of("execution/attempt/start"), SameStep(i, j), i < j
               PROVE  /\ log[i].att < log[j].att
                      /\ \E k \in Of("execution/attempt/end") :
                            /\ k \in i + 1 .. j - 1 /\ SameStep(i, k)
                            /\ log[k].att = log[i].att /\ log[k].note = "FAILED"
                      /\ \A k \in i + 1 .. j - 1 :
                            log[k].type \notin {"assistant/message", "tool/call", "tool/result"}
    BY DEF RetriesAreClean
  <2>1. /\ i \in 1 .. Len(log) /\ log[i].type = "execution/attempt/start"
        /\ j \in 1 .. Len(log) /\ log[j].type = "execution/attempt/start"
    BY OfIs
  <2>2. Len(log) \in Nat /\ AttemptsInOrder(log, j)
    BY <2>1, LogIsSound DEF Legal
  <2>3. i \in 1 .. j - 1 /\ OneStep(log[i], log[j])
    BY <2>1, <2>2 DEF SameStep, OneStep
  <2>4. /\ log[i].att < log[j].att
        /\ \A k \in i + 1 .. j - 1 : log[k].type \notin Committed
    BY <2>1, <2>2, <2>3 DEF AttemptsInOrder
  <2>5. PICK k \in i + 1 .. j - 1 :
            /\ log[k].type = "execution/attempt/end" /\ OneAttempt(log[k], log[i])
            /\ log[k].note = "FAILED"
    BY <2>1, <2>2, <2>3 DEF AttemptsInOrder
  <2>6. k \in 1 .. Len(log)
    BY <2>1, <2>2
  <2>7. k \in Of("execution/attempt/end") /\ SameStep(i, k) /\ log[k].att = log[i].att
    BY <2>5, <2>6, OfIs DEF OneAttempt, OneStep, SameStep
  <2> QED BY <2>4, <2>5, <2>7 DEF Committed
<1> QED BY <1>1, Invariant, PTL

-----------------------------------------------------------------------------
(* What the records say.                                                   *)

\* An attempt ends once.
LEMMA EndUnique ==
    ASSUME SessionInv, NEW a \in 1 .. Len(log), NEW j \in 1 .. Len(log), NEW k \in 1 .. Len(log),
           log[j].type = "execution/attempt/end", OneAttempt(log[j], log[a]),
           log[k].type = "execution/attempt/end", OneAttempt(log[k], log[a])
    PROVE  j = k
<1>1. ~HasAttemptEnd(log, j - 1, j) /\ ~HasAttemptEnd(log, k - 1, k) /\ Len(log) \in Nat
  BY LogIsSound DEF Legal, Attributed
<1>2. OneAttempt(log[j], log[k]) /\ OneAttempt(log[k], log[j])
  BY DEF OneAttempt, OneStep
<1>3. j \notin 1 .. k - 1 /\ k \notin 1 .. j - 1
  BY <1>1, <1>2 DEF HasAttemptEnd
<1> QED BY <1>1, <1>3

\* The attempts of a step that the first n events hold: the last of them is
\* the greatest, and the only one that may be running.
StartsUpTo(n, i) ==
    {j \in Of("execution/attempt/start") : SameStep(i, j) /\ j < n}

LEMMA LastIsMax ==
    ASSUME SessionInv, NEW i \in 1 .. Len(log), NEW n \in 1 .. Len(log) + 1,
           NEW a, LastAttempt(log, n - 1, log[i], a)
    PROVE  a \in StartsUpTo(n, i) /\ Max(StartsUpTo(n, i)) = a
<1>1. Len(log) \in Nat
  BY LogIsSound
<1>2. /\ a \in 1 .. n - 1 /\ log[a].type = "execution/attempt/start" /\ OneStep(log[a], log[i])
      /\ \A j \in a + 1 .. n - 1 :
            log[j].type = "execution/attempt/start" => ~OneStep(log[j], log[i])
  BY DEF LastAttempt
<1>3. a \in 1 .. Len(log) /\ a < n
  BY <1>1, <1>2
<1>4. a \in StartsUpTo(n, i)
  BY <1>2, <1>3, OfIs DEF StartsUpTo, OneStep, SameStep
<1>5. ASSUME NEW j \in StartsUpTo(n, i) PROVE j <= a
  <2>1. /\ j \in 1 .. Len(log) /\ log[j].type = "execution/attempt/start" /\ j < n
        /\ OneStep(log[j], log[i])
    BY <1>5, OfIs DEF StartsUpTo, OneStep, SameStep
  <2>2. j \notin a + 1 .. n - 1
    BY <1>2, <2>1
  <2> QED BY <1>1, <1>2, <2>1, <2>2
<1>6. StartsUpTo(n, i) \in SUBSET Nat
  BY <1>1, OfIs DEF StartsUpTo
<1> QED BY <1>4, <1>5, <1>6, MaxIs

\* A call is made in the attempt that runs.
LEMMA CallIsActive ==
    ASSUME SessionInv, NEW i \in 1 .. Len(log), log[i].type = "tool/call"
    PROVE  \E a \in 1 .. i - 1 :
              /\ LastAttempt(log, i - 1, log[i], a)
              /\ ActiveAttempt(i) = log[a].att /\ log[a].att # 0
<1>1. Len(log) \in Nat /\ Attributed(log, i)
  BY LogIsSound DEF Legal
<1>2. PICK a \in 1 .. i - 1 : LastAttempt(log, i - 1, log[i], a) /\ ~HasAttemptEnd(log, i - 1, a)
  BY <1>1 DEF Attributed
<1>3. a \in StartsUpTo(i, i) /\ Max(StartsUpTo(i, i)) = a
  BY <1>1, <1>2, LastIsMax
<1>4. a \in 1 .. Len(log) /\ log[a].type = "execution/attempt/start" /\ OneStep(log[a], log[i])
  BY <1>1, <1>2 DEF LastAttempt
<1>5. log[a].att # 0
  <2>1. Attributed(log, a)
    BY <1>4, LogIsSound DEF Legal
  <2> QED BY <1>4, <2>1 DEF Attributed
<1>6. ~\E k \in Of("execution/attempt/end") :
          SameStep(i, k) /\ k < i /\ log[k].att = log[Max(StartsUpTo(i, i))].att
  <2> SUFFICES ASSUME NEW k \in Of("execution/attempt/end"), SameStep(i, k), k < i,
                      log[k].att = log[a].att
               PROVE  FALSE
    BY <1>3
  <2>1. k \in 1 .. Len(log) /\ log[k].type = "execution/attempt/end"
    BY OfIs
  <2>2. k \in 1 .. i - 1 /\ OneAttempt(log[k], log[a])
    BY <1>1, <1>4, <2>1 DEF SameStep, OneStep, OneAttempt
  <2> QED BY <1>2, <2>1, <2>2 DEF HasAttemptEnd
<1>7. ActiveAttempt(i) = log[a].att
  BY <1>3, <1>6 DEF ActiveAttempt, StartsUpTo
<1> QED BY <1>2, <1>5, <1>7

\* A result is attributed to the attempt of its call, when it comes in that
\* attempt and when it comes later.
LEMMA ResultIsAttributed ==
    ASSUME SessionInv, NEW r \in Of("tool/result"), NEW i \in Of("tool/call"), SameCall(i, r)
    PROVE  ActiveAttempt(i) # 0 /\ ResultAttempt(r) = ActiveAttempt(i)
<1>1. /\ Len(log) \in Nat /\ r \in 1 .. Len(log) /\ log[r].type = "tool/result"
      /\ i \in 1 .. Len(log) /\ log[i].type = "tool/call"
  BY LogIsSound, OfIs
<1>2. OneCall(log[i], log[r]) /\ OneStep(log[i], log[r])
  BY DEF SameCall, SameStep, OneCall, OneStep
<1>3. ASSUME NEW h \in 1 .. Len(log), log[h].type = "tool/call", OneCall(log[h], log[r])
      PROVE  h = i
  <2>1. OneCall(log[h], log[i])
    BY <1>2, <1>3 DEF OneCall, OneStep
  <2> QED BY <1>1, <1>3, <2>1, LogIsSound, CallUnique
<1>4. i < r
  <2>1. CallsOnce(log, r)
    BY <1>1, LogIsSound DEF Legal
  <2>2. PICK h \in 1 .. r - 1 : log[h].type = "tool/call" /\ OneCall(log[h], log[r])
    BY <1>1, <2>1 DEF CallsOnce
  <2>3. h \in 1 .. Len(log) /\ h < r
    BY <1>1, <2>2
  <2> QED BY <1>3, <2>2, <2>3
<1>5. PICK a \in 1 .. i - 1 :
          /\ LastAttempt(log, i - 1, log[i], a)
          /\ ActiveAttempt(i) = log[a].att /\ log[a].att # 0
  BY <1>1, CallIsActive
<1>6. a \in 1 .. Len(log) /\ log[a].type = "execution/attempt/start" /\ OneStep(log[a], log[i])
  BY <1>1, <1>5 DEF LastAttempt
<1>7. a \in StartsUpTo(r, r)
  BY <1>1, <1>2, <1>4, <1>6, OfIs DEF StartsUpTo, SameStep, OneStep
<1>8. ASSUME NEW b \in StartsUpTo(r, r) PROVE b <= a
  <2>1. /\ b \in 1 .. Len(log) /\ log[b].type = "execution/attempt/start" /\ b < r
        /\ OneStep(log[b], log[r])
    BY <1>8, OfIs DEF StartsUpTo, SameStep, OneStep
  <2>2. OneStep(log[b], log[i]) /\ OneStep(log[a], log[b])
    BY <1>2, <1>6, <2>1 DEF OneStep
  <2>3. SUFFICES ASSUME a < b PROVE FALSE
    BY <1>1, <1>5, <2>1
  <2>4. b \notin a + 1 .. i - 1
    BY <1>5, <2>1, <2>2 DEF LastAttempt
  <2>5. b # i
    BY <1>1, <2>1
  <2>6. a \in 1 .. b - 1 /\ i \in a + 1 .. b - 1
    BY <1>1, <1>5, <2>1, <2>3, <2>4, <2>5
  <2>7. AttemptsInOrder(log, b)
    BY <2>1, LogIsSound DEF Legal
  <2>8. log[i].type \notin Committed
    BY <1>6, <2>1, <2>2, <2>6, <2>7 DEF AttemptsInOrder
  <2> QED BY <1>1, <2>8 DEF Committed
<1>9. Max(StartsUpTo(r, r)) = a
  <2>1. StartsUpTo(r, r) \in SUBSET Nat
    BY <1>1, OfIs DEF StartsUpTo
  <2> QED BY <1>7, <1>8, <2>1, MaxIs
<1>10. ActiveAttempt(r) \in {0, log[a].att}
  BY <1>9 DEF ActiveAttempt, StartsUpTo
<1>11. ResultAttempt(r) = ActiveAttempt(i)
  <2>1. CASE ActiveAttempt(r) # 0
    BY <1>5, <1>10, <2>1 DEF ResultAttempt
  <2>2. CASE ActiveAttempt(r) = 0
    <3> DEFINE made == {h \in Of("tool/call") : SameCall(h, r)}
    <3>1. i \in made /\ \A h \in made : h = i
      BY <1>3, OfIs DEF SameCall, SameStep, OneCall, OneStep
    <3>2. made = {i} /\ made # {}
      BY <3>1
    <3>3. Max(made) = i
      BY <1>1, <3>2, MaxIs
    <3> QED BY <2>2, <3>2, <3>3 DEF ResultAttempt
  <2> QED BY <2>1, <2>2
<1> QED BY <1>5, <1>11

\* A step whose turn completed ended, its last attempt succeeded, and its calls
\* have results.
LEMMA CompletedStep ==
    ASSUME SessionInv, NEW s \in Of("step/start"), TurnOutcome(s) = "COMPLETED"
    PROVE  /\ s \notin OpenSteps /\ FinalStatus(s) = "SUCCEEDED"
           /\ RecordUnresolved(s) = {} \/ ("unknown_tool" \in Faults /\ ~Delegates)
<1> DEFINE ends == {j \in Of("turn/end") : log[j].turn = log[s].turn}
           m == Min(ends)
<1>1. Len(log) \in Nat /\ s \in 1 .. Len(log) /\ log[s].type = "step/start"
  BY LogIsSound, OfIs
<1>2. ends # {} /\ log[m].note = "completed"
  BY DEF TurnOutcome, TurnReason
<1>3. m \in ends
  <2>1. ends \in SUBSET Nat
    BY <1>1, OfIs
  <2> HIDE DEF ends
  <2> QED BY <1>2, <2>1, MinIs
<1>4. /\ m \in 1 .. Len(log) /\ log[m].type = "turn/end" /\ log[m].turn = log[s].turn
  BY <1>3, OfIs
<1> HIDE DEF m
<1>5. \A n \in 1 .. Len(log) :
          log[n].type \in {"step/start", "execution/attempt/start", "tool/call"}
            /\ log[n].turn = log[s].turn => n < m
  <2> SUFFICES ASSUME NEW n \in 1 .. Len(log), log[n].turn = log[s].turn, ~(n < m),
                      log[n].type \in {"step/start", "execution/attempt/start", "tool/call"}
               PROVE  FALSE
    OBVIOUS
  <2>1. ~HasTurnEnd(log, n - 1, log[n].turn)
    BY LogIsSound DEF Legal, Concluded
  <2>2. n # m
    BY <1>4
  <2>3. m \in 1 .. n - 1
    BY <1>1, <1>4, <2>2
  <2> QED BY <1>4, <2>1, <2>3 DEF HasTurnEnd
<1>6. s \in 1 .. m - 1
  BY <1>1, <1>4, <1>5
<1>7. StepDone(log, m - 1, s, env.setup)
  <2>1. Concluded(log, m, env.setup)
    BY <1>4, LogIsSound DEF Legal
  <2> QED BY <1>1, <1>2, <1>4, <1>6, <2>1 DEF Concluded, m
<1>8. \A n \in 1 .. m - 1 : n \in 1 .. Len(log)
  BY <1>1, <1>4
<1>9. s \notin OpenSteps
  <2>1. PICK j \in 1 .. m - 1 : log[j].type = "step/end" /\ OneStep(log[j], log[s])
    BY <1>7 DEF StepDone, HasStepEnd
  <2>2. j \in Of("step/end") /\ SameStep(s, j)
    BY <1>8, <2>1, OfIs DEF SameStep, OneStep
  <2> QED BY <2>2 DEF OpenSteps
<1>10. PICK a \in 1 .. m - 1 :
          /\ LastAttempt(log, m - 1, log[s], a)
          /\ \E k \in 1 .. m - 1 : /\ log[k].type = "execution/attempt/end"
                                   /\ OneAttempt(log[k], log[a]) /\ log[k].note = "SUCCEEDED"
  BY <1>7 DEF StepDone, Succeeded
<1>11. PICK k \in 1 .. m - 1 : /\ log[k].type = "execution/attempt/end"
                               /\ OneAttempt(log[k], log[a]) /\ log[k].note = "SUCCEEDED"
  BY <1>10
<1>12. Attempts(s) = StartsUpTo(m, s)
  <2>1. ASSUME NEW i \in Of("execution/attempt/start"), SameStep(s, i) PROVE i < m
    BY <1>5, <2>1, OfIs DEF SameStep
  <2>2. \A i : SameStep(i, s) <=> SameStep(s, i)
    BY DEF SameStep
  <2> QED BY <2>1, <2>2 DEF Attempts, StartsUpTo
<1>13. a \in Attempts(s) /\ Max(Attempts(s)) = a
  <2>1. m \in 1 .. Len(log) + 1
    BY <1>1, <1>4
  <2> QED BY <1>1, <1>10, <1>12, <2>1, LastIsMax
<1>14. AttemptStatus(a) = "SUCCEEDED"
  <2> DEFINE closing == {j \in Of("execution/attempt/end") :
                            SameStep(a, j) /\ log[j].att = log[a].att}
  <2>1. a \in 1 .. Len(log) /\ k \in 1 .. Len(log)
    BY <1>8, <1>10, <1>11
  <2>2. k \in closing
    BY <1>11, <2>1, OfIs DEF SameStep, OneStep, OneAttempt
  <2>3. ASSUME NEW j \in closing PROVE j = k
    <3>1. /\ j \in 1 .. Len(log) /\ log[j].type = "execution/attempt/end"
          /\ OneAttempt(log[j], log[a])
      BY <2>3, OfIs DEF SameStep, OneStep, OneAttempt
    <3> QED BY <1>11, <2>1, <3>1, EndUnique
  <2>4. closing = {k}
    BY <2>2, <2>3
  <2>5. Max(closing) = k
    BY <2>1, <2>4, MaxIs
  <2>6. a \notin OpenAttempts
    BY <2>2 DEF OpenAttempts
  <2> QED BY <1>11, <2>5, <2>6 DEF AttemptStatus
<1>15. FinalStatus(s) = "SUCCEEDED"
  BY <1>13, <1>14 DEF FinalStatus
<1>16. RecordUnresolved(s) = {} \/ ("unknown_tool" \in Faults /\ ~Delegates)
  <2> SUFFICES ASSUME ~Excused(env.setup), NEW i \in RecordUnresolved(s)
               PROVE  FALSE
    BY DEF Excused, Faults, Delegates
  <2>1. /\ i \in 1 .. Len(log) /\ log[i].type = "tool/call" /\ OneStep(log[i], log[s])
        /\ log[i].turn = log[s].turn
    BY OfIs DEF RecordUnresolved, SameStep, OneStep
  <2>2. i \in 1 .. m - 1
    BY <1>1, <1>4, <1>5, <2>1
  <2>3. HasResult(log, m - 1, i)
    BY <1>7, <2>1, <2>2 DEF StepDone, StepResolved
  <2>4. PICK r \in 1 .. m - 1 : log[r].type = "tool/result" /\ OneCall(log[i], log[r])
    BY <2>3 DEF HasResult
  <2>5. r \in Of("tool/result") /\ SameCall(i, r)
    BY <1>8, <2>4, OfIs DEF SameCall, SameStep, OneCall, OneStep
  <2> QED BY <2>5 DEF RecordUnresolved
<1> QED BY <1>9, <1>15, <1>16

\* What the execution records say is what happened: the executions and steps of
\* a completed turn succeeded and completed, their calls have results, and each
\* result is attributed to the attempt of its call
\* (recovery.py:469-518, 521-803).
THEOREM TrueRecords == Spec => []RecordsAreTrue
<1>1. SessionInv => RecordsAreTrue
  <2> SUFFICES ASSUME SessionInv PROVE RecordsAreTrue
    OBVIOUS
  <2>1. ASSUME NEW s \in Of("step/start"), TurnOutcome(s) = "COMPLETED"
        PROVE  /\ ExecutionOutcome(s) = "SUCCESS"
               /\ StepOutcome(s) = "COMPLETED"
               /\ RecordUnresolved(s) = {} \/ ("unknown_tool" \in Faults /\ ~Delegates)
    BY <2>1, CompletedStep DEF ExecutionOutcome, StepOutcome
  <2>2. \A r \in Of("tool/result") : \A i \in Of("tool/call") :
            SameCall(i, r) => ActiveAttempt(i) # 0 /\ ResultAttempt(r) = ActiveAttempt(i)
    BY ResultIsAttributed
  <2> QED BY <2>1, <2>2 DEF RecordsAreTrue
<1> QED BY <1>1, Invariant, PTL

-----------------------------------------------------------------------------
(* The store under the session.                                            *)

\* The lines of a log, and those of a log with one event more.
LEMMA LinesAre ==
    ASSUME log \in Seq(Event)
    PROVE  Lines \in Seq(EventTypes) /\ Len(Lines) = Len(log)
<1>1. PICK n \in Nat : n = Len(log)
  OBVIOUS
<1>2. DOMAIN log = 1 .. n /\ \A i \in 1 .. n : log[i].type \in EventTypes
  <2>1. DOMAIN log = 1 .. n /\ \A i \in 1 .. n : log[i] \in Event
    BY <1>1
  <2> QED BY <2>1, EventFields
<1>3. Lines = [i \in 1 .. n |-> log[i].type]
  BY <1>2 DEF Lines
<1>4. Lines = [i \in 1 .. n |-> Lines[i]] /\ \A i \in 1 .. n : Lines[i] \in EventTypes
  BY <1>2, <1>3
<1> QED BY <1>1, <1>4, FunctionIsList

LEMMA LinesGrow ==
    ASSUME log \in Seq(Event), NEW e \in Event, log' = Append(log, e)
    PROVE  Lines' = Append(Lines, e.type)
<1>1. PICK n \in Nat : n = Len(log)
  OBVIOUS
<1>2. /\ DOMAIN log = 1 .. n /\ DOMAIN log' = 1 .. n + 1
      /\ log'[n + 1] = e /\ \A i \in 1 .. n : log'[i] = log[i]
  BY <1>1
<1>3. Lines \in Seq(EventTypes) /\ Len(Lines) = n /\ \A i \in 1 .. n : Lines[i] = log[i].type
  BY <1>1, <1>2, LinesAre DEF Lines
<1>4. Lines' = [i \in 1 .. n + 1 |-> log'[i].type]
  BY <1>2 DEF Lines
<1>5. e.type \in EventTypes
  BY DEF Event
<1>6. PICK T : T = Append(Lines, e.type)
  OBVIOUS
<1>7. /\ T \in Seq(EventTypes) /\ Len(T) = n + 1
      /\ T[n + 1] = e.type /\ \A i \in 1 .. n : T[i] = Lines[i]
  BY <1>3, <1>5, <1>6
<1>8. T = [i \in 1 .. n + 1 |-> T[i]]
  BY <1>7
<1>9. \A i \in 1 .. n + 1 : T[i] = log'[i].type
  BY <1>2, <1>3, <1>7
<1> QED BY <1>4, <1>6, <1>8, <1>9

LEMMA StoreInit ==
    ASSUME Init
    PROVE  Store!Init
<1>1. log = <<>> /\ torn = FALSE /\ pc = "idle"
  BY DEF Init
<1>2. DOMAIN log = {}
  BY <1>1
<1>3. Lines = <<>>
  BY <1>1 DEF Lines
<1>4. {<<i, Lines[i]>> : i \in DOMAIN log} = {}
  BY <1>2
<1> QED BY <1>1, <1>3, <1>4 DEF Store!Init

LEMMA StoreRests ==
    ASSUME UNCHANGED <<log, torn>>, pc' = "dead" <=> pc = "dead"
    PROVE  UNCHANGED Store!vars
<1>1. Lines' = Lines
  BY DEF Lines
<1> QED BY <1>1 DEF Store!vars

LEMMA StoreWrites ==
    ASSUME SessionInv, Write, Len(log) < 100
    PROVE  Store!Next
<1>1. /\ todo # <<>> /\ log' = Append(log, Head(todo)) /\ torn' = torn /\ pc' = pc
  BY DEF Write
<1>2. log \in Seq(Event) /\ todo \in Seq(Event) /\ ~torn /\ pc # "dead"
  BY <1>1 DEF SessionInv, Typed, Control
<1>3. PICK e \in Event : e = Head(todo)
  BY <1>1, <1>2
<1>4. /\ Lines \in Seq(EventTypes) /\ Len(Lines) = Len(log)
      /\ Lines' = Append(Lines, e.type) /\ e.type \in EventTypes
  BY <1>1, <1>2, <1>3, LinesAre, LinesGrow DEF Event
<1>5. {<<i, Lines[i]>> : i \in DOMAIN log}' =
          {<<i, Lines[i]>> : i \in DOMAIN log} \cup {<<Len(Lines'), e.type>>}
  <2>1. PICK n \in Nat : n = Len(log)
    BY <1>2
  <2>2. /\ DOMAIN log = 1 .. n /\ DOMAIN log' = 1 .. n + 1 /\ Len(Lines') = n + 1
        /\ Lines'[n + 1] = e.type /\ \A i \in 1 .. n : Lines'[i] = Lines[i]
    BY <1>1, <1>2, <1>3, <1>4, <2>1
  <2>3. 1 .. n + 1 = (1 .. n) \cup {n + 1}
    OBVIOUS
  <2> QED BY <2>2, <2>3
<1>6. Store!AppendEvent(e.type)
  BY <1>1, <1>2, <1>4, <1>5 DEF Store!AppendEvent
<1> QED BY <1>4, <1>6 DEF Store!Next

LEMMA StoreCrashes ==
    ASSUME SessionInv, Crash, Len(log) < 100
    PROVE  Store!Next
<1>1. pc # "dead" /\ pc' = "dead" /\ log' = log
  BY DEF Crash
<1>2. Lines' = Lines
  BY <1>1 DEF Lines
<1>3. Store!ForgetMemory
  BY <1>1, <1>2 DEF Store!ForgetMemory
<1>4. CASE torn' = torn
  BY <1>2, <1>3, <1>4 DEF Store!Next, Store!Crash
<1>5. CASE torn' # torn
  <2>1. ~torn /\ torn' \in BOOLEAN
    BY <1>5 DEF Crash, SessionInv, Typed, Control
  <2>2. log \in Seq(Event)
    BY DEF SessionInv, Typed
  <2>3. Lines \in Seq(EventTypes) /\ Len(Lines) = Len(log) /\ Len(Lines) \in Nat
    BY <2>2, LinesAre
  <2>4. PICK T : T = Append(Lines, "step/end")
    OBVIOUS
  <2>5. "step/end" \in EventTypes
    BY DEF EventTypes
  <2>6. T \in Seq(EventTypes) /\ Len(T) = Len(Lines) + 1 /\ \A i \in 1 .. Len(Lines) : T[i] = Lines[i]
    BY <2>3, <2>4, <2>5
  <2>7. SubSeq(T, 1, Len(Lines)) = Lines
    BY <2>3, <2>6
  <2>8. Len(Lines) \in Len(Lines) .. Len(T) /\ Len(Lines) # Len(T)
    BY <2>3, <2>6
  <2>9. Store!PartlyWritten(T)
    BY <1>2, <2>1, <2>7, <2>8 DEF Store!PartlyWritten
  <2>10. Store!CrashInAppend("step/end")
    BY <1>1, <1>3, <2>3, <2>4, <2>9 DEF Store!CrashInAppend
  <2> QED BY <2>5, <2>10 DEF Store!Next
<1> QED BY <1>4, <1>5

LEMMA StoreOpens ==
    ASSUME SessionInv, Reopen
    PROVE  Store!Next
<1>1. pc = "dead" /\ pc' = "opened" /\ log' = log /\ torn' = torn /\ torn \in BOOLEAN
  BY DEF Reopen, SessionInv, Typed
<1>2. Lines' = Lines
  BY <1>1 DEF Lines
<1>3. Store!Open
  BY <1>1, <1>2 DEF Store!Open
<1> QED BY <1>3 DEF Store!Next

LEMMA StoreRepairs ==
    ASSUME SessionInv, Repair
    PROVE  Store!Next \/ UNCHANGED Store!vars
<1>1. /\ pc # "dead" /\ pc' = "repaired" /\ log' = log /\ torn' = FALSE /\ torn \in BOOLEAN
  BY DEF Repair, At, SessionInv, Typed
<1>2. Lines' = Lines
  BY <1>1 DEF Lines
<1>3. CASE torn
  <2>1. Store!RepairTail
    BY <1>1, <1>2, <1>3 DEF Store!RepairTail
  <2> QED BY <2>1 DEF Store!Next
<1>4. CASE ~torn
  BY <1>1, <1>4, StoreRests
<1> QED BY <1>3, <1>4

\* Every other step leaves the file and the process as they are.
LEMMA StoreUntouched ==
    ASSUME Next, ~Write, ~Crash, ~Reopen, ~Repair
    PROVE  UNCHANGED <<log, torn>> /\ (pc' = "dead" <=> pc = "dead")
<1>1. CASE Request
  BY <1>1 DEF Request, At, Unwind, StartAttempt, Then
<1>2. CASE FinalAnswer \/ FinalCalls
  BY <1>2 DEF FinalAnswer, FinalCalls, At, Then
<1>3. CASE ToolCalled \/ ToolReturns
  BY <1>3 DEF ToolCalled, ToolReturns, At, Then
<1>4. CASE CallbackRaises
  BY <1>4 DEF CallbackRaises, At, Then, Unwind
<1>5. CASE StreamEnds
  BY <1>5 DEF StreamEnds, At, Then
<1>6. CASE ModelError
  BY <1>6 DEF ModelError, GiveUp, Unwind, OverflowRetry, At, Then
<1>7. CASE Rebuild
  BY <1>7 DEF Rebuild, Begin, At, Then
<1>8. CASE RunTurn \/ EngineBack
  BY <1>8 DEF RunTurn, EngineBack, Begin, At, Then
<1>9. CASE Cancel
  BY <1>9 DEF Cancel
<1>10. CASE Prune
  BY <1>10 DEF Prune, At
<1>11. CASE Rest
  BY <1>11 DEF Rest, vars
<1> QED BY <1>1, <1>2, <1>3, <1>4, <1>5, <1>6, <1>7, <1>8, <1>9, <1>10, <1>11 DEF Next, Program

\* The session uses its store only by the operations of the store: as long as
\* the log is below the bound that UsesStore gives the store, each of its steps
\* is a step of EventStore or none.
THEOREM SessionUsesStore == Spec /\ [](Len(log) < 100) => UsesStore
<1>1. Init => Store!Init
  BY StoreInit
<1>2. SessionInv /\ Len(log) < 100 /\ [Next]_vars => [Store!Next]_(Store!vars)
  <2> SUFFICES ASSUME SessionInv, Len(log) < 100, [Next]_vars
               PROVE  Store!Next \/ UNCHANGED Store!vars
    OBVIOUS
  <2>1. CASE Write
    BY <2>1, StoreWrites
  <2>2. CASE Crash
    BY <2>2, StoreCrashes
  <2>3. CASE Reopen
    BY <2>3, StoreOpens
  <2>4. CASE Repair
    BY <2>4, StoreRepairs
  <2>5. CASE UNCHANGED vars
    <3>1. UNCHANGED <<log, torn>> /\ (pc' = "dead" <=> pc = "dead")
      BY <2>5 DEF vars
    <3> QED BY <3>1, StoreRests
  <2>6. CASE Next /\ ~Write /\ ~Crash /\ ~Reopen /\ ~Repair
    BY <2>6, StoreUntouched, StoreRests
  <2> QED BY <2>1, <2>2, <2>3, <2>4, <2>5, <2>6
<1> QED BY <1>1, <1>2, Invariant, PTL DEF Spec, UsesStore, Store!Spec

-----------------------------------------------------------------------------
(* The context: what the model is shown, and what may still join it.       *)

Lists(m, e) ==
    m.type = "assistant/message" /\ OneStep(e, m) /\ e.call \in 1 .. m.calls
Answers(e, m) == e.type = "tool/result" /\ Lists(m, e)

\* What the first n events show, as _fold_active_seqs finds it.
Covers(e, i) == e.type \in SurfaceType /\ e.from # 0 /\ i \in e.from .. e.to
Shown(L, n) ==
    {i \in 1 .. n : L[i].type \in SurfaceType /\ \A r \in i + 1 .. n : ~Covers(L[r], i)}

\* Every event shown after m, up to r, answers a call of m.
Heads(L, n, m, r) ==
    /\ m \in Shown(L, n) /\ m < r
    /\ \A i \in Shown(L, n) : i \in m + 1 .. r => Answers(L[i], L[m])
PairedAt(L, n, r) == \E m \in 1 .. n : Heads(L, n, m, r)

\* So is every event shown after m: an answer to m would join it.
Leads(L, n, m) ==
    /\ m \in Shown(L, n) /\ L[m].type = "assistant/message"
    /\ \A i \in Shown(L, n) : m < i => Answers(L[i], L[m])
Expected(L, n, e) == \E m \in 1 .. n : Leads(L, n, m) /\ Lists(L[m], e)

Grouped(L, n) ==
    /\ \A r \in Shown(L, n) : L[r].type = "tool/result" => PairedAt(L, n, r)
    /\ \A i \in 1 .. n : L[i].type = "tool/call" =>
          L[i].from = 0 /\ (HasResult(L, n, i) \/ Expected(L, n, L[i]))
Coherent(L) == \A n \in 0 .. Len(L) : Grouped(L, n)

Asked(L, c, k) ==
    \E m \in 1 .. Len(L) : Leads(L, Len(L), m) /\ OneStep(L[m], c) /\ L[m].calls = k

Undisturbed == Delegates /\ env.prunes = 0 /\ env.cancels = 0
ContextInv ==
    Undisturbed =>
        /\ Coherent(Plan)
        /\ pc \in {"idle", "requested", "stream"} => CallsResolved(Plan, Len(Plan))
        /\ pc = "tool" => \A i \in 1 .. Len(Plan) - 1 :
                             Plan[i].type = "tool/call" => HasResult(Plan, Len(Plan), i)
        /\ calls # 0 => Asked(Plan, cur, calls)

-----------------------------------------------------------------------------
(* What the model is shown.                                                *)

\* Of a log that agrees with another on the first n events, the first n events
\* show the same.
LEMMA ShownAgrees ==
    ASSUME NEW L, NEW M, NEW n \in Nat, \A i \in 1 .. n : M[i] = L[i]
    PROVE  /\ Shown(M, n) = Shown(L, n)
           /\ \A m, r : Heads(L, n, m, r) => Heads(M, n, m, r)
           /\ \A m : Leads(L, n, m) => Leads(M, n, m)
           /\ Grouped(L, n) => Grouped(M, n)
<1>1. Shown(M, n) = Shown(L, n)
  <2>1. ASSUME NEW i \in 1 .. n
        PROVE  \A r \in i + 1 .. n : M[r] = L[r]
    OBVIOUS
  <2> QED BY <2>1 DEF Shown
<1>2. \A i \in Shown(L, n) : i \in 1 .. n /\ M[i] = L[i]
  BY DEF Shown
<1>3. \A m, r : Heads(L, n, m, r) => Heads(M, n, m, r)
  BY <1>1, <1>2 DEF Heads
<1>4. \A m : Leads(L, n, m) => Leads(M, n, m)
  BY <1>1, <1>2 DEF Leads
<1>5. ASSUME Grouped(L, n) PROVE Grouped(M, n)
  <2>1. ASSUME NEW r \in Shown(M, n), M[r].type = "tool/result" PROVE PairedAt(M, n, r)
    BY <1>1, <1>2, <1>3, <1>5, <2>1 DEF Grouped, PairedAt
  <2>2. ASSUME NEW i \in 1 .. n, M[i].type = "tool/call"
        PROVE  M[i].from = 0 /\ (HasResult(M, n, i) \/ Expected(M, n, M[i]))
    <3>1. L[i].type = "tool/call" /\ M[i] = L[i]
      BY <2>2
    <3>2. L[i].from = 0 /\ (HasResult(L, n, i) \/ Expected(L, n, L[i]))
      BY <1>5, <3>1 DEF Grouped
    <3>3. HasResult(L, n, i) => HasResult(M, n, i)
      BY <3>1 DEF HasResult
    <3>4. Expected(L, n, L[i]) => Expected(M, n, M[i])
      BY <1>2, <1>4, <3>1 DEF Expected
    <3> QED BY <3>1, <3>2, <3>3, <3>4
  <2> QED BY <2>1, <2>2 DEF Grouped
<1> QED BY <1>1, <1>3, <1>4, <1>5

\* So a log is coherent when one that it extends is, and its new prefixes are.
LEMMA CoherentExtends ==
    ASSUME NEW L, NEW M, Coherent(L), Len(L) \in Nat, Len(M) \in Nat,
           \A i \in 1 .. Len(L) : M[i] = L[i],
           \A n \in Len(L) + 1 .. Len(M) : Grouped(M, n)
    PROVE  Coherent(M)
<1>1. ASSUME NEW n \in 0 .. Len(M), n \notin Len(L) + 1 .. Len(M)
      PROVE  Grouped(M, n)
  <2>1. n \in 0 .. Len(L) /\ n \in Nat /\ \A i \in 1 .. n : M[i] = L[i]
    BY <1>1
  <2>2. Grouped(L, n)
    BY <2>1 DEF Coherent
  <2> QED BY <2>1, <2>2, ShownAgrees
<1> QED BY <1>1 DEF Coherent

\* Only one message can lead.
LEMMA OneLeads ==
    ASSUME NEW L, NEW n \in Nat, NEW m, NEW k, Leads(L, n, m), Leads(L, n, k)
    PROVE  m = k
<1>1. m \in 1 .. n /\ k \in 1 .. n
  BY DEF Leads, Shown
<1>2. ~(m < k)
  BY <1>1 DEF Leads, Answers
<1>3. ~(k < m)
  BY <1>1 DEF Leads, Answers
<1> QED BY <1>1, <1>2, <1>3

\* Events that replace nothing leave what was shown before them.
LEMMA ShownGrows ==
    ASSUME NEW L, NEW M, NEW N \in Nat, NEW n \in Nat, N <= n,
           \A i \in 1 .. N : M[i] = L[i],
           \A j \in N + 1 .. n : M[j].type \in SurfaceType => M[j].from = 0
    PROVE  Shown(M, n) = Shown(L, N) \cup {j \in N + 1 .. n : M[j].type \in SurfaceType}
<1>1. \A j \in N + 1 .. n : \A i : ~Covers(M[j], i)
  BY DEF Covers
<1>2. ASSUME NEW i \in 1 .. N
      PROVE  i \in Shown(M, n) <=> i \in Shown(L, N)
  <2>1. i \in 1 .. n /\ M[i] = L[i] /\ \A r \in i + 1 .. N : M[r] = L[r]
    OBVIOUS
  <2>2. \A r \in i + 1 .. n : r \in i + 1 .. N \/ r \in N + 1 .. n
    OBVIOUS
  <2>3. \A r \in i + 1 .. N : r \in i + 1 .. n
    OBVIOUS
  <2> QED BY <1>1, <2>1, <2>2, <2>3 DEF Shown
<1>3. ASSUME NEW i \in N + 1 .. n
      PROVE  i \in Shown(M, n) <=> M[i].type \in SurfaceType
  <2>1. i \in 1 .. n /\ \A r \in i + 1 .. n : r \in N + 1 .. n
    OBVIOUS
  <2> QED BY <1>1, <2>1 DEF Shown
<1>4. Shown(M, n) \subseteq 1 .. n /\ Shown(L, N) \subseteq 1 .. N
  BY DEF Shown
<1>5. \A i \in 1 .. n : i \in 1 .. N \/ i \in N + 1 .. n
  OBVIOUS
<1>6. \A i \in N + 1 .. n : i \notin 1 .. N
  OBVIOUS
<1> QED BY <1>2, <1>3, <1>4, <1>5, <1>6

\* A result that is shown stays paired when what follows it changes.
LEMMA HeadsKeeps ==
    ASSUME NEW L, NEW M, NEW N \in Nat, NEW n \in Nat, N <= n,
           \A i \in 1 .. N : M[i] = L[i],
           Shown(M, n) \cap (1 .. N) = Shown(L, N), NEW r \in 1 .. N, PairedAt(L, N, r)
    PROVE  PairedAt(M, n, r)
<1>1. PICK m \in 1 .. N : Heads(L, N, m, r)
  BY DEF PairedAt
<1>2. m \in 1 .. n /\ M[m] = L[m] /\ m \in Shown(M, n) /\ m < r
  BY <1>1 DEF Heads
<1>3. ASSUME NEW i \in Shown(M, n), i \in m + 1 .. r
      PROVE  Answers(M[i], M[m])
  <2>1. i \in 1 .. N
    BY <1>3
  <2> QED BY <1>1, <1>2, <1>3, <2>1 DEF Heads
<1> QED BY <1>2, <1>3 DEF Heads, PairedAt

\* Calls keep their results.
LEMMA StillResolved ==
    ASSUME NEW L, NEW M, Coherent(L), Len(L) \in Nat, CallsResolved(L, Len(L)),
           \A i \in 1 .. Len(L) : M[i] = L[i], NEW n \in Nat, Len(L) <= n,
           \A j \in Len(L) + 1 .. n : M[j].type # "tool/call"
    PROVE  /\ CallsResolved(M, n)
           /\ \A i \in 1 .. n : M[i].type = "tool/call" => M[i].from = 0 /\ HasResult(M, n, i)
<1>1. ASSUME NEW i \in 1 .. n, M[i].type = "tool/call"
      PROVE  M[i].from = 0 /\ HasResult(M, n, i)
  <2>1. i \in 1 .. Len(L) /\ M[i] = L[i]
    BY <1>1
  <2>2. HasResult(L, Len(L), i) /\ L[i].from = 0
    BY <1>1, <2>1 DEF CallsResolved, Coherent, Grouped
  <2>3. PICK r \in 1 .. Len(L) :
           L[r].type = "tool/result" /\ i \in L[r].src /\ OneCall(L[i], L[r])
    BY <2>2 DEF HasResult
  <2>4. r \in 1 .. n /\ M[r] = L[r]
    OBVIOUS
  <2> QED BY <2>1, <2>2, <2>3, <2>4 DEF HasResult
<1> QED BY <1>1 DEF CallsResolved

\* When no call is open, anything can be said that is no call and no result.
LEMMA Speaks ==
    ASSUME NEW L, NEW M, Coherent(L), Len(L) \in Nat, Len(M) \in Nat, Len(L) <= Len(M),
           \A i \in 1 .. Len(L) : M[i] = L[i], CallsResolved(L, Len(L)),
           \A j \in Len(L) + 1 .. Len(M) :
               M[j].type \notin {"tool/call", "tool/result"} /\ M[j].from = 0
    PROVE  Coherent(M) /\ CallsResolved(M, Len(M))
<1> DEFINE N == Len(L)
<1>1. N \in Nat
  OBVIOUS
<1>2. ASSUME NEW n \in Nat, N <= n, n <= Len(M), NEW i \in 1 .. n, M[i].type = "tool/call"
      PROVE  M[i].from = 0 /\ HasResult(M, n, i)
  <2>1. \A j \in N + 1 .. n : M[j].type # "tool/call"
    BY <1>2
  <2> QED BY <1>2, <2>1, StillResolved
<1>3. CallsResolved(M, Len(M))
  BY <1>2 DEF CallsResolved
<1>4. ASSUME NEW n \in N + 1 .. Len(M) PROVE Grouped(M, n)
  <2>1. n \in Nat /\ N <= n /\ n <= Len(M) /\ \A j \in N + 1 .. n : j \in N + 1 .. Len(M)
    OBVIOUS
  <2>a. \A j \in N + 1 .. n : M[j].type \in SurfaceType => M[j].from = 0
    BY <2>1
  <2>b. \A i \in 1 .. N : M[i] = L[i]
    OBVIOUS
  <2>2. Shown(M, n) = Shown(L, N) \cup {j \in N + 1 .. n : M[j].type \in SurfaceType}
    <3> HIDE DEF N
    <3> QED BY SMTT(30), <1>1, <2>1, <2>a, <2>b, ShownGrows
  <2>3. Shown(L, N) \subseteq 1 .. N /\ \A j \in N + 1 .. n : j \notin 1 .. N
    BY DEF Shown
  <2>4. Shown(M, n) \cap (1 .. N) = Shown(L, N)
    BY <2>2, <2>3
  <2>5. ASSUME NEW r \in Shown(M, n), M[r].type = "tool/result" PROVE PairedAt(M, n, r)
    <3>1. r \in Shown(L, N) /\ r \in 1 .. N
      BY <2>1, <2>2, <2>3, <2>5
    <3>2. PairedAt(L, N, r)
      BY <1>1, <2>5, <3>1 DEF Coherent, Grouped
    <3> QED BY <1>1, <2>1, <2>4, <3>1, <3>2, HeadsKeeps
  <2> QED BY <1>2, <2>1, <2>5 DEF Grouped
<1>5. Coherent(M)
  BY <1>4, CoherentExtends
<1> QED BY <1>3, <1>5

\* Calls of the message that leads, and answers to it, join it.
LEMMA Continues ==
    ASSUME NEW L, NEW M, Coherent(L), Len(L) \in Nat, Len(M) \in Nat, Len(L) <= Len(M),
           \A i \in 1 .. Len(L) : M[i] = L[i],
           \A j \in Len(L) + 1 .. Len(M) :
               /\ M[j].type \notin {"user/message", "assistant/message"}
               /\ M[j].type \in {"tool/call", "tool/result"} =>
                      M[j].from = 0 /\ Expected(L, Len(L), M[j])
    PROVE  Coherent(M) /\ \A m : Leads(L, Len(L), m) => Leads(M, Len(M), m)
<1> DEFINE N == Len(L)
<1>1. N \in Nat /\ N \in 0 .. N /\ Grouped(L, N)
  BY DEF Coherent
<1>2. ASSUME NEW n \in Nat, N <= n, n <= Len(M)
      PROVE  /\ Shown(M, n) = Shown(L, N) \cup {j \in N + 1 .. n : M[j].type = "tool/result"}
             /\ \A m : Leads(L, N, m) => Leads(M, n, m)
  <2>1. \A j \in N + 1 .. n : j \in N + 1 .. Len(M)
    BY <1>2
  <2>2. \A j \in N + 1 .. n : M[j].type \in SurfaceType <=> M[j].type = "tool/result"
    BY <2>1 DEF SurfaceType
  <2>a. \A j \in N + 1 .. n : M[j].type \in SurfaceType => M[j].from = 0
    BY <2>1, <2>2
  <2>b. \A i \in 1 .. N : M[i] = L[i]
    OBVIOUS
  <2>3. Shown(M, n) = Shown(L, N) \cup {j \in N + 1 .. n : M[j].type \in SurfaceType}
    <3> HIDE DEF N
    <3> QED BY <1>1, <1>2, <2>a, <2>b, ShownGrows
  <2>4. ASSUME NEW m, Leads(L, N, m) PROVE Leads(M, n, m)
    <3>1. m \in Shown(L, N) /\ m \in 1 .. N /\ M[m] = L[m] /\ L[m].type = "assistant/message"
      BY <2>4 DEF Leads, Shown
    <3>2. ASSUME NEW i \in Shown(L, N), m < i PROVE Answers(M[i], M[m])
      <4>1. i \in 1 .. N
        BY DEF Shown
      <4> QED BY <2>4, <3>1, <3>2, <4>1 DEF Leads
    <3>3. ASSUME NEW i \in N + 1 .. n, M[i].type = "tool/result" PROVE Answers(M[i], M[m])
      <4>1. PICK k \in 1 .. N : Leads(L, N, k) /\ Lists(L[k], M[i])
        BY <2>1, <3>3 DEF Expected
      <4>2. k = m
        BY <1>1, <2>4, <4>1, OneLeads
      <4> QED BY <3>1, <3>3, <4>1, <4>2 DEF Answers
    <3> QED BY <2>2, <2>3, <3>1, <3>2, <3>3 DEF Leads
  <2> QED BY <2>2, <2>3, <2>4
<1>3. ASSUME NEW n \in N + 1 .. Len(M) PROVE Grouped(M, n)
  <2>1. n \in Nat /\ N <= n /\ n <= Len(M) /\ \A j \in N + 1 .. n : j \in N + 1 .. Len(M)
    OBVIOUS
  <2>2. /\ Shown(M, n) = Shown(L, N) \cup {j \in N + 1 .. n : M[j].type = "tool/result"}
        /\ \A m : Leads(L, N, m) => Leads(M, n, m)
    BY <1>2, <2>1
  <2>3. Shown(L, N) \subseteq 1 .. N /\ \A j \in N + 1 .. n : j \notin 1 .. N
    BY DEF Shown
  <2>4. Shown(M, n) \cap (1 .. N) = Shown(L, N)
    BY <2>2, <2>3
  <2>5. ASSUME NEW e, Expected(L, N, e) PROVE Expected(M, n, e)
    <3>1. PICK m \in 1 .. N : Leads(L, N, m) /\ Lists(L[m], e)
      BY <2>5 DEF Expected
    <3>2. m \in 1 .. n /\ M[m] = L[m] /\ Leads(M, n, m)
      BY <2>1, <2>2, <3>1
    <3> QED BY <3>1, <3>2 DEF Expected
  <2>6. ASSUME NEW r \in Shown(M, n), M[r].type = "tool/result" PROVE PairedAt(M, n, r)
    <3>1. CASE r \in Shown(L, N)
      <4>1. r \in 1 .. N /\ M[r] = L[r]
        BY <2>3, <3>1
      <4>2. PairedAt(L, N, r)
        BY <1>1, <2>6, <3>1, <4>1 DEF Grouped
      <4> QED BY <1>1, <2>1, <2>4, <4>1, <4>2, HeadsKeeps
    <3>2. CASE r \in N + 1 .. n
      <4>1. PICK m \in 1 .. N : Leads(L, N, m) /\ Lists(L[m], M[r])
        BY <2>1, <2>6, <3>2 DEF Expected
      <4>2. Leads(M, n, m) /\ m \in 1 .. n /\ m < r
        BY <1>1, <2>1, <2>2, <3>2, <4>1
      <4>3. \A i \in Shown(M, n) : i \in m + 1 .. r => m < i
        BY <4>2
      <4> QED BY <4>2, <4>3 DEF PairedAt, Heads, Leads
    <3> QED BY <2>2, <2>6, <3>1, <3>2
  <2>7. ASSUME NEW i \in 1 .. n, M[i].type = "tool/call"
        PROVE  M[i].from = 0 /\ (HasResult(M, n, i) \/ Expected(M, n, M[i]))
    <3>1. CASE i \in 1 .. N
      <4>1. M[i] = L[i]
        BY <3>1
      <4>2. L[i].from = 0 /\ (HasResult(L, N, i) \/ Expected(L, N, L[i]))
        BY <1>1, <2>7, <3>1, <4>1 DEF Grouped
      <4>3. ASSUME HasResult(L, N, i) PROVE HasResult(M, n, i)
        <5>1. PICK r \in 1 .. N : L[r].type = "tool/result" /\ i \in L[r].src /\ OneCall(L[i], L[r])
          BY <4>3 DEF HasResult
        <5>2. r \in 1 .. n /\ M[r] = L[r]
          BY <2>1
        <5> QED BY <4>1, <5>1, <5>2 DEF HasResult
      <4> QED BY <2>5, <4>1, <4>2, <4>3
    <3>2. CASE i \in N + 1 .. n
      BY <2>1, <2>5, <2>7, <3>2
    <3> QED BY <2>1, <3>1, <3>2
  <2> QED BY <2>6, <2>7 DEF Grouped
<1>4. Coherent(M)
  BY <1>3, CoherentExtends
<1> QED BY <1>2, <1>4

\* A summary in place of all that is shown before a unit.
LEMMA Summarised ==
    ASSUME NEW L, NEW e, NEW M, Grown(L, e, M), Coherent(L), CallsResolved(L, Len(L)),
           e.type = "user/message", NEW keep \in Shown(L, Len(L)),
           ~PairedAt(L, Len(L), keep), e.from # 0,
           \A i \in Shown(L, Len(L)) : i \in e.from .. e.to <=> i < keep
    PROVE  Coherent(M) /\ CallsResolved(M, Len(M))
<1> DEFINE N == Len(L)
<1>1. N \in Nat /\ Len(M) = N + 1 /\ (\A i \in 1 .. N : M[i] = L[i]) /\ M[N + 1] = e
      /\ Grouped(L, N)
  BY DEF Grown, Coherent
<1>2. /\ CallsResolved(M, N + 1)
      /\ \A i \in 1 .. N + 1 :
            M[i].type = "tool/call" => M[i].from = 0 /\ HasResult(M, N + 1, i)
  <2>1. N + 1 \in Nat /\ N <= N + 1 /\ \A j \in N + 1 .. N + 1 : M[j].type # "tool/call"
    BY <1>1
  <2> QED BY <1>1, <2>1, StillResolved
<1>3. Shown(L, N) \subseteq 1 .. N /\ keep \in 1 .. N
  BY DEF Shown
<1>4. ASSUME NEW i \in 1 .. N
      PROVE  i \in Shown(M, N + 1) <=> i \in Shown(L, N) /\ ~(i < keep)
  <2>1. M[i] = L[i] /\ (\A r \in i + 1 .. N : M[r] = L[r] /\ r \in i + 1 .. N + 1)
        /\ N + 1 \in i + 1 .. N + 1 /\ i \in 1 .. N + 1
    BY <1>1
  <2>2. \A r \in i + 1 .. N + 1 : r \in i + 1 .. N \/ r = N + 1
    BY <1>1
  <2>3. Covers(M[N + 1], i) <=> i \in e.from .. e.to
    BY <1>1 DEF Covers, SurfaceType
  <2>4. i \in Shown(M, N + 1) <=> i \in Shown(L, N) /\ ~Covers(M[N + 1], i)
    BY <2>1, <2>2 DEF Shown
  <2> QED BY <2>3, <2>4
<1>5. ASSUME NEW r \in Shown(M, N + 1), M[r].type = "tool/result" PROVE PairedAt(M, N + 1, r)
  <2>1. r \in 1 .. N
    BY <1>1, <1>5 DEF Shown
  <2>2. r \in Shown(L, N) /\ ~(r < keep) /\ M[r] = L[r]
    BY <1>1, <1>4, <1>5, <2>1
  <2>3. PICK m \in 1 .. N : Heads(L, N, m, r)
    BY <1>1, <1>5, <2>2 DEF Grouped, PairedAt
  <2>4. ~(m < keep)
    <3> SUFFICES ASSUME m < keep PROVE FALSE
      OBVIOUS
    <3>1. \A i \in m + 1 .. keep : i \in m + 1 .. r
      BY <1>3, <2>1, <2>2
    <3>2. Heads(L, N, m, keep)
      BY <2>3, <3>1 DEF Heads
    <3> QED BY <2>3, <3>2 DEF PairedAt
  <2>5. m \in Shown(M, N + 1) /\ m \in 1 .. N + 1 /\ m < r /\ M[m] = L[m]
    BY <1>1, <1>4, <2>3, <2>4 DEF Heads
  <2>6. ASSUME NEW i \in Shown(M, N + 1), i \in m + 1 .. r PROVE Answers(M[i], M[m])
    <3>1. i \in 1 .. N
      BY <2>1, <2>6
    <3>2. i \in Shown(L, N) /\ M[i] = L[i]
      BY <1>1, <1>4, <2>6, <3>1
    <3> QED BY <2>3, <2>5, <2>6, <3>2 DEF Heads
  <2> QED BY <2>5, <2>6 DEF Heads, PairedAt
<1>6. Grouped(M, N + 1)
  BY <1>2, <1>5 DEF Grouped
<1>7. Coherent(M)
  <2>1. \A n \in N + 1 .. Len(M) : n = N + 1
    BY <1>1
  <2>2. Len(M) \in Nat /\ \A n \in N + 1 .. Len(M) : Grouped(M, n)
    BY <1>1, <1>6, <2>1
  <2> QED BY <1>1, <2>2, CoherentExtends
<1> QED BY <1>1, <1>2, <1>7

-----------------------------------------------------------------------------
(* The code's stretches, as they join what is shown.                       *)

Spoken == {e \in Event : e.type \notin {"tool/call", "tool/result"} /\ e.from = 0}

LEMMA SpokenStretch ==
    ASSUME NEW L \in Seq(Event), Coherent(L), CallsResolved(L, Len(L)), NEW A \in Seq(Spoken)
    PROVE  Coherent(L \o A) /\ CallsResolved(L \o A, Len(L \o A)) /\ L \o A \in Seq(Event)
<1>1. A \in Seq(Event) /\ \A k \in 1 .. Len(A) : A[k] \in Spoken
  BY DEF Spoken
<1>2. PICK M : M = L \o A
  OBVIOUS
<1>3. /\ Len(L) \in Nat /\ Len(M) \in Nat /\ Len(L) <= Len(M) /\ M \in Seq(Event)
      /\ \A i \in 1 .. Len(L) : M[i] = L[i]
      /\ \A j \in Len(L) + 1 .. Len(M) : j - Len(L) \in 1 .. Len(A) /\ M[j] = A[j - Len(L)]
  BY <1>1, <1>2
<1>4. \A j \in Len(L) + 1 .. Len(M) :
         M[j].type \notin {"tool/call", "tool/result"} /\ M[j].from = 0
  BY <1>1, <1>3 DEF Spoken
<1> QED BY <1>2, <1>3, <1>4, Speaks

LEMMA SpokenEvents ==
    ASSUME NEW type \in EventTypes \ {"tool/call", "tool/result"},
           NEW t \in Nat, NEW s \in Nat, NEW a \in Nat, NEW note \in Notes
    PROVE  /\ TurnEvent(type, t, note) \in Spoken
           /\ StepEvent(type, t, s) \in Spoken
           /\ AttemptEvent(type, t, s, a, note) \in Spoken
<1>1. "" \in Notes
  BY DEF Notes
<1>2. TurnEvent(type, t, note) \in Spoken
  BY DEF TurnEvent, Blank, Spoken, Event
<1>3. StepEvent(type, t, s) \in Spoken
  BY <1>1 DEF StepEvent, Blank, Spoken, Event
<1>4. AttemptEvent(type, t, s, a, note) \in Spoken
  BY DEF AttemptEvent, Blank, Spoken, Event
<1> QED BY <1>2, <1>3, <1>4

LEMMA OwnSpoken ==
    ASSUME Typed
    PROVE  /\ StepEnd \in Spoken
           /\ \A note \in Notes : AttemptEnd(note) \in Spoken /\ TurnEnd(note) \in Spoken
           /\ \A a \in Nat : AttemptStart(a) \in Spoken
           /\ \A t, s \in Nat : Opening(t, s) \in Seq(Spoken)
           /\ StepEvent("assistant/message", cur.turn, cur.step) \in Spoken
           /\ \A t \in Nat : \A note \in Notes :
                 /\ TurnEvent("user/message", t, note) \in Spoken
                 /\ TurnEvent("turn/start", t, note) \in Spoken
<1>1. cur.turn \in Nat /\ cur.step \in Nat /\ cur.att \in Nat
  BY CurIs
<1>2. {"step/end", "execution/attempt/end", "turn/end", "execution/attempt/start", "step/start",
       "agent/request", "assistant/message", "user/message", "turn/start"}
          \subseteq EventTypes \ {"tool/call", "tool/result"}
  BY DEF EventTypes
<1>3. "" \in Notes
  BY DEF Notes
<1>4. StepEnd \in Spoken
  BY <1>1, <1>2, <1>3, SpokenEvents DEF StepEnd
<1>5. ASSUME NEW note \in Notes PROVE AttemptEnd(note) \in Spoken /\ TurnEnd(note) \in Spoken
  BY <1>1, <1>2, SpokenEvents DEF AttemptEnd, TurnEnd
<1>6. ASSUME NEW a \in Nat PROVE AttemptStart(a) \in Spoken
  BY <1>1, <1>2, <1>3, SpokenEvents DEF AttemptStart
<1>7. ASSUME NEW t \in Nat, NEW s \in Nat PROVE Opening(t, s) \in Seq(Spoken)
  <2>1. StepEvent("step/start", t, s) \in Spoken /\ StepEvent("agent/request", t, s) \in Spoken
    BY <1>1, <1>2, <1>3, SpokenEvents
  <2> QED BY <2>1 DEF Opening
<1>8. StepEvent("assistant/message", cur.turn, cur.step) \in Spoken
  BY <1>1, <1>2, <1>3, SpokenEvents
<1>9. ASSUME NEW t \in Nat, NEW note \in Notes
      PROVE  TurnEvent("user/message", t, note) \in Spoken /\ TurnEvent("turn/start", t, note) \in Spoken
  BY <1>1, <1>2, SpokenEvents
<1> QED BY <1>4, <1>5, <1>6, <1>7, <1>8, <1>9

\* A compaction puts a summary in place of whole units.
LEMMA CompactionSpeaks ==
    ASSUME Typed, Coherent(log), CallsResolved(log, Len(log)), NEW keep \in Cuts
    PROVE  LET N == log \o Compaction(keep)
           IN  Coherent(N) /\ CallsResolved(N, Len(N)) /\ N \in Seq(Event)
<1> DEFINE n == Len(log)
<1>1. n \in Nat /\ engine.gen \in Nat /\ log \in Seq(Event)
  BY DEF Typed, EngineType
<1>2. Active = Shown(log, n)
  BY DEF Active, ActiveUpTo, Shown, OnSurface, Replaces, Covers
<1>3. keep \in Active /\ keep # Min(Active) /\ ~Paired(keep)
  BY DEF Cuts, UnitHeads
<1>4. ~PairedAt(log, n, keep)
  <2> SUFFICES ASSUME NEW m \in 1 .. n, Heads(log, n, m, keep) PROVE FALSE
    BY DEF PairedAt
  <2>1. \A i \in Active : Answers(log[i], log[m]) => ListedBy(i, m)
    BY DEF Answers, Lists, ListedBy, SameStep, OneStep
  <2>2. Paired(keep)
    BY <1>2, <2>1 DEF Heads, Paired
  <2> QED BY <1>3, <2>2
<1> HIDE DEF n
<1>5. PICK sh, st : /\ sh = {i \in Active : i < keep}
                    /\ st = [Blank EXCEPT !.att = engine.gen + 1]
  OBVIOUS
<1>6. Active \in SUBSET (1 .. n) /\ Active \in SUBSET Nat /\ keep \in 1 .. n
  BY <1>1, <1>2, <1>3 DEF Shown
<1>7. sh \in SUBSET (1 .. n) /\ sh # {} /\ sh \in SUBSET Nat
  <2>1. Min(Active) \in Active /\ Min(Active) <= keep
    BY <1>3, <1>6, MinIs
  <2>2. \A m, k \in Nat : m <= k /\ m # k => m < k
    OBVIOUS
  <2>3. Min(Active) \in Nat /\ keep \in Nat
    BY <1>3, <1>6, <2>1
  <2>4. Min(Active) < keep
    BY <1>3, <2>1, <2>2, <2>3
  <2> QED BY <1>5, <1>6, <2>1, <2>4
<1>8. /\ Min(sh) \in sh /\ \A i \in sh : Min(sh) <= i
      /\ Max(sh) \in sh /\ \A i \in sh : i <= Max(sh)
  BY <1>1, <1>7, MinIs, MaxIsGreatest
<1>9. PICK c1, c2, c3, c4 :
         /\ c1 = [st EXCEPT !.type = "compaction/start"]
         /\ c2 = [st EXCEPT !.type = "compaction/summary", !.src = {n + 1}]
         /\ c3 = [Blank EXCEPT !.type = "user/message", !.note = "summary",
                               !.from = Min(sh), !.to = Max(sh), !.src = sh \cup {n + 1, n + 2}]
         /\ c4 = [st EXCEPT !.type = "compaction/end"]
  OBVIOUS
<1>10. Compaction(keep) = <<c1, c2, c3, c4>>
  BY <1>5, <1>9 DEF Compaction, n
<1>11. PICK C : C = Compaction(keep)
  OBVIOUS
<1>12. C = <<c1, c2, c3, c4>> /\ C \in Seq(Event)
  BY <1>10, <1>11, CompactionIs
<1>13. c1 \in Event /\ c2 \in Event /\ c3 \in Event /\ c4 \in Event
  <2>1. C[1] \in Event /\ C[2] \in Event /\ C[3] \in Event /\ C[4] \in Event
    BY <1>12
  <2> QED BY <1>12, <2>1
<1>14. /\ c1.type = "compaction/start" /\ c1.from = 0
       /\ c2.type = "compaction/summary" /\ c2.from = 0
       /\ c3.type = "user/message" /\ c3.from = Min(sh) /\ c3.to = Max(sh)
       /\ c4.type = "compaction/end" /\ c4.from = 0
  BY <1>5, <1>9 DEF Blank
<1>15. PICK N2, N3 : N2 = log \o <<c1, c2>> /\ N3 = Append(N2, c3)
  OBVIOUS
<1>16. <<c1, c2>> \in Seq(Spoken) /\ <<c4>> \in Seq(Spoken)
  BY <1>13, <1>14 DEF Spoken
<1>17. /\ Coherent(N2) /\ CallsResolved(N2, Len(N2)) /\ N2 \in Seq(Event) /\ Len(N2) = n + 2
  <2>1. Coherent(N2) /\ CallsResolved(N2, Len(N2)) /\ N2 \in Seq(Event)
    BY <1>1, <1>15, <1>16, SpokenStretch
  <2>2. Len(N2) = n + 2
    BY <1>1, <1>13, <1>15 DEF n
  <2> QED BY <2>1, <2>2
<1>18. /\ \A i \in 1 .. n : N2[i] = log[i]
       /\ N2[n + 1] = c1 /\ N2[n + 2] = c2
  BY <1>1, <1>13, <1>15 DEF n
<1>19. Shown(N2, n + 2) = Active
  <2>1. \A j \in n + 1 .. n + 2 : j = n + 1 \/ j = n + 2
    BY <1>1
  <2>2. \A j \in n + 1 .. n + 2 : N2[j].type \notin SurfaceType
    BY <1>14, <1>18, <2>1 DEF SurfaceType
  <2>3. Shown(N2, n + 2) = Shown(log, n) \cup {j \in n + 1 .. n + 2 : N2[j].type \in SurfaceType}
    BY SMTT(30), <1>1, <1>18, <2>2, ShownGrows
  <2> QED BY <1>2, <2>2, <2>3
<1>20. ~PairedAt(N2, n + 2, keep)
  <2> SUFFICES ASSUME NEW m \in 1 .. n + 2, Heads(N2, n + 2, m, keep) PROVE FALSE
    BY DEF PairedAt
  <2>1. m \in Active /\ m \in 1 .. n /\ N2[m] = log[m]
    BY <1>6, <1>18, <1>19 DEF Heads
  <2>2. \A i \in Active : N2[i] = log[i]
    BY <1>6, <1>18
  <2>3. Heads(log, n, m, keep)
    BY <1>2, <1>19, <2>1, <2>2 DEF Heads
  <2> QED BY <1>4, <2>1, <2>3 DEF PairedAt
<1>21. c3.from # 0 /\ \A i \in Active : i \in c3.from .. c3.to <=> i < keep
  <2>1. c3.from # 0
    BY <1>7, <1>8, <1>14
  <2>2. ASSUME NEW i \in Active, i < keep PROVE i \in c3.from .. c3.to
    <3>1. i \in sh
      BY <1>5, <2>2
    <3> QED BY <1>1, <1>6, <1>7, <1>8, <1>14, <3>1
  <2>3. ASSUME NEW i \in Active, i \in c3.from .. c3.to PROVE i < keep
    <3>1. Max(sh) < keep /\ Max(sh) \in 1 .. n /\ i <= Max(sh) /\ i \in 1 .. n
      BY <1>5, <1>6, <1>7, <1>8, <1>14, <2>3
    <3> QED BY <1>1, <1>6, <3>1
  <2> QED BY <2>1, <2>2, <2>3
<1>22. Coherent(N3) /\ CallsResolved(N3, Len(N3)) /\ N3 \in Seq(Event)
  <2>1. Grown(N2, c3, N3) /\ N3 \in Seq(Event)
    BY <1>13, <1>15, <1>17, AppendGrows
  <2>2. keep \in Shown(N2, Len(N2)) /\ ~PairedAt(N2, Len(N2), keep)
        /\ \A i \in Shown(N2, Len(N2)) : i \in c3.from .. c3.to <=> i < keep
    BY <1>3, <1>17, <1>19, <1>20, <1>21
  <2> QED BY <1>14, <1>17, <1>21, <2>1, <2>2, Summarised
<1>23. log \o C = N3 \o <<c4>>
  BY SMTT(30), <1>1, <1>12, <1>13, <1>15, <1>22, Stretches
<1>24. PICK N : N = N3 \o <<c4>>
  OBVIOUS
<1>25. Coherent(N) /\ CallsResolved(N, Len(N)) /\ N \in Seq(Event)
  BY <1>16, <1>22, <1>24, SpokenStretch
<1> QED BY <1>11, <1>23, <1>24, <1>25

-----------------------------------------------------------------------------
(* The steps of a session nobody disturbs.                                 *)

\* Where no call is open.
LEMMA AllAnswered ==
    ASSUME SessionInv, ContextInv, Undisturbed, todo = <<>>,
           pc \in {"idle", "requested", "stream", "repaired"}
    PROVE  /\ log \in Seq(Event) /\ Coherent(log) /\ CallsResolved(log, Len(log))
           /\ Plan = log
<1>1. Plan = log /\ log \in Seq(Event)
  BY PlanIsLog DEF SessionInv, Typed
<1>2. CallsResolved(log, Len(log))
  <2>1. CASE pc = "repaired"
    BY <1>1, <2>1 DEF SessionInv, Follows, NothingOpen
  <2>2. CASE pc # "repaired"
    BY <1>1, <2>2 DEF ContextInv
  <2> QED BY <2>1, <2>2
<1> QED BY <1>1, <1>2 DEF ContextInv

\* From there the code may append all but calls and results.
LEMMA SpokenKeeps ==
    ASSUME SessionInv, ContextInv, Undisturbed' => Undisturbed, todo = <<>>,
           pc \in {"idle", "requested", "stream", "repaired"},
           NEW A \in Seq(Spoken), todo' = A, log' = log, calls' = 0, pc' # "tool"
    PROVE  ContextInv'
<1> SUFFICES ASSUME Undisturbed'
             PROVE  Coherent(Plan') /\ CallsResolved(Plan', Len(Plan'))
  BY DEF ContextInv
<1>1. log \in Seq(Event) /\ Coherent(log) /\ CallsResolved(log, Len(log))
  BY AllAnswered
<1>2. Plan' = log \o A
  BY DEF Plan
<1>3. Coherent(log \o A) /\ CallsResolved(log \o A, Len(log \o A))
  BY <1>1, SpokenStretch
<1> QED BY <1>2, <1>3

\* The same after a compaction.
LEMMA CompactedKeeps ==
    ASSUME SessionInv, ContextInv, Undisturbed' => Undisturbed, todo = <<>>,
           pc \in {"requested", "stream"}, NEW keep \in Cuts,
           NEW A \in Seq(Spoken), todo' = Compaction(keep) \o A,
           log' = log, calls' = 0, pc' # "tool"
    PROVE  ContextInv'
<1> SUFFICES ASSUME Undisturbed'
             PROVE  Coherent(Plan') /\ CallsResolved(Plan', Len(Plan'))
  BY DEF ContextInv
<1>1. log \in Seq(Event) /\ Coherent(log) /\ CallsResolved(log, Len(log)) /\ Typed
  BY AllAnswered DEF SessionInv
<1>2. PICK C, N : C = Compaction(keep) /\ N = log \o C
  OBVIOUS
<1>3. Coherent(N) /\ CallsResolved(N, Len(N)) /\ N \in Seq(Event) /\ C \in Seq(Event)
  BY <1>1, <1>2, CompactionSpeaks, CompactionIs
<1>4. A \in Seq(Event)
  BY DEF Spoken
<1>5. Plan' = N \o A
  <2>1. log \o (C \o A) = (log \o C) \o A
    BY SMTT(30), <1>1, <1>3, <1>4, Later
  <2> QED BY <1>2, <2>1 DEF Plan
<1>6. Coherent(N \o A) /\ CallsResolved(N \o A, Len(N \o A))
  BY <1>3, SpokenStretch
<1> QED BY <1>5, <1>6

LEMMA BeginSpeaks ==
    ASSUME SessionInv, ContextInv, todo = <<>>, pc \in {"idle", "repaired"},
           NEW t \in Nat, Begin(t)
    PROVE  ContextInv'
<1>1. Typed /\ 1 \in Nat /\ "" \in Notes
  BY DEF SessionInv, Notes
<1>2. PICK e, f, A : /\ e = TurnEvent("user/message", t, "") /\ f = TurnEvent("turn/start", t, "")
                     /\ A = Opening(t, 1)
  OBVIOUS
<1>3. e \in Spoken /\ f \in Spoken /\ A \in Seq(Spoken)
  BY <1>1, <1>2, OwnSpoken
<1>4. <<e, f>> \o A \in Seq(Spoken)
  BY <1>3
<1>5. /\ todo' = <<e, f>> \o A /\ log' = log /\ calls' = 0 /\ pc' = "requested"
      /\ env' = env
  BY <1>2 DEF Begin, Then, ForgetAttempt
<1>6. Undisturbed' => Undisturbed
  BY <1>5 DEF Undisturbed, Delegates
<1> QED BY <1>4, <1>5, <1>6, SpokenKeeps

LEMMA UnwindSpeaks ==
    ASSUME SessionInv, ContextInv, todo = <<>>, pc \in {"requested", "stream"},
           NEW A \in Seq(Spoken), Unwind(A)
    PROVE  ContextInv'
<1>1. Typed /\ "error" \in Notes
  BY DEF SessionInv, Notes
<1>2. PICK e, f : e = StepEnd /\ f = TurnEnd("error")
  OBVIOUS
<1>3. e \in Spoken /\ f \in Spoken
  BY <1>1, <1>2, OwnSpoken
<1>4. A \o <<e, f>> \in Seq(Spoken)
  BY <1>3
<1>5. /\ todo' = A \o <<e, f>> /\ log' = log /\ calls' = 0 /\ pc' = "idle" /\ env' = env
  BY <1>2 DEF Unwind, Then, ForgetAttempt
<1>6. Undisturbed' => Undisturbed
  BY <1>5 DEF Undisturbed, Delegates
<1> QED BY <1>4, <1>5, <1>6, SpokenKeeps

LEMMA RequestSpeaks ==
    ASSUME SessionInv, ContextInv, Request
    PROVE  ContextInv'
<1>1. pc = "requested" /\ todo = <<>> /\ Typed /\ <<>> \in Seq(Spoken)
  BY DEF Request, At, SessionInv
<1>2. CASE Unwind(<<>>)
  BY <1>1, <1>2, UnwindSpeaks
<1>3. PICK e : e = AttemptStart(1) /\ <<e>> \in Seq(Spoken)
  <2>1. AttemptStart(1) \in Spoken
    BY <1>1, OwnSpoken
  <2> QED BY <2>1
<1>4. ASSUME NEW B, StartAttempt(B)
      PROVE  /\ todo' = B \o <<e>> /\ log' = log /\ calls' = 0 /\ pc' = "stream"
             /\ (Undisturbed' => Undisturbed)
  BY <1>3, <1>4 DEF StartAttempt, Then, ForgetAttempt, Undisturbed, Delegates
<1>5. CASE StartAttempt(<<>>)
  <2>1. <<>> \o <<e>> = <<e>>
    BY <1>3
  <2> QED BY <1>1, <1>3, <1>4, <1>5, <2>1, SpokenKeeps
<1>6. ASSUME NEW keep \in Cuts, StartAttempt(Compaction(keep)) PROVE ContextInv'
  BY <1>1, <1>3, <1>4, <1>6, CompactedKeeps
<1> QED BY <1>2, <1>5, <1>6 DEF Request

LEMMA FinalAnswerSpeaks ==
    ASSUME SessionInv, ContextInv, FinalAnswer
    PROVE  ContextInv'
<1>1. pc = "stream" /\ todo = <<>> /\ Typed /\ "SUCCEEDED" \in Notes /\ "completed" \in Notes
  BY DEF FinalAnswer, At, SessionInv, Notes
<1>2. PICK e, f, g, h : /\ e = StepEvent("assistant/message", cur.turn, cur.step)
                        /\ f = AttemptEnd("SUCCEEDED") /\ g = StepEnd /\ h = TurnEnd("completed")
  OBVIOUS
<1>3. e \in Spoken /\ f \in Spoken /\ g \in Spoken /\ h \in Spoken
  BY <1>1, <1>2, OwnSpoken
<1>4. <<e, f, g, h>> \in Seq(Spoken)
  BY <1>3
<1>5. /\ todo' = <<e, f, g, h>> /\ log' = log /\ calls' = 0 /\ pc' = "idle" /\ env' = env
  BY <1>2 DEF FinalAnswer, Then, ForgetAttempt
<1>6. Undisturbed' => Undisturbed
  BY <1>5 DEF Undisturbed, Delegates
<1> QED BY <1>1, <1>4, <1>5, <1>6, SpokenKeeps

LEMMA StreamEndsSpeaks ==
    ASSUME SessionInv, ContextInv, StreamEnds
    PROVE  ContextInv'
<1>1. /\ pc = "stream" /\ todo = <<>> /\ Typed /\ "SUCCEEDED" \in Notes /\ "completed" \in Notes
      /\ "context" \in Notes /\ cur.turn \in Nat /\ cur.step \in Nat /\ contexts \in Nat
  BY CurIs DEF StreamEnds, At, SessionInv, Notes, Typed
<1>2. PICK e, f, g : /\ e = AttemptEnd("SUCCEEDED") /\ f = StepEnd /\ g = TurnEnd("completed")
  OBVIOUS
<1>3. PICK extra, O : /\ extra = [i \in 1 .. contexts |-> TurnEvent("user/message", cur.turn, "context")]
                      /\ O = Opening(cur.turn, cur.step + 1)
  OBVIOUS
<1>4. e \in Spoken /\ f \in Spoken /\ g \in Spoken /\ O \in Seq(Spoken)
  <2>1. e \in Spoken /\ f \in Spoken /\ g \in Spoken
    BY <1>1, <1>2, OwnSpoken
  <2>2. cur.step + 1 \in Nat
    BY <1>1
  <2>3. O \in Seq(Spoken)
    BY <1>1, <1>3, <2>2, OwnSpoken
  <2> QED BY <2>1, <2>3
<1>5. extra \in Seq(Spoken)
  <2>1. PICK h \in Spoken : h = TurnEvent("user/message", cur.turn, "context")
    BY <1>1, OwnSpoken
  <2>2. extra = [i \in 1 .. contexts |-> h]
    BY <1>3, <2>1
  <2> QED BY <1>1, <2>2
<1>6. /\ log' = log /\ calls' = 0 /\ pc' \in {"idle", "requested"} /\ env' = env
      /\ todo' = <<e, f>> \o <<g>> \/ todo' = <<e, f>> \o extra \o O
  BY <1>2, <1>3 DEF StreamEnds, Then, ForgetAttempt
<1>7. <<e, f>> \o <<g>> \in Seq(Spoken) /\ <<e, f>> \o extra \o O \in Seq(Spoken)
  BY <1>4, <1>5
<1>8. Undisturbed' => Undisturbed
  BY <1>6 DEF Undisturbed, Delegates
<1>9. PICK A \in Seq(Spoken) : todo' = A
  BY <1>6, <1>7
<1> QED BY <1>1, <1>6, <1>8, <1>9, SpokenKeeps

LEMMA ModelErrorSpeaks ==
    ASSUME SessionInv, ContextInv, ModelError
    PROVE  ContextInv'
<1>1. /\ pc = "stream" /\ todo = <<>> /\ Typed /\ "FAILED" \in Notes /\ "ABORTED" \in Notes
      /\ cur.att \in Nat
  BY CurIs DEF ModelError, At, SessionInv, Notes
<1>2. ASSUME NEW status \in {"FAILED", "ABORTED"}, GiveUp(status) PROVE ContextInv'
  <2>1. PICK e \in Spoken : e = AttemptEnd(status)
    BY <1>1, <1>2, OwnSpoken
  <2>2. <<e>> \in Seq(Spoken) /\ Unwind(<<e>>)
    BY <1>2, <2>1 DEF GiveUp
  <2> QED BY <1>1, <2>2, UnwindSpeaks
<1>3. CASE OverflowRetry
  <2>1. PICK e, f : e = AttemptEnd("FAILED") /\ f = AttemptStart(cur.att + 1)
    OBVIOUS
  <2>2. e \in Spoken /\ f \in Spoken
    BY <1>1, <2>1, OwnSpoken
  <2>3. PICK keep \in Cuts : keep = Max(Cuts)
    <3>1. log \in Seq(Event) /\ Len(log) \in Nat /\ Cuts \in SUBSET (1 .. Len(log))
      BY <1>1 DEF Typed, Cuts, UnitHeads, Active, ActiveUpTo
    <3>2. Cuts # {}
      BY <1>3 DEF OverflowRetry
    <3> QED BY <3>1, <3>2, MaxIsGreatest
  <2>4. /\ todo' = Compaction(keep) \o <<e, f>> /\ log' = log /\ calls' = 0 /\ pc' = "stream"
        /\ env' = env
    BY <1>3, <2>1, <2>3 DEF OverflowRetry, Then, ForgetAttempt
  <2>5. Undisturbed' => Undisturbed
    BY <2>4 DEF Undisturbed, Delegates
  <2>6. <<e, f>> \in Seq(Spoken)
    BY <2>2
  <2> QED BY <1>1, <2>4, <2>5, <2>6, CompactedKeeps
<1> QED BY <1>2, <1>3 DEF ModelError

LEMMA RebuildSpeaks ==
    ASSUME SessionInv, ContextInv, Rebuild
    PROVE  ContextInv'
<1>1. pc = "repaired" /\ todo = <<>> /\ calls = 0 /\ <<>> \in Seq(Spoken)
  BY DEF Rebuild, At, SessionInv, Control
<1>2. CASE Begin(Cardinality(Of("turn/start")) + 1)
  <2>1. Of("turn/start") = TurnStarts(log, Len(log)) /\ Len(log) \in Nat
    BY DEF SessionInv, Typed, Of, TurnStarts
  <2>2. Cardinality(Of("turn/start")) \in Nat
    BY <2>1, TurnStartsFinite DEF TurnCount
  <2> QED BY <1>1, <1>2, <2>2, BeginSpeaks
<1>3. CASE pc' = "failed" /\ UNCHANGED <<log, torn, todo, turns, cur, calls, next, concl, contexts, env>>
  <2>1. Undisturbed' => Undisturbed
    BY <1>3 DEF Undisturbed, Delegates
  <2> QED BY <1>1, <1>3, <2>1, SpokenKeeps
<1> QED BY <1>2, <1>3 DEF Rebuild

\* A message that calls tools leads from then on.
LEMMA FinalCallsSpeaks ==
    ASSUME SessionInv, ContextInv, FinalCalls
    PROVE  ContextInv'
<1>1. pc = "stream" /\ todo = <<>> /\ Typed /\ cur.turn \in Nat /\ cur.step \in Nat
  BY CurIs DEF FinalCalls, At, SessionInv
<1>a. PICK n \in 1 .. MaxCalls :
         /\ todo' = <<[StepEvent("assistant/message", cur.turn, cur.step) EXCEPT !.calls = n]>>
         /\ calls' = n
  BY DEF FinalCalls, Then
<1>2. PICK e :
         /\ e = [StepEvent("assistant/message", cur.turn, cur.step) EXCEPT !.calls = n]
         /\ todo' = <<e>> /\ calls' = n
  BY <1>a
<1>3. pc' = "stream" /\ log' = log /\ env' = env /\ cur' = cur
  BY DEF FinalCalls, Then
<1> SUFFICES ASSUME Undisturbed'
             PROVE  /\ Coherent(Plan') /\ CallsResolved(Plan', Len(Plan'))
                    /\ Asked(Plan', cur, n)
  BY <1>2, <1>3 DEF ContextInv
<1>4. Undisturbed
  BY <1>3 DEF Undisturbed, Delegates
<1>5. log \in Seq(Event) /\ Coherent(log) /\ CallsResolved(log, Len(log))
  BY <1>1, <1>4, AllAnswered
<1>6. n \in Nat
  OBVIOUS
<1>7. PICK d \in Spoken : /\ d = StepEvent("assistant/message", cur.turn, cur.step)
                          /\ d.type = "assistant/message" /\ OneStep(d, cur)
  BY <1>1, OwnSpoken DEF StepEvent, Blank, OneStep
<1>8. e = [d EXCEPT !.calls = n]
  BY <1>2, <1>7
<1>9. e \in Spoken /\ e.type = "assistant/message" /\ OneStep(e, cur) /\ e.calls = n
  BY <1>6, <1>7, <1>8 DEF Spoken, Event, OneStep
<1>10. PICK M : M = log \o <<e>>
  OBVIOUS
<1>11. Plan' = M
  BY <1>2, <1>3, <1>10 DEF Plan
<1>12. <<e>> \in Seq(Spoken)
  BY <1>9
<1>13. Coherent(M) /\ CallsResolved(M, Len(M))
  BY <1>5, <1>10, <1>12, SpokenStretch
<1>14. PICK N \in Nat : N = Len(M) /\ N # 0 /\ M[N] = e
  BY <1>5, <1>9, <1>10
<1>15. N \in Shown(M, N) /\ \A i \in Shown(M, N) : ~(N < i)
  BY <1>9, <1>14 DEF Shown, SurfaceType
<1>16. Leads(M, N, N) /\ N \in 1 .. N
  BY <1>9, <1>14, <1>15 DEF Leads
<1>17. Asked(M, cur, n)
  BY <1>9, <1>14, <1>16 DEF Asked
<1> QED BY <1>11, <1>13, <1>17

\* While calls are dispatched, the message leads that makes them.
LEMMA Dispatched ==
    ASSUME SessionInv, ContextInv, Undisturbed, todo = <<>>, pc \in {"stream", "tool"},
           next <= calls
    PROVE  /\ Plan = log /\ log \in Seq(Event) /\ Coherent(log) /\ Asked(log, cur, calls)
           /\ \A e : OneStep(e, cur) /\ e.call = next => Expected(log, Len(log), e)
<1>1. Plan = log /\ log \in Seq(Event)
  BY PlanIsLog DEF SessionInv, Typed
<1>2. next \in 1 .. calls /\ calls # 0
  BY DEF SessionInv, Control, Typed
<1>3. Coherent(log) /\ Asked(log, cur, calls)
  BY <1>1, <1>2 DEF ContextInv
<1>4. PICK m \in 1 .. Len(log) :
         Leads(log, Len(log), m) /\ OneStep(log[m], cur) /\ log[m].calls = calls
  BY <1>3 DEF Asked
<1>5. ASSUME NEW e, OneStep(e, cur), e.call = next
      PROVE  Expected(log, Len(log), e)
  <2>1. Lists(log[m], e)
    BY <1>2, <1>4, <1>5 DEF Lists, Leads, OneStep
  <2> QED BY <1>4, <2>1 DEF Expected
<1> QED BY <1>1, <1>3, <1>5

LEMMA AskedKeeps ==
    ASSUME NEW L, NEW M, NEW c, NEW k, Asked(L, c, k), Len(L) \in Nat, Len(M) \in Nat,
           Len(L) <= Len(M), \A i \in 1 .. Len(L) : M[i] = L[i],
           \A m : Leads(L, Len(L), m) => Leads(M, Len(M), m)
    PROVE  Asked(M, c, k)
<1>1. PICK m \in 1 .. Len(L) : Leads(L, Len(L), m) /\ OneStep(L[m], c) /\ L[m].calls = k
  BY DEF Asked
<1>2. m \in 1 .. Len(M) /\ M[m] = L[m]
  OBVIOUS
<1> QED BY <1>1, <1>2 DEF Asked

LEMMA ToolCalledSpeaks ==
    ASSUME SessionInv, ContextInv, ToolCalled
    PROVE  ContextInv'
<1>1. pc = "stream" /\ todo = <<>> /\ pc \in Busy /\ next <= calls
  BY DEF ToolCalled, At, Busy
<1>2. /\ cur' = cur /\ calls' = calls /\ env' = env /\ log' = log /\ pc' \in {"stream", "tool"}
  BY DEF ToolCalled, Then
<1>3. (Undisturbed' => Undisturbed) /\ (Undisturbed => Delegates)
  BY <1>2 DEF Undisturbed, Delegates
<1> SUFFICES ASSUME Undisturbed
             PROVE  /\ Coherent(Plan') /\ Asked(Plan', cur, calls)
                    /\ pc' = "stream" => CallsResolved(Plan', Len(Plan'))
                    /\ pc' = "tool" => \A i \in 1 .. Len(Plan') - 1 :
                           Plan'[i].type = "tool/call" => HasResult(Plan', Len(Plan'), i)
  BY <1>2, <1>3 DEF ContextInv
<1>4. /\ log \in Seq(Event) /\ Len(log) \in Nat /\ cur.turn <= MaxTurns /\ cur.step <= MaxSteps
      /\ Typed
  BY <1>1, InTheTurn DEF SessionInv
<1>5. next <= MaxCalls
  BY <1>1, Dispatching
<1>6. /\ Coherent(log) /\ Asked(log, cur, calls)
      /\ \A e : OneStep(e, cur) /\ e.call = next => Expected(log, Len(log), e)
  BY <1>1, Dispatched
<1>7. CallsResolved(log, Len(log))
  BY <1>1, AllAnswered
<1>8. PICK e : e = CallEvent(next)
  OBVIOUS
<1>9. e \in Event /\ e.type = "tool/call" /\ OneStep(e, cur) /\ e.call = next /\ e.from = 0
  <2>1. e.from = 0
    BY <1>8 DEF CallEvent, StepEvent, Blank
  <2> QED BY <1>4, <1>5, <1>8, <2>1, CallIs
<1>10. Expected(log, Len(log), e)
  BY <1>6, <1>9
<1>11. CASE todo' = <<e>> /\ pc' = "tool"
  <2>1. PICK M : M = Append(log, e)
    OBVIOUS
  <2>2. Plan' = M
    BY <1>2, <1>4, <1>9, <1>11, <2>1, Stretches DEF Plan
  <2>3. /\ Len(M) \in Nat /\ Len(M) = Len(log) + 1 /\ Len(log) <= Len(M)
        /\ \A i \in 1 .. Len(log) : M[i] = log[i]
        /\ \A j \in Len(log) + 1 .. Len(M) : M[j] = e
    BY <1>4, <1>9, <2>1
  <2>4. Coherent(M) /\ \A m : Leads(log, Len(log), m) => Leads(M, Len(M), m)
    BY <1>4, <1>6, <1>9, <1>10, <2>3, Continues
  <2>5. Asked(M, cur, calls)
    BY <1>4, <1>6, <2>3, <2>4, AskedKeeps
  <2>6. ASSUME NEW i \in 1 .. Len(M) - 1, M[i].type = "tool/call"
        PROVE  HasResult(M, Len(M), i)
    <3>1. i \in 1 .. Len(log) /\ log[i] = M[i]
      BY <1>4, <2>3
    <3>2. PICK r \in 1 .. Len(log) :
             log[r].type = "tool/result" /\ i \in log[r].src /\ OneCall(log[i], log[r])
      BY <1>7, <2>6, <3>1 DEF CallsResolved, HasResult
    <3>3. r \in 1 .. Len(M) /\ M[r] = log[r]
      BY <1>4, <2>3
    <3> QED BY <3>1, <3>2, <3>3 DEF HasResult
  <2> QED BY <1>11, <2>2, <2>4, <2>5, <2>6
<1>12. CASE pc' = "stream" /\ todo' = <<e>> \o <<ResultEvent(next, Len(log) + 1, "error")>>
  <2>1. PICK q \in Nat \ {0} : q = Len(log) + 1
    BY <1>4
  <2>2. PICK f : f = ResultEvent(next, q, "error")
    OBVIOUS
  <2>3. "error" \in Notes
    BY DEF Notes
  <2>4. /\ f \in Event /\ f.type = "tool/result" /\ OneStep(f, cur) /\ f.call = next
        /\ f.from = 0 /\ f.src = {q}
    BY <1>4, <1>5, <2>2, <2>3, ResultIs
  <2>5. PICK M : M = Append(Append(log, e), f)
    OBVIOUS
  <2>6. Plan' = M
    <3>1. /\ <<e>> \in Seq(Event) /\ <<f>> \in Seq(Event) /\ Append(log, e) \in Seq(Event)
          /\ log \o <<e>> = Append(log, e)
      BY <1>4, <1>9, <2>4, Stretches
    <3>2. Append(log, e) \o <<f>> = M
      BY <2>4, <2>5, <3>1, Stretches
    <3>3. log \o (<<e>> \o <<f>>) = M
      <4>1. log \o (<<e>> \o <<f>>) = (log \o <<e>>) \o <<f>>
        BY <1>4, <3>1, Later
      <4> QED BY <3>1, <3>2, <4>1
    <3>4. todo' = <<e>> \o <<f>>
      BY <1>12, <2>1, <2>2
    <3> QED BY <1>2, <3>3, <3>4 DEF Plan
  <2>7. /\ Len(M) \in Nat /\ Len(M) = q + 1 /\ Len(log) <= Len(M)
        /\ \A i \in 1 .. Len(log) : M[i] = log[i]
        /\ M[q] = e /\ M[q + 1] = f
    BY <1>4, <1>9, <2>1, <2>4, <2>5
  <2>8. \A j \in Len(log) + 1 .. Len(M) : j = q \/ j = q + 1
    BY <1>4, <2>1, <2>7
  <2>9. Expected(log, Len(log), f)
    BY <1>6, <2>4
  <2>10. Coherent(M) /\ \A m : Leads(log, Len(log), m) => Leads(M, Len(M), m)
    <3>1. \A j \in Len(log) + 1 .. Len(M) :
             /\ M[j].type \notin {"user/message", "assistant/message"}
             /\ M[j].type \in {"tool/call", "tool/result"} =>
                    M[j].from = 0 /\ Expected(log, Len(log), M[j])
      BY <1>9, <1>10, <2>4, <2>7, <2>8, <2>9
    <3> QED BY <1>4, <1>6, <2>7, <3>1, Continues
  <2>11. Asked(M, cur, calls)
    BY <1>4, <1>6, <2>7, <2>10, AskedKeeps
  <2>12. ASSUME NEW i \in 1 .. Len(M), M[i].type = "tool/call"
         PROVE  HasResult(M, Len(M), i)
    <3>1. CASE i \in 1 .. Len(log)
      <4>1. log[i] = M[i]
        BY <2>7, <3>1
      <4>2. PICK r \in 1 .. Len(log) :
               log[r].type = "tool/result" /\ i \in log[r].src /\ OneCall(log[i], log[r])
        BY <1>7, <2>12, <3>1, <4>1 DEF CallsResolved, HasResult
      <4>3. r \in 1 .. Len(M) /\ M[r] = log[r]
        BY <1>4, <2>7
      <4> QED BY <4>1, <4>2, <4>3 DEF HasResult
    <3>2. CASE i \notin 1 .. Len(log)
      <4>1. i = q \/ i = q + 1
        BY <1>4, <2>8, <3>2
      <4>2. i = q /\ q + 1 \in 1 .. Len(M)
        BY <2>1, <2>4, <2>7, <2>12, <4>1
      <4>3. OneCall(e, f)
        BY <1>9, <2>4 DEF OneCall, OneStep
      <4> QED BY <2>4, <2>7, <4>2, <4>3 DEF HasResult
    <3> QED BY <3>1, <3>2
  <2> QED BY <1>12, <2>6, <2>10, <2>11, <2>12 DEF CallsResolved
<1>13. \/ todo' = <<e>> /\ pc' = "tool"
       \/ pc' = "stream" /\ todo' = <<e>> \o <<ResultEvent(next, Len(log) + 1, "error")>>
  BY <1>3, <1>8 DEF ToolCalled, Then
<1> QED BY <1>11, <1>12, <1>13

LEMMA ResultSpeaks ==
    ASSUME SessionInv, ContextInv, pc = "tool", todo = <<>>, NEW note \in Notes,
           Then(<<ResultEvent(next, Len(log), note)>>, "stream"),
           cur' = cur, calls' = calls
    PROVE  ContextInv'
<1>1. pc \in Busy /\ next <= calls
  BY DEF SessionInv, Control, Busy
<1>2. pc' = "stream" /\ env' = env /\ log' = log /\ todo' = <<ResultEvent(next, Len(log), note)>>
  BY DEF Then
<1>3. Undisturbed' => Undisturbed
  BY <1>2 DEF Undisturbed, Delegates
<1> SUFFICES ASSUME Undisturbed
             PROVE  /\ Coherent(Plan') /\ Asked(Plan', cur, calls)
                    /\ CallsResolved(Plan', Len(Plan'))
  BY <1>2, <1>3 DEF ContextInv
<1>4. /\ log \in Seq(Event) /\ Len(log) \in Nat /\ cur.turn <= MaxTurns /\ cur.step <= MaxSteps
      /\ Typed /\ Calling(log, cur, next, env.setup) /\ Plan = log
  BY <1>1, InTheTurn DEF SessionInv
<1>5. next <= MaxCalls
  BY <1>1, Dispatching
<1>6. /\ Coherent(log) /\ Asked(log, cur, calls)
      /\ \A e : OneStep(e, cur) /\ e.call = next => Expected(log, Len(log), e)
  BY <1>1, Dispatched
<1>7. \A i \in 1 .. Len(log) - 1 : log[i].type = "tool/call" => HasResult(log, Len(log), i)
  BY <1>4 DEF ContextInv
<1>8. PICK q \in Nat \ {0} : q = Len(log)
  BY <1>4 DEF Calling
<1>9. PICK f : f = ResultEvent(next, q, note)
  OBVIOUS
<1>10. /\ f \in Event /\ f.type = "tool/result" /\ OneStep(f, cur) /\ f.call = next
       /\ f.from = 0 /\ f.src = {q}
  BY <1>4, <1>5, <1>9, ResultIs
<1>11. PICK M : M = Append(log, f)
  OBVIOUS
<1>12. Plan' = M
  BY <1>2, <1>4, <1>8, <1>9, <1>10, <1>11, Stretches DEF Plan
<1>13. /\ Len(M) \in Nat /\ Len(M) = Len(log) + 1 /\ Len(log) <= Len(M)
       /\ \A i \in 1 .. Len(log) : M[i] = log[i]
       /\ M[q + 1] = f /\ q + 1 \in 1 .. Len(M) /\ q \in 1 .. Len(log)
       /\ \A j \in Len(log) + 1 .. Len(M) : j = q + 1
  BY <1>4, <1>8, <1>10, <1>11
<1>14. Expected(log, Len(log), f)
  BY <1>6, <1>10
<1>15. Coherent(M) /\ \A m : Leads(log, Len(log), m) => Leads(M, Len(M), m)
  <2>1. \A j \in Len(log) + 1 .. Len(M) :
           /\ M[j].type \notin {"user/message", "assistant/message"}
           /\ M[j].type \in {"tool/call", "tool/result"} =>
                  M[j].from = 0 /\ Expected(log, Len(log), M[j])
    BY <1>10, <1>13, <1>14
  <2> QED BY <1>4, <1>6, <1>13, <2>1, Continues
<1>16. Asked(M, cur, calls)
  BY <1>4, <1>6, <1>13, <1>15, AskedKeeps
<1>17. ASSUME NEW i \in 1 .. Len(M), M[i].type = "tool/call"
       PROVE  HasResult(M, Len(M), i)
  <2>1. i # q + 1
    BY <1>10, <1>13, <1>17
  <2>2. i = q \/ i \in 1 .. Len(log) - 1
    BY <1>8, <1>13, <2>1
  <2>3. CASE i \in 1 .. Len(log) - 1
    <3>1. log[i] = M[i]
      BY <1>4, <1>13, <2>3
    <3>2. PICK r \in 1 .. Len(log) :
             log[r].type = "tool/result" /\ i \in log[r].src /\ OneCall(log[i], log[r])
      BY <1>7, <1>17, <2>3, <3>1 DEF HasResult
    <3>3. r \in 1 .. Len(M) /\ M[r] = log[r]
      BY <1>4, <1>13
    <3> QED BY <3>1, <3>2, <3>3 DEF HasResult
  <2>4. CASE i = q
    <3>1. M[i] = log[q] /\ OneStep(log[q], cur) /\ log[q].call = next
      BY <1>4, <1>8, <1>13, <2>4 DEF Calling
    <3>2. OneCall(M[i], f)
      BY <1>10, <3>1 DEF OneCall, OneStep
    <3> QED BY <1>10, <1>13, <2>4, <3>2 DEF HasResult
  <2> QED BY <2>2, <2>3, <2>4
<1> QED BY <1>12, <1>15, <1>16, <1>17 DEF CallsResolved

LEMMA ToolReturnsSpeaks ==
    ASSUME SessionInv, ContextInv, ToolReturns
    PROVE  ContextInv'
<1>1. PICK kind \in {"ok", "concludes", "context", "error"} :
         Then(<<ResultEvent(next, Len(log), kind)>>, "stream")
  BY DEF ToolReturns
<1>2. kind \in Notes
  BY DEF Notes
<1>3. pc = "tool" /\ todo = <<>> /\ cur' = cur /\ calls' = calls
  BY DEF ToolReturns, At
<1> QED BY <1>1, <1>2, <1>3, ResultSpeaks

LEMMA CallbackRaisesSpeaks ==
    ASSUME SessionInv, ContextInv, CallbackRaises
    PROVE  ContextInv'
<1>1. pc = "tool" /\ todo = <<>> /\ "error" \in Notes
  BY DEF CallbackRaises, At, Notes
<1>2. CASE Delegates
  <2>1. Then(<<ResultEvent(next, Len(log), "error")>>, "stream") /\ cur' = cur /\ calls' = calls
    BY <1>2 DEF CallbackRaises
  <2> QED BY <1>1, <2>1, ResultSpeaks
<1>3. CASE ~Delegates
  <2>1. env' = env
    BY <1>3 DEF CallbackRaises, Unwind, Then
  <2> QED BY <1>3, <2>1 DEF ContextInv, Undisturbed, Delegates
<1> QED BY <1>2, <1>3

\* Recovery answers the calls it finds open, which are calls of the message
\* that leads.
LEMMA RepairSpeaks ==
    ASSUME SessionInv, ContextInv, Repair
    PROVE  ContextInv'
<1>1. /\ pc \in {"opened", "idle"} /\ todo = <<>> /\ calls = 0
      /\ pc' = "repaired" /\ log' = log /\ calls' = calls /\ env' = env
  BY DEF Repair, At, SessionInv, Control
<1>2. Undisturbed' => Undisturbed
  BY <1>1 DEF Undisturbed, Delegates
<1> SUFFICES ASSUME Undisturbed
             PROVE  Coherent(Plan')
  BY <1>1, <1>2 DEF ContextInv
<1>3. PICK M, f : M = log \o todo' /\ ClosesAll(log, M, f) /\ M \in Seq(Event)
  BY RepairIs
<1>4. Plan' = M
  BY <1>1, <1>3 DEF Plan
<1>5. Plan = log /\ Coherent(log)
  BY <1>1, PlanIsLog DEF SessionInv, ContextInv
<1>6. PICK N \in Nat : N = Len(log)
  BY <1>3 DEF ClosesAll
<1>7. /\ Len(M) \in Nat /\ N <= Len(M) /\ (\A i \in 1 .. N : M[i] = log[i])
      /\ \A j \in N + 1 .. Len(M) : f[j] \in 1 .. N /\ Closes(log, f[j], M[j])
  BY <1>3, <1>6 DEF ClosesAll
<1>8. Grouped(log, N)
  BY <1>5, <1>6 DEF Coherent
<1>9. ASSUME NEW j \in N + 1 .. Len(M)
      PROVE  /\ M[j].type \notin {"user/message", "assistant/message"}
             /\ M[j].type \in {"tool/call", "tool/result"} =>
                    M[j].from = 0 /\ Expected(log, N, M[j])
  <2>1. PICK i \in 1 .. N : Closes(log, i, M[j])
    BY <1>7
  <2>2. M[j].type \in CloserTypes
    BY <2>1 DEF Closes, CloserTypes
  <2>3. ASSUME M[j].type = "tool/result"
        PROVE  M[j].from = 0 /\ Expected(log, N, M[j])
    <3>1. /\ log[i].type = "tool/call" /\ ~HasResult(log, N, i) /\ OneStep(M[j], log[i])
          /\ M[j].call = log[i].call /\ M[j].from = log[i].from
      BY <1>6, <2>1, <2>3 DEF Closes, OneStep
    <3>2. log[i].from = 0 /\ Expected(log, N, log[i])
      BY <1>8, <3>1 DEF Grouped
    <3>3. PICK m \in 1 .. N : Leads(log, N, m) /\ Lists(log[m], log[i])
      BY <3>2 DEF Expected
    <3>4. Lists(log[m], M[j])
      BY <3>1, <3>3 DEF Lists, OneStep
    <3> QED BY <3>1, <3>2, <3>3, <3>4 DEF Expected
  <2> QED BY <2>2, <2>3 DEF CloserTypes
<1>10. Coherent(M)
  BY <1>5, <1>6, <1>7, <1>9, Continues
<1> QED BY <1>4, <1>10

\* A crash leaves the log, which is a prefix of the plan.
LEMMA CrashSpeaks ==
    ASSUME SessionInv, ContextInv, Crash
    PROVE  ContextInv'
<1>1. log' = log /\ todo' = <<>> /\ pc' = "dead" /\ calls' = 0
      /\ env' = [env EXCEPT !.crashes = @ + 1] /\ Typed
  BY DEF Crash, ForgetAttempt, SessionInv
<1>2. log \in Seq(Event) /\ todo \in Seq(Event) /\ env \in EnvType
  BY <1>1 DEF Typed
<1>3. env'.setup = env.setup /\ env'.cancels = env.cancels /\ env'.prunes = env.prunes
  BY <1>1, <1>2 DEF EnvType
<1>4. Undisturbed' => Undisturbed
  BY <1>3 DEF Undisturbed, Delegates
<1> SUFFICES ASSUME Undisturbed
             PROVE  Coherent(Plan')
  BY <1>1, <1>4 DEF ContextInv
<1>5. Plan' = log
  BY <1>1, <1>2 DEF Plan
<1>6. Coherent(Plan)
  BY DEF ContextInv
<1>7. /\ Len(log) \in Nat /\ Len(Plan) \in Nat /\ Len(log) <= Len(Plan)
      /\ \A i \in 1 .. Len(log) : log[i] = Plan[i]
  BY <1>2, ConcatProperties DEF Plan
<1>8. ASSUME NEW n \in 0 .. Len(log) PROVE Grouped(log, n)
  <2>1. n \in Nat /\ n \in 0 .. Len(Plan) /\ \A i \in 1 .. n : log[i] = Plan[i]
    BY <1>7
  <2> QED BY <1>6, <2>1, ShownAgrees DEF Coherent
<1> QED BY <1>5, <1>8 DEF Coherent

LEMMA ContextRests ==
    ASSUME ContextInv, Plan' = Plan, calls' = calls, cur' = cur, env' = env,
           pc' = pc \/ pc' = "opened"
    PROVE  ContextInv'
<1>1. Undisturbed' => Undisturbed
  BY DEF Undisturbed, Delegates
<1> QED BY <1>1 DEF ContextInv

LEMMA WriteSpeaks ==
    ASSUME SessionInv, ContextInv, Write
    PROVE  ContextInv'
<1>1. todo # <<>> /\ log' = Append(log, Head(todo)) /\ todo' = Tail(todo)
      /\ calls' = calls /\ cur' = cur /\ env' = env /\ pc' = pc
  BY DEF Write
<1>2. log \in Seq(Event) /\ todo \in Seq(Event)
  BY DEF SessionInv, Typed
<1>3. Plan' = Plan
  BY <1>1, <1>2 DEF Plan
<1> QED BY <1>1, <1>3, ContextRests

LEMMA DisturbedSpeaks ==
    ASSUME SessionInv, Cancel \/ Prune
    PROVE  ContextInv'
<1>1. env \in EnvType /\ env.cancels \in Nat /\ env.prunes \in Nat
  BY DEF SessionInv, Typed, EnvType
<1>2. env'.cancels = env.cancels + 1 \/ env'.prunes = env.prunes + 1
  BY <1>1 DEF Cancel, Prune, EnvType
<1>3. env'.cancels # 0 \/ env'.prunes # 0
  BY <1>1, <1>2
<1> QED BY <1>3 DEF ContextInv, Undisturbed

-----------------------------------------------------------------------------
(* What the model is shown is coherent.                                    *)

LEMMA ContextInit ==
    ASSUME Init
    PROVE  ContextInv
<1>1. Plan = <<>> /\ Len(Plan) = 0 /\ calls = 0 /\ pc = "idle"
  BY DEF Init, Plan
<1>2. Shown(Plan, 0) = {} /\ 1 .. 0 = {}
  BY DEF Shown
<1>3. Grouped(Plan, 0)
  BY <1>2 DEF Grouped
<1> QED BY <1>1, <1>2, <1>3 DEF ContextInv, Coherent, CallsResolved

\* In a session whose backend runs the tools, and which nobody cancels or
\* prunes, every prefix of the log shows each result with the message that made
\* its call, and a call without a result is one of the last message's.
THEOREM ContextInvariant == Spec => []ContextInv
<1>1. Init => ContextInv
  BY ContextInit
<1>2. SessionInv /\ ContextInv /\ [Next]_vars => ContextInv'
  <2> SUFFICES ASSUME SessionInv, ContextInv, [Next]_vars
               PROVE  ContextInv'
    OBVIOUS
  <2>1. CASE Write
    BY <2>1, WriteSpeaks
  <2>2. CASE Request
    BY <2>2, RequestSpeaks
  <2>3. CASE FinalAnswer
    BY <2>3, FinalAnswerSpeaks
  <2>4. CASE FinalCalls
    BY <2>4, FinalCallsSpeaks
  <2>5. CASE ToolCalled
    BY <2>5, ToolCalledSpeaks
  <2>6. CASE ToolReturns
    BY <2>6, ToolReturnsSpeaks
  <2>7. CASE CallbackRaises
    BY <2>7, CallbackRaisesSpeaks
  <2>8. CASE StreamEnds
    BY <2>8, StreamEndsSpeaks
  <2>9. CASE ModelError
    BY <2>9, ModelErrorSpeaks
  <2>10. CASE Rebuild
    BY <2>10, RebuildSpeaks
  <2>11. CASE RunTurn
    <3>1. pc = "idle" /\ todo = <<>> /\ turns + 1 \in Nat /\ Begin(turns + 1)
      BY <2>11 DEF RunTurn, At, SessionInv, Typed
    <3> QED BY <3>1, BeginSpeaks
  <2>12. CASE EngineBack
    <3>1. UNCHANGED <<log, todo, pc, cur, calls, env>>
      BY <2>12 DEF EngineBack
    <3> QED BY <3>1, ContextRests DEF Plan
  <2>13. CASE Cancel \/ Prune
    BY <2>13, DisturbedSpeaks
  <2>14. CASE Crash
    BY <2>14, CrashSpeaks
  <2>15. CASE Reopen
    <3>1. UNCHANGED <<log, todo, cur, calls, env>> /\ pc' = "opened"
      BY <2>15 DEF Reopen
    <3> QED BY <3>1, ContextRests DEF Plan
  <2>16. CASE Repair
    BY <2>16, RepairSpeaks
  <2>17. CASE Rest \/ UNCHANGED vars
    <3>1. UNCHANGED <<log, todo, pc, cur, calls, env>>
      BY <2>17 DEF Rest, vars
    <3> QED BY <3>1, ContextRests DEF Plan
  <2> QED BY <2>1, <2>2, <2>3, <2>4, <2>5, <2>6, <2>7, <2>8, <2>9, <2>10, <2>11, <2>12,
             <2>13, <2>14, <2>15, <2>16, <2>17 DEF Next, Program
<1> QED BY <1>1, <1>2, Invariant, PTL DEF Spec

\* Whenever the model is asked, every tool result it is shown stands with the
\* assistant message that made the call, after any crashes, repairs and
\* compactions of a session whose backend runs the tools and in which nothing
\* was cancelled or pruned.
THEOREM ContextStaysPaired == Spec => []ContextPaired
<1>1. SessionInv /\ ContextInv => ContextPaired
  <2> SUFFICES ASSUME SessionInv, ContextInv, At("stream"), Undisturbed,
                      NEW r \in Active, log[r].type = "tool/result"
               PROVE  Paired(r) /\ \E m \in Active : m < r /\ ListedBy(r, m)
    BY DEF ContextPaired, Undisturbed
  <2>1. Plan = log /\ log \in Seq(Event) /\ Len(log) \in Nat
    BY PlanIsLog DEF At, SessionInv, Typed
  <2>2. Active = Shown(log, Len(log))
    BY <2>1 DEF Active, ActiveUpTo, Shown, OnSurface, Replaces, Covers
  <2>3. Grouped(log, Len(log))
    BY <2>1 DEF ContextInv, Coherent
  <2>4. PICK m \in 1 .. Len(log) : Heads(log, Len(log), m, r)
    BY <2>2, <2>3 DEF Grouped, PairedAt
  <2>5. \A i \in Active : Answers(log[i], log[m]) => ListedBy(i, m)
    BY DEF Answers, Lists, ListedBy, SameStep, OneStep
  <2>6. m \in Active /\ m < r /\ r \in 1 .. Len(log)
    BY <2>2, <2>4 DEF Heads, Shown
  <2>7. \A i \in Active : i \in m + 1 .. r => ListedBy(i, m)
    BY <2>2, <2>4, <2>5 DEF Heads
  <2>8. r \in m + 1 .. r
    BY <2>6
  <2> QED BY <2>6, <2>7, <2>8 DEF Paired
<1> QED BY <1>1, Invariant, ContextInvariant, PTL
=============================================================================
