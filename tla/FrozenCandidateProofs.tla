------------------------ MODULE FrozenCandidateProofs ------------------------
(***************************************************************************)
(* freeze_candidate implements WriteOnceStore, for every number of callers *)
(* and every set of candidates and contents, as long as nobody deletes     *)
(* what is frozen.  The invariant that carries the refinement is           *)
(* WholeSeals: between the link of a record and the rename of its snapshot *)
(* only the caller that made the link may commit.                          *)
(***************************************************************************)
EXTENDS FrozenCandidate, TLAPS

LEMMA AfterGoto ==
    ASSUME TypeOK, NEW p \in Caller, NEW label, Goto(p, label),
           label \in FreezePCs \cup IssuePCs, pc[p] # "idle"
    PROVE  /\ pc' \in [Caller -> {"idle"} \cup FreezePCs \cup IssuePCs]
           /\ call' \in [Caller -> CallType \cup {None}]
           /\ \A q \in Caller : pc'[q] # "idle" => call'[q] \in CallType
           /\ result' \in [Caller -> Results]
           /\ pc' = [pc EXCEPT ![p] = label]
           /\ call' = call /\ result' = result
BY DEF TypeOK, Goto

LEMMA AfterReturn ==
    ASSUME TypeOK, NEW p \in Caller, NEW r \in Results, Return(p, r)
    PROVE  /\ pc' \in [Caller -> {"idle"} \cup FreezePCs \cup IssuePCs]
           /\ call' \in [Caller -> CallType \cup {None}]
           /\ \A q \in Caller : pc'[q] # "idle" => call'[q] \in CallType
           /\ result' \in [Caller -> Results]
           /\ pc' = [pc EXCEPT ![p] = "idle"]
           /\ call' = [call EXCEPT ![p] = None]
           /\ result' = [result EXCEPT ![p] = r]
BY DEF TypeOK, Return

LEMMA Verdicts ==
    \A c, x : ConflictResult(c, x) \in Results
BY DEF ConflictResult, Results

LEMMA CallParts ==
    ASSUME NEW t \in CallType
    PROVE  /\ t.id \in Candidate /\ t.content \in Content /\ t.referenced \in BOOLEAN
           /\ t.store \in Table
BY DEF CallType

-----------------------------------------------------------------------------
(* Type correctness.                                                       *)

LEMMA TypeInit == Init => TypeOK
BY ZenonT(40) DEF Init, TypeOK, Table, Results

LEMMA TypeStep == TypeOK /\ [Next]_vars => TypeOK'
<1> SUFFICES ASSUME TypeOK, [Next]_vars PROVE TypeOK'
  OBVIOUS
<1>1. ASSUME NEW p \in Caller, NEW c \in Candidate, NEW x \in Content, Freeze(p, c, x)
      PROVE  TypeOK'
  <2>1. [id |-> c, content |-> x, referenced |-> Referenced(c), store |-> stored] \in CallType
    BY DEF CallType, Referenced, TypeOK
  <2> HIDE DEF CallType
  <2> QED BY <1>1, <2>1 DEF Freeze, TypeOK, Results, FreezePCs
<1>2. ASSUME NEW p \in Caller, NEW c \in Candidate, NEW x \in Content, Issue(p, c, x)
      PROVE  TypeOK'
  <2>1. [stored EXCEPT ![c] = x] \in Table
    BY DEF TypeOK, Table
  <2>2. [id |-> c, content |-> x, referenced |-> FALSE, store |-> [stored EXCEPT ![c] = x]]
            \in CallType
    BY <2>1 DEF CallType
  <2> QED BY <1>2, <2>2 DEF Issue, TypeOK, IssuePCs
<1>3. ASSUME NEW p \in Caller, Steps(p) PROVE TypeOK'
  <2>1. pc[p] # "idle"
    BY <1>3 DEF Steps, Check, Materialize, Link, Commit, Lock, WriteRecord, WriteStore
  <2>2. call[p] \in CallType
    BY <2>1 DEF TypeOK
  <2>3. /\ call[p].id \in Candidate /\ call[p].content \in Content
        /\ call[p].store \in Table
    BY <2>2, CallParts
  <2>4. CASE Check(p)
    <3>1. /\ UNCHANGED <<record, snapshot, ledger, stored>>
          /\ locked' \in BOOLEAN
          /\ Goto(p, "materialize") \/ \E r \in Results : Return(p, r)
      BY <2>4, Verdicts DEF Check, TypeOK, Results
    <3>2. CASE Goto(p, "materialize")
      BY <2>1, <3>1, <3>2, AfterGoto DEF TypeOK, FreezePCs
    <3>3. CASE \E r \in Results : Return(p, r)
      BY <3>1, <3>3, AfterReturn DEF TypeOK
    <3> QED BY <3>1, <3>2, <3>3
  <2>5. CASE Materialize(p)
    BY <2>1, <2>5, AfterGoto, AfterReturn DEF Materialize, TypeOK, FreezePCs, Results
  <2>6. CASE Link(p)
    BY <2>1, <2>3, <2>6, AfterGoto, AfterReturn, Verdicts
       DEF Link, TypeOK, Table, FreezePCs, Results
  <2>7. CASE Commit(p)
    BY <2>1, <2>3, <2>7, AfterGoto, AfterReturn DEF Commit, TypeOK, Table, FreezePCs, Results
  <2>8. CASE Lock(p)
    BY <2>8, AfterReturn DEF Lock, TypeOK, Results
  <2>9. CASE WriteRecord(p)
    BY <2>1, <2>3, <2>9, AfterGoto DEF WriteRecord, TypeOK, IssuePCs
  <2>10. CASE WriteStore(p)
    <3>1. result[p] \in Results
      BY DEF TypeOK
    <3> QED BY <2>3, <2>10, <3>1, AfterReturn DEF WriteStore, TypeOK
  <2> QED BY <1>3, <2>4, <2>5, <2>6, <2>7, <2>8, <2>9, <2>10 DEF Steps
<1>4. ASSUME NEW p \in Caller, Crash(p) PROVE TypeOK'
  <2>1. (IF pc[p] \in FreezePCs THEN "CRASHED" ELSE result[p]) \in Results
    BY DEF TypeOK, Results
  <2> QED BY <1>4, <2>1, AfterReturn DEF Crash, TypeOK
<1>5. ASSUME NEW c \in Candidate, LoseRecord(c) \/ LoseSnapshot(c) PROVE TypeOK'
  BY <1>5 DEF LoseRecord, LoseSnapshot, TypeOK, Table
<1>6. CASE UNCHANGED vars
  BY <1>6 DEF TypeOK, vars
<1> QED BY <1>1, <1>2, <1>3, <1>4, <1>5, <1>6 DEF Next

\* Every variable of the frozen candidate store keeps its type, deletions included.
THEOREM StoreTyped == Spec => []TypeOK
BY TypeInit, TypeStep, PTL DEF Spec

-----------------------------------------------------------------------------
(* Nothing is deleted: a seal is whole.                                    *)

NothingDeleted == ~MayDelete

Inv == TypeOK /\ WholeSeals

LEMMA WholeStep ==
    ASSUME NothingDeleted PROVE Inv /\ [Next]_vars => WholeSeals'
<1> SUFFICES ASSUME Inv, [Next]_vars PROVE WholeSeals'
  OBVIOUS
<1> USE NoneAssumption
<1>1. ASSUME NEW p \in Caller, NEW c \in Candidate, NEW x \in Content,
             Freeze(p, c, x) \/ Issue(p, c, x)
      PROVE  WholeSeals'
  <2>1. /\ UNCHANGED <<record, snapshot>>
        /\ pc'[p] \notin {"commit", "lock"}
        /\ \A q \in Caller : q # p => pc'[q] = pc[q] /\ call'[q] = call[q]
    BY <1>1 DEF Freeze, Issue, Inv, TypeOK
  <2> QED BY <2>1 DEF Inv, WholeSeals
<1>2. ASSUME NEW p \in Caller, Steps(p) PROVE WholeSeals'
  <2>1. call[p].id \in Candidate /\ call[p].content \in Content
    <3>1. call[p] \in CallType
      BY <1>2 DEF Inv, TypeOK, Steps, Check, Materialize, Link, Commit, Lock, WriteRecord,
                  WriteStore
    <3> QED BY <3>1, CallParts
  <2>2. CASE Check(p) \/ Materialize(p) \/ WriteRecord(p) \/ WriteStore(p) \/ Lock(p)
    <3>1. /\ UNCHANGED <<record, snapshot>>
          /\ pc'[p] \notin {"commit", "lock"}
          /\ \A q \in Caller : q # p => pc'[q] = pc[q] /\ call'[q] = call[q]
      BY <2>2 DEF Check, Materialize, WriteRecord, WriteStore, Lock, Goto, Return, Inv, TypeOK
    <3> QED BY <3>1 DEF Inv, WholeSeals
  <2>3. CASE Link(p)
    <3>1. CASE record[call[p].id] = None /\ ~locked
      <4>1. /\ record' = [record EXCEPT ![call[p].id] = call[p].content]
            /\ pc' = [pc EXCEPT ![p] = "commit"]
            /\ UNCHANGED <<call, snapshot>>
        BY <2>3, <3>1 DEF Link, Goto
      <4>2. snapshot[call[p].id] = None
        BY <2>1, <3>1 DEF Inv, WholeSeals
      <4>3. \A c \in Candidate :
              record'[c] = IF c = call[p].id THEN call[p].content ELSE record[c]
        BY <4>1 DEF Inv, TypeOK, Table
      <4>4. ASSUME NEW c \in Candidate, snapshot'[c] # None PROVE snapshot'[c] = record'[c]
        BY <4>1, <4>2, <4>3, <4>4 DEF Inv, WholeSeals
      <4>5. ASSUME NEW q \in Caller, pc'[q] \in {"commit", "lock"}
            PROVE  record'[call'[q].id] = call'[q].content
        <5>1. CASE q = p
          BY <2>1, <4>1, <4>3, <5>1
        <5>2. CASE q # p
          <6>1. pc[q] \in {"commit", "lock"} /\ call[q].id \in Candidate
            BY <4>1, <4>5, <5>2, CallParts DEF Inv, TypeOK
          <6>2. record[call[q].id] = call[q].content /\ call[q].content # None
            BY <4>1, <4>5, <5>2, <6>1, CallParts DEF Inv, WholeSeals, TypeOK
          <6> QED BY <3>1, <4>1, <4>3, <6>1, <6>2
        <5> QED BY <5>1, <5>2
      <4>6. ASSUME NEW q \in Caller, pc'[q] = "lock"
            PROVE  snapshot'[call'[q].id] = call'[q].content
        BY <4>1, <4>6 DEF Inv, WholeSeals, TypeOK
      <4> QED BY <4>4, <4>5, <4>6 DEF WholeSeals
    <3>2. CASE ~(record[call[p].id] = None /\ ~locked)
      <4>1. /\ UNCHANGED <<record, snapshot>>
            /\ pc' = [pc EXCEPT ![p] = "idle"]
            /\ call' = [call EXCEPT ![p] = None]
        BY <2>3, <3>2 DEF Link, Return
      <4> QED BY <4>1 DEF Inv, WholeSeals, TypeOK
    <3> QED BY <3>1, <3>2
  <2>4. CASE Commit(p)
    <3>1. CASE locked \/ snapshot[call[p].id] # None
      <4>1. /\ UNCHANGED <<record, snapshot>>
            /\ pc' = [pc EXCEPT ![p] = "idle"]
            /\ call' = [call EXCEPT ![p] = None]
        BY <2>4, <3>1 DEF Commit, Return
      <4> QED BY <4>1 DEF Inv, WholeSeals, TypeOK
    <3>2. CASE ~locked /\ snapshot[call[p].id] = None
      <4>1. /\ snapshot' = [snapshot EXCEPT ![call[p].id] = call[p].content]
            /\ pc' = [pc EXCEPT ![p] = "lock"]
            /\ UNCHANGED <<call, record>>
        BY <2>4, <3>2 DEF Commit, Goto
      <4>2. record[call[p].id] = call[p].content
        BY <2>4 DEF Commit, Inv, WholeSeals
      <4> QED BY <2>1, <3>2, <4>1, <4>2 DEF Inv, WholeSeals, TypeOK, Table
    <3> QED BY <3>1, <3>2
  <2> QED BY <1>2, <2>2, <2>3, <2>4 DEF Steps
<1>3. ASSUME NEW p \in Caller, Crash(p) PROVE WholeSeals'
  BY <1>3 DEF Crash, Return, Inv, WholeSeals, TypeOK
<1>4. CASE UNCHANGED vars
  BY <1>4 DEF Inv, WholeSeals, vars
<1> QED BY <1>1, <1>2, <1>3, <1>4 DEF Next, LoseRecord, LoseSnapshot, NothingDeleted

LEMMA WholeInit == Init => WholeSeals
BY DEF Init, WholeSeals

\* However the freezes interleave, fail or die, a snapshot is always that of its
\* record, and a caller that reports FROZEN has sealed its own content.
THEOREM Whole == ASSUME NothingDeleted PROVE Spec => []WholeSeals
<1>1. Inv /\ [Next]_vars => Inv'
  BY TypeStep, WholeStep DEF Inv
<1>2. Init => Inv
  BY TypeInit, WholeInit DEF Inv
<1>3. Inv => WholeSeals
  BY DEF Inv
<1> QED BY <1>1, <1>2, <1>3, PTL DEF Spec

-----------------------------------------------------------------------------
(* The refinement.                                                         *)

AbstractStep == [WriteOnce!Next]_<<Sealed, Request, Reply>>

LEMMA SealedStays ==
    ASSUME UNCHANGED <<record, snapshot>> PROVE Sealed' = Sealed
BY DEF Sealed

\* An answer the request of p got, when the frozen files did not change.
LEMMA AnswerStep ==
    ASSUME TypeOK, NEW p \in Caller, NEW r \in Results \ {"none"},
           pc[p] \in FreezePCs, Return(p, r), Sealed' = Sealed,
           WriteOnce!Truthful(Answered(r), call[p].id, call[p].content)
    PROVE  AbstractStep
<1>1. call[p] \in CallType
  BY DEF TypeOK, FreezePCs
<1>2. Request[p] = <<call[p].id, call[p].content>> /\ Request[p] # None
  BY <1>1, CallParts, NoneAssumption DEF Request
<1>3. Request' = [Request EXCEPT ![p] = None]
  BY DEF Request, Return, TypeOK, FreezePCs
<1>4. Reply' = [Reply EXCEPT ![p] = Answered(r)]
  BY DEF Reply, Return, TypeOK
<1>5. Answered(r) \in WriteOnce!Answers \ {"none"}
  BY DEF Answered, Results, WriteOnce!Answers
<1>6. WriteOnce!Truthful(Answered(r), Request[p][1], Request[p][2])
  BY <1>2
<1>7. WriteOnce!Answer(p)
  BY <1>2, <1>3, <1>4, <1>5, <1>6 DEF WriteOnce!Answer, Reply
<1> QED BY <1>7 DEF AbstractStep, WriteOnce!Next

\* A step of a freeze that neither answers nor seals.
LEMMA SilentStep ==
    ASSUME TypeOK, NEW p \in Caller, NEW label \in FreezePCs,
           pc[p] \in FreezePCs, Goto(p, label), Sealed' = Sealed
    PROVE  AbstractStep
<1>1. Request' = Request
  BY DEF Request, Goto, TypeOK, FreezePCs
<1>2. Reply' = Reply
  BY DEF Reply, Goto
<1> QED BY <1>1, <1>2 DEF AbstractStep

\* A step outside a freeze.
LEMMA OutsideStep ==
    ASSUME UNCHANGED <<record, snapshot, result>>,
           \A q \in Caller : /\ pc'[q] \in FreezePCs <=> pc[q] \in FreezePCs
                             /\ pc[q] \in FreezePCs => call'[q] = call[q]
    PROVE  AbstractStep
<1>1. Request' = Request
  BY DEF Request
<1>2. Reply' = Reply
  BY DEF Reply
<1> QED BY <1>1, <1>2, SealedStays DEF AbstractStep

\* What an existing record tells is the truth when seals are whole.
LEMMA TruthfulConflict ==
    ASSUME Inv, NEW c \in Candidate, NEW x \in Content, record[c] # None
    PROVE  /\ ConflictResult(c, x) \in Results \ {"none"}
           /\ WriteOnce!Truthful(Answered(ConflictResult(c, x)), c, x)
<1>1. CASE snapshot[c] = None
  BY <1>1 DEF ConflictResult, Answered, Results, WriteOnce!Truthful
<1>2. CASE snapshot[c] # None
  <2>1. snapshot[c] = record[c] /\ Sealed[c] = record[c]
    BY <1>2 DEF Inv, WholeSeals, Sealed
  <2>2. CASE record[c] = x
    BY <1>2, <2>1, <2>2 DEF ConflictResult, Answered, Results, WriteOnce!Truthful
  <2>3. CASE record[c] # x
    BY <1>2, <2>1, <2>3 DEF ConflictResult, Answered, Results, WriteOnce!Truthful
  <2> QED BY <2>2, <2>3
<1> QED BY <1>1, <1>2

\* An answer that promises nothing is always true.
LEMMA FailureStep ==
    ASSUME TypeOK, NEW p \in Caller, pc[p] \in FreezePCs,
           NEW r \in {"FROZEN_CANDIDATE_INCOMPLETE", "NEW_CANDIDATE_REQUIRED", "BLOCK",
                      "RAISED", "CRASHED"},
           Return(p, r), UNCHANGED <<record, snapshot>>
    PROVE  AbstractStep
<1>1. Answered(r) = "FAILED" /\ r \in Results \ {"none"}
  BY DEF Answered, Results
<1>2. WriteOnce!Truthful(Answered(r), call[p].id, call[p].content)
  BY <1>1 DEF WriteOnce!Truthful
<1> QED BY <1>1, <1>2, SealedStays, AnswerStep

LEMMA RefineInit == Init => WriteOnce!Init
BY DEF Init, WriteOnce!Init, Sealed, Request, Reply, Answered, FreezePCs

LEMMA RefineStep == Inv /\ [Next]_vars /\ NothingDeleted => AbstractStep
<1> SUFFICES ASSUME Inv, [Next]_vars, NothingDeleted PROVE AbstractStep
  OBVIOUS
<1>0. TypeOK
  BY DEF Inv
<1>1. ASSUME NEW p \in Caller, NEW c \in Candidate, NEW x \in Content, Freeze(p, c, x)
      PROVE  AbstractStep
  <2>1. Sealed' = Sealed
    BY <1>1, SealedStays DEF Freeze
  <2>2. Request[p] = None
    BY <1>1 DEF Freeze, Request, FreezePCs
  <2>3. Request' = [Request EXCEPT ![p] = <<c, x>>]
    BY <1>0, <1>1 DEF Freeze, Request, TypeOK, FreezePCs
  <2>4. Reply' = [Reply EXCEPT ![p] = "none"]
    BY <1>0, <1>1 DEF Freeze, Reply, TypeOK, Answered
  <2>5. WriteOnce!Ask(p, c, x)
    BY <2>1, <2>2, <2>3, <2>4 DEF WriteOnce!Ask, Reply
  <2> QED BY <2>5 DEF AbstractStep, WriteOnce!Next
<1>2. ASSUME NEW p \in Caller, NEW c \in Candidate, NEW x \in Content, Issue(p, c, x)
      PROVE  AbstractStep
  <2>1. /\ UNCHANGED <<record, snapshot, result>>
        /\ pc[p] = "idle" /\ pc'[p] = "record"
        /\ \A q \in Caller : q # p => pc'[q] = pc[q] /\ call'[q] = call[q]
    BY <1>0, <1>2 DEF Issue, TypeOK
  <2>2. \A q \in Caller : /\ pc'[q] \in FreezePCs <=> pc[q] \in FreezePCs
                          /\ pc[q] \in FreezePCs => call'[q] = call[q]
    BY <2>1 DEF FreezePCs
  <2> QED BY <2>1, <2>2, OutsideStep
<1>3. ASSUME NEW p \in Caller, Steps(p) PROVE AbstractStep
  <2>1. call[p].id \in Candidate /\ call[p].content \in Content
    <3>1. call[p] \in CallType
      BY <1>0, <1>3 DEF TypeOK, Steps, Check, Materialize, Link, Commit, Lock, WriteRecord,
                  WriteStore
    <3> QED BY <3>1, CallParts
  <2>2. CASE Check(p)
    <3>1. pc[p] \in FreezePCs /\ UNCHANGED <<record, snapshot>>
      BY <2>2 DEF Check, FreezePCs
    <3>2. CASE Goto(p, "materialize")
      BY <1>0, <3>1, <3>2, SealedStays, SilentStep DEF FreezePCs
    <3>3. CASE Return(p, "NEW_CANDIDATE_REQUIRED")
      BY <1>0, <3>1, <3>3, FailureStep
    <3>4. CASE record[call[p].id] # None /\ Return(p, ConflictResult(call[p].id, call[p].content))
      BY <1>0, <2>1, <3>1, <3>4, SealedStays, TruthfulConflict, AnswerStep
    <3> QED BY <2>2, <3>2, <3>3, <3>4 DEF Check
  <2>3. CASE Materialize(p)
    <3>1. pc[p] \in FreezePCs /\ UNCHANGED <<record, snapshot>>
      BY <2>3 DEF Materialize, FreezePCs
    <3>2. CASE Goto(p, "link")
      BY <1>0, <3>1, <3>2, SealedStays, SilentStep DEF FreezePCs
    <3>3. CASE Return(p, "RAISED") \/ Return(p, "BLOCK")
      BY <1>0, <3>1, <3>3, FailureStep
    <3> QED BY <2>3, <3>2, <3>3 DEF Materialize
  <2>4. CASE Link(p)
    <3>1. pc[p] \in FreezePCs /\ UNCHANGED snapshot
      BY <2>4 DEF Link, FreezePCs
    <3>2. CASE Return(p, "RAISED") /\ UNCHANGED record
      BY <1>0, <3>1, <3>2, FailureStep
    <3>3. CASE /\ record[call[p].id] # None /\ UNCHANGED record
               /\ Return(p, ConflictResult(call[p].id, call[p].content))
      BY <1>0, <2>1, <3>1, <3>3, SealedStays, TruthfulConflict, AnswerStep
    <3>4. CASE /\ record[call[p].id] = None /\ Goto(p, "commit")
               /\ record' = [record EXCEPT ![call[p].id] = call[p].content]
      <4>1. snapshot[call[p].id] = None
        BY <2>1, <3>4 DEF Inv, WholeSeals
      <4>2. \A c \in Candidate :
              record'[c] = IF c = call[p].id THEN call[p].content ELSE record[c]
        BY <1>0, <3>4 DEF TypeOK, Table
      <4>3. Sealed' = Sealed
        BY <2>1, <3>1, <3>4, <4>1, <4>2, NoneAssumption DEF Sealed
      <4> QED BY <1>0, <3>1, <3>4, <4>3, SilentStep DEF FreezePCs
    <3> QED BY <2>4, <3>2, <3>3, <3>4 DEF Link
  <2>5. CASE Commit(p)
    <3>1. pc[p] = "commit" /\ pc[p] \in FreezePCs /\ UNCHANGED record
      BY <2>5 DEF Commit, FreezePCs
    <3>2. CASE Return(p, "FROZEN_CANDIDATE_INCOMPLETE") /\ UNCHANGED snapshot
      BY <1>0, <3>1, <3>2, FailureStep
    <3>3. CASE /\ snapshot[call[p].id] = None /\ Goto(p, "lock")
               /\ snapshot' = [snapshot EXCEPT ![call[p].id] = call[p].content]
      <4>1. record[call[p].id] = call[p].content
        BY <3>1 DEF Inv, WholeSeals
      <4>2. \A c \in Candidate :
              snapshot'[c] = IF c = call[p].id THEN call[p].content ELSE snapshot[c]
        BY <1>0, <3>3 DEF TypeOK, Table
      <4>3. Sealed[call[p].id] = None
        BY <2>1, <3>3 DEF Sealed
      <4>4. Sealed' = [Sealed EXCEPT ![call[p].id] = call[p].content]
        BY <2>1, <3>1, <4>1, <4>2 DEF Sealed
      <4>5. Request[p] = <<call[p].id, call[p].content>> /\ Request[p] # None
        BY <2>1, <3>1, NoneAssumption DEF Request
      <4>6. Request' = Request
        BY <1>0, <3>1, <3>3 DEF Request, Goto, TypeOK, FreezePCs
      <4>7. Reply' = Reply
        BY <3>3 DEF Reply, Goto
      <4>8. WriteOnce!Seal(p)
        BY <4>3, <4>4, <4>5, <4>6, <4>7 DEF WriteOnce!Seal, Reply
      <4> QED BY <4>8 DEF AbstractStep, WriteOnce!Next
    <3> QED BY <2>5, <3>2, <3>3 DEF Commit
  <2>6. CASE Lock(p)
    <3>1. pc[p] = "lock" /\ pc[p] \in FreezePCs /\ UNCHANGED <<record, snapshot>>
      BY <2>6 DEF Lock, FreezePCs
    <3>2. CASE Return(p, "RAISED")
      BY <1>0, <3>1, <3>2, FailureStep
    <3>3. CASE Return(p, "FROZEN")
      <4>1. Sealed[call[p].id] = call[p].content
        BY <2>1, <3>1 DEF Inv, WholeSeals, Sealed
      <4>2. Answered("FROZEN") = "SEALED" /\ "FROZEN" \in Results \ {"none"}
        BY DEF Answered, Results
      <4>3. WriteOnce!Truthful(Answered("FROZEN"), call[p].id, call[p].content)
        BY <4>1, <4>2 DEF WriteOnce!Truthful
      <4> QED BY <1>0, <3>1, <3>3, <4>2, <4>3, SealedStays, AnswerStep
    <3> QED BY <2>6, <3>2, <3>3 DEF Lock
  <2>7. CASE WriteRecord(p) \/ WriteStore(p)
    <3>1. /\ UNCHANGED <<record, snapshot, result>>
          /\ pc[p] \in IssuePCs /\ pc'[p] \in {"idle", "store"}
          /\ \A q \in Caller : q # p => pc'[q] = pc[q] /\ call'[q] = call[q]
      BY <1>0, <2>7 DEF WriteRecord, WriteStore, Goto, Return, TypeOK, IssuePCs
    <3>2. \A q \in Caller : /\ pc'[q] \in FreezePCs <=> pc[q] \in FreezePCs
                            /\ pc[q] \in FreezePCs => call'[q] = call[q]
      BY <3>1 DEF FreezePCs, IssuePCs
    <3> QED BY <3>1, <3>2, OutsideStep
  <2> QED BY <1>3, <2>2, <2>3, <2>4, <2>5, <2>6, <2>7 DEF Steps
<1>4. ASSUME NEW p \in Caller, Crash(p) PROVE AbstractStep
  <2>1. CASE pc[p] \in FreezePCs
    BY <1>0, <1>4, <2>1, FailureStep DEF Crash
  <2>2. CASE pc[p] \notin FreezePCs
    <3>1. /\ UNCHANGED <<record, snapshot, result>>
          /\ pc'[p] = "idle"
          /\ \A q \in Caller : q # p => pc'[q] = pc[q] /\ call'[q] = call[q]
      BY <1>0, <1>4, <2>2 DEF Crash, Return, TypeOK
    <3>2. \A q \in Caller : /\ pc'[q] \in FreezePCs <=> pc[q] \in FreezePCs
                            /\ pc[q] \in FreezePCs => call'[q] = call[q]
      BY <2>2, <3>1 DEF FreezePCs
    <3> QED BY <3>1, <3>2, OutsideStep
  <2> QED BY <2>1, <2>2
<1>5. CASE UNCHANGED vars
  BY <1>5, OutsideStep DEF vars
<1> QED BY <1>1, <1>2, <1>3, <1>4, <1>5 DEF Next, LoseRecord, LoseSnapshot, NothingDeleted

\* freeze_candidate is a write-once store with truthful answers, for any number of
\* callers that race, fail, lock each other out or die half way.
THEOREM Implements == ASSUME NothingDeleted PROVE Spec => SealsOnce
<1>1. Inv /\ [Next]_vars => Inv'
  BY TypeStep, WholeStep DEF Inv
<1>2. Init => Inv
  BY TypeInit, WholeInit DEF Inv
<1>3. Inv /\ [Next]_vars => AbstractStep
  BY RefineStep
<1>4. Spec => []Inv
  BY <1>1, <1>2, PTL DEF Spec
<1>5. Spec => WriteOnce!Init /\ [][WriteOnce!Next]_<<Sealed, Request, Reply>>
  BY <1>3, <1>4, RefineInit, PTL DEF Spec, AbstractStep
<1> QED BY <1>5 DEF SealsOnce, WriteOnce!Spec

-----------------------------------------------------------------------------
(* One caller, files deleted at any moment: the copies it works on are up  *)
(* to date, wherever an earlier call was cut off.                          *)

OneCaller == \A p, q \in Caller : p = q

RefInv == TypeOK /\ ReferencesKept

LEMMA ReferencesStep == OneCaller /\ RefInv /\ [Next]_vars => ReferencesKept'
<1> SUFFICES ASSUME OneCaller, RefInv, [Next]_vars PROVE ReferencesKept'
  OBVIOUS
<1> USE NoneAssumption
<1>1. ASSUME NEW p \in Caller, NEW c \in Candidate, NEW x \in Content, Freeze(p, c, x)
      PROVE  ReferencesKept'
  <2>1. /\ UNCHANGED <<record, stored>>
        /\ pc'[p] = "check"
        /\ call'[p].id = c /\ call'[p].referenced = Referenced(c)
    BY <1>1 DEF Freeze, RefInv, TypeOK
  <2> QED BY <2>1 DEF OneCaller, RefInv, ReferencesKept, ReferencedKeepsContent, Referenced,
                      IssuePCs
<1>2. ASSUME NEW p \in Caller, NEW c \in Candidate, NEW x \in Content, Issue(p, c, x)
      PROVE  ReferencesKept'
  <2>1. /\ UNCHANGED <<record, stored>>
        /\ pc'[p] = "record" /\ record[c] = x
        /\ call'[p].id = c /\ call'[p].content = x
        /\ call'[p].store = [stored EXCEPT ![c] = x]
    BY <1>2 DEF Issue, Intact, RefInv, TypeOK
  <2> QED BY <2>1 DEF OneCaller, RefInv, ReferencesKept, ReferencedKeepsContent, IssuePCs
<1>3. ASSUME NEW p \in Caller, Steps(p) PROVE ReferencesKept'
  <2>1. call[p].id \in Candidate /\ call[p].content \in Content
    <3>1. call[p] \in CallType
      BY <1>3 DEF RefInv, TypeOK, Steps, Check, Materialize, Link, Commit, Lock, WriteRecord,
                  WriteStore
    <3> QED BY <3>1, CallParts
  <2>2. ASSUME UNCHANGED <<record, stored>>, pc'[p] \in {"idle", "commit", "lock"}
        PROVE  ReferencesKept'
    BY <2>2 DEF OneCaller, RefInv, ReferencesKept, ReferencedKeepsContent, IssuePCs
  <2>3. CASE Check(p)
    <3>1. UNCHANGED <<record, stored>>
      BY <2>3 DEF Check
    <3>2. CASE pc'[p] = "materialize"
      <4>1. ~call[p].referenced /\ pc[p] = "check" /\ call' = call
        BY <2>3, <3>2 DEF Check, Goto, Return, RefInv, TypeOK
      <4>2. stored[call[p].id] = None
        BY <4>1 DEF RefInv, ReferencesKept, Referenced
      <4> QED BY <3>1, <3>2, <4>1, <4>2 DEF OneCaller, RefInv, ReferencesKept,
                                           ReferencedKeepsContent, IssuePCs
    <3>3. CASE pc'[p] # "materialize"
      <4>1. pc'[p] = "idle"
        BY <2>3, <3>3 DEF Check, Goto, Return, RefInv, TypeOK
      <4> QED BY <2>2, <3>1, <4>1
    <3> QED BY <3>2, <3>3
  <2>4. CASE Materialize(p)
    <3>1. UNCHANGED <<record, stored>>
      BY <2>4 DEF Materialize
    <3>2. CASE Goto(p, "link")
      <4>1. pc[p] = "materialize" /\ pc'[p] = "link" /\ call' = call
        BY <2>4, <3>2 DEF Materialize, Goto, RefInv, TypeOK
      <4> QED BY <3>1, <4>1 DEF OneCaller, RefInv, ReferencesKept, ReferencedKeepsContent,
                               IssuePCs
    <3>3. CASE ~Goto(p, "link")
      <4>1. pc'[p] = "idle"
        BY <2>4, <3>3 DEF Materialize, Return, RefInv, TypeOK
      <4> QED BY <2>2, <3>1, <4>1
    <3> QED BY <3>2, <3>3
  <2>5. CASE Link(p)
    <3>1. stored[call[p].id] = None /\ stored' = stored /\ pc'[p] \in {"idle", "commit"}
      BY <2>5 DEF Link, Goto, Return, RefInv, TypeOK, ReferencesKept
    <3>2. \A c \in Candidate : c # call[p].id => record'[c] = record[c]
      BY <2>5 DEF Link, RefInv, TypeOK, Table
    <3> QED BY <3>1, <3>2 DEF OneCaller, RefInv, ReferencesKept, ReferencedKeepsContent, IssuePCs
  <2>6. CASE Commit(p) \/ Lock(p)
    BY <2>2, <2>6 DEF Commit, Lock, Goto, Return, RefInv, TypeOK
  <2>7. CASE WriteRecord(p)
    <3>1. /\ UNCHANGED <<record, stored, call>>
          /\ pc[p] \in IssuePCs /\ pc'[p] = "store"
      BY <2>7 DEF WriteRecord, Goto, RefInv, TypeOK, IssuePCs
    <3> QED BY <3>1 DEF OneCaller, RefInv, ReferencesKept, ReferencedKeepsContent, IssuePCs
  <2>8. CASE WriteStore(p)
    <3>1. /\ stored' = [stored EXCEPT ![call[p].id] = call[p].content]
          /\ record' = record /\ record[call[p].id] \in {None, call[p].content}
          /\ pc'[p] = "idle"
      BY <2>8 DEF WriteStore, Return, RefInv, TypeOK, ReferencesKept, IssuePCs
    <3>2. \A c \in Candidate :
             stored'[c] = IF c = call[p].id THEN call[p].content ELSE stored[c]
      BY <3>1 DEF RefInv, TypeOK, Table
    <3> QED BY <2>1, <3>1, <3>2 DEF OneCaller, RefInv, ReferencesKept, ReferencedKeepsContent,
                                   IssuePCs
  <2> QED BY <1>3, <2>3, <2>4, <2>5, <2>6, <2>7, <2>8 DEF Steps
<1>4. ASSUME NEW p \in Caller, Crash(p) PROVE ReferencesKept'
  BY <1>4 DEF Crash, Return, RefInv, TypeOK, OneCaller, ReferencesKept, ReferencedKeepsContent,
              IssuePCs
<1>5. ASSUME NEW c \in Candidate, LoseRecord(c) \/ LoseSnapshot(c) PROVE ReferencesKept'
  <2>1. /\ UNCHANGED <<stored, pc, call>>
        /\ \A d \in Candidate : record'[d] \in {None, record[d]}
    BY <1>5 DEF LoseRecord, LoseSnapshot, RefInv, TypeOK, Table
  <2>2. ReferencedKeepsContent'
    BY <2>1 DEF RefInv, ReferencesKept, ReferencedKeepsContent
  <2>3. ASSUME NEW p \in Caller
        PROVE  /\ pc'[p] = "check" => call'[p].referenced = Referenced(call[p].id)'
               /\ pc'[p] \in {"materialize", "link"} => stored'[call'[p].id] = None
               /\ pc'[p] \in IssuePCs =>
                     /\ call'[p].store = [stored' EXCEPT ![call'[p].id] = call'[p].content]
                     /\ record'[call'[p].id] \in {None, call'[p].content}
    <3>1. CASE pc[p] \in IssuePCs
      <4>1. call[p] \in CallType /\ pc[p] \notin FreezePCs
        BY <3>1 DEF RefInv, TypeOK, IssuePCs, FreezePCs
      <4>2. call[p].id \in Candidate
        BY <4>1, CallParts
      <4>3. /\ call[p].store = [stored EXCEPT ![call[p].id] = call[p].content]
            /\ record[call[p].id] \in {None, call[p].content}
        BY <3>1 DEF RefInv, ReferencesKept
      <4>4. record'[call[p].id] \in {None, call[p].content}
        BY <2>1, <4>2, <4>3
      <4> QED BY <2>1, <4>1, <4>3, <4>4 DEF FreezePCs
    <3>2. CASE pc[p] \notin IssuePCs
      BY <2>1, <3>2 DEF RefInv, ReferencesKept, Referenced
    <3> QED BY <3>1, <3>2
  <2> QED BY <2>2, <2>3 DEF ReferencesKept
<1>6. CASE UNCHANGED vars
  BY <1>6 DEF RefInv, ReferencesKept, ReferencedKeepsContent, Referenced, vars
<1> QED BY <1>1, <1>2, <1>3, <1>4, <1>5, <1>6 DEF Next

LEMMA ReferencesInit == Init => ReferencesKept
BY DEF Init, ReferencesKept, ReferencedKeepsContent, IssuePCs

\* freeze_candidate_dir: for one caller, whatever is deleted and wherever a freeze or
\* an issuance died, an identity the store references is never sealed with another content.
THEOREM KeepsContent == ASSUME OneCaller PROVE Spec => []ReferencedKeepsContent
<1>1. Init => RefInv
  BY TypeInit, ReferencesInit DEF RefInv
<1>2. RefInv /\ [Next]_vars => RefInv'
  BY TypeStep, ReferencesStep DEF RefInv
<1>3. RefInv => ReferencedKeepsContent
  BY DEF RefInv, ReferencesKept
<1> QED BY <1>1, <1>2, <1>3, PTL DEF Spec
=============================================================================
