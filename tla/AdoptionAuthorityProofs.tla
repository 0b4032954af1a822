----------------------- MODULE AdoptionAuthorityProofs -----------------------
(***************************************************************************)
(* What the adoption chain keeps for any number of callers that overwrite  *)
(* each other's store and die between any two writes.  None of it rests on *)
(* the store being up to date: each call writes the write-once file before *)
(* the copy that tells of it, so every copy a caller may still write is    *)
(* backed (Evidence).                                                      *)
(***************************************************************************)
EXTENDS AdoptionAuthority, TLAPS

-----------------------------------------------------------------------------
(* The five ways a store is changed.                                       *)

IssuedStore(st, c, e) ==
    [st EXCEPT !.made = TRUE, !.decision[c] = e, !.lifecycle[c] = "PROMOTABLE"]

MarkedStore(st, a) ==
    [st EXCEPT !.lifecycle[a[1]] = "PROMOTED",
               !.request = IF st.decision[a[1]] = a[2] THEN a ELSE @]

RevokedStore(st, a) == [st EXCEPT !.revoked[a] = @ + 1]

SealedStore(st) == [st EXCEPT !.sealed = TRUE]

LEMMA StoreParts ==
    ASSUME NEW st \in Store
    PROVE  /\ st.decision \in [Candidate -> Evaluation \cup {None}]
           /\ st.lifecycle \in [Candidate -> {"ABSENT", "PROMOTABLE", "PROMOTED"}]
           /\ st.revoked \in [Authority -> 0..MaxEvents]
           /\ st.request \in Authority \cup {None}
           /\ st.made \in BOOLEAN /\ st.sealed \in BOOLEAN
BY DEF Store

LEMMA NoStoreTyped == NoStore \in Store
BY EventsAssumption DEF NoStore, Store

LEMMA IssuedStoreTyped ==
    ASSUME NEW st \in Store, NEW c \in Candidate, NEW e \in Evaluation
    PROVE  /\ IssuedStore(st, c, e) \in Store
           /\ IssuedStore(st, c, e).decision = [st.decision EXCEPT ![c] = e]
           /\ IssuedStore(st, c, e).lifecycle = [st.lifecycle EXCEPT ![c] = "PROMOTABLE"]
           /\ IssuedStore(st, c, e).request = st.request
           /\ IssuedStore(st, c, e).revoked = st.revoked
BY DEF IssuedStore, Store

LEMMA MarkedStoreTyped ==
    ASSUME NEW st \in Store, NEW a \in Authority
    PROVE  /\ MarkedStore(st, a) \in Store
           /\ MarkedStore(st, a).decision = st.decision
           /\ MarkedStore(st, a).lifecycle = [st.lifecycle EXCEPT ![a[1]] = "PROMOTED"]
           /\ MarkedStore(st, a).request = IF st.decision[a[1]] = a[2] THEN a ELSE st.request
           /\ MarkedStore(st, a).revoked = st.revoked
<1> DEFINE r == IF st.decision[a[1]] = a[2] THEN a ELSE st.request
           l == [st.lifecycle EXCEPT ![a[1]] = "PROMOTED"]
<1>1. r \in Authority \cup {None} /\ l \in [Candidate -> {"ABSENT", "PROMOTABLE", "PROMOTED"}]
  BY StoreParts DEF Authority
<1>2. MarkedStore(st, a) = [st EXCEPT !.lifecycle = l, !.request = r]
  BY DEF MarkedStore, Store
<1> HIDE DEF r, l
<1>3. /\ MarkedStore(st, a) \in Store
      /\ MarkedStore(st, a).decision = st.decision
      /\ MarkedStore(st, a).lifecycle = l
      /\ MarkedStore(st, a).request = r
      /\ MarkedStore(st, a).revoked = st.revoked
  BY <1>1, <1>2 DEF Store
<1> QED BY <1>3 DEF r, l

LEMMA RevokedStoreTyped ==
    ASSUME NEW st \in Store, NEW a \in Authority, st.revoked[a] < MaxEvents
    PROVE  /\ RevokedStore(st, a) \in Store
           /\ RevokedStore(st, a).decision = st.decision
           /\ RevokedStore(st, a).lifecycle = st.lifecycle
           /\ RevokedStore(st, a).request = st.request
           /\ RevokedStore(st, a).revoked = [st.revoked EXCEPT ![a] = @ + 1]
<1> DEFINE r == [st.revoked EXCEPT ![a] = @ + 1]
<1>1. r \in [Authority -> 0..MaxEvents]
  BY StoreParts, EventsAssumption
<1>2. RevokedStore(st, a) = [st EXCEPT !.revoked = r]
  BY DEF RevokedStore, Store
<1> HIDE DEF r
<1>3. /\ RevokedStore(st, a) \in Store
      /\ RevokedStore(st, a).decision = st.decision
      /\ RevokedStore(st, a).lifecycle = st.lifecycle
      /\ RevokedStore(st, a).request = st.request
      /\ RevokedStore(st, a).revoked = r
  BY <1>1, <1>2 DEF Store
<1> QED BY <1>3 DEF r

LEMMA SealedStoreTyped ==
    ASSUME NEW st \in Store
    PROVE  /\ SealedStore(st) \in Store
           /\ SealedStore(st).decision = st.decision
           /\ SealedStore(st).lifecycle = st.lifecycle
           /\ SealedStore(st).request = st.request
           /\ SealedStore(st).revoked = st.revoked
BY DEF SealedStore, Store

-----------------------------------------------------------------------------
(* Type correctness.                                                       *)

LEMMA TypeBegin ==
    ASSUME TypeOK, NEW p \in Caller, NEW label \in PCs, NEW op \in Ops,
           NEW s \in Slot \cup {None}, NEW a \in Authority \cup {None}, NEW st \in Store,
           Begin(p, label, op, s, a, st)
    PROVE  TypeOK'
<1>1. [op |-> op, slot |-> s, authority |-> a, store |-> st] \in CallType
  BY DEF CallType
<1> HIDE DEF CallType
<1> QED BY <1>1 DEF TypeOK, Begin, files, Results

LEMMA TypeReturn ==
    ASSUME TypeOK, NEW p \in Caller, NEW r \in Results, Return(p, r)
    PROVE  pc' \in [Caller -> PCs] /\ call' \in [Caller -> CallType] /\ result' \in [Caller -> Results]
<1>1. NoCall \in CallType
  BY NoStoreTyped DEF NoCall, CallType, Ops
<1> QED BY <1>1 DEF TypeOK, Return, PCs

LEMMA TypeGoto ==
    ASSUME TypeOK, NEW p \in Caller, NEW label \in PCs, Goto(p, label)
    PROVE  pc' \in [Caller -> PCs] /\ call' \in [Caller -> CallType] /\ result' \in [Caller -> Results]
BY DEF TypeOK, Goto

LEMMA CallParts ==
    ASSUME TypeOK, NEW p \in Caller
    PROVE  /\ call[p].authority \in Authority \cup {None}
           /\ call[p].slot \in Slot \cup {None}
           /\ call[p].store \in Store
BY DEF TypeOK, CallType

LEMMA TypeInit == Init => TypeOK
<1>1. NoCall \in CallType
  BY NoStoreTyped DEF NoCall, CallType, Ops
<1> QED BY <1>1, NoStoreTyped, EventsAssumption
        DEF Init, TypeOK, AnchorType, PCs, Results

-----------------------------------------------------------------------------
(* Evidence survives what other callers do.                                *)

Inv == TypeOK /\ Evidence

\* Records and events are only added, entries only created.
Grows ==
    /\ records \subseteq records'
    /\ \A a \in Authority : events[a] <= events'[a]
    /\ \A s \in Slot : entry[s] # None => entry'[s] = entry[s]

LEMMA BackedKept ==
    ASSUME NEW st \in Store, NEW recs, NEW recs2, NEW ents, NEW ents2,
           NEW evs \in [Authority -> Nat], NEW evs2 \in [Authority -> Nat],
           recs \subseteq recs2,
           \A s \in Slot : ents[s] # None => ents2[s] = ents[s],
           \A a \in Authority : evs[a] <= evs2[a],
           Backed(st, recs, ents, evs)
    PROVE  Backed(st, recs2, ents2, evs2)
<1>1. /\ st.revoked \in [Authority -> 0..MaxEvents] /\ st.request \in Authority \cup {None}
  BY StoreParts
<1>2. \A c \in Candidate : st.decision[c] # None => <<c, st.decision[c]>> \in recs2
  BY DEF Backed
<1>3. st.request # None => /\ st.lifecycle[st.request[1]] = "PROMOTED"
                           /\ \E s \in Slot : ents2[s] = st.request
  BY DEF Backed
<1>4. ASSUME NEW a \in Authority PROVE st.revoked[a] <= evs2[a]
  <2>1. st.revoked[a] \in 0..MaxEvents /\ evs[a] \in Nat /\ evs2[a] \in Nat
    BY <1>1
  <2>2. st.revoked[a] <= evs[a] /\ evs[a] <= evs2[a]
    BY DEF Backed
  <2> QED BY <2>1, <2>2, EventsAssumption
<1> QED BY <1>2, <1>3, <1>4 DEF Backed

LEMMA EventsNat == TypeOK => events \in [Authority -> Nat]
BY EventsAssumption DEF TypeOK

LEMMA StoreKept ==
    ASSUME Inv, TypeOK', Grows, NEW st \in Store, Backed(st, records, entry, events)
    PROVE  Backed(st, records', entry', events')
<1>1. events \in [Authority -> Nat] /\ events' \in [Authority -> Nat]
  BY EventsAssumption DEF Inv, TypeOK
<1> QED BY <1>1, BackedKept DEF Grows

LEMMA CopyKept ==
    ASSUME Inv, TypeOK', Grows, NEW label, NEW a, NEW st \in Store,
           label = "event" => a \in Authority,
           CopyBacked(label, a, st)
    PROVE  CopyBacked(label, a, st)'
<1> DEFINE recs == IF label = "record" THEN records \cup {a} ELSE records
           recs2 == IF label = "record" THEN records' \cup {a} ELSE records'
           evs == IF label = "event" THEN [events EXCEPT ![a] = @ + 1] ELSE events
           evs2 == IF label = "event" THEN [events' EXCEPT ![a] = @ + 1] ELSE events'
<1>1. events \in [Authority -> Nat] /\ events' \in [Authority -> Nat]
  BY EventsAssumption DEF Inv, TypeOK
<1>2. recs \subseteq recs2
  BY DEF Grows
<1>3. evs \in [Authority -> Nat] /\ evs2 \in [Authority -> Nat]
  BY <1>1
<1>4. \A b \in Authority : evs[b] <= evs2[b]
  BY <1>1 DEF Grows
<1>5. Backed(st, recs, entry, evs)
  BY DEF CopyBacked
<1> HIDE DEF recs, recs2, evs, evs2
<1>6. Backed(st, recs2, entry', evs2)
  BY <1>2, <1>3, <1>4, <1>5, BackedKept DEF Grows
<1> QED BY <1>6 DEF CopyBacked, recs2, evs2

LEMMA OthersKept ==
    ASSUME Inv, TypeOK', Grows, NEW p \in Caller,
           \A q \in Caller : q # p =>
               pc'[q] = pc[q] /\ call'[q] = call[q] /\ result'[q] = result[q]
    PROVE  \A q \in Caller : q # p => CallOK(q)'
<1> SUFFICES ASSUME NEW q \in Caller, q # p PROVE CallOK(q)'
  OBVIOUS
<1>1. CallOK(q) /\ pc'[q] = pc[q] /\ call'[q] = call[q] /\ result'[q] = result[q]
  BY DEF Inv, Evidence
<1>2. call[q].store \in Store
  BY CallParts DEF Inv
<1>3. ASSUME pc[q] # "idle" PROVE CopyBacked(pc[q], call[q].authority, call[q].store)'
  <2>1. \A label, a : \A st \in Store :
          (label = "event" => a \in Authority) /\ CopyBacked(label, a, st)
          => Backed(st, IF label = "record" THEN records' \cup {a} ELSE records', entry',
                    IF label = "event" THEN [events' EXCEPT ![a] = @ + 1] ELSE events')
    BY CopyKept DEF CopyBacked
  <2>2. /\ pc[q] = "event" => call[q].authority \in Authority
        /\ CopyBacked(pc[q], call[q].authority, call[q].store)
    BY <1>1, <1>3 DEF CallOK
  <2>3. Backed(call[q].store,
               IF pc[q] = "record" THEN records' \cup {call[q].authority} ELSE records', entry',
               IF pc[q] = "event" THEN [events' EXCEPT ![call[q].authority] = @ + 1] ELSE events')
    BY <1>2, <2>1, <2>2
  <2> QED BY <1>1, <2>3 DEF CopyBacked
<1> QED BY <1>1, <1>3 DEF CallOK, Grows

-----------------------------------------------------------------------------
(* Calls begin: the copy a call modified is backed.                        *)

LEMMA BeginKept ==
    ASSUME Inv, NEW p \in Caller, NEW label \in PCs \ {"idle"}, NEW op \in Ops,
           NEW s \in Slot \cup {None}, NEW a \in Authority \cup {None}, NEW st \in Store,
           Begin(p, label, op, s, a, st),
           label \in {"record", "event", "link", "verify"} => a \in Authority,
           label = "link" => s \in Slot /\ a \in records,
           CopyBacked(label, a, st)
    PROVE  Inv'
<1>1. TypeOK'
  BY TypeBegin DEF Inv
<1>2. UNCHANGED <<store, records, events, entry>>
  BY DEF Begin, files
<1>3. Grows
  <2>1. \A b \in Authority : events[b] \in 0..MaxEvents
    BY DEF Inv, TypeOK
  <2> QED BY <1>2, <2>1, EventsAssumption DEF Grows
<1>4. /\ pc'[p] = label /\ result'[p] = "none"
      /\ call'[p].slot = s /\ call'[p].authority = a /\ call'[p].store = st
  BY DEF Begin, Inv, TypeOK
<1>5. CopyBacked(label, a, st)'
  BY <1>2 DEF CopyBacked
<1>6. CallOK(p)'
  BY <1>2, <1>4, <1>5 DEF CallOK, CopyBacked
<1>7. \A q \in Caller : q # p => CallOK(q)'
  BY <1>1, <1>3, OthersKept DEF Begin, Inv, TypeOK
<1> QED BY <1>1, <1>2, <1>6, <1>7 DEF Inv, Evidence

LEMMA PlainCopy ==
    ASSUME Inv, NEW label \in PCs \ {"record", "event"}, NEW a
    PROVE  CopyBacked(label, a, store)
BY DEF Inv, Evidence, CopyBacked

LEMMA IssueKept ==
    ASSUME Inv, NEW p \in Caller, NEW c \in Candidate, NEW e \in Evaluation, Issue(p, c, e)
    PROVE  Inv'
<1> DEFINE st == IssuedStore(store, c, e)
           a == <<c, e>>
<1>1. store \in Store /\ a \in Authority
  BY DEF Inv, TypeOK, Authority
<1>2. /\ st \in Store
      /\ st.decision = [store.decision EXCEPT ![c] = e]
      /\ st.lifecycle = [store.lifecycle EXCEPT ![c] = "PROMOTABLE"]
      /\ st.request = store.request /\ st.revoked = store.revoked
  BY <1>1, IssuedStoreTyped
<1>3. /\ Begin(p, "record", "issue", None, a, st)
      /\ store.lifecycle[c] \in {"ABSENT", "PROMOTABLE"}
  BY DEF Issue, IssuedStore
<1> HIDE DEF st
<1>4. Backed(st, records \cup {a}, entry, events)
  <2>1. Backed(store, records, entry, events)
    BY DEF Inv, Evidence
  <2>2. \A d \in Candidate : st.decision[d] # None => <<d, st.decision[d]>> \in records \cup {a}
    BY <1>1, <1>2, <2>1, StoreParts DEF Backed
  <2>3. st.request # None => /\ st.lifecycle[st.request[1]] = "PROMOTED"
                             /\ \E s \in Slot : entry[s] = st.request
    BY <1>1, <1>2, <1>3, <2>1, StoreParts DEF Backed, Authority
  <2> QED BY <1>2, <2>1, <2>2, <2>3 DEF Backed
<1>5. CopyBacked("record", a, st)
  BY <1>4 DEF CopyBacked
<1> HIDE DEF a
<1> QED BY <1>1, <1>2, <1>3, <1>5, BeginKept DEF PCs, Ops

LEMMA RevokeKept ==
    ASSUME Inv, NEW p \in Caller, NEW a \in Authority, Revoke(p, a)
    PROVE  Inv'
<1> DEFINE st == IF store.made THEN RevokedStore(store, a) ELSE store
<1>1. store \in Store /\ events \in [Authority -> Nat]
  BY EventsNat DEF Inv, TypeOK
<1>2. /\ Begin(p, "event", "revoke", None, a, st)
      /\ store.revoked[a] < MaxEvents
  BY DEF Revoke, RevokedStore
<1>3. /\ st \in Store
      /\ st.decision = store.decision /\ st.lifecycle = store.lifecycle
      /\ st.request = store.request
      /\ st.revoked = IF store.made THEN [store.revoked EXCEPT ![a] = @ + 1] ELSE store.revoked
  BY <1>1, <1>2, RevokedStoreTyped
<1> HIDE DEF st
<1>4. Backed(st, records, entry, [events EXCEPT ![a] = @ + 1])
  <2>1. Backed(store, records, entry, events)
    BY DEF Inv, Evidence
  <2>2. ASSUME NEW b \in Authority PROVE st.revoked[b] <= [events EXCEPT ![a] = @ + 1][b]
    <3>1. store.revoked[b] \in 0..MaxEvents /\ store.revoked \in [Authority -> 0..MaxEvents]
      BY <1>1, StoreParts
    <3>2. store.revoked[b] <= events[b]
      BY <2>1 DEF Backed
    <3> QED BY <1>1, <1>3, <3>1, <3>2, EventsAssumption
  <2> QED BY <1>3, <2>1, <2>2 DEF Backed
<1>5. CopyBacked("event", a, st)
  BY <1>4 DEF CopyBacked
<1> QED BY <1>2, <1>3, <1>5, BeginKept DEF PCs, Ops

LEMMA MarkKept ==
    ASSUME Inv, NEW p \in Caller, NEW s \in Slot, MarkPromoted(p, s)
    PROVE  Inv'
<1> DEFINE a == entry[s]
           st == MarkedStore(store, a)
<1>1. store \in Store /\ a \in Authority
  BY DEF Inv, TypeOK, MarkPromoted
<1>2. /\ st \in Store
      /\ st.decision = store.decision
      /\ st.lifecycle = [store.lifecycle EXCEPT ![a[1]] = "PROMOTED"]
      /\ st.request = IF store.decision[a[1]] = a[2] THEN a ELSE store.request
      /\ st.revoked = store.revoked
  BY <1>1, MarkedStoreTyped
<1>3. Begin(p, "store", "mark", s, a, st)
  BY DEF MarkPromoted, MarkedStore
<1> HIDE DEF st
<1>4. Backed(st, records, entry, events)
  <2>1. Backed(store, records, entry, events)
    BY DEF Inv, Evidence
  <2>2. st.request # None => /\ st.lifecycle[st.request[1]] = "PROMOTED"
                             /\ \E t \in Slot : entry[t] = st.request
    <3>1. a[1] \in Candidate /\ store.lifecycle \in [Candidate -> {"ABSENT", "PROMOTABLE", "PROMOTED"}]
      BY <1>1, StoreParts DEF Authority
    <3>2. CASE st.request = a
      BY <1>2, <3>1, <3>2
    <3>3. CASE st.request # a
      <4>1. st.request = store.request
        BY <1>2, <3>3
      <4>2. ASSUME store.request # None
            PROVE  store.lifecycle[store.request[1]] = "PROMOTED" /\ store.request[1] \in Candidate
        BY <1>1, <2>1, <4>2, StoreParts DEF Backed, Authority
      <4> QED BY <1>2, <2>1, <3>1, <4>1, <4>2 DEF Backed
    <3> QED BY <3>2, <3>3
  <2> QED BY <1>2, <2>1, <2>2 DEF Backed
<1>5. CopyBacked("store", a, st)
  BY <1>4 DEF CopyBacked
<1> HIDE DEF a
<1> QED BY <1>1, <1>2, <1>3, <1>5, BeginKept DEF PCs, Ops

LEMMA SealKept ==
    ASSUME Inv, NEW p \in Caller, Seal(p)
    PROVE  Inv'
<1> DEFINE st == SealedStore(store)
<1>1. /\ st \in Store
      /\ st.decision = store.decision /\ st.lifecycle = store.lifecycle
      /\ st.request = store.request /\ st.revoked = store.revoked
  BY SealedStoreTyped DEF Inv, TypeOK
<1>2. Begin(p, "seal", "seal", None, None, st)
  BY DEF Seal, SealedStore
<1> HIDE DEF st
<1>3. CopyBacked("seal", None, st)
  BY <1>1 DEF Inv, Evidence, CopyBacked, Backed
<1> QED BY <1>1, <1>2, <1>3, BeginKept DEF PCs, Ops

LEMMA PromoteKept ==
    ASSUME Inv, NEW p \in Caller, NEW s \in Slot, NEW c \in Candidate, NEW e \in Evaluation,
           Promote(p, s, c, e)
    PROVE  Inv'
<1> DEFINE a == <<c, e>>
<1>1. a \in Authority /\ store \in Store /\ a \in records
  BY DEF Promote, Inv, TypeOK, Authority
<1>2. Begin(p, "link", "promote", s, a, store)
  BY DEF Promote
<1> HIDE DEF a
<1>3. CopyBacked("link", a, store)
  BY PlainCopy DEF PCs
<1> QED BY <1>1, <1>2, <1>3, BeginKept DEF PCs, Ops

LEMMA AdoptKept ==
    ASSUME Inv, NEW p \in Caller, NEW s \in Slot, Adopt(p, s)
    PROVE  Inv'
<1>1. entry[s] \in Authority /\ store \in Store
  BY DEF Adopt, Inv, TypeOK
<1>2. CopyBacked("verify", entry[s], store)
  BY PlainCopy DEF PCs
<1>3. Begin(p, "verify", "adopt", s, entry[s], store)
  BY DEF Adopt
<1> QED BY <1>1, <1>2, <1>3, BeginKept DEF PCs, Ops

-----------------------------------------------------------------------------
(* The steps of a call.                                                    *)

LEMMA StepKept ==
    ASSUME Inv, TypeOK', Grows, NEW p \in Caller,
           \A q \in Caller : q # p =>
               pc'[q] = pc[q] /\ call'[q] = call[q] /\ result'[q] = result[q],
           \A s \in Slot : entry'[s] # None => entry'[s] \in records',
           Backed(store', records', entry', events'), CallOK(p)'
    PROVE  Inv'
BY OthersKept DEF Inv, Evidence

\* A call that returned owes nothing.
LEMMA AfterReturn ==
    ASSUME TypeOK, NEW p \in Caller, NEW r, Return(p, r)
    PROVE  /\ CallOK(p)'
           /\ \A q \in Caller : q # p =>
                 pc'[q] = pc[q] /\ call'[q] = call[q] /\ result'[q] = result[q]
BY DEF TypeOK, Return, CallOK

LEMMA AfterGoto ==
    ASSUME TypeOK, NEW p \in Caller, NEW label, Goto(p, label)
    PROVE  /\ pc'[p] = label /\ call'[p] = call[p] /\ result'[p] = result[p]
           /\ \A q \in Caller : q # p =>
                 pc'[q] = pc[q] /\ call'[q] = call[q] /\ result'[q] = result[q]
BY DEF TypeOK, Goto

LEMMA NothingWritten ==
    ASSUME TypeOK, UNCHANGED <<records, events, entry>>
    PROVE  Grows
<1>1. \A b \in Authority : events[b] \in 0..MaxEvents
  BY DEF TypeOK
<1> QED BY <1>1, EventsAssumption DEF Grows

\* A step that writes nothing but the store, the anchor or the call's own state.
LEMMA PlainStep ==
    ASSUME Inv, TypeOK', NEW p \in Caller, UNCHANGED <<records, events, entry>>,
           \/ store' = store
           \/ store' = call[p].store /\ pc[p] \in {"store", "anchor"},
           \/ \E r : Return(p, r)
           \/ /\ pc[p] \in {"seal", "store"}
              /\ Goto(p, "store") \/ Goto(p, "anchor")
    PROVE  Inv'
<1>1. TypeOK /\ Grows
  BY NothingWritten DEF Inv
<1>2. Backed(store', records', entry', events')
  BY DEF Inv, Evidence, CallOK, CopyBacked
<1>3. \A s \in Slot : entry'[s] # None => entry'[s] \in records'
  BY DEF Inv, Evidence
<1>4. /\ CallOK(p)'
      /\ \A q \in Caller : q # p =>
            pc'[q] = pc[q] /\ call'[q] = call[q] /\ result'[q] = result[q]
  <2>1. CASE \E r : Return(p, r)
    BY <1>1, <2>1, AfterReturn
  <2>2. CASE pc[p] \in {"seal", "store"} /\ (Goto(p, "store") \/ Goto(p, "anchor"))
    <3>1. CallOK(p)
      BY DEF Inv, Evidence
    <3> QED BY <1>1, <2>2, <3>1, AfterGoto DEF CallOK, CopyBacked
  <2> QED BY <2>1, <2>2
<1> QED BY <1>1, <1>2, <1>3, <1>4, StepKept

LEMMA WriteRecordKept ==
    ASSUME Inv, NEW p \in Caller, WriteRecord(p)
    PROVE  Inv'
<1> DEFINE a == call[p].authority
<1>1. TypeOK /\ CallOK(p) /\ pc[p] = "record" /\ a \in Authority
  BY DEF Inv, Evidence, WriteRecord, CallOK
<1>2. records' = records \cup {a} /\ Goto(p, "store")
      /\ UNCHANGED <<store, events, anchor, entry>>
  BY DEF WriteRecord
<1>3. TypeOK'
  <2>1. pc' \in [Caller -> PCs] /\ call' \in [Caller -> CallType] /\ result' \in [Caller -> Results]
    BY <1>1, <1>2, TypeGoto DEF PCs
  <2> QED BY <1>1, <1>2, <2>1 DEF TypeOK
<1>4. Grows
  <2>1. \A b \in Authority : events[b] \in 0..MaxEvents
    BY <1>1 DEF TypeOK
  <2> QED BY <1>2, <2>1, EventsAssumption DEF Grows
<1>5. Backed(store', records', entry', events')
  <2>1. Backed(store, records', entry', events')
    BY <1>3, <1>4, StoreKept DEF Inv, Evidence, TypeOK
  <2> QED BY <1>2, <2>1
<1>6. \A s \in Slot : entry'[s] # None => entry'[s] \in records'
  BY <1>2 DEF Inv, Evidence
<1>7. CallOK(p)'
  <2>1. pc'[p] = "store" /\ call'[p] = call[p] /\ result'[p] = result[p]
    BY <1>1, <1>2, AfterGoto
  <2>2. Backed(call[p].store, records', entry, events)
    BY <1>1, <1>2 DEF CallOK, CopyBacked
  <2>3. CopyBacked("store", a, call[p].store)'
    BY <1>2, <2>1, <2>2 DEF CopyBacked
  <2> QED BY <1>1, <2>1, <2>3 DEF CallOK
<1>8. \A q \in Caller : q # p =>
          pc'[q] = pc[q] /\ call'[q] = call[q] /\ result'[q] = result[q]
  BY <1>1, <1>2, AfterGoto
<1> QED BY <1>3, <1>4, <1>5, <1>6, <1>7, <1>8, StepKept

LEMMA AppendEventKept ==
    ASSUME Inv, NEW p \in Caller, AppendEvent(p)
    PROVE  Inv'
<1> DEFINE a == call[p].authority
<1>1. TypeOK /\ CallOK(p) /\ pc[p] = "event" /\ a \in Authority
  BY DEF Inv, Evidence, AppendEvent, CallOK
<1>2. /\ events[a] < MaxEvents /\ events' = [events EXCEPT ![a] = @ + 1]
      /\ Goto(p, "store") \/ Return(p, "OK")
      /\ UNCHANGED <<store, records, anchor, entry>>
  BY DEF AppendEvent
<1>3. events \in [Authority -> 0..MaxEvents] /\ events' \in [Authority -> 0..MaxEvents]
  BY <1>1, <1>2, EventsAssumption DEF TypeOK
<1>4. TypeOK'
  <2>1. pc' \in [Caller -> PCs] /\ call' \in [Caller -> CallType] /\ result' \in [Caller -> Results]
    BY <1>1, <1>2, TypeGoto, TypeReturn DEF PCs, Results
  <2> QED BY <1>1, <1>2, <1>3, <2>1 DEF TypeOK
<1>5. Grows
  BY <1>2, <1>3, EventsAssumption DEF Grows
<1>6. Backed(store', records', entry', events')
  <2>1. Backed(store, records', entry', events')
    BY <1>4, <1>5, StoreKept DEF Inv, Evidence, TypeOK
  <2> QED BY <1>2, <2>1
<1>7. \A s \in Slot : entry'[s] # None => entry'[s] \in records'
  BY <1>2 DEF Inv, Evidence
<1>8. /\ CallOK(p)'
      /\ \A q \in Caller : q # p =>
            pc'[q] = pc[q] /\ call'[q] = call[q] /\ result'[q] = result[q]
  <2>1. CASE Return(p, "OK")
    BY <1>1, <2>1, AfterReturn
  <2>2. CASE Goto(p, "store")
    <3>1. /\ pc'[p] = "store" /\ call'[p] = call[p] /\ result'[p] = result[p]
          /\ \A q \in Caller : q # p =>
                pc'[q] = pc[q] /\ call'[q] = call[q] /\ result'[q] = result[q]
      BY <1>1, <2>2, AfterGoto
    <3>2. Backed(call[p].store, records, entry, events')
      BY <1>1, <1>2 DEF CallOK, CopyBacked
    <3>3. CopyBacked("store", a, call[p].store)'
      BY <1>2, <3>1, <3>2 DEF CopyBacked
    <3> QED BY <1>1, <3>1, <3>3 DEF CallOK
  <2> QED BY <1>2, <2>1, <2>2
<1> QED BY <1>4, <1>5, <1>6, <1>7, <1>8, StepKept

LEMMA LinkEntryKept ==
    ASSUME Inv, NEW p \in Caller, LinkEntry(p)
    PROVE  Inv' /\ Grows
<1> DEFINE a == call[p].authority
           s == call[p].slot
<1>1. /\ TypeOK /\ CallOK(p) /\ pc[p] = "link"
      /\ a \in Authority /\ s \in Slot /\ a \in records
  BY DEF Inv, Evidence, LinkEntry, CallOK
<1>2. PICK r \in Results : Return(p, r)
  BY DEF LinkEntry, Results
<1>3. /\ entry' = entry \/ (entry[s] = None /\ entry' = [entry EXCEPT ![s] = a])
      /\ UNCHANGED <<store, records, events, anchor>>
  BY DEF LinkEntry
<1>4. /\ entry' \in [Slot -> Authority \cup {None}]
      /\ \A t \in Slot : entry[t] # None => entry'[t] = entry[t]
      /\ \A t \in Slot : entry'[t] # None => entry'[t] \in records'
  BY <1>1, <1>3 DEF Inv, TypeOK, Evidence
<1>5. TypeOK'
  <2>1. pc' \in [Caller -> PCs] /\ call' \in [Caller -> CallType] /\ result' \in [Caller -> Results]
    BY <1>1, <1>2, TypeReturn
  <2> QED BY <1>1, <1>3, <1>4, <2>1 DEF TypeOK
<1>6. Grows
  <2>1. \A b \in Authority : events[b] \in 0..MaxEvents
    BY <1>1 DEF TypeOK
  <2> QED BY <1>3, <1>4, <2>1, EventsAssumption DEF Grows
<1>7. Backed(store', records', entry', events')
  <2>1. Backed(store, records', entry', events')
    BY <1>5, <1>6, StoreKept DEF Inv, Evidence, TypeOK
  <2> QED BY <1>3, <2>1
<1>8. /\ CallOK(p)'
      /\ \A q \in Caller : q # p =>
            pc'[q] = pc[q] /\ call'[q] = call[q] /\ result'[q] = result[q]
  BY <1>1, <1>2, AfterReturn
<1> QED BY <1>4, <1>5, <1>6, <1>7, <1>8, StepKept

LEMMA SnapshotTyped ==
    ASSUME TypeOK, NEW st \in Store
    PROVE  Snapshot(st) \in AnchorType
BY DEF TypeOK, Snapshot, AnchorType

LEMMA VerifyKept ==
    ASSUME Inv, NEW p \in Caller, Verify(p)
    PROVE  Inv'
<1>1. PICK r \in Results : Return(p, r)
  BY DEF Verify, Results
<1>2. TypeOK'
  BY <1>1, TypeReturn DEF Inv, TypeOK, Verify, files
<1> QED BY <1>1, <1>2, PlainStep DEF Verify, files

LEMMA CrashKept ==
    ASSUME Inv, NEW p \in Caller, Crash(p)
    PROVE  Inv'
<1>1. Return(p, "CRASHED") /\ "CRASHED" \in Results
  BY DEF Crash, Results
<1>2. TypeOK'
  BY <1>1, TypeReturn DEF Inv, TypeOK, Crash, files
<1> QED BY <1>1, <1>2, PlainStep DEF Crash, files

LEMMA WriteSealKept ==
    ASSUME Inv, NEW p \in Caller, WriteSeal(p)
    PROVE  Inv'
<1>1. /\ pc[p] = "seal" /\ UNCHANGED <<store, records, events, entry>>
      /\ Return(p, "BLOCKED") \/ Goto(p, "store")
      /\ anchor' = anchor \/ anchor' = Snapshot(call[p].store)
  BY DEF WriteSeal
<1>2. anchor' \in AnchorType
  BY <1>1, SnapshotTyped, CallParts DEF Inv, TypeOK
<1>3. pc' \in [Caller -> PCs] /\ call' \in [Caller -> CallType] /\ result' \in [Caller -> Results]
  BY <1>1, TypeGoto, TypeReturn DEF Inv, PCs, Results
<1>4. TypeOK'
  BY <1>1, <1>2, <1>3 DEF Inv, TypeOK
<1> QED BY <1>1, <1>4, PlainStep

LEMMA ReplaceStoreKept ==
    ASSUME Inv, NEW p \in Caller, ReplaceStore(p)
    PROVE  Inv'
<1>1. /\ pc[p] = "store" /\ store' = call[p].store
      /\ UNCHANGED <<records, events, anchor, entry>>
      /\ Return(p, "OK") \/ Goto(p, "anchor")
  BY DEF ReplaceStore
<1>2. store' \in Store
  BY <1>1, CallParts DEF Inv
<1>3. pc' \in [Caller -> PCs] /\ call' \in [Caller -> CallType] /\ result' \in [Caller -> Results]
  BY <1>1, TypeGoto, TypeReturn DEF Inv, PCs, Results
<1>4. TypeOK'
  BY <1>1, <1>2, <1>3 DEF Inv, TypeOK
<1> QED BY <1>1, <1>4, PlainStep

LEMMA RefreshAnchorKept ==
    ASSUME Inv, NEW p \in Caller, RefreshAnchor(p)
    PROVE  Inv'
<1>1. /\ Return(p, "OK") /\ "OK" \in Results
      /\ UNCHANGED <<store, records, events, entry>>
      /\ anchor' = anchor \/ anchor' = Snapshot(call[p].store)
  BY DEF RefreshAnchor, Results
<1>2. anchor' \in AnchorType
  BY <1>1, SnapshotTyped, CallParts DEF Inv, TypeOK
<1>3. TypeOK'
  BY <1>1, <1>2, TypeReturn DEF Inv, TypeOK
<1> QED BY <1>1, <1>3, PlainStep

-----------------------------------------------------------------------------
(* The invariant.                                                          *)

LEMMA InvInit == Init => Inv
<1> SUFFICES ASSUME Init PROVE Inv
  OBVIOUS
<1>1. TypeOK
  BY TypeInit
<1>2. Backed(store, records, entry, events)
  BY DEF Init, Backed, NoStore
<1>3. \A p \in Caller : CallOK(p)
  BY DEF Init, CallOK
<1> QED BY <1>1, <1>2, <1>3 DEF Inv, Evidence, Init

LEMMA InvNext == Inv /\ [Next]_vars => Inv'
<1> SUFFICES ASSUME Inv, [Next]_vars PROVE Inv'
  OBVIOUS
<1>1. ASSUME NEW p \in Caller, Calls(p) PROVE Inv'
  BY <1>1, IssueKept, PromoteKept, RevokeKept, MarkKept, AdoptKept, SealKept DEF Calls
<1>2. ASSUME NEW p \in Caller, Steps(p) PROVE Inv'
  BY <1>2, WriteRecordKept, AppendEventKept, LinkEntryKept, VerifyKept,
     WriteSealKept, ReplaceStoreKept, RefreshAnchorKept DEF Steps
<1>3. ASSUME NEW p \in Caller, Crash(p) PROVE Inv'
  BY <1>3, CrashKept
<1>4. CASE UNCHANGED vars
  BY SMTT(30), <1>4 DEF vars, files, Inv, TypeOK, Evidence, Backed, CallOK, CopyBacked
<1> QED BY <1>1, <1>2, <1>3, <1>4 DEF Next

LEMMA Invariance == Spec => []Inv
BY InvInit, InvNext, PTL DEF Spec

-----------------------------------------------------------------------------
(* Theorems.                                                               *)

\* Any number of callers, crashes included: the files keep their format and every
\* call its locals.
THEOREM ChainTyped == Spec => []TypeOK
<1>1. Inv => TypeOK
  BY DEF Inv
<1> QED BY <1>1, Invariance, PTL

\* Any number of callers, crashes included: what the store or an entry calls an
\* authority was issued, its record is on the disk (write_authority_record is
\* called before the store is replaced).
THEOREM AuthoritiesIssued == Spec => []IssuedFirst
<1>1. Inv => IssuedFirst
  BY DEF Inv, Evidence, Backed, IssuedFirst
<1> QED BY <1>1, Invariance, PTL

\* Any number of callers, crashes included: the run request mark_promoted leaves in
\* the store names a promoted candidate bound by a registry entry.
THEOREM RequestsPromoted == Spec => []RequestIsPromoted
<1>1. Inv => RequestIsPromoted
  BY DEF Inv, Evidence, Backed, RequestIsPromoted
<1> QED BY <1>1, Invariance, PTL

\* Any number of callers, crashes included: the store never claims a revocation the
\* append-only log does not hold.
THEOREM StoreCopiesEvents == Spec => []CopyOfEvents
<1>1. Inv => CopyOfEvents
  BY DEF Inv, Evidence, Backed, CopyOfEvents
<1> QED BY <1>1, Invariance, PTL

\* A step of one caller leaves the result of the others alone, and its own is
\* "ALLOW" only if it is Verify.
LEMMA OnlyVerifyAllows ==
    ASSUME Inv, [Next]_vars, NEW p \in Caller, pc[p] = "verify", result'[p] = "ALLOW"
    PROVE  Verify(p)
<1>1. result[p] = "none"
  BY DEF Inv, Evidence, CallOK
<1>2. PICK q \in Caller : Calls(q) \/ Steps(q) \/ Crash(q)
  BY <1>1 DEF Next, vars
<1>3. result \in [Caller -> Results]
  BY DEF Inv, TypeOK
<1>4. ASSUME Calls(q) PROVE FALSE
  <2>1. result' = [result EXCEPT ![q] = "none"]
    BY <1>4 DEF Calls, Issue, Promote, Revoke, MarkPromoted, Adopt, Seal, Begin
  <2> QED BY <1>1, <1>3, <2>1
<1>5. ASSUME Crash(q) PROVE FALSE
  BY <1>1, <1>3, <1>5 DEF Crash, Return
<1>6. ASSUME WriteRecord(q) \/ AppendEvent(q) \/ LinkEntry(q) \/ WriteSeal(q)
             \/ ReplaceStore(q) \/ RefreshAnchor(q)
      PROVE  FALSE
  <2>1. \/ result' = result
        \/ \E r \in {"OK", "BLOCKED"} : result' = [result EXCEPT ![q] = r]
    BY <1>6 DEF WriteRecord, AppendEvent, LinkEntry, WriteSeal, ReplaceStore,
                RefreshAnchor, Return, Goto
  <2> QED BY <1>1, <1>3, <2>1
<1>7. Verify(q)
  BY <1>2, <1>4, <1>5, <1>6 DEF Steps
<1>8. q = p
  BY <1>1, <1>3, <1>7 DEF Verify, Return
<1> QED BY <1>7, <1>8

\* Any number of callers, crashes included: runtime_adoption_guard allows no
\* adoption of an authority whose log holds a revocation, however stale the store it
\* read and whatever another caller's write took out of that store.
THEOREM RevokedNeverAdopted == Spec => NoRevokedAdoption
<1>1. ASSUME Inv, [Next]_vars, NEW p \in Caller, pc[p] = "verify", result'[p] = "ALLOW"
      PROVE  events[call[p].authority] = 0
  <2>1. Verify(p)
    BY <1>1, OnlyVerifyAllows
  <2>2. Adoptable(call[p].store, call[p].authority)
    BY <1>1, <2>1 DEF Verify, Return, Inv, TypeOK
  <2>3. call[p].authority \in Authority
    BY <1>1 DEF Inv, Evidence, CallOK
  <2>4. events[call[p].authority] \in 0..MaxEvents
    BY <1>1, <2>3 DEF Inv, TypeOK
  <2> QED BY <2>2, <2>4, EventsAssumption DEF Adoptable, Revoked
<1>2. Inv /\ [Next]_vars
      => [\A p \in Caller :
            (pc[p] = "verify" /\ result'[p] = "ALLOW") => events[call[p].authority] = 0]_vars
  BY <1>1
<1> QED BY <1>2, Invariance, PTL DEF Spec, NoRevokedAdoption

\* Any number of callers, crashes included: a registry entry, once linked, stays
\* bound to the same authority, also when two promotions race for its path.
THEOREM EntriesFinal == Spec => EntryIsFinal
<1>1. ASSUME Inv, [Next]_vars, NEW s \in Slot, entry[s] # None
      PROVE  entry'[s] = entry[s]
  <2>1. CASE UNCHANGED vars
    BY <2>1 DEF vars, files
  <2>2. ASSUME NEW p \in Caller, Calls(p) \/ Crash(p) PROVE entry' = entry
    BY <2>2 DEF Calls, Crash, Issue, Promote, Revoke, MarkPromoted, Adopt, Seal, Begin, files
  <2>3. ASSUME NEW p \in Caller, Steps(p), ~LinkEntry(p) PROVE entry' = entry
    BY <2>3 DEF Steps, WriteRecord, AppendEvent, Verify, WriteSeal, ReplaceStore,
                RefreshAnchor, files
  <2>4. ASSUME NEW p \in Caller, LinkEntry(p) PROVE entry'[s] = entry[s]
    BY <1>1, <2>4, LinkEntryKept DEF Grows
  <2> QED BY <1>1, <2>1, <2>2, <2>3, <2>4 DEF Next
<1>2. Inv /\ [Next]_vars
      => [\A s \in Slot : entry[s] # None => entry'[s] = entry[s]]_vars
  BY <1>1
<1> QED BY <1>2, Invariance, PTL DEF Spec, EntryIsFinal

-----------------------------------------------------------------------------
(***************************************************************************)
(* What the chain keeps when one operator at a time works on a registry    *)
(* root, wherever calls die: the store only accumulates, what is PROMOTED  *)
(* is bound, a torn write stays visible in the anchor, and a call that     *)
(* reports success leaves store and anchor in agreement.                   *)
(***************************************************************************)

OneCaller == \A p, q \in Caller : p = q

OneInv == Inv /\ OneOperator

-----------------------------------------------------------------------------
(* The copies of the store accumulate.                                     *)

LEMMA IssuedFlags ==
    ASSUME NEW st \in Store, NEW c \in Candidate, NEW e \in Evaluation
    PROVE  /\ IssuedStore(st, c, e).made = TRUE
           /\ IssuedStore(st, c, e).sealed = st.sealed
BY DEF IssuedStore, Store

LEMMA MarkedFlags ==
    ASSUME NEW st \in Store, NEW a
    PROVE  /\ MarkedStore(st, a).made = st.made
           /\ MarkedStore(st, a).sealed = st.sealed
BY DEF MarkedStore, Store

LEMMA RevokedFlags ==
    ASSUME NEW st \in Store, NEW a
    PROVE  /\ RevokedStore(st, a).made = st.made
           /\ RevokedStore(st, a).sealed = st.sealed
BY DEF RevokedStore, Store

LEMMA SealedFlags ==
    ASSUME NEW st \in Store
    PROVE  SealedStore(st).made = st.made /\ SealedStore(st).sealed = TRUE
BY DEF SealedStore, Store

LEMMA RevokedNat ==
    ASSUME NEW st \in Store, NEW a \in Authority PROVE st.revoked[a] \in Nat
BY StoreParts, EventsAssumption

LEMMA Reflexive == ASSUME NEW st \in Store PROVE Accumulates(st, st)
BY RevokedNat DEF Accumulates

LEMMA IssueAccumulates ==
    ASSUME NEW st \in Store, NEW c \in Candidate, NEW e \in Evaluation,
           st.decision[c] \in {None, e}, st.lifecycle[c] # "PROMOTED"
    PROVE  Accumulates(st, IssuedStore(st, c, e))
<1> DEFINE st2 == IssuedStore(st, c, e)
<1>1. /\ st2.decision = [st.decision EXCEPT ![c] = e]
      /\ st2.lifecycle = [st.lifecycle EXCEPT ![c] = "PROMOTABLE"]
      /\ st2.revoked = st.revoked
  BY IssuedStoreTyped
<1>a. (st.made => st2.made) /\ (st.sealed => st2.sealed)
  BY IssuedFlags
<1>2. /\ st.decision \in [Candidate -> Evaluation \cup {None}]
      /\ st.lifecycle \in [Candidate -> {"ABSENT", "PROMOTABLE", "PROMOTED"}]
  BY StoreParts
<1>3. \A a \in Authority : st.revoked[a] \in Nat
  BY RevokedNat
<1> HIDE DEF st2
<1>4. \A d \in Candidate :
         /\ st.decision[d] # None => st2.decision[d] = st.decision[d]
         /\ st.lifecycle[d] = "PROMOTED" => st2.lifecycle[d] = "PROMOTED"
  BY <1>1, <1>2
<1>5. \A b \in Authority : st.revoked[b] <= st2.revoked[b]
  BY <1>1, <1>2, <1>3
<1> QED BY <1>a, <1>4, <1>5 DEF Accumulates, st2

LEMMA MarkAccumulates ==
    ASSUME NEW st \in Store, NEW a \in Authority
    PROVE  Accumulates(st, MarkedStore(st, a))
<1> DEFINE st2 == MarkedStore(st, a)
<1>1. /\ st2.decision = st.decision
      /\ st2.lifecycle = [st.lifecycle EXCEPT ![a[1]] = "PROMOTED"]
      /\ st2.revoked = st.revoked
  BY MarkedStoreTyped
<1>a. (st.made => st2.made) /\ (st.sealed => st2.sealed)
  BY MarkedFlags
<1>2. st.lifecycle \in [Candidate -> {"ABSENT", "PROMOTABLE", "PROMOTED"}]
  BY StoreParts
<1>3. \A b \in Authority : st.revoked[b] \in Nat
  BY RevokedNat
<1> HIDE DEF st2
<1>4. \A d \in Candidate :
         /\ st.decision[d] # None => st2.decision[d] = st.decision[d]
         /\ st.lifecycle[d] = "PROMOTED" => st2.lifecycle[d] = "PROMOTED"
  BY <1>1, <1>2
<1>5. \A b \in Authority : st.revoked[b] <= st2.revoked[b]
  BY <1>1, <1>2, <1>3
<1> QED BY <1>a, <1>4, <1>5 DEF Accumulates, st2

LEMMA RevokeAccumulates ==
    ASSUME NEW st \in Store, NEW a \in Authority, st.revoked[a] < MaxEvents
    PROVE  Accumulates(st, RevokedStore(st, a))
<1> DEFINE st2 == RevokedStore(st, a)
<1>1. /\ st2.decision = st.decision /\ st2.lifecycle = st.lifecycle
      /\ st2.revoked = [st.revoked EXCEPT ![a] = @ + 1]
  BY RevokedStoreTyped
<1>a. (st.made => st2.made) /\ (st.sealed => st2.sealed)
  BY RevokedFlags
<1>2. st.revoked \in [Authority -> 0..MaxEvents]
  BY StoreParts
<1>3. \A b \in Authority : st.revoked[b] \in Nat
  BY RevokedNat
<1> HIDE DEF st2
<1>4. \A d \in Candidate :
         /\ st.decision[d] # None => st2.decision[d] = st.decision[d]
         /\ st.lifecycle[d] = "PROMOTED" => st2.lifecycle[d] = "PROMOTED"
  BY <1>1, <1>2
<1>5. \A b \in Authority : st.revoked[b] <= st2.revoked[b]
  BY <1>1, <1>2, <1>3
<1> QED BY <1>a, <1>4, <1>5 DEF Accumulates, st2

LEMMA SealAccumulates ==
    ASSUME NEW st \in Store PROVE Accumulates(st, SealedStore(st))
<1>1. \A b \in Authority : st.revoked[b] <= SealedStore(st).revoked[b]
  BY SealedStoreTyped, RevokedNat
<1> QED BY <1>1, SealedStoreTyped, SealedFlags DEF Accumulates

\* A store that passed the integrity check, or does not exist, is sealed exactly
\* when there is an anchor.
LEMMA SealedIffAnchored ==
    ASSUME OneOperator, store.made => ~Corrupt(store)
    PROVE  store.sealed <=> anchor.made
BY DEF OneOperator, Corrupt

-----------------------------------------------------------------------------
(* Calls begin.                                                            *)

LEMMA BeginView ==
    ASSUME OneCaller, OneInv, NEW p \in Caller, NEW label, NEW op, NEW s, NEW a, NEW st,
           Begin(p, label, op, s, a, st), CopyCurrent(label, op, a, st)
    PROVE  OneOperator'
<1>1. /\ UNCHANGED files
      /\ pc'[p] = label /\ call'[p].op = op /\ call'[p].authority = a /\ call'[p].store = st
  BY DEF Begin, OneInv, Inv, TypeOK
<1>2. CopyCurrent(label, op, a, st)'
  BY <1>1 DEF files, CopyCurrent, PromotedBound, Corrupt, Snapshot
<1>3. CopyCurrent(pc[p], call[p].op, call[p].authority, call[p].store)'
  BY <1>1, <1>2 DEF CopyCurrent
<1> QED BY <1>1, <1>3 DEF OneCaller, OneInv, OneOperator, PromotedIsBound, PromotedBound, files

LEMMA IssueView ==
    ASSUME OneCaller, OneInv, NEW p \in Caller, NEW c \in Candidate, NEW e \in Evaluation,
           Issue(p, c, e)
    PROVE  OneOperator'
<1> DEFINE st == IssuedStore(store, c, e)
<1>1. /\ store \in Store /\ store.decision[c] \in {None, e}
      /\ store.lifecycle[c] # "PROMOTED"
      /\ store.made => ~Corrupt(store)
      /\ Begin(p, "record", "issue", None, <<c, e>>, st)
  BY DEF OneInv, Inv, TypeOK, Issue, IssuedStore
<1>2. Accumulates(store, st)
  BY <1>1, IssueAccumulates
<1>3. PromotedBound(st)
  <2>1. /\ st.decision = [store.decision EXCEPT ![c] = e]
        /\ st.lifecycle = [store.lifecycle EXCEPT ![c] = "PROMOTABLE"]
    BY <1>1, IssuedStoreTyped
  <2>2. /\ store.decision \in [Candidate -> Evaluation \cup {None}]
        /\ store.lifecycle \in [Candidate -> {"ABSENT", "PROMOTABLE", "PROMOTED"}]
    BY <1>1, StoreParts
  <2> HIDE DEF st
  <2>3. ASSUME NEW d \in Candidate, st.lifecycle[d] = "PROMOTED"
        PROVE  store.lifecycle[d] = "PROMOTED" /\ st.decision[d] = store.decision[d]
    BY <2>1, <2>2, <2>3
  <2> QED BY SMTT(30), <2>3 DEF OneInv, OneOperator, PromotedIsBound, PromotedBound
<1>4. st.sealed <=> anchor.made
  BY <1>1, IssuedFlags, SealedIffAnchored DEF OneInv
<1> HIDE DEF st
<1>5. CopyCurrent("record", "issue", <<c, e>>, st)
  BY <1>2, <1>3, <1>4 DEF CopyCurrent
<1> QED BY <1>1, <1>5, BeginView

LEMMA RevokeView ==
    ASSUME OneCaller, OneInv, NEW p \in Caller, NEW a \in Authority, Revoke(p, a)
    PROVE  OneOperator'
<1> DEFINE st == IF store.made THEN RevokedStore(store, a) ELSE store
<1>1. /\ store \in Store /\ store.revoked[a] < MaxEvents
      /\ store.made => ~Corrupt(store)
      /\ Begin(p, "event", "revoke", None, a, st)
  BY DEF OneInv, Inv, TypeOK, Revoke, RevokedStore
<1>2. Accumulates(store, st) /\ st.sealed = store.sealed
  BY <1>1, RevokeAccumulates, RevokedFlags, Reflexive
<1>3. st.lifecycle = store.lifecycle /\ st.decision = store.decision
  BY <1>1, RevokedStoreTyped
<1>4. st.sealed <=> anchor.made
  BY <1>1, <1>2, SealedIffAnchored DEF OneInv
<1> HIDE DEF st
<1>5. CopyCurrent("event", "revoke", a, st)
  BY SMTT(30), <1>2, <1>3, <1>4 DEF CopyCurrent, OneInv, OneOperator, PromotedIsBound, PromotedBound
<1> QED BY <1>1, <1>5, BeginView

LEMMA MarkView ==
    ASSUME OneCaller, OneInv, NEW p \in Caller, NEW s \in Slot, MarkPromoted(p, s)
    PROVE  OneOperator'
<1> DEFINE a == entry[s]
           st == MarkedStore(store, a)
<1>1. /\ store \in Store /\ a \in Authority
      /\ store.made => ~Corrupt(store)
      /\ Begin(p, "store", "mark", s, a, st)
  BY DEF OneInv, Inv, TypeOK, MarkPromoted, MarkedStore
<1>2. Accumulates(store, st) /\ st.sealed = store.sealed
  BY <1>1, MarkAccumulates, MarkedFlags
<1>3. PromotedBound(st)
  <2>1. /\ st.decision = store.decision
        /\ st.lifecycle = [store.lifecycle EXCEPT ![a[1]] = "PROMOTED"]
    BY <1>1, MarkedStoreTyped
  <2>2. store.lifecycle \in [Candidate -> {"ABSENT", "PROMOTABLE", "PROMOTED"}]
    BY <1>1, StoreParts
  <2>3. store.decision[a[1]] = a[2] /\ a = <<a[1], a[2]>> /\ a # None
    BY <1>1, NoneAssumption DEF OneInv, OneOperator, Authority
  <2> HIDE DEF st
  <2>4. ASSUME NEW d \in Candidate, st.lifecycle[d] = "PROMOTED"
        PROVE  \E t \in Slot : entry[t] # None /\ entry[t] = <<d, st.decision[d]>>
    <3>1. CASE d = a[1]
      <4>1. st.decision[d] = a[2]
        BY <2>1, <2>3, <3>1
      <4> QED BY <2>3, <3>1, <4>1
    <3>2. CASE d # a[1]
      <4>1. store.lifecycle[d] = "PROMOTED"
        BY <2>1, <2>2, <2>4, <3>2
      <4> QED BY <2>1, <4>1 DEF OneInv, OneOperator, PromotedIsBound, PromotedBound
    <3> QED BY <3>1, <3>2
  <2> QED BY <2>4 DEF PromotedBound
<1>4. st.sealed <=> anchor.made
  BY <1>1, <1>2, SealedIffAnchored DEF OneInv
<1> HIDE DEF st
<1>5. CopyCurrent("store", "mark", a, st)
  BY <1>2, <1>3, <1>4 DEF CopyCurrent
<1> QED BY <1>1, <1>5, BeginView

LEMMA SealView ==
    ASSUME OneCaller, OneInv, NEW p \in Caller, Seal(p)
    PROVE  OneOperator'
<1> DEFINE st == SealedStore(store)
<1>1. /\ store \in Store /\ store.made /\ ~anchor.made
      /\ Begin(p, "seal", "seal", None, None, st)
  BY DEF OneInv, Inv, TypeOK, Seal, SealedStore
<1>2. Accumulates(store, st) /\ st.sealed
  BY <1>1, SealAccumulates, SealedFlags
<1>3. st.lifecycle = store.lifecycle /\ st.decision = store.decision
  BY <1>1, SealedStoreTyped
<1> HIDE DEF st
<1>4. CopyCurrent("seal", "seal", None, st)
  BY <1>1, <1>2, <1>3 DEF CopyCurrent, OneInv, OneOperator, PromotedIsBound, PromotedBound
<1> QED BY <1>1, <1>4, BeginView

LEMMA PromoteView ==
    ASSUME OneCaller, OneInv, NEW p \in Caller, NEW s \in Slot, NEW c \in Candidate,
           NEW e \in Evaluation, Promote(p, s, c, e)
    PROVE  OneOperator'
<1>1. /\ ~Corrupt(store) /\ store.decision[c] = e
      /\ Begin(p, "link", "promote", s, <<c, e>>, store)
  BY DEF Promote, Valid
<1>2. CopyCurrent("link", "promote", <<c, e>>, store)
  BY <1>1 DEF CopyCurrent
<1> QED BY <1>1, <1>2, BeginView

LEMMA AdoptView ==
    ASSUME OneCaller, OneInv, NEW p \in Caller, NEW s \in Slot, Adopt(p, s)
    PROVE  OneOperator'
<1>1. Begin(p, "verify", "adopt", s, entry[s], store)
  BY DEF Adopt
<1>2. CopyCurrent("verify", "adopt", entry[s], store)
  BY DEF CopyCurrent
<1> QED BY <1>1, <1>2, BeginView

-----------------------------------------------------------------------------
(* The steps of a call.                                                    *)

\* What the one caller knows, from the invariant.
LEMMA Known ==
    ASSUME OneInv, NEW p \in Caller
    PROVE  /\ CopyCurrent(pc[p], call[p].op, call[p].authority, call[p].store)
           /\ call[p].store \in Store /\ store \in Store
BY CallParts DEF OneInv, Inv, OneOperator, TypeOK

\* A call that returned owes nothing; the store and the entries are as they were.
LEMMA ReturnView ==
    ASSUME OneCaller, OneInv, NEW p \in Caller, NEW r, Return(p, r),
           UNCHANGED <<store, anchor, entry>>
    PROVE  OneOperator'
<1>1. pc'[p] = "idle"
  BY DEF Return, OneInv, Inv, TypeOK
<1>2. CopyCurrent(pc[p], call[p].op, call[p].authority, call[p].store)'
  BY <1>1 DEF CopyCurrent
<1> QED BY <1>2 DEF OneCaller, OneInv, OneOperator, PromotedIsBound, PromotedBound

LEMMA LogView ==
    ASSUME OneCaller, OneInv, NEW p \in Caller, WriteRecord(p) \/ AppendEvent(p)
    PROVE  OneOperator'
<1>1. /\ pc[p] \in {"record", "event"} /\ UNCHANGED <<store, anchor, entry>>
      /\ Goto(p, "store") \/ Return(p, "OK")
  BY DEF WriteRecord, AppendEvent
<1>2. CASE Goto(p, "store")
  <2>1. pc'[p] = "store" /\ call' = call
    BY <1>2 DEF Goto, OneInv, Inv, TypeOK
  <2>2. CopyCurrent(pc[p], call[p].op, call[p].authority, call[p].store)'
    BY <1>1, <2>1, Known DEF CopyCurrent, PromotedBound
  <2> QED BY <1>1, <2>2 DEF OneCaller, OneInv, OneOperator, PromotedIsBound, PromotedBound
<1> QED BY <1>1, <1>2, ReturnView

LEMMA LinkView ==
    ASSUME OneCaller, OneInv, NEW p \in Caller, LinkEntry(p)
    PROVE  OneOperator'
<1> DEFINE a == call[p].authority
           s == call[p].slot
<1>1. /\ store.decision[a[1]] = a[2] /\ UNCHANGED <<store, records, events, anchor>>
      /\ pc[p] = "link"
  BY Known DEF LinkEntry, CopyCurrent
<1>2. /\ entry' = entry \/ entry' = [entry EXCEPT ![s] = a]
      /\ \A t \in Slot : entry[t] # None => entry'[t] = entry[t]
  BY LinkEntryKept DEF OneInv, LinkEntry, Grows
<1>3. \A t \in Slot : entry'[t] # None => store.decision[entry'[t][1]] = entry'[t][2]
  BY <1>1, <1>2 DEF OneInv, OneOperator, Inv, TypeOK
<1>4. PromotedIsBound'
  BY <1>1, <1>2 DEF OneInv, OneOperator, PromotedIsBound, PromotedBound
<1>5. pc'[p] = "idle"
  BY DEF LinkEntry, Return, OneInv, Inv, TypeOK
<1>6. CopyCurrent(pc[p], call[p].op, call[p].authority, call[p].store)'
  BY <1>5 DEF CopyCurrent
<1> QED BY <1>1, <1>3, <1>4, <1>6 DEF OneCaller, OneInv, OneOperator

LEMMA WriteSealView ==
    ASSUME OneCaller, OneInv, NEW p \in Caller, WriteSeal(p)
    PROVE  OneOperator'
<1> DEFINE st == call[p].store
<1>1. /\ store.made /\ ~anchor.made /\ st.sealed /\ call[p].op = "seal"
      /\ Accumulates(store, st) /\ PromotedBound(st)
  BY Known DEF WriteSeal, CopyCurrent
<1>2. /\ UNCHANGED <<store, records, events, entry>>
      /\ anchor' = Snapshot(st) /\ Goto(p, "store")
  BY <1>1 DEF WriteSeal
<1>3. pc'[p] = "store" /\ call' = call
  BY <1>2 DEF Goto, OneInv, Inv, TypeOK
<1>4. anchor'.made
  BY <1>2 DEF Snapshot
<1>5. CopyCurrent(pc[p], call[p].op, call[p].authority, call[p].store)'
  BY <1>1, <1>2, <1>3 DEF CopyCurrent, PromotedBound, Snapshot
<1> QED BY <1>1, <1>2, <1>4, <1>5
        DEF OneCaller, OneInv, OneOperator, PromotedIsBound, PromotedBound

LEMMA ReplaceStoreView ==
    ASSUME OneCaller, OneInv, NEW p \in Caller, ReplaceStore(p)
    PROVE  OneOperator'
<1> DEFINE st == call[p].store
           op == call[p].op
<1>1. /\ pc[p] = "store" /\ store' = st
      /\ UNCHANGED <<records, events, anchor, entry>>
      /\ IF op = "seal" THEN Return(p, "OK") ELSE Goto(p, "anchor")
  BY DEF ReplaceStore
<1>2. /\ Accumulates(store, st) /\ PromotedBound(st)
      /\ op = "seal" => st.sealed /\ anchor = Snapshot(st)
      /\ op # "seal" => (st.sealed <=> anchor.made)
  BY <1>1, Known DEF CopyCurrent
<1>3. st.sealed => anchor.made
  BY <1>2 DEF Snapshot
<1>4. anchor.made => st.made
  BY <1>2 DEF OneInv, OneOperator, Accumulates
<1>5. \A s \in Slot : entry[s] # None => st.decision[entry[s][1]] = entry[s][2]
  <2> SUFFICES ASSUME NEW s \in Slot, entry[s] # None
               PROVE  st.decision[entry[s][1]] = entry[s][2]
    OBVIOUS
  <2>1. entry[s] \in Authority
    BY DEF OneInv, Inv, TypeOK
  <2>2. /\ entry[s][1] \in Candidate /\ entry[s][2] \in Evaluation
        /\ store.decision[entry[s][1]] = entry[s][2]
    BY <2>1 DEF Authority, OneInv, OneOperator
  <2> QED BY <1>2, <2>2, NoneAssumption DEF Accumulates
<1>6. CopyCurrent(pc[p], call[p].op, call[p].authority, call[p].store)'
  <2>1. CASE op = "seal"
    <3>1. pc'[p] = "idle"
      BY <1>1, <2>1 DEF Return, OneInv, Inv, TypeOK
    <3> QED BY <3>1 DEF CopyCurrent
  <2>2. CASE op # "seal"
    <3>1. pc'[p] = "anchor" /\ call' = call
      BY <1>1, <2>2 DEF Goto, OneInv, Inv, TypeOK
    <3> QED BY <1>1, <1>2, <2>2, <3>1 DEF CopyCurrent
  <2> QED BY <2>1, <2>2
<1> QED BY <1>1, <1>2, <1>3, <1>4, <1>5, <1>6
        DEF OneCaller, OneOperator, PromotedIsBound, PromotedBound

LEMMA RefreshView ==
    ASSUME OneCaller, OneInv, NEW p \in Caller, RefreshAnchor(p)
    PROVE  OneOperator'
<1>1. /\ UNCHANGED <<store, records, events, entry>> /\ Return(p, "OK")
      /\ anchor' = IF anchor.made THEN Snapshot(call[p].store) ELSE anchor
  BY DEF RefreshAnchor
<1>2. anchor'.made <=> anchor.made
  BY <1>1 DEF Snapshot
<1>3. pc'[p] = "idle"
  BY <1>1 DEF Return, OneInv, Inv, TypeOK
<1>4. CopyCurrent(pc[p], call[p].op, call[p].authority, call[p].store)'
  BY <1>3 DEF CopyCurrent
<1> QED BY <1>1, <1>2, <1>4 DEF OneCaller, OneInv, OneOperator, PromotedIsBound, PromotedBound

-----------------------------------------------------------------------------
(* The invariant.                                                          *)

LEMMA ViewInit == Init => OneOperator
<1> SUFFICES ASSUME Init PROVE OneOperator
  OBVIOUS
<1>1. ~store.sealed /\ ~anchor.made /\ PromotedIsBound
  BY DEF Init, NoStore, NoAnchor, PromotedIsBound, PromotedBound
<1>2. \A p \in Caller : CopyCurrent(pc[p], call[p].op, call[p].authority, call[p].store)
  BY DEF Init, CopyCurrent
<1> QED BY <1>1, <1>2 DEF OneOperator, Init

LEMMA ViewNext == OneCaller /\ OneInv /\ [Next]_vars => OneOperator'
<1> SUFFICES ASSUME OneCaller, OneInv, [Next]_vars PROVE OneOperator'
  OBVIOUS
<1>1. ASSUME NEW p \in Caller, Calls(p) PROVE OneOperator'
  BY <1>1, IssueView, PromoteView, RevokeView, MarkView, AdoptView, SealView DEF Calls
<1>2. ASSUME NEW p \in Caller, Verify(p) \/ Crash(p) PROVE OneOperator'
  BY <1>2, ReturnView DEF Verify, Crash, files
<1>3. ASSUME NEW p \in Caller, Steps(p) PROVE OneOperator'
  BY <1>2, <1>3, LogView, LinkView, WriteSealView, ReplaceStoreView, RefreshView DEF Steps
<1>4. CASE UNCHANGED vars
  <2>1. UNCHANGED <<store, records, events, anchor, entry, pc, call>>
    BY <1>4 DEF vars, files
  <2>2. Corrupt(store)' <=> Corrupt(store)
    BY <2>1 DEF Corrupt, Snapshot
  <2>3. \A st : PromotedBound(st)' <=> PromotedBound(st)
    BY Zenon, <2>1 DEF PromotedBound
  <2>4. \A label, op, a, st :
            CopyCurrent(label, op, a, st)' <=> CopyCurrent(label, op, a, st)
    BY <2>1, <2>2, <2>3 DEF CopyCurrent, Accumulates, Snapshot
  <2> QED BY Zenon, <2>1, <2>3, <2>4 DEF OneInv, OneOperator, PromotedIsBound
<1> QED BY <1>1, <1>2, <1>3, <1>4 DEF Next

LEMMA OneInvariance == ASSUME OneCaller PROVE Spec => []OneInv
<1>1. Init => OneInv
  BY InvInit, ViewInit DEF OneInv
<1>2. OneInv /\ [Next]_vars => OneInv'
  BY OneCaller, InvNext, ViewNext DEF OneInv
<1> QED BY <1>1, <1>2, PTL DEF Spec

-----------------------------------------------------------------------------
(* The theorems.                                                           *)

\* One operator, crashes included: mark_promoted promotes only what a registry
\* entry binds, and no later issuance changes the evaluation under it.
THEOREM PromotionsBound == ASSUME OneCaller PROVE Spec => []PromotedIsBound
<1>1. OneInv => PromotedIsBound
  BY DEF OneInv, OneOperator
<1> QED BY <1>1, OneInvariance, PTL

LEMMA StoreStep == OneInv /\ [Next]_vars => Accumulates(store, store')
<1> SUFFICES ASSUME OneInv, [Next]_vars PROVE Accumulates(store, store')
  OBVIOUS
<1>1. Accumulates(store, store)
  BY Reflexive DEF OneInv, Inv, TypeOK
<1>2. ASSUME NEW p \in Caller, Calls(p) \/ Crash(p) PROVE store' = store
  BY <1>2 DEF Calls, Crash, Issue, Promote, Revoke, MarkPromoted, Adopt, Seal, Begin, files
<1>3. ASSUME NEW p \in Caller, Steps(p), ~ReplaceStore(p) PROVE store' = store
  BY <1>3 DEF Steps, WriteRecord, AppendEvent, LinkEntry, Verify, WriteSeal, RefreshAnchor, files
<1>4. ASSUME NEW p \in Caller, ReplaceStore(p) PROVE Accumulates(store, store')
  BY <1>4, Known DEF ReplaceStore, CopyCurrent
<1>5. CASE UNCHANGED vars
  BY <1>1, <1>5 DEF vars, files
<1> QED BY <1>1, <1>2, <1>3, <1>4, <1>5 DEF Next

\* One operator, crashes included: no call takes a decision, a promotion, a
\* revocation or the seal out of adoption_store.json again.
THEOREM StoreAccumulates == ASSUME OneCaller PROVE Spec => StoreGrows
<1>1. OneInv /\ [Next]_vars => [Accumulates(store, store')]_vars
  BY StoreStep
<1> QED BY <1>1, OneInvariance, PTL DEF Spec, StoreGrows

Broken ==
    /\ store.made /\ Corrupt(store)
    /\ \A p \in Caller : pc[p] \in {"idle", "verify"}

LEMMA BrokenStays == OneInv /\ Broken /\ [Next]_vars => Broken'
<1> SUFFICES ASSUME OneInv, Broken, [Next]_vars PROVE Broken'
  OBVIOUS
<1>1. ASSUME UNCHANGED files, \A p \in Caller : pc'[p] \in {"idle", "verify"}
      PROVE  Broken'
  BY <1>1 DEF Broken, files, Corrupt, Snapshot
<1>2. anchor.made
  BY DEF Broken, Corrupt, OneInv, OneOperator
<1>3. ASSUME NEW p \in Caller, Calls(p) PROVE Broken'
  <2>1. PICK s \in Slot : Adopt(p, s)
    BY <1>2, <1>3 DEF Calls, Issue, Promote, Revoke, MarkPromoted, Seal, Broken
  <2> QED BY <1>1, <2>1 DEF Adopt, Begin, Broken, OneInv, Inv, TypeOK
<1>4. ASSUME NEW p \in Caller, Steps(p) \/ Crash(p) PROVE Broken'
  <2>1. Verify(p) \/ Crash(p)
    BY <1>4 DEF Steps, WriteRecord, AppendEvent, LinkEntry, WriteSeal, ReplaceStore,
                RefreshAnchor, Broken
  <2> QED BY <1>1, <2>1 DEF Verify, Crash, Return, Broken, OneInv, Inv, TypeOK
<1>5. CASE UNCHANGED vars
  BY <1>1, <1>5 DEF vars, Broken
<1> QED BY <1>3, <1>4, <1>5 DEF Next

\* One operator, crashes included: what a torn write left unlike the trust anchor is
\* reported by every later call and repaired by none (adoption_authority.py:186-187).
THEOREM TornStaysTorn == ASSUME OneCaller PROVE Spec => NeverRepaired
<1>1. AllIdle /\ store.made /\ Corrupt(store) => Broken
  BY DEF AllIdle, Broken
<1>2. Broken => Corrupt(store)
  BY DEF Broken
<1> QED BY <1>1, <1>2, BrokenStays, OneInvariance, PTL DEF Spec, NeverRepaired

LEMMA SuccessIntact ==
    ASSUME OneCaller, OneInv, [Next]_vars, NEW p \in Caller,
           pc[p] # "idle", result'[p] = "OK"
    PROVE  ~Corrupt(store)'
<1>1. result[p] = "none" /\ result \in [Caller -> Results]
  BY DEF OneInv, Inv, Evidence, CallOK, TypeOK
<1>2. Calls(p) \/ Steps(p) \/ Crash(p)
  BY <1>1 DEF OneCaller, Next, vars
<1>3. ~Calls(p)
  BY <1>1 DEF Calls, Issue, Promote, Revoke, MarkPromoted, Adopt, Seal, Begin
<1>4. ~(Crash(p) \/ WriteRecord(p) \/ Verify(p) \/ WriteSeal(p))
  BY <1>1 DEF Crash, WriteRecord, Verify, WriteSeal, Return, Goto
<1>5. CASE AppendEvent(p)
  <2>1. ~call[p].store.made /\ pc[p] = "event" /\ UNCHANGED <<store, anchor>>
    BY <1>1, <1>5 DEF AppendEvent, Goto
  <2>2. ~store.made
    BY <2>1, Known DEF CopyCurrent, Accumulates
  <2>3. ~anchor.made /\ ~store.sealed
    BY <2>2 DEF OneInv, OneOperator
  <2> QED BY <2>1, <2>3 DEF Corrupt
<1>6. CASE LinkEntry(p)
  BY <1>6, Known DEF LinkEntry, CopyCurrent, Corrupt, Snapshot
<1>7. CASE ReplaceStore(p)
  <2>1. call[p].op = "seal"
    BY <1>1, <1>7 DEF ReplaceStore, Goto
  <2>2. call[p].store.sealed /\ anchor = Snapshot(call[p].store)
    BY <1>7, <2>1, Known DEF ReplaceStore, CopyCurrent
  <2> QED BY <1>7, <2>2 DEF ReplaceStore, Corrupt, Snapshot
<1>8. CASE RefreshAnchor(p)
  <2>1. store = call[p].store /\ (store.sealed <=> anchor.made)
    BY <1>8, Known DEF RefreshAnchor, CopyCurrent
  <2>2. /\ UNCHANGED <<store, records, events>>
        /\ anchor' = IF anchor.made THEN Snapshot(store) ELSE anchor
    BY <1>8, <2>1 DEF RefreshAnchor
  <2>3. CASE anchor.made
    BY <2>1, <2>2, <2>3 DEF Corrupt, Snapshot
  <2>4. CASE ~anchor.made
    BY <2>1, <2>2, <2>4 DEF Corrupt
  <2> QED BY <2>3, <2>4
<1> QED BY <1>2, <1>3, <1>4, <1>5, <1>6, <1>7, <1>8 DEF Steps

\* One operator, crashes included: every call that reports success has refreshed the
\* trust anchor to what it wrote, and none succeeds over an earlier torn write.
THEOREM SuccessLeavesIntact == ASSUME OneCaller PROVE Spec => IntactAfterSuccess
<1>1. OneInv /\ [Next]_vars
      => [\A p \in Caller :
            (pc[p] # "idle" /\ result'[p] = "OK") => ~Corrupt(store)']_vars
  BY OneCaller, SuccessIntact
<1> QED BY <1>1, OneInvariance, PTL DEF Spec, IntactAfterSuccess
=============================================================================
