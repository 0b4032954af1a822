------------------------- MODULE AdoptionAuthority -------------------------
(***************************************************************************)
(* The adoption chain of pilot/: adoption_authority_producer issues an     *)
(* authority, registry promotes a candidate with it, runtime_adoption_guard*)
(* marks it promoted and adopts it, adoption_authority revokes it and      *)
(* seals the state with an external trust anchor.                          *)
(*                                                                         *)
(* Four kinds of files hold the state: the store (read whole, modified,    *)
(* replaced whole, no lock), the write-once authority records, the         *)
(* append-only event logs and the write-once registry entries.  The anchor *)
(* holds digests of the first three; a digest is here the value itself.    *)
(*                                                                         *)
(* A call reads and decides in one step and then does one step per file it *)
(* writes.  Between two steps other callers run, or the caller crashes.  A *)
(* call refused when it reads changes nothing: it is a stuttering step.    *)
(* Candidates are canonical and their evaluations passed; what the checks  *)
(* of digests, policy and provenance compare is the evaluation bound to a  *)
(* candidate.  The anchor's path is configured outside the registry root.  *)
(***************************************************************************)
EXTENDS Naturals, FiniteSets

CONSTANTS
    Caller,       \* processes working on one registry root
    Candidate,    \* frozen candidates
    Evaluation,   \* evaluations an operator may confirm for a candidate
    Slot,         \* registry entry paths <family>/<name>/versions/<v>.json
    MaxEvents,    \* revocation events of an authority (a bound)
    None          \* Python's None

\* authority_id_for(candidate, version, decision): one decision per evaluation.
Authority == Candidate \X Evaluation

ASSUME NoneAssumption == None \notin Evaluation /\ None \notin Authority
ASSUME EventsAssumption == MaxEvents \in Nat

VARIABLES
    store,    \* adoption_store.json
    records,  \* authorities/<id>.json
    events,   \* authorities/<id>.events.jsonl: number of revocations
    anchor,   \* the external trust anchor
    entry,    \* per slot: the authority its registry entry is bound to
    pc, call, \* per caller: the next step and the locals of the call
    result    \* per caller: how its last call ended

files == <<store, records, events, anchor, entry>>
vars == <<files, pc, call, result>>

Store == [made : BOOLEAN,
          decision : [Candidate -> Evaluation \cup {None}],
          lifecycle : [Candidate -> {"ABSENT", "PROMOTABLE", "PROMOTED"}],
          revoked : [Authority -> 0..MaxEvents],
          request : Authority \cup {None},
          sealed : BOOLEAN]

NoStore == [made |-> FALSE,
            decision |-> [c \in Candidate |-> None],
            lifecycle |-> [c \in Candidate |-> "ABSENT"],
            revoked |-> [a \in Authority |-> 0],
            request |-> None,
            sealed |-> FALSE]

\* The files an anchor vouches for.
Snapshot(st) == [made |-> TRUE, store |-> st, records |-> records, events |-> events]
NoAnchor == [made |-> FALSE]

NoCall == [op |-> "none", slot |-> None, authority |-> None, store |-> NoStore]
Ops == {"none", "issue", "revoke", "promote", "mark", "seal", "adopt"}
PCs == {"idle", "record", "event", "link", "seal", "store", "anchor", "verify"}
Results == {"none", "OK", "BLOCKED", "ALLOW", "CRASHED"}

AnchorType == {NoAnchor} \cup
    [made : {TRUE}, store : Store, records : SUBSET Authority, events : [Authority -> 0..MaxEvents]]
CallType == [op : Ops, slot : Slot \cup {None}, authority : Authority \cup {None}, store : Store]

TypeOK ==
    /\ store \in Store
    /\ records \subseteq Authority
    /\ events \in [Authority -> 0..MaxEvents]
    /\ anchor \in AnchorType
    /\ entry \in [Slot -> Authority \cup {None}]
    /\ pc \in [Caller -> PCs]
    /\ call \in [Caller -> CallType]
    /\ result \in [Caller -> Results]

Init ==
    /\ store = NoStore
    /\ records = {}
    /\ events = [a \in Authority |-> 0]
    /\ anchor = NoAnchor
    /\ entry = [s \in Slot |-> None]
    /\ pc = [p \in Caller |-> "idle"]
    /\ call = [p \in Caller |-> NoCall]
    /\ result = [p \in Caller |-> "none"]

-----------------------------------------------------------------------------
(* What the checks compare.                                                *)

\* integrity_anchor_violations of a store read from the disk.
Corrupt(st) ==
    \/ ~anchor.made /\ st.sealed
    \/ anchor.made /\ ~(st.sealed /\ anchor = Snapshot(st))

\* Mutant: only the synchronised copy in the store is looked at.
RevokedInStore(st, a) == st.revoked[a] > 0

\* A revocation in the event log or in the store's copy of it.
Revoked(st, a) == events[a] > 0 \/ st.revoked[a] > 0

\* violations_for_authority is empty for authority <<c, e>>.
Valid(st, c, e) ==
    /\ st.decision[c] = e
    /\ st.lifecycle[c] = "PROMOTABLE"
    /\ ~Revoked(st, <<c, e>>)

\* violations_for_runtime_activation is empty for an entry bound to a.
Adoptable(st, a) ==
    /\ ~Corrupt(st)
    /\ a \in records
    /\ st.decision[a[1]] = a[2]
    /\ st.lifecycle[a[1]] = "PROMOTED"
    /\ ~Revoked(st, a)

-----------------------------------------------------------------------------
(* Control flow of a call.                                                 *)

Begin(p, label, op, s, a, st) ==
    /\ pc[p] = "idle"
    /\ pc' = [pc EXCEPT ![p] = label]
    /\ call' = [call EXCEPT ![p] = [op |-> op, slot |-> s, authority |-> a, store |-> st]]
    /\ result' = [result EXCEPT ![p] = "none"]
    /\ UNCHANGED files

Goto(p, label) ==
    /\ pc' = [pc EXCEPT ![p] = label]
    /\ UNCHANGED <<call, result>>

Return(p, r) ==
    /\ pc' = [pc EXCEPT ![p] = "idle"]
    /\ call' = [call EXCEPT ![p] = NoCall]
    /\ result' = [result EXCEPT ![p] = r]

-----------------------------------------------------------------------------
(* issue_authority: record, store, anchor.                                 *)

\* Mutant: the merge of the store overwrites what another evaluation left.
IssueOverwrites(p, c, e) ==
    /\ store.made => ~Corrupt(store)
    /\ LET merged == [store EXCEPT !.made = TRUE, !.decision[c] = e,
                                   !.lifecycle[c] = "PROMOTABLE"]
       IN  Valid(merged, c, e) /\ Begin(p, "record", "issue", None, <<c, e>>, merged)

\* The records of another evaluation of c, or c being PROMOTED, block it.
Issue(p, c, e) ==
    /\ store.made => ~Corrupt(store)
    /\ store.decision[c] \in {None, e}
    /\ store.lifecycle[c] \in {"ABSENT", "PROMOTABLE"}
    /\ LET merged == [store EXCEPT !.made = TRUE, !.decision[c] = e,
                                   !.lifecycle[c] = "PROMOTABLE"]
       IN  Valid(merged, c, e) /\ Begin(p, "record", "issue", None, <<c, e>>, merged)

\* write_authority_record: a repeat writes the same record again.
WriteRecord(p) ==
    /\ pc[p] = "record"
    /\ records' = records \cup {call[p].authority}
    /\ Goto(p, "store")
    /\ UNCHANGED <<store, events, anchor, entry>>

-----------------------------------------------------------------------------
(* revoke_authority: event, store, anchor.                                 *)

\* Mutant: the anchor is not checked.
RevokeUnchecked(p, a) ==
    /\ a \in records
    /\ events[a] < MaxEvents /\ store.revoked[a] < MaxEvents
    /\ Begin(p, "event", "revoke", None, a,
             IF store.made THEN [store EXCEPT !.revoked[a] = @ + 1] ELSE store)

\* Without a store only the record is looked at.
Revoke(p, a) ==
    /\ IF store.made THEN ~Corrupt(store) ELSE ~anchor.made
    /\ a \in records
    /\ events[a] < MaxEvents /\ store.revoked[a] < MaxEvents
    /\ Begin(p, "event", "revoke", None, a,
             IF store.made THEN [store EXCEPT !.revoked[a] = @ + 1] ELSE store)

AppendEvent(p) ==
    /\ pc[p] = "event"
    /\ LET a == call[p].authority IN
       /\ events[a] < MaxEvents
       /\ events' = [events EXCEPT ![a] = @ + 1]
    /\ IF call[p].store.made THEN Goto(p, "store") ELSE Return(p, "OK")
    /\ UNCHANGED <<store, records, anchor, entry>>

-----------------------------------------------------------------------------
(* registry.promote: the entry, created exclusively.                       *)

\* An entry that exists is returned or conflicts: nothing changes.
Promote(p, s, c, e) ==
    /\ store.made /\ ~Corrupt(store)
    /\ Valid(store, c, e)
    /\ <<c, e>> \in records
    /\ entry[s] = None
    /\ Begin(p, "link", "promote", s, <<c, e>>, store)

\* os.link: the loser of the race returns the entry if it has the same binding.
LinkEntry(p) ==
    /\ pc[p] = "link"
    /\ LET s == call[p].slot
           a == call[p].authority
       IN  IF entry[s] = None
           THEN entry' = [entry EXCEPT ![s] = a] /\ Return(p, "OK")
           ELSE /\ UNCHANGED entry
                /\ Return(p, IF entry[s] = a THEN "OK" ELSE "BLOCKED")
    /\ UNCHANGED <<store, records, events, anchor>>

-----------------------------------------------------------------------------
(* mark_promoted: store, anchor.                                           *)

\* Mutant: the state of the registry entry is not looked at.
MarkWithoutEntry(p, s) ==
    /\ store.made /\ ~Corrupt(store)
    /\ \E c \in Candidate :
          /\ store.lifecycle[c] = "PROMOTABLE"
          /\ LET a == <<c, store.decision[c]>> IN
             Begin(p, "store", "mark", s, a,
                   [store EXCEPT !.lifecycle[c] = "PROMOTED", !.request = a])

\* The run request follows when the entry's authority is the store's.
MarkPromoted(p, s) ==
    /\ store.made /\ ~Corrupt(store)
    /\ entry[s] # None
    /\ LET a == entry[s]
           marked == [store EXCEPT
              !.lifecycle[a[1]] = "PROMOTED",
              !.request = IF store.decision[a[1]] = a[2] THEN a ELSE @]
       IN  /\ store.lifecycle[a[1]] # "ABSENT"
           /\ marked # store
           /\ Begin(p, "store", "mark", s, a, marked)

-----------------------------------------------------------------------------
(* adopt and verify_at_mount: read the store, then everything else.        *)

Adopt(p, s) ==
    /\ store.made
    /\ entry[s] # None
    /\ Begin(p, "verify", "adopt", s, entry[s], store)

Verify(p) ==
    /\ pc[p] = "verify"
    /\ Return(p, IF Adoptable(call[p].store, call[p].authority) THEN "ALLOW" ELSE "BLOCKED")
    /\ UNCHANGED files

-----------------------------------------------------------------------------
(* seal_trust_anchor: anchor, store.                                       *)

Seal(p) ==
    /\ ~anchor.made
    /\ store.made
    /\ Begin(p, "seal", "seal", None, None, [store EXCEPT !.sealed = TRUE])

\* write_trust_anchor(create_only=True).
WriteSeal(p) ==
    /\ pc[p] = "seal"
    /\ IF anchor.made
       THEN Return(p, "BLOCKED") /\ UNCHANGED anchor
       ELSE anchor' = Snapshot(call[p].store) /\ Goto(p, "store")
    /\ UNCHANGED <<store, records, events, entry>>

-----------------------------------------------------------------------------
(* The store and the anchor, written by every call.                        *)

\* os.replace of the whole store with the caller's modified copy.
ReplaceStore(p) ==
    /\ pc[p] = "store"
    /\ store' = call[p].store
    /\ IF call[p].op = "seal" THEN Return(p, "OK") ELSE Goto(p, "anchor")
    /\ UNCHANGED <<records, events, anchor, entry>>

\* Mutant: a revocation does not refresh the anchor.
RefreshExceptRevoke(p) ==
    /\ pc[p] = "anchor"
    /\ anchor' = IF anchor.made /\ call[p].op # "revoke" THEN Snapshot(call[p].store) ELSE anchor
    /\ Return(p, "OK")
    /\ UNCHANGED <<store, records, events, entry>>

\* write_trust_anchor: only an anchor that exists is refreshed.
RefreshAnchor(p) ==
    /\ pc[p] = "anchor"
    /\ anchor' = IF anchor.made THEN Snapshot(call[p].store) ELSE anchor
    /\ Return(p, "OK")
    /\ UNCHANGED <<store, records, events, entry>>

-----------------------------------------------------------------------------

\* The calling process dies between two writes.
Crash(p) ==
    /\ pc[p] # "idle"
    /\ Return(p, "CRASHED")
    /\ UNCHANGED files

Calls(p) ==
    \/ \E c \in Candidate, e \in Evaluation : Issue(p, c, e)
    \/ \E s \in Slot, c \in Candidate, e \in Evaluation : Promote(p, s, c, e)
    \/ \E a \in Authority : Revoke(p, a)
    \/ \E s \in Slot : MarkPromoted(p, s) \/ Adopt(p, s)
    \/ Seal(p)

Steps(p) ==
    \/ WriteRecord(p) \/ AppendEvent(p) \/ LinkEntry(p) \/ Verify(p)
    \/ WriteSeal(p) \/ ReplaceStore(p) \/ RefreshAnchor(p)

Next == \E p \in Caller : Calls(p) \/ Steps(p) \/ Crash(p)

Spec == Init /\ [][Next]_vars

-----------------------------------------------------------------------------
(* Properties.  Those marked (one caller) do not survive two callers that  *)
(* write the store from copies read before each other's write.             *)

\* Whatever the callers interleave or crash: an authority the store or a registry
\* entry names has its immutable record, which is written first.
IssuedFirst ==
    /\ \A c \in Candidate : store.decision[c] # None => <<c, store.decision[c]>> \in records
    /\ \A s \in Slot : entry[s] # None => entry[s] \in records

\* Whatever the callers interleave or crash: the anchored run request names a
\* promoted candidate that a registry entry is bound to, although store and entry
\* are written by different calls from older copies.
RequestIsPromoted ==
    store.request # None =>
        /\ store.lifecycle[store.request[1]] = "PROMOTED"
        /\ \E s \in Slot : entry[s] = store.request

\* Whatever the callers interleave or crash: the store's copy of the revocations
\* never claims one the event log does not hold.
CopyOfEvents == \A a \in Authority : store.revoked[a] <= events[a]

\* Whatever the callers interleave or crash: no adoption is allowed of an
\* authority whose event log holds a revocation, not even when the store's copy
\* was read before the event or lost it to another caller's write.
NoRevokedAdoption ==
    [][\A p \in Caller :
          (pc[p] = "verify" /\ result'[p] = "ALLOW") => events[call[p].authority] = 0]_vars

\* Whatever the callers interleave or crash: an entry is never rebound.
EntryIsFinal ==
    [][\A s \in Slot : entry[s] # None => entry'[s] = entry[s]]_vars

AllIdle == \A p \in Caller : pc[p] = "idle"

Accumulates(st, st2) ==
    /\ st.made => st2.made
    /\ st.sealed => st2.sealed
    /\ \A c \in Candidate :
          /\ st.decision[c] # None => st2.decision[c] = st.decision[c]
          /\ st.lifecycle[c] = "PROMOTED" => st2.lifecycle[c] = "PROMOTED"
    /\ \A a \in Authority : st.revoked[a] <= st2.revoked[a]

\* (one caller) Decisions, promotions, revocations and the seal only accumulate
\* in the store.
StoreGrows == [][Accumulates(store, store')]_vars

PromotedBound(st) ==
    \A c \in Candidate :
        st.lifecycle[c] = "PROMOTED" =>
            \E s \in Slot : entry[s] # None /\ entry[s] = <<c, st.decision[c]>>

\* (one caller) A candidate is PROMOTED only with the evaluation an entry is bound
\* to, also after a crash and a second issuance with another evaluation.
PromotedIsBound == PromotedBound(store)

\* (one caller) A store a crash left unlike its anchor is never silently repaired
\* by a later call (adoption_authority.py:186-187).
NeverRepaired ==
    [](AllIdle /\ store.made /\ Corrupt(store) => [](Corrupt(store)))

\* (one caller) A call that reports success leaves the store in agreement with its
\* anchor: none forgets to refresh what it changed, and none succeeds on a store
\* that an earlier crash left behind.
IntactAfterSuccess ==
    [][\A p \in Caller :
          (pc[p] # "idle" /\ result'[p] = "OK") => ~Corrupt(store)']_vars

-----------------------------------------------------------------------------
(* The inductive invariant of AdoptionAuthorityProofs: what holds of the   *)
(* store holds of every copy of it that a caller may still write.          *)

Backed(st, recs, ents, evs) ==
    /\ \A c \in Candidate : st.decision[c] # None => <<c, st.decision[c]>> \in recs
    /\ st.request # None => /\ st.lifecycle[st.request[1]] = "PROMOTED"
                            /\ \E s \in Slot : ents[s] = st.request
    /\ \A a \in Authority : st.revoked[a] <= evs[a]

\* The record of an issuance and the event of a revocation are written before the
\* copy that tells of them.
CopyBacked(label, a, st) ==
    Backed(st, IF label = "record" THEN records \cup {a} ELSE records, entry,
           IF label = "event" THEN [events EXCEPT ![a] = @ + 1] ELSE events)

\* A call knows the ids its next step uses, and has no result yet.
CallOK(p) ==
    /\ pc[p] \in {"record", "event", "link", "verify"} => call[p].authority \in Authority
    /\ pc[p] = "link" => call[p].slot \in Slot /\ call[p].authority \in records
    /\ pc[p] # "idle" => result[p] = "none" /\ CopyBacked(pc[p], call[p].authority, call[p].store)

Evidence ==
    /\ Backed(store, records, entry, events)
    /\ \A s \in Slot : entry[s] # None => entry[s] \in records
    /\ \A p \in Caller : CallOK(p)

-----------------------------------------------------------------------------
(* The inductive invariant of the proofs for one operator: then a copy of  *)
(* the store only adds to what the store holds when it is written, and the *)
(* store is sealed exactly when there is an anchor to refresh.             *)

CopyCurrent(label, op, a, st) ==
    /\ label \in {"record", "event", "seal", "store"} => /\ Accumulates(store, st)
                                                        /\ PromotedBound(st)
    /\ label \in {"record", "event", "anchor"} => op # "seal"
    /\ label = "link" => ~Corrupt(store) /\ store.decision[a[1]] = a[2]
    /\ label = "seal" => op = "seal" /\ store.made /\ ~anchor.made /\ st.sealed
    /\ label = "store" /\ op = "seal" => st.sealed /\ anchor = Snapshot(st)
    /\ label \in {"record", "event", "store", "anchor"} /\ op # "seal" =>
          (st.sealed <=> anchor.made)
    /\ label = "anchor" => store = st

OneOperator ==
    /\ store.sealed => anchor.made
    /\ anchor.made => store.made
    /\ PromotedIsBound
    /\ \A s \in Slot : entry[s] # None => store.decision[entry[s][1]] = entry[s][2]
    /\ \A p \in Caller : CopyCurrent(pc[p], call[p].op, call[p].authority, call[p].store)
=============================================================================
