-------------------------- MODULE FrozenCandidate --------------------------
(***************************************************************************)
(* The frozen candidate store of forge/capabilityizer.py: freeze_candidate *)
(* seals an identity by linking its record and then renaming its snapshot  *)
(* into place, between an unlock and a lock of the directory.  The harness *)
(* calls it through freeze_candidate_dir, which first collects the ids     *)
(* the adoption store references, so that a deleted identity is not sealed *)
(* again.  issue_authority, which creates those references, is here its    *)
(* check of the frozen files and its two writes.                           *)
(*                                                                         *)
(* A content stands for manifest, tests and artifact: equal contents have  *)
(* equal digests.  Each file operation is a step; between two of them the  *)
(* other callers run, files are deleted, or the caller dies.               *)
(***************************************************************************)
EXTENDS Naturals

CONSTANTS
    Caller,    \* processes that freeze and issue
    Candidate, \* candidate ids
    Content,   \* what may be found in a candidate directory
    MayDelete, \* somebody deletes records and snapshots
    None       \* Python's None

ASSUME NoneAssumption == None \notin Content /\ None \notin Candidate \X Content
ASSUME DeleteAssumption == MayDelete \in BOOLEAN

VARIABLES
    record,   \* frozen/<id>.json
    snapshot, \* frozen/<id>/
    locked,   \* frozen/ has mode 0555
    ledger,   \* authorities/: candidate and content of each authority
    stored,   \* adoption_store.json: the content it references for each id
    pc, call, \* per caller: the next step and the locals of the call
    result    \* per caller: the verdict of its last freeze

vars == <<record, snapshot, locked, ledger, stored, pc, call, result>>

Table == [Candidate -> Content \cup {None}]

FreezePCs == {"check", "materialize", "link", "commit", "lock"}
IssuePCs == {"record", "store"}
Results == {"none", "FROZEN", "ALLOW", "FROZEN_CANDIDATE_CONFLICT",
            "FROZEN_CANDIDATE_INCOMPLETE", "NEW_CANDIDATE_REQUIRED", "BLOCK",
            "RAISED", "CRASHED"}
CallType == [id : Candidate, content : Content, referenced : BOOLEAN, store : Table]

TypeOK ==
    /\ record \in Table
    /\ snapshot \in Table
    /\ locked \in BOOLEAN
    /\ ledger \subseteq Candidate \X Content
    /\ stored \in Table
    /\ pc \in [Caller -> {"idle"} \cup FreezePCs \cup IssuePCs]
    /\ call \in [Caller -> CallType \cup {None}]
    /\ \A p \in Caller : pc[p] # "idle" => call[p] \in CallType
    /\ result \in [Caller -> Results]

Init ==
    /\ record = [c \in Candidate |-> None]
    /\ snapshot = [c \in Candidate |-> None]
    /\ locked = FALSE
    /\ ledger = {}
    /\ stored = [c \in Candidate |-> None]
    /\ pc = [p \in Caller |-> "idle"]
    /\ call = [p \in Caller |-> None]
    /\ result = [p \in Caller |-> "none"]

-----------------------------------------------------------------------------

Goto(p, label) ==
    /\ pc' = [pc EXCEPT ![p] = label]
    /\ UNCHANGED <<call, result>>

Return(p, r) ==
    /\ pc' = [pc EXCEPT ![p] = "idle"]
    /\ call' = [call EXCEPT ![p] = None]
    /\ result' = [result EXCEPT ![p] = r]

\* Mutant: the record alone decides.
ConflictByRecord(c, x) ==
    IF record[c] = x THEN "ALLOW" ELSE "FROZEN_CANDIDATE_CONFLICT"

\* _conflict_result: the bytes of the snapshot are not looked at.
ConflictResult(c, x) ==
    CASE snapshot[c] = None -> "FROZEN_CANDIDATE_INCOMPLETE"
      [] snapshot[c] # None /\ record[c] = x -> "ALLOW"
      [] OTHER -> "FROZEN_CANDIDATE_CONFLICT"

\* referenced_candidate_ids: the store, not the authority records.
Referenced(c) == stored[c] # None

-----------------------------------------------------------------------------
(* freeze_candidate_dir and freeze_candidate.                              *)

Freeze(p, c, x) ==
    /\ pc[p] = "idle"
    /\ pc' = [pc EXCEPT ![p] = "check"]
    /\ call' = [call EXCEPT ![p] = [id |-> c, content |-> x,
                                    referenced |-> Referenced(c), store |-> stored]]
    /\ result' = [result EXCEPT ![p] = "none"]
    /\ UNCHANGED <<record, snapshot, locked, ledger, stored>>

\* Mutant: a deleted identity is sealed again.
CheckFilesOnly(p) ==
    /\ pc[p] = "check"
    /\ LET c == call[p].id IN
       \/ record[c] # None /\ Return(p, ConflictResult(c, call[p].content)) /\ UNCHANGED locked
       \/ record[c] = None /\ Goto(p, "materialize") /\ locked' = FALSE
    /\ UNCHANGED <<record, snapshot, ledger, stored>>

\* What is there decides; an identity that may be sealed unlocks the directory.
Check(p) ==
    /\ pc[p] = "check"
    /\ LET c == call[p].id
           absent == record[c] = None /\ snapshot[c] = None
       IN  \/ /\ record[c] # None
              /\ Return(p, ConflictResult(c, call[p].content))
              /\ UNCHANGED locked
           \/ /\ record[c] = None
              /\ snapshot[c] # None \/ call[p].referenced
              /\ Return(p, "NEW_CANDIDATE_REQUIRED")
              /\ UNCHANGED locked
           \/ /\ absent /\ ~call[p].referenced
              /\ Goto(p, "materialize")
              /\ locked' = FALSE
    /\ UNCHANGED <<record, snapshot, ledger, stored>>

\* The temporary copies; BLOCK when the directory changed while it was copied.
Materialize(p) ==
    /\ pc[p] = "materialize"
    /\ \/ locked /\ Return(p, "RAISED")
       \/ ~locked /\ Goto(p, "link")
       \/ ~locked /\ Return(p, "BLOCK")
    /\ UNCHANGED <<record, snapshot, locked, ledger, stored>>

\* os.link of the record; a locked directory raises PermissionError.
Link(p) ==
    /\ pc[p] = "link"
    /\ LET c == call[p].id
           x == call[p].content
       IN  \/ locked /\ Return(p, "RAISED") /\ UNCHANGED record
           \/ /\ ~locked /\ record[c] = None
              /\ record' = [record EXCEPT ![c] = x]
              /\ Goto(p, "commit")
           \/ /\ ~locked /\ record[c] # None
              /\ Return(p, ConflictResult(c, x))
              /\ UNCHANGED record
    /\ UNCHANGED <<snapshot, locked, ledger, stored>>

\* os.replace of the snapshot; any OSError is reported as INCOMPLETE.
Commit(p) ==
    /\ pc[p] = "commit"
    /\ LET c == call[p].id IN
       \/ /\ locked \/ snapshot[c] # None
          /\ Return(p, "FROZEN_CANDIDATE_INCOMPLETE")
          /\ UNCHANGED snapshot
       \/ /\ ~locked /\ snapshot[c] = None
          /\ snapshot' = [snapshot EXCEPT ![c] = call[p].content]
          /\ Goto(p, "lock")
    /\ UNCHANGED <<record, locked, ledger, stored>>

\* chmod of the record, which may be gone, and of the directory.
Lock(p) ==
    /\ pc[p] = "lock"
    /\ \/ record[call[p].id] = None /\ Return(p, "RAISED") /\ UNCHANGED locked
       \/ record[call[p].id] # None /\ Return(p, "FROZEN") /\ locked' = TRUE
    /\ UNCHANGED <<record, snapshot, ledger, stored>>

-----------------------------------------------------------------------------
(* issue_authority: frozen_checks, the authority record, the store.        *)

\* frozen_checks: record and snapshot agree.
Intact(c, x) == record[c] = x /\ snapshot[c] = x

\* The store's records of another content block the issuance.
Issue(p, c, x) ==
    /\ pc[p] = "idle"
    /\ Intact(c, x)
    /\ stored[c] \in {None, x}
    /\ pc' = [pc EXCEPT ![p] = "record"]
    /\ call' = [call EXCEPT ![p] = [id |-> c, content |-> x, referenced |-> FALSE,
                                    store |-> [stored EXCEPT ![c] = x]]]
    /\ UNCHANGED <<record, snapshot, locked, ledger, stored, result>>

WriteRecord(p) ==
    /\ pc[p] = "record"
    /\ ledger' = ledger \cup {<<call[p].id, call[p].content>>}
    /\ Goto(p, "store")
    /\ UNCHANGED <<record, snapshot, locked, stored>>

\* The whole store is replaced by the caller's copy.
WriteStore(p) ==
    /\ pc[p] = "store"
    /\ stored' = call[p].store
    /\ Return(p, result[p])
    /\ UNCHANGED <<record, snapshot, locked, ledger>>

-----------------------------------------------------------------------------
(* The environment.                                                        *)

LoseRecord(c) ==
    /\ MayDelete
    /\ record[c] # None
    /\ record' = [record EXCEPT ![c] = None]
    /\ UNCHANGED <<snapshot, locked, ledger, stored, pc, call, result>>

LoseSnapshot(c) ==
    /\ MayDelete
    /\ snapshot[c] # None
    /\ snapshot' = [snapshot EXCEPT ![c] = None]
    /\ UNCHANGED <<record, locked, ledger, stored, pc, call, result>>

\* The caller dies; what it had written stays.
Crash(p) ==
    /\ pc[p] # "idle"
    /\ Return(p, IF pc[p] \in FreezePCs THEN "CRASHED" ELSE result[p])
    /\ UNCHANGED <<record, snapshot, locked, ledger, stored>>

Steps(p) ==
    \/ Check(p) \/ Materialize(p) \/ Link(p) \/ Commit(p) \/ Lock(p)
    \/ WriteRecord(p) \/ WriteStore(p)

Next ==
    \/ \E p \in Caller, c \in Candidate, x \in Content : Freeze(p, c, x) \/ Issue(p, c, x)
    \/ \E p \in Caller : Steps(p) \/ Crash(p)
    \/ \E c \in Candidate : LoseRecord(c) \/ LoseSnapshot(c)

Spec == Init /\ [][Next]_vars

-----------------------------------------------------------------------------
(* Properties.                                                             *)

Sealed == [c \in Candidate |-> IF snapshot[c] = record[c] THEN record[c] ELSE None]

Request == [p \in Caller |->
    IF pc[p] \in FreezePCs THEN <<call[p].id, call[p].content>> ELSE None]

Answered(r) ==
    CASE r = "none" -> "none"
      [] r \in {"FROZEN", "ALLOW"} -> "SEALED"
      [] r = "FROZEN_CANDIDATE_CONFLICT" -> "CONFLICT"
      [] OTHER -> "FAILED"

Reply == [p \in Caller |-> Answered(result[p])]

WriteOnce == INSTANCE WriteOnceStore WITH
    sealed <- Sealed,
    request <- Request,
    answer <- Reply

\* (nothing deleted) However many callers seal the same identities, whichever of
\* them die between the record and the snapshot and whoever locks the directory
\* under another: an identity is sealed once, as a whole, with one content, and
\* FROZEN, ALLOW and CONFLICT are true of it.
SealsOnce == WriteOnce!Spec

\* (one caller) Deleting the files of an identity the store references does not
\* make room for another content, wherever earlier calls were cut off.
ReferencedKeepsContent ==
    \A c \in Candidate : stored[c] # None => record[c] \in {None, stored[c]}

-----------------------------------------------------------------------------
(* The inductive invariant behind SealsOnce.                               *)

\* A snapshot is that of the record; the caller that links the record commits its
\* own snapshot and answers FROZEN only for that content.
WholeSeals ==
    /\ \A c \in Candidate : snapshot[c] # None => snapshot[c] = record[c]
    /\ \A p \in Caller :
          /\ pc[p] \in {"commit", "lock"} => record[call[p].id] = call[p].content
          /\ pc[p] = "lock" => snapshot[call[p].id] = call[p].content

\* The inductive invariant behind ReferencedKeepsContent: the one caller seals only
\* what the store does not reference, and writes of the store only its own id.
ReferencesKept ==
    /\ ReferencedKeepsContent
    /\ \A p \in Caller :
          LET c == call[p].id
              x == call[p].content
          IN  /\ pc[p] = "check" => call[p].referenced = Referenced(c)
              /\ pc[p] \in {"materialize", "link"} => stored[c] = None
              /\ pc[p] \in IssuePCs => /\ call[p].store = [stored EXCEPT ![c] = x]
                                       /\ record[c] \in {None, x}
=============================================================================
