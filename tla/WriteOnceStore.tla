--------------------------- MODULE WriteOnceStore ---------------------------
(***************************************************************************)
(* What freeze_candidate promises: an identity is sealed at most once, with*)
(* one content, and an answer tells the truth about it.  A call may fail at*)
(* any time, also after it has sealed the identity.                        *)
(***************************************************************************)
CONSTANTS
    Caller,    \* processes that seal
    Candidate, \* identities
    Content,   \* manifest, tests and artifact of a candidate
    None       \* Python's None

VARIABLES
    sealed,  \* per identity: its content
    request, \* per caller: the identity and content it asks to seal
    answer   \* per caller: the answer to its last request

Answers == {"none", "SEALED", "CONFLICT", "FAILED"}

Init ==
    /\ sealed = [c \in Candidate |-> None]
    /\ request = [p \in Caller |-> None]
    /\ answer = [p \in Caller |-> "none"]

Ask(p, c, x) ==
    /\ request[p] = None
    /\ request' = [request EXCEPT ![p] = <<c, x>>]
    /\ answer' = [answer EXCEPT ![p] = "none"]
    /\ UNCHANGED sealed

Seal(p) ==
    /\ request[p] # None
    /\ sealed[request[p][1]] = None
    /\ sealed' = [sealed EXCEPT ![request[p][1]] = request[p][2]]
    /\ UNCHANGED <<request, answer>>

Truthful(a, c, x) ==
    /\ a = "SEALED" => sealed[c] = x
    /\ a = "CONFLICT" => sealed[c] \notin {None, x}

Answer(p) ==
    /\ request[p] # None
    /\ \E a \in Answers \ {"none"} :
          /\ Truthful(a, request[p][1], request[p][2])
          /\ answer' = [answer EXCEPT ![p] = a]
    /\ request' = [request EXCEPT ![p] = None]
    /\ UNCHANGED sealed

Next ==
    \E p \in Caller :
        \/ \E c \in Candidate, x \in Content : Ask(p, c, x)
        \/ Seal(p)
        \/ Answer(p)

Spec == Init /\ [][Next]_<<sealed, request, answer>>
=============================================================================
