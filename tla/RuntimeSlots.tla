---------------------------- MODULE RuntimeSlots ----------------------------
(***************************************************************************)
(* What a deployment promises: it is a slot for one container.  The slot   *)
(* is only filled when it is empty, with the version that is wished for at *)
(* that moment and while it is wished to run.  A wish for REVOKED is the   *)
(* last one.  A container may be gone at any time.                         *)
(***************************************************************************)
CONSTANTS
    Deployment, \* slots
    Instance,   \* what a container is named after
    Version,    \* what a container runs
    None        \* Python's None

VARIABLES
    wish,   \* per slot: the version and state its owner wants
    running \* per slot: the containers that are up, each with its version

States == {"RUNNING", "STOPPED", "REVOKED"}
NoWish == [version |-> None, desired |-> "ABSENT"]

Init ==
    /\ wish = [d \in Deployment |-> NoWish]
    /\ running = [d \in Deployment |-> {}]

Wish(d, v, s) ==
    /\ wish[d].desired # "REVOKED"
    /\ wish' = [wish EXCEPT ![d] = [version |-> v, desired |-> s]]
    /\ UNCHANGED running

Start(d, i) ==
    /\ running[d] = {}
    /\ wish[d].desired = "RUNNING"
    /\ running' = [running EXCEPT ![d] = {<<i, wish[d].version>>}]
    /\ UNCHANGED wish

Stop(d) ==
    /\ running[d] # {}
    /\ running' = [running EXCEPT ![d] = {}]
    /\ UNCHANGED wish

Next ==
    \E d \in Deployment :
        \/ \E v \in Version, s \in States : Wish(d, v, s)
        \/ \E i \in Instance : Start(d, i)
        \/ Stop(d)

Spec == Init /\ [][Next]_<<wish, running>>
=============================================================================
