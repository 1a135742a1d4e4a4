-------------------------- MODULE ApprovalWorkflow --------------------------
(***************************************************************************)
(* What the timelog service promises about the life of a time entry        *)
(* (src/README.md, Timelog: "draft -> submitted -> approved | rejected.    *)
(* Each state transition is validated"): every status change is one of the *)
(* four arrows below, it leaves exactly one record in the entry's trail,   *)
(* and only a draft can be withdrawn.                                      *)
(***************************************************************************)
EXTENDS Sequences

CONSTANT EntryIds

VARIABLES phase,  \* where the entry is in its life
          trail   \* the decisions recorded about it, oldest first

awVars == <<phase, trail>>

Init ==
    /\ phase = [e \in EntryIds |-> "unused"]
    /\ trail = [e \in EntryIds |-> <<>>]

Create(e) ==
    /\ phase[e] = "unused"
    /\ phase' = [phase EXCEPT ![e] = "draft"]
    /\ UNCHANGED trail

Withdraw(e) ==
    /\ phase[e] = "draft"
    /\ phase' = [phase EXCEPT ![e] = "withdrawn"]
    /\ UNCHANGED trail

\* One arrow of the lifecycle, with its record.
Transition(e, from, to) ==
    /\ phase[e] = from
    /\ phase' = [phase EXCEPT ![e] = to]
    /\ trail' = [trail EXCEPT ![e] = Append(@, to)]

Next == \E e \in EntryIds :
    \/ Create(e)
    \/ Withdraw(e)
    \/ Transition(e, "draft", "submitted")
    \/ Transition(e, "submitted", "approved")
    \/ Transition(e, "submitted", "rejected")

Spec == Init /\ [][Next]_awVars

=============================================================================
