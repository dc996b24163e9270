---------------------------- MODULE DurableState ----------------------------
(***************************************************************************)
(* What a node relies on when it writes its files before it answers: a     *)
(* call saves the state it leaves in one step, or fails and says nothing.  *)
(* A restart finds the state saved last, a power cut one that was saved    *)
(* since the disk last caught up; never a mixture of two.  The code does   *)
(* not look at a failed save: until a later call saves its state, an       *)
(* answered state may exist in memory only.                                *)
(***************************************************************************)
CONSTANTS
    Value,              \* the states a node can have
    Fresh               \* the state of a node that has no files

VARIABLES
    value,              \* the state the last answered call left in memory
    saved,              \* the state a restart would find
    past,               \* the states a power cut may leave
    busy,               \* is a call being served?
    failed              \* was a call answered whose state was not saved?

durableVars == <<value, saved, past, busy, failed>>

Init ==
    /\ value = Fresh /\ saved = Fresh /\ past = {Fresh}
    /\ ~busy /\ ~failed

Begin ==
    /\ ~busy /\ busy'
    /\ UNCHANGED <<value, saved, past, failed>>

Save ==
    /\ busy
    /\ saved' \in Value
    /\ past' = past \cup {saved'}
    /\ UNCHANGED <<value, busy, failed>>

Answer ==
    /\ busy /\ ~busy'
    /\ value' = saved
    /\ ~failed'
    /\ UNCHANGED <<saved, past>>

AnswerUnsaved ==
    /\ busy /\ ~busy'
    /\ value' \in Value
    /\ failed'
    /\ UNCHANGED <<saved, past>>

\* A call is given up before it saved anything.
Abort ==
    /\ busy /\ ~busy'
    /\ failed \/ saved = value
    /\ UNCHANGED <<value, saved, past, failed>>

\* The disk catches up with some of the saves.
Flush ==
    /\ past' \subseteq past
    /\ saved \in past'
    /\ UNCHANGED <<value, saved, busy, failed>>

Restart ==
    /\ value' = saved
    /\ ~busy' /\ ~failed'
    /\ UNCHANGED <<saved, past>>

PowerCut ==
    /\ saved' \in past
    /\ past' = {saved'}
    /\ value' = saved'
    /\ ~busy' /\ ~failed'

Next == Begin \/ Save \/ Answer \/ AnswerUnsaved \/ Abort \/ Flush \/ Restart \/ PowerCut

Spec == Init /\ [][Next]_durableVars

\* An answered state is on disk, unless a save has failed since.
AnsweredIsSaved == ~busy /\ ~failed => saved = value

=============================================================================
