--------------------------- MODULE ContextRefusal ---------------------------
(***************************************************************************)
(* ContextAdmission with a history variable: what had been completed when  *)
(* a process restored a refusal that an earlier one had recorded           *)
(* (restore_terminal_outcome in src/src/context_policy/runtime.rs).        *)
(***************************************************************************)
EXTENDS ContextAdmission

VARIABLE
    before      \* completed at the first restored refusal, in a set; none yet: {}

refusalVars == <<allVars, before>>

\* The processes that restore a recorded refusal in this step.
Restoring ==
    {p \in Proc : proc[p].pc = "down" /\ proc'[p].pc = "up" /\ context'[p].write_failed}

InitRefusal == InitAdmission /\ before = {}

NextRefusal ==
    /\ NextAdmission
    /\ before' = IF before = {} /\ Restoring # {} THEN {completed} ELSE before

SpecRefusal == InitRefusal /\ [][NextRefusal]_refusalVars

\* A session that resumes a recorded refusal stays refused: no branch of it is completed
\* after that.
RestoredRefusalStays == \A done \in before : completed = done
=============================================================================
