------------------------------- MODULE Durable -------------------------------
(***************************************************************************)
(* What the user may expect of the calculator's memory: it is there again  *)
(* after the process has gone, as it was when it was last stored.  While   *)
(* it is being stored nothing is promised, and a calculator that came from *)
(* nothing promised is Lost until it is reset.                             *)
(***************************************************************************)
CONSTANTS States, ResetState,
          Nothing,      \* nothing was ever stored
          Gone,         \* there is no process
          Lost

VARIABLES memory, stored

durableVars == <<memory, stored>>

DurableInit ==
    /\ memory = Gone
    /\ stored \in States \cup {Nothing, Lost}   \* an older build may have stored

Change(s) ==
    /\ memory \in States \/ (memory = Lost /\ s = ResetState)
    /\ memory' = s
    /\ UNCHANGED stored

Rewrite == memory # Gone /\ stored' = Lost /\ UNCHANGED memory

Store == memory # Gone /\ stored' = memory /\ UNCHANGED memory

(* The process ends; a factory reset ends it with nothing stored. *)
End ==
    /\ memory' = Gone
    /\ stored' \in {stored, Nothing}

Begin ==
    /\ memory = Gone
    /\ \/ stored \in States /\ memory' = stored
       \/ stored = Nothing /\ memory' = ResetState
       \/ stored = Lost /\ memory' \in States \cup {Lost}
    /\ UNCHANGED stored

DurableNext == (\E s \in States : Change(s)) \/ Rewrite \/ Store \/ End \/ Begin

DurableSpec == DurableInit /\ [][DurableNext]_durableVars
=============================================================================
