---------------------------- MODULE FileExchange -----------------------------
(***************************************************************************)
(* What native code may expect of a file request: it names one request at  *)
(* a time, the user answers it with its file or with nothing, and the call *)
(* returns that answer and no other one.                                   *)
(***************************************************************************)
CONSTANTS Ids, Nothing

VARIABLES asked, answer, result

exchangeVars == <<asked, answer, result>>

ExchangeInit == asked = Nothing /\ answer = "open" /\ result = Nothing

Ask(r) ==
    /\ asked = Nothing
    /\ asked' = r /\ answer' = "open"
    /\ UNCHANGED result

Choose ==
    /\ asked # Nothing /\ answer = "open"
    /\ answer' \in {"file", "cancelled"}
    /\ UNCHANGED <<asked, result>>

Return ==
    /\ asked # Nothing /\ answer # "open"
    /\ result' = IF answer = "file" THEN asked ELSE Nothing
    /\ asked' = Nothing /\ answer' = "open"

(* The request could not even be put to the user. *)
Fail ==
    /\ answer = "open"
    /\ result' = Nothing
    /\ asked' = Nothing
    /\ UNCHANGED answer

ExchangeNext == (\E r \in Ids : Ask(r)) \/ Choose \/ Return \/ Fail

ExchangeSpec == ExchangeInit /\ [][ExchangeNext]_exchangeVars
=============================================================================
