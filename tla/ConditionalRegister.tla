------------------------ MODULE ConditionalRegister ------------------------
(***************************************************************************)
(* What a guarded replacement promises: one register that is moved from    *)
(* its planned prior text to the new text in one atomic step, at most      *)
(* once, and that no crash or recovery moves back or leaves empty in       *)
(* between.  The promise ends when somebody else writes the register.      *)
(***************************************************************************)
CONSTANTS
    Prior,       \* the planned prior text
    New,         \* the text that replaces it
    Interfered   \* the value that stands for a foreign write

VARIABLE value

Init == value = Prior

Replace ==
    /\ value = Prior
    /\ value' = New

Interfere ==
    /\ value # Interfered
    /\ value' = Interfered

Next == Replace \/ Interfere

Spec == Init /\ [][Next]_value
=============================================================================
