---------------------------- MODULE MCLineEditor ----------------------------
(***************************************************************************)
(* Lines of up to three characters on rows that have room for two, with    *)
(* two remembered.                                                         *)
(***************************************************************************)
EXTENDS LineEditor

MCLetters == {"[", "A", "B"}
MCPrompt == <<">">>

(* The rows above and below the cursor's are left out of the fingerprint:  *)
(* no later step of a line that has not wrapped reads them.                *)
Visible == <<out, nav, escape, hist, count, next, log, wrapped,
             IF wrapped THEN 0 ELSE screen.col, IF wrapped THEN 0 ELSE ShownRow>>
=============================================================================
