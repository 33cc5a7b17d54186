------------------------------- MODULE PanelCopy -------------------------------
(***************************************************************************)
(* What a panel promises of the copy it shows: nothing, an older answer    *)
(* ("old"), what the server holds ("new"), or the user's own guess while   *)
(* an edit is on its way ("own").  No request, cache or event is visible.  *)
(***************************************************************************)
EXTENDS Naturals

VARIABLES version,      \* how often the server has changed what the panel is about
          shown,        \* the copy on screen
          editing       \* an edit of the user's that paints the copy is unanswered

Init == version = 0 /\ shown = "none" /\ editing = FALSE

\* What the server holds changes: a copy that was right is right no longer.
Change ==
  /\ version' = version + 1
  /\ shown' = IF shown = "new" THEN "old" ELSE shown
  /\ UNCHANGED editing

Refresh ==
  /\ shown' = "new"
  /\ UNCHANGED <<version, editing>>

\* An answer that a change has overtaken never replaces a newer one.
Overtaken ==
  /\ shown # "new"
  /\ shown' = "old"
  /\ UNCHANGED <<version, editing>>

Paint ==
  /\ ~editing /\ shown # "none"
  /\ shown' = "own" /\ editing' = TRUE
  /\ UNCHANGED version

\* The edit is over: its result stays, or what was there before comes back.
Settle ==
  /\ editing
  /\ shown' \in {"own", "old", "new"} /\ editing' = FALSE
  /\ UNCHANGED version

Next == Change \/ Refresh \/ Overtaken \/ Paint \/ Settle

Spec == Init /\ [][Next]_<<version, shown, editing>>
===============================================================================
