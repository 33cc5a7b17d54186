---------------------------- MODULE MCBrowserTab ----------------------------
(***************************************************************************)
(* One tab, any of its cache entries, two changes or edits, one fault and  *)
(* two moves of the user.                                                  *)
(***************************************************************************)
EXTENDS BrowserTab
=============================================================================
