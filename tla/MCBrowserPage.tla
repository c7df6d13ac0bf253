------------------------------ MODULE MCBrowserPage ------------------------------
(* BrowserPage, for TLC. *)
EXTENDS BrowserPage, TLC
=============================================================================
