---------------------------- MODULE MCBrowserRuns ----------------------------
(***************************************************************************)
(* Instances of BrowserRuns for TLC.  No symmetry: the main run checks        *)
(* liveness.                                                                 *)
(***************************************************************************)
EXTENDS BrowserRuns

=============================================================================
