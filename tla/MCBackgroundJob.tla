--------------------------- MODULE MCBackgroundJob ---------------------------
(***************************************************************************)
(* Requests that overlap, with a ballast of a few chunks.                  *)
(***************************************************************************)
EXTENDS BackgroundJob

CONSTANTS h1, h2
=============================================================================
