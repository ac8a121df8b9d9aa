---------------------------- MODULE MCZizExport ----------------------------
(* Instances of ZizExport for TLC. *)
EXTENDS ZizExport
\* Any site at all, and one of half a page.
MCAnySite == SUBSET Posts
MCHalfPage == {{1}}
=============================================================================
