----------------------------- MODULE MCSiteRepo -----------------------------
(* Small instances of SiteRepo for TLC: one feature branch, one or two files.  *)
EXTENDS SiteRepo

=============================================================================
