----------------------------- MODULE MCEnrichment -----------------------------
(* Enrichment with two cached copies, which may be copies of one mail. *)
EXTENDS Enrichment

CONSTANTS s1, s2, m1, noid

TwoSlots == {s1, s2}
OneMail == {m1}
===============================================================================
