------------------------------- MODULE MCHolds -------------------------------
(* Holds on two mails from two senders of one domain. *)
EXTENDS Holds

CONSTANTS m1, m2, s1, s2, shop, cli, serve

TwoMails == {m1, m2}
TwoSenders == {s1, s2}
OneEach == [m \in TwoMails |-> IF m = m1 THEN s1 ELSE s2]
OneDomain == [s \in TwoSenders |-> shop]
\* Renaming both mails with their senders changes nothing.
Swap == {[x \in TwoMails \cup TwoSenders |->
            CASE x = m1 -> m2 [] x = m2 -> m1 [] x = s1 -> s2 [] x = s2 -> s1]}
===============================================================================
