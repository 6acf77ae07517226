------------------------------ MODULE MCAccounts ------------------------------
(***************************************************************************)
(* A browser with two requests at a time, whose page may have sent both or *)
(* may have been loaded again in between; two emails.                      *)
(***************************************************************************)
EXTENDS Accounts, TLC

CONSTANTS t1, r1, r2, e1, e2, p1, p2

MCTabs == {t1}
MCRequests == {r1, r2}
MCEmails == {e1, e2}
MCPasswords == {p1, p2}
MCHost == [t \in MCTabs |-> "h"]
MCWatched == <<"login", "h">>

Symmetry == Permutations(MCRequests) \cup Permutations(MCEmails)
            \cup Permutations(MCPasswords)
===============================================================================
