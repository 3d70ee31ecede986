------------------------------- MODULE Tally -------------------------------
(***************************************************************************)
(* What a grader promises of a contestant's total, whatever order its       *)
(* scripts, resets and edits run in: a total moves up only by the worth of  *)
(* an item banked in the same instant, and down only to nothing; an item    *)
(* banked stays banked, at the same worth, until it is voided.              *)
(***************************************************************************)
EXTENDS Integers

CONSTANTS Logins, Items, Worths, Unbanked

VARIABLES bank,      \* [Logins -> [Items -> the worth banked, or Unbanked]]
          total      \* [Logins -> the points shown for the login]
tallyVars == <<bank, total>>

TallyInit ==
    /\ bank = [l \in Logins |-> [i \in Items |-> Unbanked]]
    /\ total = [l \in Logins |-> 0]

Bank(l, i, worth) ==
    /\ bank[l][i] = Unbanked
    /\ bank' = [bank EXCEPT ![l][i] = worth]
    /\ total' = [total EXCEPT ![l] = @ + worth]

\* An organizer voids the rows of some contestants, and the totals of some,
\* together or one after the other.
Void(owners, totals) ==
    /\ bank' = [l \in Logins |-> IF l \in owners THEN [i \in Items |-> Unbanked] ELSE bank[l]]
    /\ total' = [l \in Logins |-> IF l \in totals THEN 0 ELSE total[l]]

TallyNext ==
    \/ \E l \in Logins, i \in Items, worth \in Worths : Bank(l, i, worth)
    \/ \E owners, totals \in SUBSET Logins : Void(owners, totals)

TallySpec == TallyInit /\ [][TallyNext]_tallyVars
=============================================================================
