------------------------------- MODULE Budget -------------------------------
(***************************************************************************)
(* What the per-user budget promises, and no more: a client asks for       *)
(* credit for an amount of work, which it gets for one row of the ledger   *)
(* if that amount fits under the cap, and which is then good for so many   *)
(* attempts at the work; the row is charged attempt by attempt within a    *)
(* credit, or openly without one.                                          *)
(* Nothing else ever adds to a row.  Quota implements this.                *)
(***************************************************************************)
EXTENDS Integers

CONSTANTS
  Clients,      \* who may spend
  Accounts,     \* for whom
  Days,         \* on which day's ledger
  Cap,          \* of one account's row
  Costs,        \* of one attempt at one call
  Asks,         \* units that one credit may be asked for: the calls, at one attempt each
  MaxAttempts   \* attempts at each of them that a credit is good for

VARIABLES
  spent,      \* spent[d][u]: the row of u on day d
  unchecked,  \* unchecked[d][u]: what was charged to it without credit
  credit      \* credit[c]: the row c may still charge, and how many units

vars == <<spent, unchecked, credit>>

Nothing == [d \in Days |-> [u \in Accounts |-> 0]]

Init == spent = Nothing /\ unchecked = Nothing /\ \A c \in Clients : credit[c].units = 0

OthersKeep(c) == \A e \in Clients \ {c} : credit'[e] = credit[e]

\* c has no more credit than before, less n units.
NoMore(c, n) ==
  /\ OthersKeep(c)
  /\ \/ credit'[c].units = 0
     \/ /\ credit'[c].day = credit[c].day /\ credit'[c].user = credit[c].user
        /\ credit'[c].units <= credit[c].units - n

Add(table, d, u, n) == [table EXCEPT ![d][u] = @ + n]

\* A credit replaces what c had, if one attempt at each of its calls fits under the cap.
Grant(c) ==
  LET new == credit'[c] IN
  /\ OthersKeep(c)
  /\ new.day \in Days /\ new.user \in Accounts
  /\ \E n \in Asks, k \in 1 .. MaxAttempts :
       spent[new.day][new.user] + n <= Cap /\ new.units = k * n
  /\ UNCHANGED <<spent, unchecked>>

\* What is charged within a credit is gone from it.
Spend(c) ==
  \E n \in Costs :
     /\ n <= credit[c].units
     /\ NoMore(c, n)
     /\ spent' = Add(spent, credit[c].day, credit[c].user, n)
     /\ UNCHANGED unchecked

SpendUnchecked(c) ==
  \E d \in Days, u \in Accounts, n \in Costs :
     /\ NoMore(c, 0)
     /\ spent' = Add(spent, d, u, n)
     /\ unchecked' = Add(unchecked, d, u, n)

Lapse(c) == NoMore(c, 0) /\ UNCHANGED <<spent, unchecked>>

\* The rows of an account are deleted.
Void(u) ==
  /\ spent' = [d \in Days |-> [spent[d] EXCEPT ![u] = 0]]
  /\ UNCHANGED <<unchecked, credit>>

Next ==
  \/ \E c \in Clients : Lapse(c) \/ Grant(c) \/ Spend(c) \/ SpendUnchecked(c)
  \/ \E u \in Accounts : Void(u)

Spec == Init /\ [][Next]_vars

=============================================================================
