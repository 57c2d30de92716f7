------------------------------ MODULE UserLedger ------------------------------
(***************************************************************************)
(* What the node promises about users' balances of an asset, whatever      *)
(* channels, versions, locks and chains are behind it: money enters and    *)
(* leaves only with the user's own deposits and withdrawals, moves between *)
(* users whole, and no balance is ever overdrawn.  flow[u] is what user u  *)
(* has deposited so far less what the user has withdrawn.                  *)
(***************************************************************************)
EXTENDS Integers

CONSTANT Users

VARIABLES bal, flow

\* Some users may have made their first deposits.
Init == bal \in [Users -> Nat] /\ flow = bal

\* A deposit or a withdrawal of any amount, the new balance being b.
Deposit(u, b) ==
  /\ b > bal[u]
  /\ bal' = [bal EXCEPT ![u] = b]
  /\ flow' = [flow EXCEPT ![u] = @ + (b - bal[u])]

Withdraw(u, b) ==
  /\ 0 <= b /\ b < bal[u]
  /\ bal' = [bal EXCEPT ![u] = b]
  /\ flow' = [flow EXCEPT ![u] = @ - (bal[u] - b)]

\* A transfer that leaves the sender with b.
Transfer(u, v, b) ==
  /\ u # v
  /\ 0 <= b /\ b < bal[u]
  /\ bal' = [bal EXCEPT ![u] = b, ![v] = @ + (bal[u] - b)]
  /\ UNCHANGED flow

Next ==
  \E u \in Users :
    \/ Deposit(u, bal'[u])
    \/ Withdraw(u, bal'[u])
    \/ \E v \in Users : Transfer(u, v, bal'[u])

Spec == Init /\ [][Next]_<<bal, flow>>
===============================================================================
