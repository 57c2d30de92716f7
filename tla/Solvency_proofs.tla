---------------------------- MODULE Solvency_proofs ----------------------------
(***************************************************************************)
(* The hub's accounts balance: for every set of channels, users, tokens    *)
(* and co-signed states, the tokens in custody cover what the hub owes,    *)
(* and no step but a final migration away strands any.                     *)
(*                                                                         *)
(* A step is followed through five accounts of a token t: the vault, the   *)
(* channels, the deposits, the withdrawals and the reclaims.               *)
(***************************************************************************)
EXTENDS ChannelHub_proofs

InChannels(t) == Total(LockedFunds, ChannelsIn(t))
InEscrows(table, t) == Total(LockedAmounts(table), EscrowsIn(table, t))
InWithdrawals(t) == InEscrows(escrowWithdrawals, t)
InReclaims(t) == Total(ReclaimsIn(t), Accounts)

\* The part of an amount in token u that concerns token t.
Share(u, t, amount) == IF u = t THEN amount ELSE 0

-------------------------------------------------------------------------------
(* The accounts *)

\* The account holders are finitely many.
LEMMA AccountsFinite == IsFiniteSet(Accounts) /\ NODE \in Accounts
<1>1. IsFiniteSet(Users) /\ IsFiniteSet({NODE})
  BY ConstantsOK, FS_Singleton
<1> QED
  BY <1>1, FS_Union DEF Accounts

\* The accounts are natural numbers.
LEMMA AccountTypes ==
  ASSUME TypeOK, NEW t \in Tokens
  PROVE  /\ custody[t] \in Nat /\ nodeBalances[t] \in Nat
         /\ InChannels(t) \in Nat /\ InEscrows(escrowDeposits, t) \in Nat
         /\ InWithdrawals(t) \in Nat /\ InReclaims(t) \in Nat
<1>1. \A c \in Channels : LockedFunds[c] \in Nat
  BY DEF TypeOK, LockedFunds, ChannelMeta
<1>2. ChannelsIn(t) \subseteq Channels /\ IsFiniteSet(Channels)
  BY ConstantsOK DEF ChannelsIn
<1>3. InChannels(t) \in Nat
  <2>1. IsFiniteSet(ChannelsIn(t))
    BY <1>2, FS_Subset
  <2> QED
    BY <1>1, <1>2, <2>1, TotalNat DEF InChannels
<1>4. \A e \in EscrowIds : /\ LockedAmounts(escrowDeposits)[e] \in Nat
                           /\ LockedAmounts(escrowWithdrawals)[e] \in Nat
  BY DEF TypeOK, LockedAmounts, EscrowDepositMeta, EscrowWithdrawalMeta
<1>5. /\ EscrowsIn(escrowDeposits, t) \subseteq EscrowIds
      /\ EscrowsIn(escrowWithdrawals, t) \subseteq EscrowIds
  BY DEF TypeOK, EscrowsIn
<1>6. InEscrows(escrowDeposits, t) \in Nat
  <2>1. IsFiniteSet(EscrowsIn(escrowDeposits, t))
    BY <1>5, EscrowIdsFinite, FS_Subset
  <2> QED
    BY <1>4, <1>5, <2>1, TotalNat DEF InEscrows
<1>7. InWithdrawals(t) \in Nat
  <2>1. IsFiniteSet(EscrowsIn(escrowWithdrawals, t))
    BY <1>5, EscrowIdsFinite, FS_Subset
  <2> QED
    BY <1>4, <1>5, <2>1, TotalNat DEF InWithdrawals, InEscrows
<1>8. InReclaims(t) \in Nat
  <2>1. \A a \in Accounts : ReclaimsIn(t)[a] \in Nat
    BY DEF TypeOK, ReclaimsIn
  <2> QED
    BY <2>1, AccountsFinite, TotalNat DEF InReclaims
<1> QED
  BY <1>3, <1>6, <1>7, <1>8 DEF TypeOK

AccountsAreNat ==
  \A t \in Tokens :
    /\ custody[t] \in Nat /\ nodeBalances[t] \in Nat
    /\ InChannels(t) \in Nat /\ InEscrows(escrowDeposits, t) \in Nat
    /\ InWithdrawals(t) \in Nat /\ InReclaims(t) \in Nat

\* The same after a step.
LEMMA AccountTypesAfter == (TypeOK => AccountsAreNat)'
<1>1. TypeOK => AccountsAreNat
  BY AccountTypes DEF AccountsAreNat
<1> QED
  BY <1>1, PTL

\* The surplus follows the accounts: what custody net of the reclaims, the vault
\* with the deposits, the channels and the withdrawals gain in a step determines
\* what the surplus gains.
SurplusFollows(t) ==
  \A dX, dV, dH, dW \in Int :
    /\ custody'[t] - InReclaims(t)' = custody[t] - InReclaims(t) + dX
    /\ nodeBalances'[t] + InEscrows(escrowDeposits, t)'
         = nodeBalances[t] + InEscrows(escrowDeposits, t) + dV
    /\ InChannels(t)' = InChannels(t) + dH
    /\ InWithdrawals(t)' = InWithdrawals(t) + dW
    => Surplus(t) \in Int /\ Surplus(t)' = Surplus(t) + (dX - dV - dH - dW)

\* It does so in every step between well-typed states.
LEMMA SurplusStep ==
  ASSUME TypeOK, TypeOK', NEW t \in Tokens
  PROVE  SurplusFollows(t)
<1> SUFFICES ASSUME NEW dX \in Int, NEW dV \in Int, NEW dH \in Int, NEW dW \in Int,
               custody'[t] - InReclaims(t)' = custody[t] - InReclaims(t) + dX,
               nodeBalances'[t] + InEscrows(escrowDeposits, t)'
                 = nodeBalances[t] + InEscrows(escrowDeposits, t) + dV,
               InChannels(t)' = InChannels(t) + dH,
               InWithdrawals(t)' = InWithdrawals(t) + dW
             PROVE  Surplus(t) \in Int /\ Surplus(t)' = Surplus(t) + (dX - dV - dH - dW)
  BY DEF SurplusFollows
<1>1. ASSUME NEW k \in Int, NEW v \in Int, NEW h \in Int, NEW d \in Int, NEW w \in Int,
             NEW r \in Int, NEW k2 \in Int, NEW v2 \in Int, NEW h2 \in Int, NEW d2 \in Int,
             NEW w2 \in Int, NEW r2 \in Int, k2 - r2 = k - r + dX, v2 + d2 = v + d + dV,
             h2 = h + dH, w2 = w + dW
      PROVE  k2 - (v2 + h2 + d2 + w2 + r2)
               = (k - (v + h + d + w + r)) + (dX - dV - dH - dW)
  BY <1>1
<1>2. /\ custody[t] \in Nat /\ nodeBalances[t] \in Nat
      /\ InChannels(t) \in Nat /\ InEscrows(escrowDeposits, t) \in Nat
      /\ InWithdrawals(t) \in Nat /\ InReclaims(t) \in Nat
  BY AccountTypes
<1>3. /\ custody'[t] \in Nat /\ nodeBalances'[t] \in Nat
      /\ InChannels(t)' \in Nat /\ InEscrows(escrowDeposits, t)' \in Nat
      /\ InWithdrawals(t)' \in Nat /\ InReclaims(t)' \in Nat
  BY AccountTypesAfter DEF AccountsAreNat
<1>4. Surplus(t) = custody[t] - (nodeBalances[t] + InChannels(t)
                     + InEscrows(escrowDeposits, t) + InWithdrawals(t) + InReclaims(t))
  BY DEF Surplus, Liabilities, InChannels, InEscrows, InWithdrawals, InReclaims
<1>5. Surplus(t)' = custody'[t] - (nodeBalances'[t] + InChannels(t)'
                      + InEscrows(escrowDeposits, t)' + InWithdrawals(t)' + InReclaims(t)')
  BY DEF Surplus, Liabilities, InChannels, InEscrows, InWithdrawals, InReclaims
<1>6. Surplus(t)' = Surplus(t) + (dX - dV - dH - dW)
  BY <1>1, <1>2, <1>3, <1>4, <1>5
<1> QED
  BY <1>2, <1>4, <1>6

\* Custody and the reclaims before and after a change of one account holder's
\* reclaims.
LEMMA ReclaimsUpdate ==
  ASSUME BalancesOK, BalancesOK', NEW t \in Tokens, NEW a \in Accounts,
         \A b \in Accounts \ {a} : reclaims'[b][t] = reclaims[b][t]
  PROVE  /\ InReclaims(t) \in Nat /\ InReclaims(t)' \in Nat
         /\ InReclaims(t)' + reclaims[a][t] = InReclaims(t) + reclaims'[a][t]
<1> DEFINE f == ReclaimsIn(t)
           g == ReclaimsIn(t)'
<1>1. \A b \in Accounts : /\ f[b] = reclaims[b][t] /\ g[b] = reclaims'[b][t]
                          /\ f[b] \in Nat /\ g[b] \in Nat
  BY DEF ReclaimsIn, BalancesOK
<1>2. InReclaims(t) = Total(f, Accounts) /\ InReclaims(t)' = Total(g, Accounts)
  BY DEF InReclaims
<1> HIDE DEF f, g
<1>3. \A b \in Accounts \ {a} : (b \in Accounts <=> b \in Accounts) /\ f[b] = g[b]
  BY <1>1
<1>4. /\ Total(f, Accounts) \in Nat /\ Total(g, Accounts) \in Nat
      /\ Total(g, Accounts) + (IF a \in Accounts THEN f[a] ELSE 0)
           = Total(f, Accounts) + (IF a \in Accounts THEN g[a] ELSE 0)
  BY <1>1, <1>3, AccountsFinite, TotalUpdate
<1> QED
  BY <1>1, <1>2, <1>4

\* Reclaims that do not change.
LEMMA ReclaimsSame ==
  ASSUME NEW t, \A b \in Accounts : reclaims'[b][t] = reclaims[b][t]
  PROVE  InReclaims(t)' = InReclaims(t)
<1>1. \A b \in Accounts : ReclaimsIn(t)[b] = ReclaimsIn(t)'[b]
  BY DEF ReclaimsIn
<1> QED
  BY <1>1, TotalSame DEF InReclaims

\* What a pull adds to custody is what it takes from the account.
LEMMA PullAccounts ==
  ASSUME BalancesOK, NEW a \in Accounts, NEW u, NEW amount \in Nat, PullFunds(a, u, amount),
         NEW t \in Tokens
  PROVE  /\ custody'[t] = custody[t] + Share(u, t, amount)
         /\ InReclaims(t)' = InReclaims(t)
<1>1. custody'[t] = custody[t] + Share(u, t, amount)
  BY DEF PullFunds, BalancesOK, Share
<1>2. InReclaims(t)' = InReclaims(t)
  BY ReclaimsSame DEF PullFunds
<1> QED
  BY <1>1, <1>2

\* A push lowers custody or raises the reclaims: the difference is the same.
LEMMA PushAccounts ==
  ASSUME BalancesOK, NEW a \in Accounts, NEW u, NEW amount \in Nat,
         NonRevertingPushFunds(a, u, amount), NEW t \in Tokens
  PROVE  /\ InReclaims(t) \in Nat /\ InReclaims(t)' \in Nat
         /\ custody'[t] - InReclaims(t)' = custody[t] - InReclaims(t) - Share(u, t, amount)
<1>0. BalancesOK'
  BY PushFundsType
<1>1. \A b \in Accounts \ {a} : reclaims'[b][t] = reclaims[b][t]
  BY DEF NonRevertingPushFunds, BalancesOK
<1>2. /\ InReclaims(t) \in Nat /\ InReclaims(t)' \in Nat
      /\ InReclaims(t)' + reclaims[a][t] = InReclaims(t) + reclaims'[a][t]
  BY <1>0, <1>1, ReclaimsUpdate
<1>3. /\ custody[t] \in Nat /\ custody'[t] \in Nat
      /\ reclaims[a][t] \in Nat /\ reclaims'[a][t] \in Nat
  BY <1>0 DEF BalancesOK
<1>4. CASE custody' = [custody EXCEPT ![u] = @ - amount] /\ UNCHANGED reclaims
  <2>1. custody'[t] = custody[t] - Share(u, t, amount) /\ reclaims'[a][t] = reclaims[a][t]
    BY <1>4 DEF BalancesOK, Share
  <2> QED
    BY <1>2, <1>3, <2>1 DEF Share
<1>5. CASE reclaims' = [reclaims EXCEPT ![a][u] = @ + amount] /\ UNCHANGED custody
  <2>1. custody'[t] = custody[t] /\ reclaims'[a][t] = reclaims[a][t] + Share(u, t, amount)
    BY <1>5 DEF BalancesOK, Share
  <2> QED
    BY <1>2, <1>3, <2>1 DEF Share
<1> QED
  BY <1>2, <1>4, <1>5 DEF NonRevertingPushFunds

\* The user's share of a transition.
LEMMA MoveAccounts ==
  ASSUME BalancesOK, NEW a \in Accounts, NEW u, NEW delta \in Int,
         MoveUserFunds(a, u, delta), NEW t \in Tokens
  PROVE  /\ InReclaims(t) \in Nat /\ InReclaims(t)' \in Nat
         /\ custody'[t] - InReclaims(t)' = custody[t] - InReclaims(t) + Share(u, t, delta)
<1>0. BalancesOK'
  BY MoveUserFundsType
<1>1. InReclaims(t) \in Nat
  <2>1. \A b \in Accounts : ReclaimsIn(t)[b] \in Nat
    BY DEF BalancesOK, ReclaimsIn
  <2> QED
    BY <2>1, AccountsFinite, TotalNat DEF InReclaims
<1>2. custody[t] \in Nat
  BY DEF BalancesOK
<1>3. CASE delta >= 0 /\ PullFunds(a, u, delta)
  BY <1>1, <1>2, <1>3, PullAccounts DEF Share
<1>4. CASE delta < 0 /\ NonRevertingPushFunds(a, u, -delta)
  <2>1. /\ InReclaims(t)' \in Nat
        /\ custody'[t] - InReclaims(t)' = custody[t] - InReclaims(t) - Share(u, t, -delta)
    BY <1>4, PushAccounts
  <2> QED
    BY <1>1, <1>2, <2>1 DEF Share
<1> QED
  BY <1>3, <1>4 DEF MoveUserFunds

\* The payments of a unilateral closure, each made or kept back.
LEMMA PayAccounts ==
  ASSUME BalancesOK, NEW a \in Users, NEW u, NEW x \in Nat, NEW y \in Nat,
         PayAllocations(a, u, x, y), NEW t \in Tokens
  PROVE  /\ InReclaims(t) \in Nat /\ InReclaims(t)' \in Nat
         /\ custody'[t] - InReclaims(t)'
              = custody[t] - InReclaims(t) - Share(u, t, x) - Share(u, t, y)
<1>0. BalancesOK'
  BY PayAllocationsType
<1>1. PICK toUser \in {0, x}, toNode \in {0, y} :
        /\ custody' = [custody EXCEPT ![u] = @ - (toUser + toNode)]
        /\ reclaims' = [reclaims EXCEPT ![a][u] = @ + (x - toUser),
                                        ![NODE][u] = @ + (y - toNode)]
  BY DEF PayAllocations
<1>2. a \in Accounts /\ NODE \in Accounts /\ a # NODE
  BY ConstantsOK DEF Accounts
<1>3. toUser \in Nat /\ toNode \in Nat /\ x - toUser \in Nat /\ y - toNode \in Nat
  OBVIOUS
<1>4. /\ custody'[t] = custody[t] - Share(u, t, toUser + toNode)
      /\ reclaims'[a][t] = reclaims[a][t] + Share(u, t, x - toUser)
      /\ reclaims'[NODE][t] = reclaims[NODE][t] + Share(u, t, y - toNode)
      /\ \A b \in Accounts \ {a, NODE} : reclaims'[b][t] = reclaims[b][t]
  BY <1>1, <1>2, <1>3 DEF BalancesOK, Share
<1> DEFINE f == ReclaimsIn(t)
           h == [b \in Accounts |-> IF b = a THEN reclaims'[a][t] ELSE reclaims[b][t]]
           g == ReclaimsIn(t)'
<1>5. \A b \in Accounts : f[b] \in Nat /\ h[b] \in Nat /\ g[b] \in Nat
  BY <1>0, <1>2 DEF BalancesOK, ReclaimsIn
<1>6. /\ f[a] = reclaims[a][t] /\ h[a] = reclaims'[a][t]
      /\ h[NODE] = reclaims[NODE][t] /\ g[NODE] = reclaims'[NODE][t]
  BY <1>2 DEF ReclaimsIn
<1>7. \A b \in Accounts \ {a} : (b \in Accounts <=> b \in Accounts) /\ f[b] = h[b]
  BY DEF ReclaimsIn
<1>8. \A b \in Accounts \ {NODE} : (b \in Accounts <=> b \in Accounts) /\ h[b] = g[b]
  BY <1>4 DEF ReclaimsIn
<1>9. InReclaims(t) = Total(f, Accounts) /\ InReclaims(t)' = Total(g, Accounts)
  BY DEF InReclaims
<1>10. /\ custody[t] \in Nat /\ reclaims[a][t] \in Nat /\ reclaims[NODE][t] \in Nat
  BY <1>2 DEF BalancesOK
<1> HIDE DEF f, h, g
<1>11. /\ Total(f, Accounts) \in Nat /\ Total(h, Accounts) \in Nat
       /\ Total(h, Accounts) + (IF a \in Accounts THEN f[a] ELSE 0)
            = Total(f, Accounts) + (IF a \in Accounts THEN h[a] ELSE 0)
  BY <1>2, <1>5, <1>7, AccountsFinite, TotalUpdate
<1>12. /\ Total(g, Accounts) \in Nat
       /\ Total(g, Accounts) + (IF NODE \in Accounts THEN h[NODE] ELSE 0)
            = Total(h, Accounts) + (IF NODE \in Accounts THEN g[NODE] ELSE 0)
  BY <1>2, <1>5, <1>8, AccountsFinite, TotalUpdate
<1>13. Total(g, Accounts) = Total(f, Accounts) + Share(u, t, x - toUser) + Share(u, t, y - toNode)
  BY <1>2, <1>3, <1>4, <1>6, <1>10, <1>11, <1>12 DEF Share
<1> QED
  BY <1>3, <1>4, <1>9, <1>10, <1>11, <1>12, <1>13 DEF Share

\* What changing one channel's record does to the channels' account.
LEMMA ChannelAccount ==
  ASSUME TypeOK, NEW c \in Channels, NEW n \in ChannelMeta,
         channels' = [channels EXCEPT ![c] = n], NEW t \in Tokens
  PROVE  /\ InChannels(t) \in Nat /\ InChannels(t)' \in Nat
         /\ InChannels(t)' + Share(channels[c].lastState.homeLedger.token, t,
                                   channels[c].lockedFunds)
              = InChannels(t) + Share(n.lastState.homeLedger.token, t, n.lockedFunds)
<1> DEFINE f == LockedFunds
           g == LockedFunds'
           A == ChannelsIn(t)
           B == ChannelsIn(t)'
<1>1. channels \in [Channels -> ChannelMeta] /\ channels' \in [Channels -> ChannelMeta]
  BY DEF TypeOK
<1>2. channels'[c] = n /\ \A d \in Channels \ {c} : channels'[d] = channels[d]
  BY <1>1
<1>3. \A d \in Channels : f[d] \in Nat /\ g[d] \in Nat
  BY <1>1 DEF LockedFunds, ChannelMeta
<1>4. \A d \in Channels \ {c} : (d \in A <=> d \in B) /\ f[d] = g[d]
  BY <1>2 DEF LockedFunds, ChannelsIn
<1>5. A \in SUBSET Channels /\ B \in SUBSET Channels /\ IsFiniteSet(Channels)
  BY ConstantsOK DEF ChannelsIn
<1>6. /\ c \in A <=> channels[c].lastState.homeLedger.token = t
      /\ c \in B <=> n.lastState.homeLedger.token = t
      /\ f[c] = channels[c].lockedFunds /\ g[c] = n.lockedFunds
  BY <1>2 DEF ChannelsIn, LockedFunds
<1>7. InChannels(t) = Total(f, A) /\ InChannels(t)' = Total(g, B)
  BY DEF InChannels
<1> HIDE DEF f, g, A, B
<1>8. /\ Total(f, A) \in Nat /\ Total(g, B) \in Nat
      /\ Total(g, B) + (IF c \in A THEN f[c] ELSE 0)
           = Total(f, A) + (IF c \in B THEN g[c] ELSE 0)
  BY <1>3, <1>4, <1>5, TotalUpdate
<1> QED
  BY <1>6, <1>7, <1>8 DEF Share

EscrowMeta == EscrowDepositMeta \cup EscrowWithdrawalMeta

\* What changing one record of a table of escrows does to its account.
LEMMA EscrowAccount ==
  ASSUME NEW old \in [EscrowIds -> EscrowMeta], NEW new \in [EscrowIds -> EscrowMeta],
         NEW e \in EscrowIds, \A d \in EscrowIds \ {e} : new[d] = old[d], NEW t \in Tokens
  PROVE  /\ InEscrows(old, t) \in Nat /\ InEscrows(new, t) \in Nat
         /\ InEscrows(new, t) + Share(EscrowToken(old[e]), t, old[e].lockedAmount)
              = InEscrows(old, t) + Share(EscrowToken(new[e]), t, new[e].lockedAmount)
<1> DEFINE f == LockedAmounts(old)
           g == LockedAmounts(new)
           A == EscrowsIn(old, t)
           B == EscrowsIn(new, t)
<1>0. \A m \in EscrowMeta : m.lockedAmount \in Nat
  BY DEF EscrowMeta, EscrowDepositMeta, EscrowWithdrawalMeta
<1>3. DOMAIN old = EscrowIds /\ DOMAIN new = EscrowIds
  OBVIOUS
<1>4. \A d \in EscrowIds : f[d] = old[d].lockedAmount /\ g[d] = new[d].lockedAmount
  BY <1>3 DEF LockedAmounts
<1>5. \A d \in EscrowIds : f[d] \in Nat /\ g[d] \in Nat
  BY <1>0, <1>4
<1>6. \A d \in EscrowIds : (d \in A <=> EscrowToken(old[d]) = t)
                           /\ (d \in B <=> EscrowToken(new[d]) = t)
  BY <1>3 DEF EscrowsIn, EscrowToken
<1>7. A \in SUBSET EscrowIds /\ B \in SUBSET EscrowIds
  BY <1>3 DEF EscrowsIn
<1> HIDE DEF f, g, A, B
<1>8. \A d \in EscrowIds \ {e} : (d \in A <=> d \in B) /\ f[d] = g[d]
  BY <1>4, <1>6
<1>9. /\ Total(f, A) \in Nat /\ Total(g, B) \in Nat
      /\ Total(g, B) + (IF e \in A THEN f[e] ELSE 0)
           = Total(f, A) + (IF e \in B THEN g[e] ELSE 0)
  BY <1>5, <1>7, <1>8, EscrowIdsFinite, TotalUpdate
<1>10. /\ Total(f, A) \in Nat /\ Total(g, B) \in Nat
       /\ Total(g, B) + Share(EscrowToken(old[e]), t, old[e].lockedAmount)
            = Total(f, A) + Share(EscrowToken(new[e]), t, new[e].lockedAmount)
  BY <1>4, <1>6, <1>9 DEF Share
<1> QED
  BY <1>10 DEF f, g, A, B, InEscrows

\* A purge moves what it unlocks from the deposits to the vault.
LEMMA PurgeAccounts ==
  ASSUME NEW nb \in [Tokens -> Nat], NEW ed \in [EscrowIds -> EscrowDepositMeta],
         NEW steps \in Nat, PurgeEscrowDeposits(nb, ed, steps), NEW t \in Tokens
  PROVE  /\ nodeBalances'[t] \in Nat /\ InEscrows(escrowDeposits, t)' \in Nat
         /\ InEscrows(ed, t) \in Nat
         /\ nodeBalances'[t] + InEscrows(escrowDeposits, t)' = nb[t] + InEscrows(ed, t)
<1> DEFINE P == Purged(ed, steps)
           S == EscrowsIn(ed, t)
           new == escrowDeposits'
           f == LockedAmounts(ed)
           g == LockedAmounts(new)
<1>1. new = [e \in EscrowIds |-> IF e \in P THEN finalizedDeposit(ed[e]) ELSE ed[e]]
  BY DEF PurgeEscrowDeposits
<1>2. \A e \in EscrowIds :
        /\ finalizedDeposit(ed[e]).lockedAmount = 0
        /\ finalizedDeposit(ed[e]).initState = ed[e].initState
        /\ ed[e].lockedAmount \in Nat
  BY DEF finalizedDeposit, EscrowDepositMeta
<1>3. DOMAIN ed = EscrowIds /\ DOMAIN new = EscrowIds
  BY <1>1
<1>4. nodeBalances'[t] = nb[t] + Total(f, P \cap S)
  BY DEF PurgeEscrowDeposits
<1> HIDE DEF P, new
<1>5. EscrowsIn(new, t) = S
  BY <1>1, <1>2, <1>3 DEF EscrowsIn
<1>6. S \subseteq EscrowIds
  BY <1>3 DEF EscrowsIn
<1>7. \A e \in S : f[e] \in Nat /\ g[e] = IF e \in P THEN 0 ELSE f[e]
  BY <1>1, <1>2, <1>3, <1>6 DEF LockedAmounts
<1>8. IsFiniteSet(S)
  BY <1>6, EscrowIdsFinite, FS_Subset
<1>9. InEscrows(ed, t) = Total(f, S) /\ InEscrows(escrowDeposits, t)' = Total(g, S)
  BY <1>5 DEF InEscrows, new
<1> HIDE DEF f, g, S
<1>10. /\ Total(g, S) \in Nat /\ Total(f, P \cap S) \in Nat /\ Total(f, S) \in Nat
       /\ Total(g, S) + Total(f, P \cap S) = Total(f, S)
  BY <1>7, <1>8, TotalDrop
<1>11. nb[t] \in Nat
  OBVIOUS
<1> QED
  BY <1>4, <1>9, <1>10, <1>11

-------------------------------------------------------------------------------
(* Channels *)

\* The state of a channel that was ever enforced is of this chain and balanced.
EnforcedHere(m) ==
  m.status # "VOID" =>
    /\ m.lastState.homeLedger.chainId = ChainId
    /\ m.lastState.homeLedger.token \in Tokens
    /\ BalancedLedger(m.lastState.homeLedger)

Books ==
  /\ \A c \in Channels : LocksItsAllocations(channels[c]) /\ EnforcedHere(channels[c])
  /\ EscrowsLock

\* A validated state leaves such a record.
LEMMA ValidatedIsHere ==
  ASSUME NEW m, NEW s, NEW available, NEW time, validateTransition(m, s, available, time)
  PROVE  /\ s.homeLedger.chainId = ChainId /\ s.homeLedger.token \in Tokens
         /\ BalancedLedger(s.homeLedger)
         /\ ~IsEmptyState(m.lastState) => s.homeLedger.token = m.lastState.homeLedger.token
BY DEF validateTransition, validateUniversal, validateTokenDecimals

\* A state's change to what the hub holds and owes in token t.
LEMMA ApplySurplus ==
  ASSUME TypeOK, TypeOK', Books, NEW c \in Channels, NEW s \in State, NEW meta \in ChannelMeta,
         meta.lastState = s,
         validateTransition(channels[c], s, nodeBalances[s.homeLedger.token], now),
         ApplyTransitionEffects(c, s, meta), NEW t \in Tokens
  PROVE  /\ Surplus(t) \in Int
         /\ Surplus(t)' = Surplus(t) + Share(s.homeLedger.token, t,
                                             expectedLocked(channels[c], s) - meta.lockedFunds)
<1> DEFINE u == s.homeLedger.token
           m == channels[c]
           dU == userFundsDelta(m, s)
           dN == nodeFundsDelta(m, s)
           nb == [nodeBalances EXCEPT ![u] = @ - dN]
<1>1. m \in ChannelMeta /\ BalancesOK /\ User[c] \in Accounts
  BY TypeOKParts, ConstantsOK DEF Accounts
<1>2. dU \in Int /\ dN \in Int /\ m.lockedFunds \in Nat /\ meta.lockedFunds \in Nat
  BY <1>1, DeltasAreIntegers DEF ChannelMeta
<1>3. expectedLocked(m, s) = m.lockedFunds + dU + dN
  BY DEF expectedLocked
<1>4. /\ u \in Tokens
      /\ ~IsEmptyState(m.lastState) => u = m.lastState.homeLedger.token
  BY ValidatedIsHere
<1>5. Share(m.lastState.homeLedger.token, t, m.lockedFunds) = Share(u, t, m.lockedFunds)
  <2>1. CASE m.status = "VOID"
    <3>1. m.lockedFunds = 0
      BY <2>1 DEF Books, LocksItsAllocations, LiveStatus
    <3> QED
      BY <3>1 DEF Share
  <2>2. CASE m.status # "VOID"
    <3>1. m.lastState.homeLedger.chainId # 0
      BY <2>2, ConstantsOK DEF Books, EnforcedHere
    <3> QED
      BY <1>4, <3>1 DEF IsEmptyState, IsEmptyLedger
  <2> QED
    BY <2>1, <2>2
<1>6. /\ InChannels(t) \in Nat /\ InChannels(t)' \in Nat
      /\ InChannels(t)' + Share(u, t, m.lockedFunds) = InChannels(t) + Share(u, t, meta.lockedFunds)
  BY <1>5, ChannelAccount DEF ApplyTransitionEffects
<1>7. /\ InReclaims(t) \in Nat /\ InReclaims(t)' \in Nat
      /\ custody'[t] - InReclaims(t)' = custody[t] - InReclaims(t) + Share(u, t, dU)
  BY <1>1, <1>2, MoveAccounts DEF ApplyTransitionEffects
<1>8. nb \in [Tokens -> Nat] /\ nb[t] = nodeBalances[t] - Share(u, t, dN)
  <2>1. dN > 0 => nodeBalances[u] >= dN
    BY DEF validateTransition, validateInvariants
  <2>2. nodeBalances \in [Tokens -> Nat] /\ nodeBalances[u] \in Nat
    BY <1>4 DEF TypeOK
  <2> HIDE DEF dN
  <2>3. nodeBalances[u] - dN \in Nat
    BY <1>2, <2>1, <2>2
  <2>4. nb \in [Tokens -> Nat]
    BY <2>2, <2>3, TokenUpdate
  <2>5. nb[t] = IF u = t THEN nodeBalances[u] - dN ELSE nodeBalances[t]
    BY <2>2
  <2>6. nb[t] = nodeBalances[t] - Share(u, t, dN)
    BY <1>2, <2>2, <2>5 DEF Share
  <2> QED
    BY <2>4, <2>6
<1>9. PurgeEscrowDeposits(nb, escrowDeposits, MaxDepositEscrowSteps)
  BY DEF ApplyTransitionEffects
<1> HIDE DEF nb
<1>10. /\ nodeBalances'[t] \in Nat /\ InEscrows(escrowDeposits, t)' \in Nat
       /\ InEscrows(escrowDeposits, t) \in Nat
       /\ nodeBalances'[t] + InEscrows(escrowDeposits, t)'
            = nb[t] + InEscrows(escrowDeposits, t)
  BY <1>8, <1>9, PurgeAccounts, HubConstantsOK DEF TypeOK
<1>11. InWithdrawals(t)' = InWithdrawals(t) /\ InWithdrawals(t) \in Nat /\ nodeBalances[t] \in Nat
  BY AccountTypes DEF ApplyTransitionEffects, InWithdrawals
<1> DEFINE sL == Share(u, t, m.lockedFunds)
           sM == Share(u, t, meta.lockedFunds)
           sU == Share(u, t, dU)
           sN == Share(u, t, dN)
<1>12. sL \in Int /\ sM \in Int /\ sU \in Int /\ sN \in Int
  BY <1>2 DEF Share
<1>13. Share(u, t, expectedLocked(m, s) - meta.lockedFunds) = sL + sU + sN - sM
  BY <1>2, <1>3 DEF Share
<1> DEFINE dH == sM - sL
           dV == -sN
<1>14. InChannels(t)' = InChannels(t) + dH
  BY <1>6, <1>12
<1>15. custody'[t] - InReclaims(t)' = custody[t] - InReclaims(t) + sU
  BY <1>7
<1>16. nb[t] = nodeBalances[t] - sN
  BY <1>8
<1> HIDE DEF sL, sM, sU, sN
<1>17. nodeBalances'[t] + InEscrows(escrowDeposits, t)'
         = nodeBalances[t] + InEscrows(escrowDeposits, t) + dV
  BY <1>10, <1>11, <1>12, <1>16
<1>18. dH \in Int /\ dV \in Int /\ sU - dV - dH - 0 = sL + sU + sN - sM
  BY <1>12
<1> HIDE DEF dH, dV
<1>19. Surplus(t) \in Int /\ Surplus(t)' = Surplus(t) + (sU - dV - dH - 0)
  <2>1. InWithdrawals(t)' = InWithdrawals(t) + 0 /\ 0 \in Int
    BY <1>11
  <2>2. SurplusFollows(t)
    BY SurplusStep
  <2> QED
    BY <1>12, <1>14, <1>15, <1>17, <1>18, <2>1, <2>2 DEF SurplusFollows
<1> QED
  BY <1>13, <1>18, <1>19

\* A step leaves the surplus of token t as it is, or adds to it while a channel
\* in that token migrates away.
Keeps(t) == Surplus(t) \in Int /\ Surplus(t)' = Surplus(t)

Strands(t) ==
  /\ Surplus(t) \in Int /\ Surplus(t)' \in Int /\ Surplus(t)' >= Surplus(t)
  /\ \E c \in ChannelsIn(t) : IsLive(c) /\ channels'[c].status = "MIGRATED_OUT"

\* A cooperative closing pays out all that the channel locked: the allocations
\* are zero before and after, so the net flows of both states cancel.
LEMMA CloseLeavesNothing ==
  ASSUME NEW m \in ChannelMeta, NEW s \in State, LocksItsAllocations(m), EnforcedHere(m),
         NEW available, NEW time, validateTransition(m, s, available, time),
         newStatus(m, s) = "CLOSED"
  PROVE  expectedLocked(m, s) = 0
<1> DEFINE home == s.homeLedger
           last == m.lastState.homeLedger
<1>1. s.intent = "CLOSE"
  BY DEF newStatus
<1>2. closeAllowed(m, s)
  BY <1>1 DEF validateTransition, intentAllowed
<1>3. m.status \in LiveStatus /\ m.status # "VOID"
  BY <1>2 DEF closeAllowed, LiveStatus
<1>4. /\ home.userNetFlow \in Int /\ home.nodeNetFlow \in Int
      /\ last.userNetFlow \in Int /\ last.nodeNetFlow \in Int
      /\ last.userAllocation \in Nat /\ last.nodeAllocation \in Nat /\ m.lockedFunds \in Nat
  BY StateFields DEF ChannelMeta
<1>5. home.userNetFlow + home.nodeNetFlow = 0
  BY <1>2, <1>4, ValidatedIsHere DEF closeAllowed, BalancedLedger
<1>6. m.lockedFunds = last.userNetFlow + last.nodeNetFlow
  BY <1>3, <1>4 DEF LocksItsAllocations, EnforcedHere, BalancedLedger
<1>7. /\ userFundsDelta(m, s) = home.userNetFlow - last.userNetFlow
      /\ nodeFundsDelta(m, s) = home.nodeNetFlow - last.nodeNetFlow
  BY <1>1 DEF userFundsDelta, nodeFundsDelta, UserNfDelta, NodeNfDelta
<1> HIDE DEF home, last
<1> QED
  BY <1>4, <1>5, <1>6, <1>7 DEF expectedLocked

\* Enforcing a state keeps the accounts balanced, but for a migration away.
LEMMA EnforceSurplus ==
  ASSUME TypeOK, TypeOK', Books, NEW c \in Channels, NEW s \in State, EnforceState(c, s),
         NEW t \in Tokens
  PROVE  Keeps(t) \/ Strands(t)
<1> DEFINE m == channels[c]
           n == EnforcedMeta(m, s)
           u == s.homeLedger.token
<1>1. m \in ChannelMeta /\ LocksItsAllocations(m) /\ EnforcedHere(m)
  BY DEF TypeOK, Books
<1>2. /\ validateTransition(m, s, nodeBalances[u], now)
      /\ ApplyTransitionEffects(c, s, n)
  BY DEF EnforceState
<1>3. expectedLocked(m, s) \in Nat
  BY <1>1, <1>2, DeltasAreIntegers DEF validateTransition, validateInvariants
<1>4. n \in ChannelMeta /\ n.lastState = s
  BY <1>1, <1>3, EnforcedMetaType DEF EnforcedMeta
<1>5. n.lockedFunds = IF closesChannel(m, s) THEN 0 ELSE expectedLocked(m, s)
  BY DEF EnforcedMeta
<1>6. channels'[c].status = newStatus(m, s)
  BY <1>2 DEF ApplyTransitionEffects, EnforcedMeta, TypeOK
<1> HIDE DEF n
<1>7. /\ Surplus(t) \in Int
      /\ Surplus(t)' = Surplus(t) + Share(u, t, expectedLocked(m, s) - n.lockedFunds)
  BY <1>2, <1>4, ApplySurplus
<1> HIDE DEF m, u
<1>8. CASE expectedLocked(m, s) = n.lockedFunds
  BY <1>3, <1>7, <1>8 DEF Share, Keeps
<1>9. CASE newStatus(m, s) = "MIGRATED_OUT"
  <2>1. m.status \in {"OPERATING", "DISPUTED"}
    BY <1>2, <1>9 DEF newStatus, validateTransition, intentAllowed,
       finalizeMigrationInAllowed, finalizeMigrationOutAllowed
  <2>2. m.lastState.homeLedger.chainId # 0
    BY <1>1, <2>1, ConstantsOK DEF EnforcedHere
  <2>3. u = m.lastState.homeLedger.token
    BY <1>2, <2>2, ValidatedIsHere DEF IsEmptyState, IsEmptyLedger, u
  <2>4. n.lockedFunds = 0
    BY <1>5, <1>9 DEF closesChannel
  <2>5. CASE u # t
    BY <1>7, <2>5 DEF Share, Keeps
  <2>6. CASE u = t
    <3>1. c \in ChannelsIn(t) /\ IsLive(c)
      BY <2>1, <2>3, <2>6 DEF ChannelsIn, IsLive, LiveStatus, m
    <3>2. Surplus(t)' \in Int /\ Surplus(t)' >= Surplus(t)
      BY <1>3, <1>7, <2>4, <2>6 DEF Share
    <3> QED
      BY <1>6, <1>7, <1>9, <3>1, <3>2 DEF Strands
  <2> QED
    BY <2>5, <2>6
<1>10. CASE newStatus(m, s) = "CLOSED"
  <2>1. expectedLocked(m, s) = 0
    BY <1>1, <1>2, <1>10, CloseLeavesNothing
  <2>2. n.lockedFunds = 0
    BY <1>5, <1>10 DEF closesChannel
  <2> QED
    BY <1>8, <2>1, <2>2
<1>11. CASE ~closesChannel(m, s)
  BY <1>5, <1>8, <1>11
<1> QED
  BY <1>9, <1>10, <1>11 DEF closesChannel

\* A step that moves nothing but the channels' records.
LEMMA ChannelOnlySurplus ==
  ASSUME TypeOK, TypeOK', UNCHANGED <<queue, escrowWithdrawals, nodeBalances>>,
         NEW t \in Tokens, NEW d \in Int,
         custody'[t] - InReclaims(t)' = custody[t] - InReclaims(t) - d,
         InChannels(t)' + d = InChannels(t)
  PROVE  Keeps(t)
<1>1. /\ custody[t] \in Nat /\ nodeBalances[t] \in Nat /\ InChannels(t) \in Nat
      /\ InEscrows(escrowDeposits, t) \in Nat /\ InWithdrawals(t) \in Nat /\ InReclaims(t) \in Nat
  BY AccountTypes
<1>2. InChannels(t)' \in Nat
  BY AccountTypesAfter DEF AccountsAreNat
<1>3. /\ nodeBalances'[t] + InEscrows(escrowDeposits, t)'
           = nodeBalances[t] + InEscrows(escrowDeposits, t) + 0
      /\ InWithdrawals(t)' = InWithdrawals(t) + 0
  <2>1. /\ nodeBalances'[t] = nodeBalances[t] /\ InWithdrawals(t)' = InWithdrawals(t)
        /\ InEscrows(escrowDeposits, t)' = InEscrows(escrowDeposits, t)
    BY DEF InEscrows, InWithdrawals, queue
  <2> QED
    BY <1>1, <2>1
<1> DEFINE e == -d
<1>4. /\ e \in Int /\ e - 0 - e - 0 = 0
      /\ custody[t] - InReclaims(t) - d = custody[t] - InReclaims(t) + e
      /\ InChannels(t)' = InChannels(t) + e
  <2>1. custody[t] - InReclaims(t) - d = custody[t] - InReclaims(t) + e
    BY <1>1
  <2>2. InChannels(t)' = InChannels(t) + e
    BY <1>1, <1>2
  <2> QED
    BY <2>1, <2>2
<1> HIDE DEF e
<1>5. SurplusFollows(t) /\ 0 \in Int
  BY SurplusStep
<1>6. Surplus(t) \in Int /\ Surplus(t)' = Surplus(t) + (e - 0 - e - 0)
  BY <1>3, <1>4, <1>5 DEF SurplusFollows
<1> QED
  BY <1>4, <1>6 DEF Keeps

\* A unilateral closing pays out all that the channel locked.
LEMMA CloseAfterChallengeSurplus ==
  ASSUME TypeOK, TypeOK', Books, NEW c \in Channels, closeAfterChallenge(c), NEW t \in Tokens
  PROVE  Keeps(t)
<1> DEFINE m == channels[c]
           home == m.lastState.homeLedger
           n == [m EXCEPT !.status = "CLOSED", !.lockedFunds = 0, !.challengeExpireAt = 0]
           x == home.userAllocation
           y == home.nodeAllocation
           d == Share(home.token, t, x + y)
<1>1. m \in ChannelMeta /\ m.status = "DISPUTED" /\ LocksItsAllocations(m)
  BY DEF TypeOK, Books, closeAfterChallenge, ChallengeExpired
<1>2. x \in Nat /\ y \in Nat /\ m.lockedFunds = x + y
  BY <1>1, StateFields DEF ChannelMeta, LocksItsAllocations, LiveStatus
<1>3. channels' = [channels EXCEPT ![c] = n]
  BY DEF TypeOK, closeAfterChallenge
<1>4. n \in ChannelMeta /\ n.lastState = m.lastState /\ n.lockedFunds = 0
  BY <1>1 DEF ChannelMeta, ChannelStatus
<1>5. PayAllocations(User[c], home.token, x, y) /\ User[c] \in Users /\ BalancesOK
  BY TypeOKParts, ConstantsOK DEF closeAfterChallenge
<1> HIDE DEF n, x, y, home, d
<1>6. /\ InReclaims(t) \in Nat /\ InReclaims(t)' \in Nat
      /\ custody'[t] - InReclaims(t)' = custody[t] - InReclaims(t) - d
  <2>1. custody'[t] - InReclaims(t)'
          = custody[t] - InReclaims(t) - Share(home.token, t, x) - Share(home.token, t, y)
    BY <1>2, <1>5, PayAccounts
  <2>2. /\ InReclaims(t) \in Nat /\ InReclaims(t)' \in Nat
        /\ custody[t] \in Nat /\ custody'[t] \in Nat
    BY AccountTypes, AccountTypesAfter DEF AccountsAreNat
  <2> QED
    BY <1>2, <2>1, <2>2 DEF d, Share
<1>7. /\ InChannels(t) \in Nat /\ InChannels(t)' \in Nat
      /\ InChannels(t)' + Share(m.lastState.homeLedger.token, t, m.lockedFunds)
           = InChannels(t) + Share(n.lastState.homeLedger.token, t, n.lockedFunds)
  BY <1>3, <1>4, ChannelAccount
<1>8. d \in Int /\ InChannels(t)' + d = InChannels(t)
  BY <1>2, <1>4, <1>7 DEF Share, home, d
<1>9. UNCHANGED <<queue, escrowWithdrawals, nodeBalances>>
  BY DEF closeAfterChallenge
<1> QED
  BY <1>6, <1>8, <1>9, ChannelOnlySurplus

\* A challenge on the stored state moves no funds.
LEMMA SameVersionSurplus ==
  ASSUME TypeOK, TypeOK', Books, NEW c \in Channels, challengeWithSameVersion(c),
         NEW t \in Tokens
  PROVE  Keeps(t)
<1> DEFINE m == channels[c]
           n == [m EXCEPT !.status = "DISPUTED", !.challengeExpireAt = ChallengeExpiry(c)]
<1>1. m \in ChannelMeta /\ channels' = [channels EXCEPT ![c] = n]
  BY DEF TypeOK, challengeWithSameVersion
<1>2. ChallengeExpiry(c) \in Nat
  BY ConstantsOK DEF TypeOK, ChallengeExpiry
<1>3. n \in ChannelMeta /\ n.lastState = m.lastState /\ n.lockedFunds = m.lockedFunds
  BY <1>1, <1>2 DEF ChannelMeta, ChannelStatus
<1> HIDE DEF n
<1>4. /\ InChannels(t) \in Nat /\ InChannels(t)' \in Nat
      /\ InChannels(t)' + Share(m.lastState.homeLedger.token, t, m.lockedFunds)
           = InChannels(t) + Share(n.lastState.homeLedger.token, t, n.lockedFunds)
  BY <1>1, <1>3, ChannelAccount
<1>5. m.lockedFunds \in Nat
  BY <1>1 DEF ChannelMeta
<1>6. InChannels(t)' + 0 = InChannels(t) /\ 0 \in Int
  BY <1>3, <1>4, <1>5 DEF Share
<1>7. UNCHANGED <<queue, escrowWithdrawals, nodeBalances>>
  BY DEF challengeWithSameVersion, funds
<1>8. custody'[t] - InReclaims(t)' = custody[t] - InReclaims(t) - 0
  <2>1. custody'[t] = custody[t] /\ InReclaims(t)' = InReclaims(t)
    BY ReclaimsSame DEF challengeWithSameVersion, funds
  <2> QED
    BY <2>1, AccountTypes
<1> QED
  BY <1>6, <1>7, <1>8, ChannelOnlySurplus

\* A challenge with a newer state enforces it and closes nothing.
LEMMA NewerStateSurplus ==
  ASSUME TypeOK, TypeOK', Books, NEW c \in Channels, NEW s \in State, NEW sender,
         challengeWithNewerState(c, s, sender), NEW t \in Tokens
  PROVE  Keeps(t)
<1> DEFINE m == channels[c]
           n == [status |-> "DISPUTED", lastState |-> s,
                 challengeExpireAt |-> ChallengeExpiry(c), lockedFunds |-> expectedLocked(m, s)]
           u == s.homeLedger.token
<1>1. m \in ChannelMeta /\ ChallengeExpiry(c) \in Nat
  BY ConstantsOK DEF TypeOK, ChallengeExpiry
<1>2. /\ validateTransition(m, s, nodeBalances[u], now)
      /\ ApplyTransitionEffects(c, s, n)
  BY DEF challengeWithNewerState
<1>3. expectedLocked(m, s) \in Nat
  BY <1>1, <1>2, DeltasAreIntegers DEF validateTransition, validateInvariants
<1>4. n \in ChannelMeta /\ n.lastState = s /\ n.lockedFunds = expectedLocked(m, s)
  BY <1>1, <1>3 DEF ChannelMeta, ChannelStatus
<1> HIDE DEF n
<1>5. /\ Surplus(t) \in Int
      /\ Surplus(t)' = Surplus(t) + Share(u, t, expectedLocked(m, s) - n.lockedFunds)
  BY <1>2, <1>4, ApplySurplus
<1> QED
  BY <1>3, <1>4, <1>5 DEF Share, Keeps

\* Every step on a channel keeps the accounts balanced, but for a migration away.
LEMMA ChannelNextSurplus ==
  ASSUME TypeOK, TypeOK', Books, ChannelNext, NEW t \in Tokens
  PROVE  Keeps(t) \/ Strands(t)
BY ChannelSteps, EnforceSurplus, NewerStateSurplus, SameVersionSurplus,
   CloseAfterChallengeSurplus

\* And leaves records of states of this chain.
LEMMA ChannelNextHere ==
  ASSUME TypeOK, \A c \in Channels : EnforcedHere(channels[c]), ChannelNext
  PROVE  \A c \in Channels : EnforcedHere(channels'[c])
<1>1. PICK c \in Channels :
        \/ \E s \in State : \/ EnforceState(c, s)
                            \/ \E sender : challengeWithNewerState(c, s, sender)
        \/ challengeWithSameVersion(c)
        \/ closeAfterChallenge(c)
  BY ChannelSteps
<1>2. channels \in [Channels -> ChannelMeta] /\ channels[c] \in ChannelMeta
  BY DEF TypeOK
<1>3. ASSUME NEW n, channels' = [channels EXCEPT ![c] = n], EnforcedHere(n)
      PROVE  \A d \in Channels : EnforcedHere(channels'[d])
  <2>1. \A d \in Channels : channels'[d] = IF d = c THEN n ELSE channels[d]
    BY <1>2, <1>3
  <2> QED
    BY <1>3, <2>1
<1>4. ASSUME NEW s \in State, NEW n, n.lastState = s,
             validateTransition(channels[c], s, nodeBalances[s.homeLedger.token], now)
      PROVE  EnforcedHere(n)
  BY <1>4, ValidatedIsHere DEF EnforcedHere
<1>5. ASSUME NEW s \in State, EnforceState(c, s)
      PROVE  \A d \in Channels : EnforcedHere(channels'[d])
  <2>1. EnforcedMeta(channels[c], s).lastState = s
    BY DEF EnforcedMeta
  <2> QED
    BY <1>3, <1>4, <1>5, <2>1 DEF EnforceState, ApplyTransitionEffects
<1>6. ASSUME NEW s \in State, NEW sender, challengeWithNewerState(c, s, sender)
      PROVE  \A d \in Channels : EnforcedHere(channels'[d])
  <2> DEFINE n == [status |-> "DISPUTED", lastState |-> s,
                   challengeExpireAt |-> ChallengeExpiry(c),
                   lockedFunds |-> expectedLocked(channels[c], s)]
  <2>1. n.lastState = s
    OBVIOUS
  <2>2. /\ validateTransition(channels[c], s, nodeBalances[s.homeLedger.token], now)
        /\ channels' = [channels EXCEPT ![c] = n]
    BY <1>6 DEF challengeWithNewerState, ApplyTransitionEffects
  <2> HIDE DEF n
  <2> QED
    BY <1>3, <1>4, <2>1, <2>2
<1>7. CASE challengeWithSameVersion(c)
  <2> DEFINE n == [channels[c] EXCEPT !.status = "DISPUTED",
                                      !.challengeExpireAt = ChallengeExpiry(c)]
  <2>1. channels' = [channels EXCEPT ![c] = n] /\ channels[c].status # "VOID"
    BY <1>2, <1>7 DEF challengeWithSameVersion
  <2>2. n.lastState = channels[c].lastState
    BY <1>2 DEF ChannelMeta
  <2>3. EnforcedHere(n)
    BY <2>1, <2>2 DEF EnforcedHere
  <2> QED
    BY <1>3, <2>1, <2>3
<1>8. CASE closeAfterChallenge(c)
  <2> DEFINE n == [channels[c] EXCEPT !.status = "CLOSED", !.lockedFunds = 0,
                                      !.challengeExpireAt = 0]
  <2>1. channels' = [channels EXCEPT ![c] = n] /\ channels[c].status # "VOID"
    BY <1>2, <1>8 DEF closeAfterChallenge, ChallengeExpired
  <2>2. n.lastState = channels[c].lastState
    BY <1>2 DEF ChannelMeta
  <2>3. EnforcedHere(n)
    BY <2>1, <2>2 DEF EnforcedHere
  <2> QED
    BY <1>3, <2>1, <2>3
<1> QED
  BY <1>1, <1>5, <1>6, <1>7, <1>8

-------------------------------------------------------------------------------
(* Escrows *)

\* What writing one deposit does to the deposits' account.
LEMMA DepositAccount ==
  ASSUME TypeOK, NEW e \in EscrowIds, NEW n \in EscrowDepositMeta, NEW t \in Tokens
  PROVE  LET ed == [escrowDeposits EXCEPT ![e] = n]
             m == escrowDeposits[e]
         IN  /\ ed \in [EscrowIds -> EscrowDepositMeta] /\ InEscrows(ed, t) \in Nat
             /\ InEscrows(ed, t) + Share(EscrowToken(m), t, m.lockedAmount)
                  = InEscrows(escrowDeposits, t) + Share(EscrowToken(n), t, n.lockedAmount)
<1> DEFINE ed == [escrowDeposits EXCEPT ![e] = n]
           m == escrowDeposits[e]
<1>1. escrowDeposits \in [EscrowIds -> EscrowMeta] /\ n \in EscrowMeta
  BY DEF TypeOK, EscrowMeta
<1>2. ed \in [EscrowIds -> EscrowDepositMeta]
  BY DEF TypeOK
<1>3. /\ ed \in [EscrowIds -> EscrowMeta] /\ ed[e] = n
      /\ \A d \in EscrowIds \ {e} : ed[d] = escrowDeposits[d]
  BY <1>1
<1> HIDE DEF ed
<1>4. /\ InEscrows(ed, t) \in Nat
      /\ InEscrows(ed, t) + Share(EscrowToken(m), t, m.lockedAmount)
           = InEscrows(escrowDeposits, t) + Share(EscrowToken(n), t, n.lockedAmount)
  BY <1>1, <1>3, EscrowAccount
<1> QED
  BY <1>2, <1>4 DEF ed

\* What writing one withdrawal does to the withdrawals' account.
LEMMA WithdrawalAccount ==
  ASSUME TypeOK, NEW e \in EscrowIds, NEW n \in EscrowWithdrawalMeta, NEW t \in Tokens,
         escrowWithdrawals' = [escrowWithdrawals EXCEPT ![e] = n]
  PROVE  LET m == escrowWithdrawals[e]
         IN  /\ InWithdrawals(t)' \in Nat
             /\ InWithdrawals(t)' + Share(EscrowToken(m), t, m.lockedAmount)
                  = InWithdrawals(t) + Share(EscrowToken(n), t, n.lockedAmount)
<1> DEFINE m == escrowWithdrawals[e]
<1>1. escrowWithdrawals \in [EscrowIds -> EscrowMeta] /\ n \in EscrowMeta
  BY DEF TypeOK, EscrowMeta
<1> DEFINE new == [escrowWithdrawals EXCEPT ![e] = n]
<1>2. /\ new \in [EscrowIds -> EscrowMeta] /\ new[e] = n
      /\ \A d \in EscrowIds \ {e} : new[d] = escrowWithdrawals[d]
  BY <1>1
<1>3. InWithdrawals(t) = InEscrows(escrowWithdrawals, t) /\ InWithdrawals(t)' = InEscrows(new, t)
  BY DEF InEscrows, InWithdrawals
<1> HIDE DEF new
<1>4. /\ InEscrows(new, t) \in Nat
      /\ InEscrows(new, t) + Share(EscrowToken(m), t, m.lockedAmount)
           = InEscrows(escrowWithdrawals, t) + Share(EscrowToken(n), t, n.lockedAmount)
  BY <1>1, <1>2, EscrowAccount
<1> QED
  BY <1>3, <1>4

\* A step that ends with a purge keeps the surplus if what comes before does.
LEMMA PurgingStepSurplus ==
  ASSUME TypeOK, TypeOK', NEW t \in Tokens, NEW nb \in [Tokens -> Nat],
         NEW ed \in [EscrowIds -> EscrowDepositMeta], NEW steps \in Nat,
         PurgeEscrowDeposits(nb, ed, steps), UNCHANGED channels,
         custody'[t] - InReclaims(t)' - nb[t] - InEscrows(ed, t) - InWithdrawals(t)'
           = custody[t] - InReclaims(t) - nodeBalances[t] - InEscrows(escrowDeposits, t)
               - InWithdrawals(t)
  PROVE  Keeps(t)
<1>1. /\ custody[t] \in Nat /\ nodeBalances[t] \in Nat
      /\ InChannels(t) \in Nat /\ InEscrows(escrowDeposits, t) \in Nat
      /\ InWithdrawals(t) \in Nat /\ InReclaims(t) \in Nat
  BY AccountTypes
<1>2. /\ custody'[t] \in Nat /\ InWithdrawals(t)' \in Nat /\ InReclaims(t)' \in Nat
  BY AccountTypesAfter DEF AccountsAreNat
<1>3. /\ nodeBalances'[t] \in Nat /\ InEscrows(escrowDeposits, t)' \in Nat
      /\ InEscrows(ed, t) \in Nat /\ nb[t] \in Nat
      /\ nodeBalances'[t] + InEscrows(escrowDeposits, t)' = nb[t] + InEscrows(ed, t)
  BY PurgeAccounts
<1>4. InChannels(t)' = InChannels(t)
  BY DEF InChannels, ChannelsIn, LockedFunds
<1> DEFINE dX == (custody'[t] - InReclaims(t)') - (custody[t] - InReclaims(t))
           dV == (nb[t] + InEscrows(ed, t)) - (nodeBalances[t] + InEscrows(escrowDeposits, t))
           dW == InWithdrawals(t)' - InWithdrawals(t)
<1>5. dX \in Int /\ dV \in Int /\ dW \in Int /\ 0 \in Int
  BY <1>1, <1>2, <1>3
<1>6. custody'[t] - InReclaims(t)' = custody[t] - InReclaims(t) + dX
  BY <1>1, <1>2
<1>7. nodeBalances'[t] + InEscrows(escrowDeposits, t)'
        = nodeBalances[t] + InEscrows(escrowDeposits, t) + dV
  BY <1>1, <1>3
<1>8. InWithdrawals(t)' = InWithdrawals(t) + dW /\ InChannels(t)' = InChannels(t) + 0
  BY <1>1, <1>2, <1>4
<1>9. dX - dV - 0 - dW = 0
  BY <1>1, <1>2, <1>3
<1> HIDE DEF dX, dV, dW
<1>10. SurplusFollows(t)
  BY SurplusStep
<1>11. Surplus(t) \in Int /\ Surplus(t)' = Surplus(t) + (dX - dV - 0 - dW)
  BY <1>5, <1>6, <1>7, <1>8, <1>10 DEF SurplusFollows
<1> QED
  BY <1>9, <1>11 DEF Keeps

\* A step on a deposit: x is what custody gains net of the reclaims, v what the
\* vault gains before the purge.
LEMMA DepositStepSurplus ==
  ASSUME TypeOK, TypeOK', NEW t \in Tokens, NEW nb \in [Tokens -> Nat],
         NEW e \in EscrowIds, NEW n \in EscrowDepositMeta,
         PurgeEscrowDeposits(nb, [escrowDeposits EXCEPT ![e] = n], MaxDepositEscrowSteps),
         UNCHANGED <<channels, escrowWithdrawals>>, NEW x \in Int, NEW v \in Int,
         custody'[t] - InReclaims(t)' = custody[t] - InReclaims(t) + x,
         nb[t] = nodeBalances[t] + v,
         x - v = Share(EscrowToken(n), t, n.lockedAmount)
                   - Share(EscrowToken(escrowDeposits[e]), t, escrowDeposits[e].lockedAmount)
  PROVE  Keeps(t)
<1> DEFINE ed == [escrowDeposits EXCEPT ![e] = n]
           m == escrowDeposits[e]
           before == Share(EscrowToken(m), t, m.lockedAmount)
           after == Share(EscrowToken(n), t, n.lockedAmount)
<1>1. /\ ed \in [EscrowIds -> EscrowDepositMeta] /\ InEscrows(ed, t) \in Nat
      /\ InEscrows(ed, t) + before = InEscrows(escrowDeposits, t) + after
  BY DepositAccount
<1>2. PurgeEscrowDeposits(nb, ed, MaxDepositEscrowSteps) /\ MaxDepositEscrowSteps \in Nat
  BY HubConstantsOK
<1>3. before \in Nat /\ after \in Nat
  BY DEF Share, TypeOK, EscrowDepositMeta
<1>4. /\ custody[t] \in Nat /\ nodeBalances[t] \in Nat
      /\ InEscrows(escrowDeposits, t) \in Nat /\ InWithdrawals(t) \in Nat /\ InReclaims(t) \in Nat
  BY AccountTypes
<1>5. InWithdrawals(t)' = InWithdrawals(t)
  BY DEF InWithdrawals, InEscrows
<1> HIDE DEF ed, before, after
<1>6. custody'[t] - InReclaims(t)' - nb[t] - InEscrows(ed, t) - InWithdrawals(t)'
        = custody[t] - InReclaims(t) - nodeBalances[t] - InEscrows(escrowDeposits, t)
            - InWithdrawals(t)
  <2>1. x - v = after - before
    BY DEF before, after
  <2> QED
    BY <1>1, <1>3, <1>4, <1>5, <2>1
<1> QED
  BY <1>1, <1>2, <1>6, PurgingStepSurplus

\* The same of a step on a withdrawal.
LEMMA WithdrawalStepSurplus ==
  ASSUME TypeOK, TypeOK', NEW t \in Tokens, NEW nb \in [Tokens -> Nat],
         NEW e \in EscrowIds, NEW n \in EscrowWithdrawalMeta,
         escrowWithdrawals' = [escrowWithdrawals EXCEPT ![e] = n],
         PurgeEscrowDeposits(nb, escrowDeposits, MaxDepositEscrowSteps),
         UNCHANGED channels, NEW x \in Int, NEW v \in Int,
         custody'[t] - InReclaims(t)' = custody[t] - InReclaims(t) + x,
         nb[t] = nodeBalances[t] + v,
         x - v = Share(EscrowToken(n), t, n.lockedAmount)
                   - Share(EscrowToken(escrowWithdrawals[e]), t,
                           escrowWithdrawals[e].lockedAmount)
  PROVE  Keeps(t)
<1> DEFINE m == escrowWithdrawals[e]
           before == Share(EscrowToken(m), t, m.lockedAmount)
           after == Share(EscrowToken(n), t, n.lockedAmount)
<1>1. /\ InWithdrawals(t)' \in Nat
      /\ InWithdrawals(t)' + before = InWithdrawals(t) + after
  BY WithdrawalAccount
<1>2. MaxDepositEscrowSteps \in Nat /\ escrowDeposits \in [EscrowIds -> EscrowDepositMeta]
  BY HubConstantsOK DEF TypeOK
<1>3. before \in Nat /\ after \in Nat
  BY DEF Share, TypeOK, EscrowWithdrawalMeta
<1>4. /\ custody[t] \in Nat /\ nodeBalances[t] \in Nat
      /\ InEscrows(escrowDeposits, t) \in Nat /\ InWithdrawals(t) \in Nat /\ InReclaims(t) \in Nat
  BY AccountTypes
<1> HIDE DEF before, after
<1>5. custody'[t] - InReclaims(t)' - nb[t] - InEscrows(escrowDeposits, t) - InWithdrawals(t)'
        = custody[t] - InReclaims(t) - nodeBalances[t] - InEscrows(escrowDeposits, t)
            - InWithdrawals(t)
  <2>1. x - v = after - before
    BY DEF before, after
  <2> QED
    BY <1>1, <1>3, <1>4, <2>1
<1> QED
  BY <1>2, <1>5, PurgingStepSurplus

\* The steps of escrow deposits.
LEMMA DepositNextSurplus ==
  ASSUME TypeOK, TypeOK', EscrowsLock, NEW t \in Tokens
  PROVE  /\ \A c \in Channels : \A s \in Signed[c] : initiateEscrowDeposit(c, s) => Keeps(t)
         /\ \A e \in EscrowIds : challengeEscrowDeposit(e) \/ refundEscrowDeposit(e) => Keeps(t)
         /\ \A e \in EscrowIds : \A s : finalizeEscrowDeposit(e, s) => Keeps(t)
<1>1. BalancesOK /\ now \in Nat /\ nodeBalances \in [Tokens -> Nat] /\ nodeBalances[t] \in Nat
  BY TypeOKParts DEF TypeOK
<1>2. /\ custody[t] \in Nat /\ InReclaims(t) \in Nat
  BY AccountTypes
<1>3. ASSUME UNCHANGED <<reclaims, wallet, custody>>
      PROVE  custody'[t] - InReclaims(t)' = custody[t] - InReclaims(t) + 0
  <2>1. custody'[t] = custody[t] /\ InReclaims(t)' = InReclaims(t)
    BY <1>3, ReclaimsSame
  <2> QED
    BY <1>2, <2>1
<1>4. ASSUME NEW e \in EscrowIds
      PROVE  /\ escrowDeposits[e] \in EscrowDepositMeta /\ DepositLocks(escrowDeposits[e])
             /\ escrowDeposits[e].lockedAmount \in Nat
             /\ User[e[1]] \in Accounts
  BY ConstantsOK DEF TypeOK, EscrowsLock, EscrowDepositMeta, EscrowIds, Accounts
<1>5. nodeBalances[t] = nodeBalances[t] + 0 /\ 0 \in Int
  BY <1>1
<1>6. ASSUME NEW c \in Channels, NEW s \in Signed[c], initiateEscrowDeposit(c, s)
      PROVE  Keeps(t)
  <2> DEFINE e == EscrowIdOf(c, s)
             m == escrowDeposits[e]
             n == initiatedDeposit(m, s, now)
             u == s.nonHomeLedger.token
             a == s.nonHomeLedger.userAllocation
             x == Share(u, t, a)
  <2>1. e \in EscrowIds /\ s \in State /\ a \in Nat /\ User[c] \in Accounts
    BY EscrowIdInRange, StateFields, ConstantsOK DEF Accounts
  <2>2. m.status = "VOID" /\ m.lockedAmount = 0
    BY <1>4, <1>6, <2>1
       DEF initiateEscrowDeposit, initiateDepositAllowed, DepositLocks, OpenEscrow
  <2>3. n \in EscrowDepositMeta
    BY <1>1, <1>4, <2>1, EscrowDepositRecords
  <2>4. n.lockedAmount = a /\ EscrowToken(n) = u
    BY <1>4, <2>1, <2>2 DEF initiatedDeposit, EscrowDepositMeta, EscrowToken
  <2>5. /\ PullFunds(User[c], u, a)
        /\ PurgeEscrowDeposits(nodeBalances, [escrowDeposits EXCEPT ![e] = n],
                               MaxDepositEscrowSteps)
        /\ UNCHANGED <<channels, escrowWithdrawals>>
    BY <1>6 DEF initiateEscrowDeposit
  <2> HIDE DEF e, n, u, a
  <2>6. x \in Int /\ custody'[t] = custody[t] + x /\ InReclaims(t)' = InReclaims(t)
    BY <1>1, <2>1, <2>5, PullAccounts DEF Share
  <2>7. x - 0 = Share(EscrowToken(n), t, n.lockedAmount)
                  - Share(EscrowToken(m), t, m.lockedAmount)
    BY <2>1, <2>2, <2>4 DEF Share
  <2> HIDE DEF x, m
  <2>8. custody'[t] - InReclaims(t)' = custody[t] - InReclaims(t) + x
    BY <1>2, <2>6
  <2> QED
    BY <1>1, <1>5, <2>1, <2>3, <2>5, <2>6, <2>7, <2>8, DepositStepSurplus DEF m
<1>7. ASSUME NEW e \in EscrowIds, challengeEscrowDeposit(e)
      PROVE  Keeps(t)
  <2> DEFINE m == escrowDeposits[e]
             n == challengedDeposit(m, now)
  <2>1. n \in EscrowDepositMeta
    BY <1>1, <1>4, EmptyIsState, EscrowDepositRecords
  <2>2. n.lockedAmount = m.lockedAmount /\ EscrowToken(n) = EscrowToken(m)
    BY <1>4 DEF challengedDeposit, EscrowDepositMeta, EscrowToken
  <2>3. /\ PurgeEscrowDeposits(nodeBalances, [escrowDeposits EXCEPT ![e] = n],
                               MaxDepositEscrowSteps)
        /\ UNCHANGED <<channels, escrowWithdrawals>> /\ UNCHANGED <<reclaims, wallet, custody>>
    BY <1>7 DEF challengeEscrowDeposit
  <2> HIDE DEF n
  <2>4. 0 - 0 = Share(EscrowToken(n), t, n.lockedAmount)
                  - Share(EscrowToken(m), t, m.lockedAmount)
    BY <1>4, <2>2 DEF Share
  <2> QED
    BY <1>1, <1>3, <1>5, <2>1, <2>3, <2>4, DepositStepSurplus
<1>8. ASSUME NEW e \in EscrowIds, refundEscrowDeposit(e)
      PROVE  Keeps(t)
  <2> DEFINE m == escrowDeposits[e]
             n == [finalizedDeposit(m) EXCEPT !.challengeExpireAt = 0]
             x == -Share(EscrowToken(m), t, m.lockedAmount)
  <2>1. n \in EscrowDepositMeta
    BY <1>1, <1>4, EmptyIsState, EscrowDepositRecords
  <2>2. n.lockedAmount = 0
    BY <1>4 DEF finalizedDeposit, EscrowDepositMeta
  <2>3. /\ NonRevertingPushFunds(User[e[1]], EscrowToken(m), m.lockedAmount)
        /\ PurgeEscrowDeposits(nodeBalances, [escrowDeposits EXCEPT ![e] = n],
                               MaxDepositEscrowSteps)
        /\ UNCHANGED <<channels, escrowWithdrawals>>
    BY <1>8 DEF refundEscrowDeposit
  <2> HIDE DEF n
  <2>4. Share(EscrowToken(m), t, m.lockedAmount) \in Nat
    BY <1>4 DEF Share
  <2>5. custody'[t] - InReclaims(t)'
          = custody[t] - InReclaims(t) - Share(EscrowToken(m), t, m.lockedAmount)
    BY <1>1, <1>4, <2>3, PushAccounts
  <2>6. x \in Int /\ custody'[t] - InReclaims(t)' = custody[t] - InReclaims(t) + x
    BY <1>2, <2>4, <2>5
  <2>7. x - 0 = Share(EscrowToken(n), t, n.lockedAmount)
                  - Share(EscrowToken(m), t, m.lockedAmount)
    BY <2>2, <2>4 DEF Share
  <2> HIDE DEF x
  <2> QED
    BY <1>1, <1>5, <2>1, <2>3, <2>6, <2>7, DepositStepSurplus
<1>9. ASSUME NEW e \in EscrowIds, NEW s, finalizeEscrowDeposit(e, s)
      PROVE  Keeps(t)
  <2> DEFINE m == escrowDeposits[e]
             n == finalizedDeposit(m)
             v == Share(EscrowToken(m), t, m.lockedAmount)
             nb == [nodeBalances EXCEPT ![EscrowToken(m)]
                                  = nodeBalances[EscrowToken(m)] + m.lockedAmount]
  <2>1. n \in EscrowDepositMeta
    BY <1>1, <1>4, EmptyIsState, EscrowDepositRecords
  <2>2. n.lockedAmount = 0
    BY <1>4 DEF finalizedDeposit, EscrowDepositMeta
  <2>3. nb \in [Tokens -> Nat] /\ nb[t] = nodeBalances[t] + v
    <3>1. EscrowToken(m) \in Tokens => nodeBalances[EscrowToken(m)] + m.lockedAmount \in Nat
      BY <1>1, <1>4
    <3>2. nb \in [Tokens -> Nat]
      BY <1>1, <3>1, TokenUpdate
    <3>3. nb[t] = IF EscrowToken(m) = t THEN nodeBalances[t] + m.lockedAmount
                                        ELSE nodeBalances[t]
      BY <1>1
    <3> QED
      BY <1>1, <3>2, <3>3 DEF Share
  <2>4. /\ PurgeEscrowDeposits(nb, [escrowDeposits EXCEPT ![e] = n], MaxDepositEscrowSteps)
        /\ UNCHANGED <<channels, escrowWithdrawals>> /\ UNCHANGED <<reclaims, wallet, custody>>
    BY <1>9 DEF finalizeEscrowDeposit
  <2> HIDE DEF n, nb
  <2>5. v \in Int /\ 0 - v = Share(EscrowToken(n), t, n.lockedAmount)
                               - Share(EscrowToken(m), t, m.lockedAmount)
    BY <1>4, <2>2 DEF Share
  <2> HIDE DEF v
  <2> QED
    BY <1>3, <1>5, <2>1, <2>3, <2>4, <2>5, DepositStepSurplus
<1> QED
  BY <1>6, <1>7, <1>8, <1>9

\* The steps of escrow withdrawals.
LEMMA WithdrawalNextSurplus ==
  ASSUME TypeOK, TypeOK', EscrowsLock, NEW t \in Tokens
  PROVE  /\ \A c \in Channels : \A s \in Signed[c] : initiateEscrowWithdrawal(c, s) => Keeps(t)
         /\ \A e \in EscrowIds :
              challengeEscrowWithdrawal(e) \/ revertEscrowWithdrawal(e) => Keeps(t)
         /\ \A e \in EscrowIds : \A s : finalizeEscrowWithdrawal(e, s) => Keeps(t)
<1>1. BalancesOK /\ now \in Nat /\ nodeBalances \in [Tokens -> Nat] /\ nodeBalances[t] \in Nat
  BY TypeOKParts DEF TypeOK
<1>2. /\ custody[t] \in Nat /\ InReclaims(t) \in Nat
  BY AccountTypes
<1>3. ASSUME UNCHANGED <<reclaims, wallet, custody>>
      PROVE  custody'[t] - InReclaims(t)' = custody[t] - InReclaims(t) + 0
  <2>1. custody'[t] = custody[t] /\ InReclaims(t)' = InReclaims(t)
    BY <1>3, ReclaimsSame
  <2> QED
    BY <1>2, <2>1
<1>4. ASSUME NEW e \in EscrowIds
      PROVE  /\ escrowWithdrawals[e] \in EscrowWithdrawalMeta
             /\ WithdrawalLocks(escrowWithdrawals[e])
             /\ escrowWithdrawals[e].lockedAmount \in Nat
             /\ User[e[1]] \in Accounts
  BY ConstantsOK DEF TypeOK, EscrowsLock, EscrowWithdrawalMeta, EscrowIds, Accounts
<1>5. nodeBalances[t] = nodeBalances[t] + 0 /\ 0 \in Int
  BY <1>1
<1>6. ASSUME NEW c \in Channels, NEW s \in Signed[c], initiateEscrowWithdrawal(c, s)
      PROVE  Keeps(t)
  <2> DEFINE e == EscrowIdOf(c, s)
             m == escrowWithdrawals[e]
             n == initiatedWithdrawal(m, s)
             u == s.nonHomeLedger.token
             a == s.nonHomeLedger.nodeAllocation
             nb == [nodeBalances EXCEPT ![u] = nodeBalances[u] - a]
             v == -Share(u, t, a)
  <2>1. e \in EscrowIds /\ s \in State /\ a \in Nat
    BY EscrowIdInRange, StateFields
  <2>2. m.status = "VOID" /\ m.lockedAmount = 0
    BY <1>4, <1>6, <2>1
       DEF initiateEscrowWithdrawal, initiateWithdrawalAllowed, WithdrawalLocks, OpenEscrow
  <2>3. n \in EscrowWithdrawalMeta
    BY <1>1, <1>4, <2>1, EscrowWithdrawalRecords
  <2>4. n.lockedAmount = a /\ EscrowToken(n) = u
    BY <1>4, <2>1, <2>2 DEF initiatedWithdrawal, EscrowWithdrawalMeta, EscrowToken
  <2>5. /\ nodeBalances[u] >= a
        /\ escrowWithdrawals' = [escrowWithdrawals EXCEPT ![e] = n]
        /\ PurgeEscrowDeposits(nb, escrowDeposits, MaxDepositEscrowSteps)
        /\ UNCHANGED channels /\ UNCHANGED <<reclaims, wallet, custody>>
    BY <1>6 DEF initiateEscrowWithdrawal, initiateWithdrawalAllowed
  <2> HIDE DEF e, n, u, a
  <2>6. nb \in [Tokens -> Nat] /\ nb[t] = nodeBalances[t] + v
    <3>1. u \in Tokens => nodeBalances[u] - a \in Nat
      BY <1>1, <2>1, <2>5
    <3>2. nb \in [Tokens -> Nat]
      BY <1>1, <3>1, TokenUpdate
    <3>3. nb[t] = IF u = t THEN nodeBalances[t] - a ELSE nodeBalances[t]
      BY <1>1
    <3> QED
      BY <1>1, <2>1, <3>2, <3>3 DEF Share
  <2>7. v \in Int /\ 0 - v = Share(EscrowToken(n), t, n.lockedAmount)
                               - Share(EscrowToken(m), t, m.lockedAmount)
    BY <2>1, <2>2, <2>4 DEF Share
  <2> HIDE DEF nb, v, m
  <2> QED
    BY <1>3, <1>5, <2>1, <2>3, <2>5, <2>6, <2>7, WithdrawalStepSurplus DEF m
<1>7. ASSUME NEW e \in EscrowIds, challengeEscrowWithdrawal(e)
      PROVE  Keeps(t)
  <2> DEFINE m == escrowWithdrawals[e]
             n == challengedWithdrawal(m, now)
  <2>1. n \in EscrowWithdrawalMeta
    BY <1>1, <1>4, EmptyIsState, EscrowWithdrawalRecords
  <2>2. n.lockedAmount = m.lockedAmount /\ EscrowToken(n) = EscrowToken(m)
    BY <1>4 DEF challengedWithdrawal, EscrowWithdrawalMeta, EscrowToken
  <2>3. /\ escrowWithdrawals' = [escrowWithdrawals EXCEPT ![e] = n]
        /\ PurgeEscrowDeposits(nodeBalances, escrowDeposits, MaxDepositEscrowSteps)
        /\ UNCHANGED channels /\ UNCHANGED <<reclaims, wallet, custody>>
    BY <1>7 DEF challengeEscrowWithdrawal
  <2> HIDE DEF n
  <2>4. 0 - 0 = Share(EscrowToken(n), t, n.lockedAmount)
                  - Share(EscrowToken(m), t, m.lockedAmount)
    BY <1>4, <2>2 DEF Share
  <2> QED
    BY <1>1, <1>3, <1>5, <2>1, <2>3, <2>4, WithdrawalStepSurplus
<1>8. ASSUME NEW e \in EscrowIds, revertEscrowWithdrawal(e)
      PROVE  Keeps(t)
  <2> DEFINE m == escrowWithdrawals[e]
             n == [finalizedWithdrawal(m) EXCEPT !.challengeExpireAt = 0]
             v == Share(EscrowToken(m), t, m.lockedAmount)
             nb == [nodeBalances EXCEPT ![EscrowToken(m)]
                                  = nodeBalances[EscrowToken(m)] + m.lockedAmount]
  <2>1. n \in EscrowWithdrawalMeta
    BY <1>1, <1>4, EmptyIsState, EscrowWithdrawalRecords
  <2>2. n.lockedAmount = 0
    BY <1>4 DEF finalizedWithdrawal, EscrowWithdrawalMeta
  <2>3. nb \in [Tokens -> Nat] /\ nb[t] = nodeBalances[t] + v
    <3>1. EscrowToken(m) \in Tokens => nodeBalances[EscrowToken(m)] + m.lockedAmount \in Nat
      BY <1>1, <1>4
    <3>2. nb \in [Tokens -> Nat]
      BY <1>1, <3>1, TokenUpdate
    <3>3. nb[t] = IF EscrowToken(m) = t THEN nodeBalances[t] + m.lockedAmount
                                        ELSE nodeBalances[t]
      BY <1>1
    <3> QED
      BY <1>1, <3>2, <3>3 DEF Share
  <2>4. /\ escrowWithdrawals' = [escrowWithdrawals EXCEPT ![e] = n]
        /\ PurgeEscrowDeposits(nb, escrowDeposits, MaxDepositEscrowSteps)
        /\ UNCHANGED channels /\ UNCHANGED <<reclaims, wallet, custody>>
    BY <1>8 DEF revertEscrowWithdrawal
  <2> HIDE DEF n, nb
  <2>5. v \in Int /\ 0 - v = Share(EscrowToken(n), t, n.lockedAmount)
                               - Share(EscrowToken(m), t, m.lockedAmount)
    BY <1>4, <2>2 DEF Share
  <2> HIDE DEF v
  <2> QED
    BY <1>3, <1>5, <2>1, <2>3, <2>4, <2>5, WithdrawalStepSurplus
<1>9. ASSUME NEW e \in EscrowIds, NEW s, finalizeEscrowWithdrawal(e, s)
      PROVE  Keeps(t)
  <2> DEFINE m == escrowWithdrawals[e]
             n == finalizedWithdrawal(m)
             x == -Share(EscrowToken(m), t, m.lockedAmount)
  <2>1. n \in EscrowWithdrawalMeta
    BY <1>1, <1>4, EmptyIsState, EscrowWithdrawalRecords
  <2>2. n.lockedAmount = 0
    BY <1>4 DEF finalizedWithdrawal, EscrowWithdrawalMeta
  <2>3. /\ NonRevertingPushFunds(User[e[1]], EscrowToken(m), m.lockedAmount)
        /\ escrowWithdrawals' = [escrowWithdrawals EXCEPT ![e] = n]
        /\ PurgeEscrowDeposits(nodeBalances, escrowDeposits, MaxDepositEscrowSteps)
        /\ UNCHANGED channels
    BY <1>9 DEF finalizeEscrowWithdrawal
  <2> HIDE DEF n
  <2>4. Share(EscrowToken(m), t, m.lockedAmount) \in Nat
    BY <1>4 DEF Share
  <2>5. custody'[t] - InReclaims(t)'
          = custody[t] - InReclaims(t) - Share(EscrowToken(m), t, m.lockedAmount)
    BY <1>1, <1>4, <2>3, PushAccounts
  <2>6. x \in Int /\ custody'[t] - InReclaims(t)' = custody[t] - InReclaims(t) + x
    BY <1>2, <2>4, <2>5
  <2>7. x - 0 = Share(EscrowToken(n), t, n.lockedAmount)
                  - Share(EscrowToken(m), t, m.lockedAmount)
    BY <2>2, <2>4 DEF Share
  <2> HIDE DEF x
  <2> QED
    BY <1>1, <1>5, <2>1, <2>3, <2>6, <2>7, WithdrawalStepSurplus
<1> QED
  BY <1>6, <1>7, <1>8, <1>9

-------------------------------------------------------------------------------
(* The vault and the theorems *)

\* A step on the vault and the reclaims alone.
LEMMA VaultStepSurplus ==
  ASSUME TypeOK, TypeOK', UNCHANGED <<channels, queue, escrowWithdrawals>>, NEW t \in Tokens,
         custody'[t] - InReclaims(t)' - nodeBalances'[t]
           = custody[t] - InReclaims(t) - nodeBalances[t]
  PROVE  Keeps(t)
<1>1. /\ custody[t] \in Nat /\ nodeBalances[t] \in Nat
      /\ InChannels(t) \in Nat /\ InEscrows(escrowDeposits, t) \in Nat
      /\ InWithdrawals(t) \in Nat /\ InReclaims(t) \in Nat
  BY AccountTypes
<1>2. /\ custody'[t] \in Nat /\ nodeBalances'[t] \in Nat /\ InReclaims(t)' \in Nat
  BY AccountTypesAfter DEF AccountsAreNat
<1>3. /\ InChannels(t)' = InChannels(t) /\ InWithdrawals(t)' = InWithdrawals(t)
      /\ InEscrows(escrowDeposits, t)' = InEscrows(escrowDeposits, t)
  BY DEF InChannels, ChannelsIn, LockedFunds, InWithdrawals, InEscrows, queue
<1> DEFINE d == nodeBalances'[t] - nodeBalances[t]
<1>4. d \in Int /\ 0 \in Int /\ d - d - 0 - 0 = 0
  BY <1>1, <1>2
<1>5. custody'[t] - InReclaims(t)' = custody[t] - InReclaims(t) + d
  BY <1>1, <1>2
<1>6. nodeBalances'[t] + InEscrows(escrowDeposits, t)'
        = nodeBalances[t] + InEscrows(escrowDeposits, t) + d
  BY <1>1, <1>2, <1>3
<1>7. InChannels(t)' = InChannels(t) + 0 /\ InWithdrawals(t)' = InWithdrawals(t) + 0
  BY <1>1, <1>3
<1> HIDE DEF d
<1>8. SurplusFollows(t)
  BY SurplusStep
<1>9. Surplus(t) \in Int /\ Surplus(t)' = Surplus(t) + (d - d - 0 - 0)
  BY <1>4, <1>5, <1>6, <1>7, <1>8 DEF SurplusFollows
<1> QED
  BY <1>4, <1>9 DEF Keeps

\* The node's movements in and out of its vault, and a claim of kept-back funds.
LEMMA VaultNextSurplus ==
  ASSUME TypeOK, TypeOK', VaultNext, NEW t \in Tokens
  PROVE  Keeps(t)
<1>1. /\ BalancesOK /\ BalancesOK' /\ nodeBalances \in [Tokens -> Nat]
      /\ custody \in [Tokens -> Nat]
  BY DEF TypeOK, BalancesOK
<1>2. /\ custody[t] \in Nat /\ InReclaims(t) \in Nat /\ nodeBalances[t] \in Nat
  BY AccountTypes
<1>3. ASSUME NEW a \in Senders, NEW u \in Tokens, NEW amount \in Amounts,
             depositToNode(a, u, amount)
      PROVE  Keeps(t)
  <2>1. a \in Accounts /\ amount \in Nat
    BY HubConstantsOK
  <2>2. custody'[t] = custody[t] + Share(u, t, amount) /\ InReclaims(t)' = InReclaims(t)
    BY <1>1, <1>3, <2>1, PullAccounts DEF depositToNode
  <2>3. nodeBalances'[t] = nodeBalances[t] + Share(u, t, amount)
    BY <1>1, <1>2, <1>3 DEF depositToNode, Share
  <2>4. Share(u, t, amount) \in Nat
    BY <2>1 DEF Share
  <2>5. custody'[t] - InReclaims(t)' - nodeBalances'[t]
          = custody[t] - InReclaims(t) - nodeBalances[t]
    BY <1>2, <2>2, <2>3, <2>4
  <2>6. UNCHANGED <<channels, queue, escrowWithdrawals>>
    BY <1>3 DEF depositToNode
  <2> QED
    BY <2>5, <2>6, VaultStepSurplus
<1>4. ASSUME NEW u \in Tokens, NEW amount \in Amounts, withdrawFromNode(u, amount)
      PROVE  Keeps(t)
  <2>1. amount \in Nat
    BY HubConstantsOK
  <2>2. /\ custody'[t] = custody[t] - Share(u, t, amount)
        /\ nodeBalances'[t] = nodeBalances[t] - Share(u, t, amount)
    BY <1>1, <1>2, <1>4 DEF withdrawFromNode, Share
  <2>3. InReclaims(t)' = InReclaims(t)
    BY <1>4, ReclaimsSame DEF withdrawFromNode
  <2>4. Share(u, t, amount) \in Nat
    BY <2>1 DEF Share
  <2>5. custody'[t] - InReclaims(t)' - nodeBalances'[t]
          = custody[t] - InReclaims(t) - nodeBalances[t]
    BY <1>2, <2>2, <2>3, <2>4
  <2>6. UNCHANGED <<channels, queue, escrowWithdrawals>>
    BY <1>4 DEF withdrawFromNode
  <2> QED
    BY <2>5, <2>6, VaultStepSurplus
<1>5. ASSUME NEW a \in Senders, NEW u \in Tokens, claimFunds(a, u)
      PROVE  Keeps(t)
  <2>1. a \in Accounts /\ reclaims \in [Accounts -> [Tokens -> Nat]]
    BY HubConstantsOK DEF TypeOK
  <2>2. /\ \A b \in Accounts \ {a} : reclaims'[b][t] = reclaims[b][t]
        /\ reclaims'[a][t] = reclaims[a][t] - Share(u, t, reclaims[a][u])
        /\ reclaims[a][t] \in Nat /\ reclaims[a][u] \in Nat
    BY <1>5, <2>1 DEF claimFunds, Share
  <2>3. /\ InReclaims(t)' \in Nat
        /\ InReclaims(t)' + reclaims[a][t] = InReclaims(t) + reclaims'[a][t]
    BY <1>1, <2>1, <2>2, ReclaimsUpdate
  <2>4. custody'[t] = custody[t] - Share(u, t, reclaims[a][u])
    BY <1>1, <1>2, <1>5, <2>2 DEF claimFunds, Share
  <2>5. Share(u, t, reclaims[a][u]) \in Nat
    BY <2>2 DEF Share
  <2>6. nodeBalances'[t] = nodeBalances[t] /\ UNCHANGED <<channels, queue, escrowWithdrawals>>
    BY <1>5 DEF claimFunds
  <2>7. custody'[t] - InReclaims(t)' - nodeBalances'[t]
          = custody[t] - InReclaims(t) - nodeBalances[t]
    BY <1>2, <2>2, <2>3, <2>4, <2>5, <2>6
  <2> QED
    BY <2>6, <2>7, VaultStepSurplus
<1> QED
  BY <1>3, <1>4, <1>5 DEF VaultNext

\* Every step keeps the surplus of every token, but for a migration away.
LEMMA NextSurplus ==
  ASSUME TypeOK, TypeOK', Books, [Next]_vars, NEW t \in Tokens
  PROVE  Keeps(t) \/ Strands(t)
<1>1. CASE ChannelNext
  BY <1>1, ChannelNextSurplus
<1>2. CASE EscrowNext
  <2>1. EscrowsLock
    BY DEF Books
  <2> QED
    BY <1>2, <2>1, DepositNextSurplus, WithdrawalNextSurplus DEF EscrowNext
<1>3. CASE VaultNext
  BY <1>3, VaultNextSurplus
<1>4. ASSUME NEW steps \in PurgeSteps, purgeEscrowDeposits(steps)
      PROVE  Keeps(t)
  <2>1. /\ PurgeEscrowDeposits(nodeBalances, escrowDeposits, steps) /\ UNCHANGED channels
        /\ UNCHANGED <<escrowWithdrawals, reclaims, custody>>
    BY <1>4 DEF purgeEscrowDeposits
  <2>2. /\ custody'[t] = custody[t] /\ InReclaims(t)' = InReclaims(t)
        /\ InWithdrawals(t)' = InWithdrawals(t)
    BY <2>1, ReclaimsSame DEF InWithdrawals, InEscrows
  <2>3. /\ nodeBalances \in [Tokens -> Nat] /\ steps \in Nat
        /\ escrowDeposits \in [EscrowIds -> EscrowDepositMeta]
    BY HubConstantsOK DEF TypeOK
  <2> QED
    BY <2>1, <2>2, <2>3, PurgingStepSurplus
<1>5. CASE Tick \/ UNCHANGED vars
  <2>1. /\ UNCHANGED <<channels, queue, escrowWithdrawals>>
        /\ custody'[t] = custody[t] /\ nodeBalances'[t] = nodeBalances[t]
        /\ InReclaims(t)' = InReclaims(t)
    BY <1>5, ReclaimsSame DEF Tick, vars, funds
  <2> QED
    BY <2>1, VaultStepSurplus
<1> QED
  BY <1>1, <1>2, <1>3, <1>4, <1>5 DEF Next

\* What the accounting rests on holds from the start and is kept by every step.
LEMMA BooksInvariant == Spec => []Books
<1> DEFINE Here == \A c \in Channels : EnforcedHere(channels[c])
<1>1. Init => Here
  BY DEF Init, EnforcedHere
<1>2. TypeOK /\ Here /\ [Next]_vars => Here'
  <2> SUFFICES ASSUME TypeOK, Here, [Next]_vars PROVE Here'
    OBVIOUS
  <2>1. CASE ChannelNext
    BY <2>1, ChannelNextHere
  <2>2. CASE ~ChannelNext
    BY <2>2, OtherStepsKeepChannels
  <2> QED
    BY <2>1, <2>2
<1>3. Spec => []Here
  BY <1>1, <1>2, TypeCorrect, PTL DEF Spec
<1>4. Here /\ LockedMatchesAllocations /\ EscrowLocksExact => Books
  BY DEF Books, LockedMatchesAllocations, LocksItsAllocations, IsLive, EscrowLocksExact,
     EscrowsLock, DepositLocks, WithdrawalLocks, OpenEscrow
<1> QED
  BY <1>3, <1>4, LockedFundsAreTheAllocations, EscrowLocks, PTL

\* No transaction, whoever sends it and whatever the parties signed, changes the
\* difference between what the hub holds and what it owes in a token, except a
\* final migration of a live channel away from this chain.
THEOREM NothingIsStranded == Spec => NothingStranded
<1> DEFINE Step == \A t \in Tokens : Surplus(t)' # Surplus(t) =>
                     \E c \in ChannelsIn(t) : IsLive(c) /\ channels'[c].status = "MIGRATED_OUT"
<1>1. TypeOK /\ TypeOK' /\ Books /\ [Next]_vars => Step
  BY NextSurplus DEF Keeps, Strands
<1>2. TypeOK /\ TypeOK' /\ Books /\ [Next]_vars => [Step]_vars
  BY <1>1
<1> HIDE DEF Step
<1>3. Spec => [][Step]_vars
  BY <1>2, TypeCorrect, BooksInvariant, PTL DEF Spec
<1> QED
  BY <1>3 DEF NothingStranded, Step

\* The hub can pay everyone: the tokens in custody cover the vault, the live
\* channels, the open escrows and the funds kept back, in every reachable state
\* and for all constants.
THEOREM HubIsSolvent == Spec => []Solvent
<1> DEFINE Covered == \A t \in Tokens : Surplus(t) \in Int /\ Surplus(t) >= 0
<1>1. Init => Covered
  <2> SUFFICES ASSUME Init, NEW t \in Tokens PROVE Surplus(t) \in Int /\ Surplus(t) >= 0
    OBVIOUS
  <2>1. InChannels(t) = 0 /\ InEscrows(escrowDeposits, t) = 0 /\ InWithdrawals(t) = 0
        /\ InReclaims(t) = 0
    <3>1. /\ \A c \in ChannelsIn(t) : LockedFunds[c] = 0
          /\ \A e \in EscrowsIn(escrowDeposits, t) : LockedAmounts(escrowDeposits)[e] = 0
          /\ \A e \in EscrowsIn(escrowWithdrawals, t) : LockedAmounts(escrowWithdrawals)[e] = 0
          /\ \A a \in Accounts : ReclaimsIn(t)[a] = 0
      BY DEF Init, ChannelsIn, LockedFunds, EscrowsIn, LockedAmounts, ReclaimsIn
    <3> QED
      BY <3>1, TotalZero DEF InChannels, InEscrows, InWithdrawals, InReclaims
  <2>2. custody[t] = 0 /\ nodeBalances[t] = 0
    BY DEF Init
  <2>3. Surplus(t) = custody[t] - (nodeBalances[t] + InChannels(t)
                       + InEscrows(escrowDeposits, t) + InWithdrawals(t) + InReclaims(t))
    BY DEF Surplus, Liabilities, InChannels, InEscrows, InWithdrawals, InReclaims
  <2> QED
    BY <2>1, <2>2, <2>3
<1>2. TypeOK /\ TypeOK' /\ Books /\ Covered /\ [Next]_vars => Covered'
  <2> SUFFICES ASSUME TypeOK, TypeOK', Books, Covered, [Next]_vars, NEW t \in Tokens
               PROVE  Surplus(t)' \in Int /\ Surplus(t)' >= 0
    OBVIOUS
  <2>1. Keeps(t) \/ Strands(t)
    BY NextSurplus
  <2> QED
    BY <2>1 DEF Keeps, Strands
<1>3. TypeOK /\ Covered => Solvent
  <2> SUFFICES ASSUME TypeOK, Covered, NEW t \in Tokens PROVE custody[t] >= Liabilities(t)
    BY DEF Solvent
  <2>1. /\ custody[t] \in Nat /\ nodeBalances[t] \in Nat
        /\ InChannels(t) \in Nat /\ InEscrows(escrowDeposits, t) \in Nat
        /\ InWithdrawals(t) \in Nat /\ InReclaims(t) \in Nat
    BY AccountTypes
  <2>2. Liabilities(t) = nodeBalances[t] + InChannels(t)
                           + InEscrows(escrowDeposits, t) + InWithdrawals(t) + InReclaims(t)
    BY DEF Liabilities, InChannels, InEscrows, InWithdrawals, InReclaims
  <2>3. Surplus(t) = custody[t] - Liabilities(t) /\ Surplus(t) >= 0
    BY DEF Surplus
  <2> QED
    BY <2>1, <2>2, <2>3
<1> HIDE DEF Covered
<1> QED
  BY <1>1, <1>2, <1>3, TypeCorrect, BooksInvariant, PTL DEF Spec
===============================================================================
