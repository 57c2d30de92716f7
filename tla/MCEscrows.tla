------------------------------- MODULE MCEscrows -------------------------------
(***************************************************************************)
(* Two channels whose home is another chain, with escrow deposits and      *)
(* withdrawals on this one.  The first channel also migrates here while    *)
(* its escrows are open (the ordering contracts/SECURITY.md calls          *)
(* canonical), and its user's transfers always fail.  The purge budget is  *)
(* smaller than the queue, so that a backlog builds up.                    *)
(***************************************************************************)
EXTENDS ChannelHub

CONSTANTS c1, c2, u1, u2

MCUser == [c \in {c1, c2} |-> IF c = c1 THEN u1 ELSE u2]
MCDuration == [c \in {c1, c2} |-> 1]
MCDecimals == [t \in Tokens |-> 0]
MCVersions == 1..3

MCWallet == [a \in Accounts |-> [t \in Tokens |-> 1]]

OtherChain == ChainId + 1

Lgr(chain, t, ua, unf, na, nnf) ==
  [chainId |-> chain, token |-> t, decimals |-> 0, userAllocation |-> ua,
   userNetFlow |-> unf, nodeAllocation |-> na, nodeNetFlow |-> nnf]

St(v, i, home, nonHome) ==
  [version |-> v, intent |-> i, homeLedger |-> home, nonHomeLedger |-> nonHome]

Here(t, ua, unf, na, nnf) == Lgr(ChainId, t, ua, unf, na, nnf)
Other(ua, unf, na, nnf) == Lgr(OtherChain, NoToken, ua, unf, na, nnf)

\* An escrow deposit of one token, and its completion, possibly in another
\* token than it began.
Deposit(v, t) ==
  {St(v, "INITIATE_ESCROW_DEPOSIT", Other(1, 1, 1, 1), Here(t, 1, 1, 0, 0))}
DepositDone(v) ==
  {St(v, "FINALIZE_ESCROW_DEPOSIT", Other(2, 1, 0, 1), Here(t, 0, 1, 0, -1)) : t \in Tokens}

Withdrawal(v, t) ==
  {St(v, "INITIATE_ESCROW_WITHDRAWAL", Other(1, 1, 0, 0), Here(t, 0, 0, 1, 1))}
WithdrawalDone(v) ==
  {St(v, "FINALIZE_ESCROW_WITHDRAWAL", Other(0, 1, 0, -1), Here(t, 0, -1, 0, 1)) : t \in Tokens}

\* The channel moves to this chain, and is then operated and closed here.
Migration(v, t) ==
  {St(v, "INITIATE_MIGRATION", Other(1, 1, 0, 0), Here(t, 0, 0, 1, 1)),
   St(v + 1, "FINALIZE_MIGRATION", Here(t, 1, 0, 0, 1), Other(0, 1, 0, -1))}

Asset == CHOOSE t \in Tokens : TRUE

\* Two escrows of each channel.  The second channel's deposits are never
\* completed: only time resolves them.
MCSigned ==
  [c \in {c1, c2} |->
     IF c = c1
     THEN Deposit(1, Asset) \cup DepositDone(2)
          \cup Withdrawal(1, Asset) \cup WithdrawalDone(2) \cup Migration(2, Asset)
     ELSE Deposit(1, Asset) \cup Deposit(2, Asset)]
===============================================================================
