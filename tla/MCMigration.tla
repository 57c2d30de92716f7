------------------------------ MODULE MCMigration ------------------------------
(***************************************************************************)
(* One channel that moves to this chain as the documentation describes:    *)
(* the user holds one unit on the old home chain, the node locks its worth *)
(* here, and the final state hands it to the user.  Decimals is the        *)
(* precision of the token here; the token of the old chain has none.       *)
(***************************************************************************)
EXTENDS ChannelHub

CONSTANTS c1, u1, t1, Decimals

MCUser == [c \in {c1} |-> u1]
MCDuration == [c \in {c1} |-> 1]
MCDecimals == [t \in Tokens |-> Decimals]
MCVersions == 1..3

\* One unit of the old chain's token, in units of the token here.
Worth == 10^Decimals

MCAmounts == {Worth}
MCWallet == [a \in Accounts |-> [t \in Tokens |-> Worth]]

Here(ua, unf, na, nnf) ==
  [chainId |-> ChainId, token |-> t1, decimals |-> Decimals, userAllocation |-> ua,
   userNetFlow |-> unf, nodeAllocation |-> na, nodeNetFlow |-> nnf]

Old(ua, unf, na, nnf) ==
  [chainId |-> ChainId + 1, token |-> NoToken, decimals |-> 0, userAllocation |-> ua,
   userNetFlow |-> unf, nodeAllocation |-> na, nodeNetFlow |-> nnf]

St(v, i, home, nonHome) ==
  [version |-> v, intent |-> i, homeLedger |-> home, nonHomeLedger |-> nonHome]

MCSigned ==
  [c \in {c1} |->
     {St(1, "INITIATE_MIGRATION", Old(1, 1, 0, 0), Here(0, 0, Worth, Worth)),
      St(2, "FINALIZE_MIGRATION", Here(Worth, 0, 0, Worth), Old(0, 1, 0, -1)),
      St(3, "OPERATE", Here(Worth, 0, 0, Worth), EmptyLedger)}]
===============================================================================
