------------------------------ MODULE MCChannels ------------------------------
(***************************************************************************)
(* One channel on its home chain, with every intent, both directions of    *)
(* migration, and any mixture of co-signed states: several states of the   *)
(* same version, versions left out, flows that do not follow one another.  *)
(* The contract must stay sound whatever the two parties have signed.      *)
(***************************************************************************)
EXTENDS ChannelHub

CONSTANTS c1, u1, t1, t2, MaxVersion, MaxAllocation, MaxUserDebt, MaxNodeFlow

MCUser == [c \in {c1} |-> u1]
MCDuration == [c \in {c1} |-> 1]
MCDecimals == [t \in Tokens |-> 0]
MCVersions == 0..MaxVersion

\* One t1 each for the user and the node.
MCWallet == [a \in Accounts |-> [t \in Tokens |-> IF t = t1 THEN 1 ELSE 0]]

Lgr(chain, t, ua, unf, na, nnf) ==
  [chainId |-> chain, token |-> t, decimals |-> 0, userAllocation |-> ua,
   userNetFlow |-> unf, nodeAllocation |-> na, nodeNetFlow |-> nnf]

\* All balanced ledgers of this chain within the bounds.
HomeLedgers(t) ==
  {l \in {Lgr(ChainId, t, ua, unf, na, ua + na - unf) :
            ua \in 0..MaxAllocation, na \in 0..1, unf \in (-MaxUserDebt)..MaxAllocation} :
     l.nodeNetFlow \in -1..MaxNodeFlow}

OtherChain == ChainId + 1

Other(ua, unf, na, nnf) == {Lgr(OtherChain, NoToken, ua, unf, na, nnf)}

\* The other chain's half of a cross-chain state, by intent.
OtherLedgers(intent) ==
  CASE intent = "INITIATE_ESCROW_DEPOSIT" -> Other(1, 1, 0, 0)
    [] intent = "FINALIZE_ESCROW_DEPOSIT" -> Other(0, 1, 0, -1)
    [] intent = "INITIATE_ESCROW_WITHDRAWAL" -> Other(0, 0, 1, 1)
    [] intent = "FINALIZE_ESCROW_WITHDRAWAL" -> Other(0, -1, 0, 1)
    [] intent = "INITIATE_MIGRATION" ->
         Other(0, 0, 1, 1) \cup Other(1, 1, 0, 0)
    [] intent = "FINALIZE_MIGRATION" ->
         Other(0, 1, 0, -1) \cup Other(1, 0, 0, 1)
    [] OTHER -> {EmptyLedger}

\* The states of each intent, and a few at the last version that change the
\* token of the channel.
HomeStates ==
  UNION {{[version |-> v, intent |-> i, homeLedger |-> h, nonHomeLedger |-> o] :
            v \in MCVersions, h \in HomeLedgers(t1), o \in OtherLedgers(i)} :
         i \in StateIntent}
  \cup {[version |-> MaxVersion, intent |-> i, homeLedger |-> h,
         nonHomeLedger |-> EmptyLedger] :
          i \in {"OPERATE", "CLOSE"}, h \in HomeLedgers(t2)}

\* The states in which this chain's ledger is the second one.
SwappedStates ==
  {SwapLedgers(s) : s \in {x \in HomeStates : x.intent \in MigrationIntent}}

MCSigned == [c \in {c1} |-> HomeStates \cup SwappedStates]
===============================================================================
