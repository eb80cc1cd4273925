------------------------------- MODULE Verify -------------------------------
(***************************************************************************)
(* What `make verify` asks of the chain after a rehearsal, as predicates   *)
(* on what it reads (packages/verify: checks.mjs).  The components whose   *)
(* work a check judges state with it what they are to achieve.             *)
(***************************************************************************)
EXTENDS Integers, Sequences

\* The side of the upgrade a tx of this block is counted on: the upgrade block is the first
\* one of the new binary.
Side(block, upgradeHeight) == IF block < upgradeHeight THEN "before" ELSE "after"

\* A message of EXPECTED_MSGS, given the sides on which a tx with it succeeded.
ExpectedMsg(landed, beforeOnly) == "before" \in landed /\ (beforeOnly \/ "after" \in landed)

\* The answers to a search, of which find() takes the first.
Found(answers, Matches(_)) == {k \in DOMAIN answers : Matches(answers[k])}
First(answers, Matches(_)) ==
  answers[CHOOSE k \in Found(answers, Matches) : \A j \in Found(answers, Matches) : k <= j]

\* A custom proposal, found by its metadata label, ended as configured.
CustomProposal(proposals, metadata, passes) ==
  LET Labelled(p) == p.metadata = metadata
      want == IF passes THEN "PASSED" ELSE "REJECTED"
  IN  Found(proposals, Labelled) # {} /\ First(proposals, Labelled).status = want

\* A custom msg tx, found by its memo among its signer's txs (given by memo and success);
\* one that is to fail may be missing.
CustomMsg(responses, memo, succeeds) ==
  LET Labelled(r) == r.memo = memo
  IN  IF Found(responses, Labelled) = {} THEN ~succeeds
      ELSE First(responses, Labelled).ok = succeeds

\* The plan was applied at its height.
UpgradeAppliedAt(applied, upgradeHeight) == applied = upgradeHeight

\* Both chains list an open transfer channel.
TransferChannelOpen(fund, gaiad) == "OPEN" \in fund /\ "OPEN" \in gaiad
=============================================================================
