--------------------------- MODULE ScreeningProofs ---------------------------
(***************************************************************************)
(* Proofs about the screening policy, for every set of senders and amounts *)
(* of postage and every order of the calls that build a policy.            *)
(***************************************************************************)
EXTENDS Screening, TLAPS

LEMMA Ranks ==
  /\ Rank("Rejected") = 0 /\ Rank("Spam") = 1 /\ Rank("Inbox") = 2 /\ Rank("InboxPaid") = 2
<1>1. "Rejected" # "Spam" /\ "Inbox" # "Rejected" /\ "Inbox" # "Spam"
      /\ "InboxPaid" # "Rejected" /\ "InboxPaid" # "Spam"
  OBVIOUS
<1> QED
  BY <1>1 DEF Rank

(* Each call keeps the types. *)
THEOREM ScreeningKeepsTypes == ScreeningSpec => []ScreeningTypeOK
<1>1. ScreeningInit => ScreeningTypeOK
  BY ScreeningAssumption DEF ScreeningInit, ScreeningTypeOK
<1>2. ScreeningTypeOK /\ [ScreeningNext]_policyVars => ScreeningTypeOK'
  BY DEF ScreeningTypeOK, ScreeningNext, Allow, Block, RequirePostage, Strict, NoReputationWaiver,
     policyVars
<1> QED
  BY <1>1, <1>2, PTL DEF ScreeningSpec

(* Nothing outranks a block, and more postage never worsens a verdict.     *)
THEOREM ScreeningBlockOutranksAll == ScreeningSpec => []BlockOutranksAll
<1>1. ScreeningTypeOK => BlockOutranksAll
  <2> SUFFICES ASSUME ScreeningTypeOK PROVE BlockOutranksAll
    OBVIOUS
  <2>1. \A l \in Letter : l.from \in blocklist => Screen(l) = "Rejected"
    BY DEF Screen
  <2>2. ASSUME NEW l \in Letter, NEW k \in Letter, k = [l EXCEPT !.postage = k.postage],
               l.postage.receipt = "valid", k.postage.receipt = "valid",
               l.postage.amount <= k.postage.amount
        PROVE  Rank(Screen(l)) <= Rank(Screen(k))
    <3>1. k.from = l.from /\ k.to = l.to /\ k.standing = l.standing
      BY <2>2 DEF Letter
    <3>2. min_postage \in Nat /\ l.postage.amount \in Nat /\ k.postage.amount \in Nat
      BY ScreeningAssumption DEF ScreeningTypeOK, Letter, Postage
    <3>3. Paid(l) => Paid(k)
      BY <2>2, <3>2 DEF Paid
    <3>4. Waived(l) <=> Waived(k)
      BY <3>1 DEF Waived
    <3>5. Deny \in {"Rejected", "Spam"}
      BY DEF Deny
    <3> QED
      BY <3>1, <3>3, <3>4, <3>5, Ranks DEF Screen
  <2> QED
    BY <2>1, <2>2 DEF BlockOutranksAll
<1> QED
  BY <1>1, ScreeningKeepsTypes, PTL

(* What a step of the builder may do to the verdict on a letter. *)
LEMMA VerdictMoves ==
  ASSUME ScreeningTypeOK, ScreeningNext, NEW l \in Letter
  PROVE  /\ allowlist' = allowlist /\ min_postage' >= min_postage
              => Rank(Screen(l)') <= Rank(Screen(l))
         /\ allowlist' # allowlist => Rank(Screen(l)') >= Rank(Screen(l))
<1>0. /\ min_postage \in Nat /\ min_postage' \in Nat /\ l.postage.amount \in Nat
      /\ Deny \in {"Rejected", "Spam"}
      /\ Deny' \in {"Rejected", "Spam"}
  <2>1. min_postage \in Nat /\ min_postage' \in Nat
    BY ScreeningAssumption
    DEF ScreeningTypeOK, ScreeningNext, Allow, Block, RequirePostage, Strict, NoReputationWaiver
  <2> QED
    BY <2>1, ScreeningAssumption DEF Letter, Postage, Deny
<1>1. CASE \E n \in Sender : Allow(n)
  <2>1. /\ allowlist \subseteq allowlist' /\ blocklist' = blocklist /\ min_postage' = min_postage
        /\ strict' = strict /\ waive_postage_for_established' = waive_postage_for_established
    BY <1>1 DEF Allow
  <2>2. (Waived(l) => Waived(l)') /\ (allowlist' = allowlist => (Waived(l)' => Waived(l)))
    BY <2>1 DEF Waived
  <2>3. (Paid(l)' <=> Paid(l)) /\ Deny' = Deny
    BY <2>1 DEF Paid, Deny
  <2>4. Screen(l)' = Screen(l) \/ Screen(l)' = "Inbox"
    BY <2>1, <2>2, <2>3 DEF Screen
  <2>5. allowlist' = allowlist => Screen(l)' = Screen(l)
    BY <2>1, <2>2, <2>3 DEF Screen
  <2>6. Screen(l) \in {"Rejected", "Spam", "Inbox", "InboxPaid"}
    BY <1>0 DEF Screen
  <2> QED
    BY <2>4, <2>5, <2>6, Ranks
<1>2. CASE (\E n \in Sender : Block(n)) \/ (\E amount \in Amount : RequirePostage(amount))
           \/ Strict \/ NoReputationWaiver
  <2>1. /\ allowlist' = allowlist /\ blocklist \subseteq blocklist'
        /\ strict => strict'
        /\ waive_postage_for_established' => waive_postage_for_established
    BY <1>2 DEF Block, RequirePostage, Strict, NoReputationWaiver
  <2>2. ASSUME min_postage' >= min_postage PROVE Rank(Screen(l)') <= Rank(Screen(l))
    <3>1. Waived(l)' => Waived(l)
      BY <2>1 DEF Waived
    <3>2. Paid(l)' => Paid(l)
      BY <1>0, <2>2 DEF Paid
    <3>3. Rank(Deny') <= Rank(Deny)
      BY <2>1, Ranks DEF Deny
    <3> QED
      BY <1>0, <2>1, <3>1, <3>2, <3>3, Ranks DEF Screen
  <2> QED
    BY <2>1, <2>2
<1> QED
  BY <1>1, <1>2 DEF ScreeningNext

(* Hardening a policy never improves a verdict, whatever came before.      *)
THEOREM ScreeningHardeningNeverAdmits == ScreeningSpec => HardeningNeverAdmits
<1>1. ScreeningTypeOK /\ [ScreeningNext]_policyVars
        => [/\ (allowlist' = allowlist /\ min_postage' >= min_postage) =>
                  \A l \in Letter : Rank(Screen(l)') <= Rank(Screen(l))
            /\ (allowlist' # allowlist) =>
                  \A l \in Letter : Rank(Screen(l)') >= Rank(Screen(l))]_policyVars
  BY VerdictMoves
<1> QED
  BY <1>1, ScreeningKeepsTypes, PTL DEF ScreeningSpec, HardeningNeverAdmits
=============================================================================
