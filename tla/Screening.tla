----------------------------- MODULE Screening -----------------------------
(***************************************************************************)
(* The recipient's screening policy, src/src/screening.rs: who reaches the *)
(* inbox, who is filed as spam and who is rejected.  Each call of the      *)
(* builder is an action; screen is a function of the policy and of the     *)
(* letter, a verified envelope with its sender's standing and what its     *)
(* postage receipt turns out to be worth.                                  *)
(***************************************************************************)
EXTENDS Naturals

CONSTANTS
  Sender,  \* NodeId hex strings
  Me,      \* the recipient's own
  Amount   \* amounts of postage

ASSUME ScreeningAssumption == Me \in Sender /\ Amount \subseteq Nat /\ 0 \in Amount

VARIABLES
  allowlist, blocklist, min_postage, strict, waive_postage_for_established

policyVars == <<allowlist, blocklist, min_postage, strict, waive_postage_for_established>>

ScreeningTypeOK ==
  /\ allowlist \subseteq Sender /\ blocklist \subseteq Sender
  /\ min_postage \in Amount
  /\ strict \in BOOLEAN /\ waive_postage_for_established \in BOOLEAN

(* No receipt, one that does not verify, or one worth an amount.           *)
Postage == [receipt : {"none", "invalid"}, amount : {0}] \cup [receipt : {"valid"}, amount : Amount]

Letter ==
  [from : Sender, to : Sender, standing : {"Newcomer", "Established"}, postage : Postage]

-----------------------------------------------------------------------------

(* Mutant of Deny: the two outcomes are swapped. *)
DenySwapped == IF strict THEN "Spam" ELSE "Rejected"

Deny == IF strict THEN "Rejected" ELSE "Spam"

Waived(l) ==
  \/ l.from = Me
  \/ l.from \in allowlist
  \/ waive_postage_for_established /\ l.standing = "Established"

Paid(l) == l.postage.receipt = "valid" /\ l.postage.amount >= min_postage

(* Mutant of Screen: contacts are let in before the blocklist is asked. *)
ScreenContactsFirst(l) ==
  IF l.to # Me THEN "Rejected"
  ELSE IF Waived(l) THEN "Inbox"
  ELSE IF l.from \in blocklist THEN "Rejected"
  ELSE IF Paid(l) THEN "InboxPaid"
  ELSE Deny

(* screen; InboxPaid is the verdict whose postage is held for a refund.    *)
Screen(l) ==
  IF l.to # Me \/ l.from \in blocklist THEN "Rejected"
  ELSE IF Waived(l) THEN "Inbox"
  ELSE IF Paid(l) THEN "InboxPaid"
  ELSE Deny

-----------------------------------------------------------------------------

ScreeningInit ==
  /\ allowlist = {} /\ blocklist = {}
  /\ min_postage = 0
  /\ strict = FALSE
  /\ waive_postage_for_established = TRUE

Allow(n) ==
  /\ allowlist' = allowlist \cup {n}
  /\ UNCHANGED <<blocklist, min_postage, strict, waive_postage_for_established>>

Block(n) ==
  /\ blocklist' = blocklist \cup {n}
  /\ UNCHANGED <<allowlist, min_postage, strict, waive_postage_for_established>>

(* Mutant of RequirePostage: minimums add up. *)
RequireMorePostage(amount) ==
  /\ min_postage' = min_postage + amount
  /\ UNCHANGED <<allowlist, blocklist, strict, waive_postage_for_established>>

RequirePostage(amount) ==
  /\ min_postage' = amount
  /\ UNCHANGED <<allowlist, blocklist, strict, waive_postage_for_established>>

Strict ==
  /\ strict' = TRUE
  /\ UNCHANGED <<allowlist, blocklist, min_postage, waive_postage_for_established>>

NoReputationWaiver ==
  /\ waive_postage_for_established' = FALSE
  /\ UNCHANGED <<allowlist, blocklist, min_postage, strict>>

ScreeningNext ==
  \/ \E n \in Sender : Allow(n) \/ Block(n)
  \/ \E amount \in Amount : RequirePostage(amount)
  \/ Strict \/ NoReputationWaiver

ScreeningSpec == ScreeningInit /\ [][ScreeningNext]_policyVars

-----------------------------------------------------------------------------

Rank(verdict) ==
  CASE verdict = "Rejected" -> 0 [] verdict = "Spam" -> 1 [] OTHER -> 2

(* Hardening a policy, by any call but allow or a lower minimum, never     *)
(* improves the verdict on any letter, and allow never worsens one: the    *)
(* order in which a policy is built cannot open the inbox.                 *)
HardeningNeverAdmits ==
  [][/\ (allowlist' = allowlist /\ min_postage' >= min_postage) =>
          \A l \in Letter : Rank(Screen(l)') <= Rank(Screen(l))
     /\ (allowlist' # allowlist) =>
          \A l \in Letter : Rank(Screen(l)') >= Rank(Screen(l))]_policyVars

(* A blocked sender is rejected, also one that is a contact, established,  *)
(* paying, or the recipient itself; and money buys a stranger at most what *)
(* a contact has for free: more postage never worsens a verdict.           *)
BlockOutranksAll ==
  /\ \A l \in Letter : l.from \in blocklist => Screen(l) = "Rejected"
  /\ \A l, k \in Letter :
       (k = [l EXCEPT !.postage = k.postage] /\ l.postage.receipt = "valid"
        /\ k.postage.receipt = "valid" /\ l.postage.amount <= k.postage.amount)
         => Rank(Screen(l)) <= Rank(Screen(k))
=============================================================================
