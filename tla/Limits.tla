------------------------------- MODULE Limits -------------------------------
(***************************************************************************)
(* The resource bounds of src/src/limits.rs: what an envelope may measure  *)
(* before a mailbox stores it, what a letter may measure before a client   *)
(* seals it, and how long a page may be.                                   *)
(*                                                                         *)
(* A string is its length in bytes.  The lengths of an envelope's strings  *)
(* are a record: the two addresses together, the other fields each.        *)
(***************************************************************************)
EXTENDS Naturals, Sequences

Limits ==
  [max_subject_bytes : Nat, max_cid_bytes : Nat, max_attachments : Nat,
   max_postage_bytes : Nat, max_envelope_bytes : Nat, max_page : Nat \ {0},
   max_attachment_bytes : Nat, max_body_bytes : Nat]

DefaultLimits ==
  [max_subject_bytes |-> 4096, max_cid_bytes |-> 256, max_attachments |-> 64,
   max_postage_bytes |-> 1024, max_envelope_bytes |-> 262144, max_page |-> 500,
   max_attachment_bytes |-> 41943040, max_body_bytes |-> 26214400]

EnvelopeSize ==
  [addresses : Nat, subject : Nat, body_cid : Nat, in_reply_to : Nat,
   postage_receipt : Nat, attachment_cids : Seq(Nat)]

(* encoded_len: bincode puts eight bytes before every string, list and     *)
(* signature, and writes a number in eight.                                *)
EncodedLen(size) ==
  LET cids[i \in 0..Len(size.attachment_cids)] ==
        IF i = 0 THEN 0 ELSE cids[i - 1] + 8 + size.attachment_cids[i]
  IN  72 + 8 + 7 * 8 + size.addresses + size.subject + size.body_cid + size.in_reply_to
        + size.postage_receipt + cids[Len(size.attachment_cids)]

FieldsWithin(limits, size) ==
  /\ size.subject <= limits.max_subject_bytes
  /\ size.body_cid <= limits.max_cid_bytes
  /\ size.in_reply_to <= limits.max_cid_bytes
  /\ size.postage_receipt <= limits.max_postage_bytes
  /\ Len(size.attachment_cids) <= limits.max_attachments
  /\ \A i \in DOMAIN size.attachment_cids : size.attachment_cids[i] <= limits.max_cid_bytes

(* Mutant of CheckEnvelope: the fields are trusted to bound the whole. *)
CheckFieldsOnly(limits, size) == FieldsWithin(limits, size)

(* check_envelope: the strings measured are not all there are (an address  *)
(* may be padded), so the whole is measured too.                           *)
CheckEnvelope(limits, size) ==
  FieldsWithin(limits, size) /\ EncodedLen(size) <= limits.max_envelope_bytes

(* What send checks of a letter before it seals anything. *)
CheckLetter(limits, body_len, attachment_lens) ==
  /\ body_len <= limits.max_body_bytes
  /\ Len(attachment_lens) <= limits.max_attachments
  /\ \A i \in DOMAIN attachment_lens : attachment_lens[i] <= limits.max_attachment_bytes

(* clamp_page: a page of nothing would never get on, a page of everything  *)
(* would be one answer without bound.                                      *)
Clamp(limits, limit) ==
  IF limit < 1 THEN 1 ELSE IF limit > limits.max_page THEN limits.max_page ELSE limit
=============================================================================
