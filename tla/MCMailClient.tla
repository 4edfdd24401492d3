---------------------------- MODULE MCMailClient ----------------------------
(* alice writes to bob.  m1 has blobs and may be receipted twice; m2 pays  *)
(* its postage and has no blobs, or is longer than her client allows.      *)
EXTENDS MailClient

CONSTANTS alice, bob, none, m1, m2

MCTo == m1 :> bob @@ m2 :> bob
MCPostage ==
  m1 :> [receipt |-> "none", amount |-> 0] @@ m2 :> [receipt |-> "valid", amount |-> 1]
MCReceipt ==
  {[message_id |-> m1, kind |-> k, by |-> bob, at |-> 1] : k \in {"Delivered", "Read"}}
    \cup {[message_id |-> m1, kind |-> "Read", by |-> none, at |-> 1]}

Lowercase == [part \in {"photo", "JPG", "notes"} |-> IF part = "JPG" THEN "jpg" ELSE part]
Photo == FromFile(<<"photo", "JPG">>, <<7, 197>>, Lowercase)
Notes == FromFile(<<"notes">>, <<>>, Lowercase)

LetterOf(subject, body, attachments, seal_subject) ==
  [subject |-> subject, body |-> body, attachments |-> attachments, seal_subject |-> seal_subject]

Ping == LetterOf(<<80>>, <<>>, <<>>, FALSE)
TooLong == LetterOf(<<80>>, <<66, 66, 66, 66, 66>>, <<>>, FALSE)

(* Two bytes that begin a text with a small l with stroke; and a body that *)
(* reads as an empty subject and a body of one byte.                       *)
Stroke == <<BodyContentMagic, 130>>
Ambiguous == <<BodyContentMagic, 0, 1, 66>>

(* The default policy; below, one under which m1 is spam and m2 is paid    *)
(* for, a strict one, one that knows alice and one with alice blocked.     *)
Default ==
  [allowlist |-> {}, blocklist |-> {}, min_postage |-> 0, strict |-> FALSE,
   waive_postage_for_established |-> TRUE]

MCCorrespondence ==
  {<<m1 :> LetterOf(<<72>>, <<66>>, <<Photo>>, TRUE) @@ m2 :> Ping,
     [Default EXCEPT !.min_postage = 1, !.waive_postage_for_established = FALSE]>>,
   <<m1 :> LetterOf(<<72>>, Stroke, <<Notes>>, FALSE) @@ m2 :> TooLong,
     [Default EXCEPT !.strict = TRUE, !.min_postage = 2]>>,
   <<m1 :> LetterOf(<<>>, Ambiguous, <<>>, FALSE) @@ m2 :> TooLong,
     [Default EXCEPT !.allowlist = {alice}]>>,
   <<m1 :> LetterOf(<<72>>, <<>>, <<>>, TRUE) @@ m2 :> TooLong,
     [Default EXCEPT !.blocklist = {alice}]>>}

MCClientLimits ==
  [DefaultLimits EXCEPT !.max_body_bytes = 4, !.max_attachments = 1, !.max_attachment_bytes = 2]
=============================================================================
