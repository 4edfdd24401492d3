------------------------------ MODULE Letters ------------------------------
(***************************************************************************)
(* What becomes of a letter on its way: src/src/attachment.rs and the body *)
(* formats of client.rs turn it into plaintexts, src/src/crypto.rs seals   *)
(* each to the recipient, and the client opens them again.                 *)
(*                                                                         *)
(* A node id stands for its key pair.  The primitives are symbolic: a hash *)
(* is the tuple of what it is taken of, multiplying a secret by a point    *)
(* commutes, a cipher opens with its own key and nonce alone.  A string is *)
(* a sequence of bytes, the name of a file the sequence of its parts       *)
(* between the dots, and a serialised length takes one place.  A result    *)
(* that may be missing is a sequence of at most one element.               *)
(***************************************************************************)
EXTENDS Naturals, Sequences, SequencesExt

None == <<>>
Some(x) == <<x>>

Byte == 0..255

-----------------------------------------------------------------------------
(* crypto.rs *)

Secret(node) == <<"seed", node>>   \* the clamped hash of the identity's seed

Point(secret) == <<"point", secret>>

(* x25519_public_from_node_id: the Montgomery form of the node's key is    *)
(* the point of its derived secret.                                        *)
PublicFromNodeId(node) == Point(Secret(node))

Ecdh(secret, point) == {secret, point[2]}

Kdf(shared, epk) == <<"ce-mail-sealed-box-v1", shared, epk>>

SealTo(node, plaintext, eph, nonce) ==
  LET epk == Point(eph)
  IN  [epk |-> epk, nonce |-> nonce,
       ciphertext |-> [key |-> Kdf(Ecdh(eph, PublicFromNodeId(node)), epk), nonce |-> nonce,
                       plaintext |-> plaintext]]

(* open: a key or a nonce of another length is <<>>. *)
OpenSealed(node, sealed) ==
  IF /\ sealed.epk # <<>> /\ sealed.nonce # <<>>
     /\ sealed.ciphertext.key = Kdf(Ecdh(Secret(node), sealed.epk), sealed.epk)
     /\ sealed.ciphertext.nonce = sealed.nonce
  THEN Some(sealed.ciphertext.plaintext) ELSE None

(* What may become of a sealed blob before it is opened. *)
Damage == {"key cut", "nonce cut", "other key", "other nonce", "tampered"}

Damaged(sealed, damage) ==
  CASE damage = "key cut"     -> [sealed EXCEPT !.epk = <<>>]
    [] damage = "nonce cut"   -> [sealed EXCEPT !.nonce = <<>>]
    [] damage = "other key"   -> [sealed EXCEPT !.epk = Point(<<"other", "key">>)]
    [] damage = "other nonce" -> [sealed EXCEPT !.nonce = <<"other">>]
    [] damage = "tampered"    -> [sealed EXCEPT !.ciphertext.key = <<>>]

-----------------------------------------------------------------------------
(* Serialising: bincode writes the length of every field before it, and    *)
(* reads as many bytes as the length says; bytes left over are ignored.    *)

EncodeFields(fields) == FlattenSeq([i \in DOMAIN fields |-> <<Len(fields[i])>> \o fields[i]])

DecodeFields(bytes, count) ==
  LET start[i \in 1..(count + 1)] ==
        IF i = 1 THEN 1
        ELSE IF start[i - 1] \in DOMAIN bytes THEN start[i - 1] + 1 + bytes[start[i - 1]] ELSE 0
  IN  IF start[count + 1] \in 1..(Len(bytes) + 1)
      THEN Some([i \in 1..count |-> SubSeq(bytes, start[i] + 1, start[i + 1] - 1)])
      ELSE None

-----------------------------------------------------------------------------
(* attachment.rs *)

Attachment == [filename : Seq(STRING), content_type : STRING, bytes : Seq(Byte)]

ContentTypes ==
  [txt |-> "text/plain", log |-> "text/plain", md |-> "text/plain", html |-> "text/html",
   htm |-> "text/html", json |-> "application/json", pdf |-> "application/pdf",
   png |-> "image/png", jpg |-> "image/jpeg", jpeg |-> "image/jpeg", gif |-> "image/gif",
   zip |-> "application/zip", csv |-> "text/csv", wasm |-> "application/wasm"]

(* What follows the last dot, the whole name when there is none. *)
GuessContentType(filename, lowercase) ==
  LET ext == lowercase[Last(filename)]
  IN  IF ext \in DOMAIN ContentTypes THEN ContentTypes[ext] ELSE "application/octet-stream"

FromFile(filename, bytes, lowercase) ==
  [filename |-> filename, content_type |-> GuessContentType(filename, lowercase), bytes |-> bytes]

EncodeAttachment(a) == EncodeFields(<<a.filename, <<a.content_type>>, a.bytes>>)

DecodeAttachment(plaintext) ==
  LET fields == DecodeFields(plaintext, 3)
  IN  IF fields = None THEN None
      ELSE Some([filename |-> fields[1][1], content_type |-> fields[1][2][1],
                 bytes |-> fields[1][3]])

-----------------------------------------------------------------------------
(* The body formats of client.rs. *)

BodyContentMagic == 197

RedactedSubject == <<40, 101, 41>>   \* "(encrypted subject)", for short

EncodeContent(content) == <<BodyContentMagic>> \o EncodeFields(<<content.subject, content.body>>)

(* Mutant of TryDecode: the magic byte alone decides. *)
DecodeByMagicAlone(plaintext) ==
  IF plaintext = <<>> \/ Head(plaintext) # BodyContentMagic THEN None
  ELSE LET fields == DecodeFields(Tail(plaintext), 2)
       IN  IF fields = None THEN Some([subject |-> <<>>, body |-> Tail(plaintext)])
           ELSE Some([subject |-> fields[1][1], body |-> fields[1][2]])

(* What begins with the magic byte and does not decode is a raw body.  A   *)
(* subject must be text: here, bytes below 128.                            *)
TryDecode(plaintext) ==
  IF plaintext = <<>> \/ Head(plaintext) # BodyContentMagic THEN None
  ELSE LET fields == DecodeFields(Tail(plaintext), 2)
       IN  IF fields = None \/ \E i \in DOMAIN fields[1][1] : fields[1][1][i] > 127 THEN None
           ELSE Some([subject |-> fields[1][1], body |-> fields[1][2]])

(* A letter as send is given it; the subject is text. *)
Letter ==
  [subject : Seq(0..127), body : Seq(Byte), attachments : Seq(Attachment), seal_subject : BOOLEAN]

(* A bodiless letter whose subject is not sealed has no body blob. *)
HasBodyBlob(letter) == letter.seal_subject \/ letter.body # <<>>

BodyPlaintext(letter) ==
  IF letter.seal_subject THEN EncodeContent([subject |-> letter.subject, body |-> letter.body])
  ELSE letter.body

EnvelopeSubject(letter) == IF letter.seal_subject THEN RedactedSubject ELSE letter.subject

(* open_content: the body, and the subject if one was sealed. *)
SplitContent(plaintext) ==
  LET content == TryDecode(plaintext)
  IN  IF content = None THEN [body |-> plaintext, sealed_subject |-> None]
      ELSE [body |-> content[1].body, sealed_subject |-> Some(content[1].subject)]

NoContent == [body |-> <<>>, sealed_subject |-> None]

(* Message::subject *)
ShownSubject(letter, content) ==
  IF content.sealed_subject = None THEN EnvelopeSubject(letter) ELSE content.sealed_subject[1]
=============================================================================
