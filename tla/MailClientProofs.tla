--------------------------- MODULE MailClientProofs ---------------------------
(***************************************************************************)
(* Proofs about the client: what is serialised and sealed is read back,    *)
(* and is not once it is damaged; what send returned has arrived, what     *)
(* waits at the mailbox or is listed was sent and has its blobs, shows     *)
(* what its author wrote and has the place the policy gives it; and no     *)
(* receipt is lost, invented or taken for one of the recipient's, whatever *)
(* fails, is retried or comes late.                                        *)
(*                                                                         *)
(* A message is posted when its sending began and its blobs are stored.    *)
(* It is before it is delivered; so the invariant follows it from the      *)
(* sender, over the deliveries given up on, the queue and the envelopes    *)
(* drained, to the inbox.                                                  *)
(***************************************************************************)
EXTENDS MailClient, MailboxStoreProofs

-----------------------------------------------------------------------------
(* Serialising.                                                            *)

Fields(n, S) == [1..n -> Seq(S)]

(* What is serialised is read back, however many fields there are and      *)
(* whatever their bytes: the lengths say where each begins.                *)
LEMMA FieldsRoundTrip ==
  ASSUME NEW S, Nat \subseteq S, NEW n \in Nat, n >= 1, NEW fields \in Fields(n, S)
  PROVE  /\ EncodeFields(fields) \in Seq(S)
         /\ DecodeFields(EncodeFields(fields), n) = Some(fields)
<1> USE DEF Fields
<1> DEFINE parts == [i \in 1..n |-> <<Len(fields[i])>> \o fields[i]]
<1>1. ASSUME NEW i \in 1..n
      PROVE  /\ Len(fields[i]) \in Nat
             /\ parts[i] \in Seq(S) /\ Len(parts[i]) = 1 + Len(fields[i])
             /\ parts[i][1] = Len(fields[i])
             /\ \A j \in 1..Len(fields[i]) : parts[i][1 + j] = fields[i][j]
  <2> DEFINE field == fields[i]
             l == Len(field)
             part == parts[i]
  <2>1. field \in Seq(S) /\ l \in Nat /\ l \in S
    BY <1>1, LenProperties
  <2>2. part = <<l>> \o field
    OBVIOUS
  <2> HIDE DEF l, part, parts
  <2>3. <<l>> \in Seq(S) /\ Len(<<l>>) = 1 /\ <<l>>[1] = l
    BY <2>1
  <2> HIDE DEF field
  <2>4. /\ part \in Seq(S) /\ Len(part) = 1 + l
        /\ \A j \in 1..(1 + l) : part[j] = IF j <= 1 THEN <<l>>[j] ELSE field[j - 1]
    BY <2>1, <2>2, <2>3, ConcatProperties DEF l
  <2>5. ASSUME NEW j \in 1..l PROVE part[1 + j] = field[j]
    <3>1. 1 + j \in 1..(1 + l) /\ ~(1 + j <= 1) /\ (1 + j) - 1 = j
      BY <2>1
    <3> QED
      BY <2>4, <3>1
  <2>6. part[1] = l
    BY <2>1, <2>3, <2>4
  <2> QED
    BY <2>1, <2>4, <2>5, <2>6 DEF part, field, l
<1>2. PICK flat \in [0..n -> Seq(S)] :
         /\ flat[0] = <<>>
         /\ \A i \in 1..n : flat[i] = flat[i - 1] \o parts[i]
         /\ FlattenSeq(parts) = flat[n]
  <2>1. parts \in [1..n -> Seq(S)]
    BY <1>1
  <2> HIDE DEF parts
  <2> QED
    BY <2>1, Flattening
<1> DEFINE bytes == flat[n]
           \* how far the first i fields reach
           end == [i \in 0..n |-> Len(flat[i])]
<1>3. EncodeFields(fields) = bytes
  <2>1. DOMAIN fields = 1..n
    OBVIOUS
  <2> QED
    BY <1>2, <2>1 DEF EncodeFields
<1>4. /\ \A i \in 0..n : flat[i] \in Seq(S) /\ end[i] = Len(flat[i]) /\ end[i] \in Nat
      /\ end[0] = 0
      /\ n \in 0..n /\ n \in 1..n /\ 1 \in 1..n
      /\ \A i \in 1..n : i \in 0..n /\ i - 1 \in 0..n
  <2>1. \A i \in 0..n : flat[i] \in Seq(S) /\ end[i] = Len(flat[i])
    OBVIOUS
  <2>2. 0 \in 0..n /\ end[0] = Len(<<>>)
    BY <1>2
  <2> HIDE DEF end
  <2>3. \A i \in 0..n : end[i] \in Nat
    BY <2>1, LenProperties
  <2> QED
    BY <2>1, <2>2, <2>3
<1> HIDE DEF parts, end
<1>5. ASSUME NEW i \in 1..n
      PROVE  /\ end[i] = end[i - 1] + 1 + Len(fields[i])
             /\ \A j \in 1..(1 + Len(fields[i])) : flat[i][end[i - 1] + j] = parts[i][j]
             /\ \A j \in 1..end[i - 1] : flat[i][j] = flat[i - 1][j]
  <2> DEFINE s == flat[i - 1]
             t == flat[i]
             part == parts[i]
  <2>1. /\ t = s \o part /\ s \in Seq(S) /\ part \in Seq(S)
        /\ end[i] = Len(t) /\ end[i - 1] = Len(s) /\ Len(s) \in Nat
        /\ Len(part) = 1 + Len(fields[i]) /\ Len(fields[i]) \in Nat
    BY <1>1, <1>2, <1>4
  <2> HIDE DEF s, t, part
  <2>2. /\ Len(t) = Len(s) + Len(part)
        /\ \A j \in 1..(Len(s) + Len(part)) : t[j] = IF j <= Len(s) THEN s[j] ELSE part[j - Len(s)]
    <3>0. s \in Seq(S) /\ part \in Seq(S)
      BY <2>1
    <3>1. /\ Len(s \o part) = Len(s) + Len(part)
          /\ \A j \in 1..(Len(s) + Len(part)) :
               (s \o part)[j] = IF j <= Len(s) THEN s[j] ELSE part[j - Len(s)]
      BY <3>0, ConcatProperties
    <3> QED
      BY <2>1, <3>1
  <2>3. ASSUME NEW j \in 1..Len(part) PROVE t[Len(s) + j] = part[j]
    <3>1. /\ Len(s) + j \in 1..(Len(s) + Len(part)) /\ ~(Len(s) + j <= Len(s))
          /\ (Len(s) + j) - Len(s) = j
      <4>1. Len(s) \in Nat /\ Len(part) \in Nat
        BY <2>1
      <4> QED
        BY <4>1
    <3> QED
      BY <2>2, <3>1
  <2>4. \A j \in 1..Len(s) : t[j] = s[j]
    BY <2>1, <2>2
  <2>5. Len(t) = Len(s) + 1 + Len(fields[i])
    BY <2>1, <2>2
  <2> QED
    BY <2>1, <2>3, <2>4, <2>5 DEF s, t, part
\* What one field wrote, the later ones leave as it is.
<1>6. ASSUME NEW i \in 1..n
      PROVE  end[i] <= end[n] /\ \A j \in 1..end[i] : bytes[j] = flat[i][j]
  <2> DEFINE Written(k) == end[k] <= end[n] /\ \A j \in 1..end[k] : bytes[j] = flat[k][j]
             T == {k \in 0..(n - 1) : Written(n - k)}
  <2>1. 0 \in T
    <3>1. 0 \in 0..(n - 1) /\ n - 0 = n /\ end[n] \in Nat
      BY <1>4
    <3> QED
      BY <3>1
  <2>2. ASSUME NEW k \in 0..((n - 1) - 1), k \in T PROVE k + 1 \in T
    <3> DEFINE m == n - k
               d == m - 1
    <3>1. m \in 1..n /\ n - (k + 1) = d /\ d \in 0..n /\ m \in 0..n /\ k + 1 \in 0..(n - 1)
      OBVIOUS
    <3>2. Written(m)
      BY <2>2
    <3>3. /\ end[m] = end[d] + 1 + Len(fields[m]) /\ Len(fields[m]) \in Nat
          /\ \A j \in 1..end[d] : flat[m][j] = flat[d][j]
          /\ end[d] \in Nat /\ end[m] \in Nat /\ end[n] \in Nat
      BY <1>1, <1>4, <1>5, <3>1
    <3> HIDE DEF m, d, bytes
    <3>4. end[d] <= end[m]
      BY <3>3
    <3>5. Written(d)
      BY <3>2, <3>3, <3>4
    <3> QED
      BY <3>1, <3>5
  <2>3. 0..(n - 1) \subseteq T
    <3>1. n - 1 \in Nat
      OBVIOUS
    <3> HIDE DEF T
    <3> QED
      BY <2>1, <2>2, <3>1, CountingUp
  <2>4. n - i \in 0..(n - 1) /\ n - (n - i) = i
    OBVIOUS
  <2> QED
    BY <2>3, <2>4
<1>7. ASSUME NEW i \in 1..n
      PROVE  LET e == end[i - 1]
                 l == Len(fields[i])
             IN  /\ e \in Nat /\ l \in Nat /\ end[n] \in Nat
                 /\ end[i] = e + 1 + l /\ end[i] <= end[n]
                 /\ bytes[e + 1] = l
                 /\ \A j \in 1..l : bytes[e + 1 + j] = fields[i][j]
  <2> DEFINE e == end[i - 1]
             l == Len(fields[i])
             part == parts[i]
             field == fields[i]
  <2>1. /\ e \in Nat /\ l \in Nat /\ end[n] \in Nat /\ end[i] = e + 1 + l /\ end[i] <= end[n]
        /\ \A j \in 1..(1 + l) : flat[i][e + j] = part[j]
        /\ part[1] = l /\ \A j \in 1..l : part[1 + j] = field[j]
    BY <1>1, <1>4, <1>5, <1>6
  <2>2. \A j \in 1..end[i] : bytes[j] = flat[i][j]
    BY <1>6
  <2> HIDE DEF e, l, part, bytes, field
  <2>3. ASSUME NEW j \in 1..(1 + l) PROVE bytes[e + j] = part[j]
    <3>1. e + j \in 1..end[i]
      BY <2>1
    <3> QED
      BY <2>1, <2>2, <3>1
  <2>4. bytes[e + 1] = l
    BY <2>1, <2>3
  <2>5. ASSUME NEW j \in 1..l PROVE bytes[e + 1 + j] = field[j]
    <3>1. 1 + j \in 1..(1 + l) /\ e + (1 + j) = e + 1 + j
      BY <2>1
    <3> QED
      BY <2>1, <2>3, <3>1
  <2> QED
    BY <2>1, <2>4, <2>5 DEF e, l, field
<1>8. bytes \in Seq(S) /\ DOMAIN bytes = 1..end[n] /\ Len(bytes) = end[n] /\ end[n] \in Nat
  BY <1>4, LenProperties
<1> HIDE DEF bytes
<1> DEFINE Reads(h) == h = [i \in 1..(n + 1) |->
                              IF i = 1 THEN 1
                              ELSE IF h[i - 1] \in DOMAIN bytes THEN h[i - 1] + 1 + bytes[h[i - 1]] ELSE 0]
           start == [i \in 1..(n + 1) |-> end[i - 1] + 1]
<1>9. ASSUME NEW i \in 1..n
      PROVE  /\ end[i - 1] + 1 \in DOMAIN bytes
             /\ (end[i - 1] + 1) + 1 + bytes[end[i - 1] + 1] = end[i] + 1
  <2> DEFINE e == end[i - 1]
             l == Len(fields[i])
  <2>1. /\ e \in Nat /\ l \in Nat /\ end[i] = e + 1 + l /\ end[i] <= end[n] /\ bytes[e + 1] = l
    BY <1>7
  <2> HIDE DEF e, l
  <2>2. e + 1 \in 1..end[n] /\ (e + 1) + 1 + l = end[i] + 1
    BY <1>8, <2>1
  <2> QED
    BY <1>8, <2>1, <2>2 DEF e
<1>10. Reads(start)
  <2>1. ASSUME NEW i \in 1..(n + 1), i # 1
        PROVE  start[i] = IF start[i - 1] \in DOMAIN bytes
                          THEN start[i - 1] + 1 + bytes[start[i - 1]] ELSE 0
    <3> DEFINE d == i - 1
    <3>1. d \in 1..n /\ d \in 1..(n + 1)
      BY <2>1
    <3>2. start[i] = end[d] + 1 /\ start[d] = end[d - 1] + 1
      BY <3>1
    <3> HIDE DEF start, d
    <3>3. start[i] = IF start[d] \in DOMAIN bytes THEN start[d] + 1 + bytes[start[d]] ELSE 0
      BY <1>9, <3>1, <3>2
    <3> QED
      BY <3>3 DEF d
  <2>2. start[1] = 1
    <3>1. 1 \in 1..(n + 1) /\ 1 - 1 = 0
      OBVIOUS
    <3> QED
      BY <1>4, <3>1
  <2>3. start = [i \in 1..(n + 1) |-> start[i]]
    OBVIOUS
  <2> HIDE DEF start
  <2> QED
    BY <2>1, <2>2, <2>3
<1>11. ASSUME NEW h, Reads(h) PROVE \A i \in 1..(n + 1) : h[i] = end[i - 1] + 1
  <2> DEFINE T == {k \in 0..n : h[k + 1] = end[k] + 1}
  <2>1. \A i \in 1..(n + 1) : h[i] = IF i = 1 THEN 1
                 ELSE IF h[i - 1] \in DOMAIN bytes THEN h[i - 1] + 1 + bytes[h[i - 1]] ELSE 0
    BY <1>11
  <2> HIDE DEF Reads
  <2>2. 0 \in T
    <3>1. 0 \in 0..n /\ 0 + 1 = 1 /\ 1 \in 1..(n + 1)
      OBVIOUS
    <3> QED
      BY <1>4, <2>1, <3>1
  <2>3. ASSUME NEW k \in 0..(n - 1), k \in T PROVE k + 1 \in T
    <3> DEFINE u == k + 1
    <3>1. u \in 1..n /\ u - 1 = k /\ u \in 0..n /\ u + 1 \in 1..(n + 1) /\ u + 1 # 1 /\ (u + 1) - 1 = u
      OBVIOUS
    <3>2. h[u] = end[k] + 1
      BY <2>3
    <3> HIDE DEF u
    <3>3. h[u + 1] = IF h[u] \in DOMAIN bytes THEN h[u] + 1 + bytes[h[u]] ELSE 0
      BY <2>1, <3>1
    <3>4. end[k] + 1 \in DOMAIN bytes /\ (end[k] + 1) + 1 + bytes[end[k] + 1] = end[u] + 1
      BY <1>9, <3>1
    <3>5. h[u + 1] = end[u] + 1
      BY <3>2, <3>3, <3>4
    <3> QED
      BY <3>1, <3>5 DEF u
  <2>4. 0..n \subseteq T
    <3> HIDE DEF T
    <3> QED
      BY <2>2, <2>3, CountingUp
  <2>5. \A i \in 1..(n + 1) : i - 1 \in 0..n /\ (i - 1) + 1 = i
    OBVIOUS
  <2> QED
    BY <2>4, <2>5
<1> DEFINE h == CHOOSE g : Reads(g)
<1>12. \A i \in 1..(n + 1) : h[i] = end[i - 1] + 1
  <2>1. Reads(h)
    <3> HIDE DEF Reads, start
    <3> QED
      BY <1>10
  <2> HIDE DEF h, Reads
  <2> QED
    BY <1>11, <2>1
<1>13. DecodeFields(bytes, n)
         = IF h[n + 1] \in 1..(Len(bytes) + 1)
           THEN Some([i \in 1..n |-> SubSeq(bytes, h[i] + 1, h[i + 1] - 1)])
           ELSE None
  BY DEF DecodeFields
<1> HIDE DEF h
<1>14. h[n + 1] \in 1..(Len(bytes) + 1)
  <2>1. n + 1 \in 1..(n + 1) /\ (n + 1) - 1 = n
    OBVIOUS
  <2>2. h[n + 1] = end[n] + 1
    BY <1>12, <2>1
  <2> QED
    BY <1>8, <2>2
<1>15. ASSUME NEW i \in 1..n PROVE SubSeq(bytes, h[i] + 1, h[i + 1] - 1) = fields[i]
  <2> DEFINE e == end[i - 1]
             field == fields[i]
             l == Len(field)
             from == h[i] + 1
             to == h[i + 1] - 1
             sub == SubSeq(bytes, from, to)
  <2>1. /\ i \in 1..(n + 1) /\ i + 1 \in 1..(n + 1) /\ (i + 1) - 1 = i
    OBVIOUS
  <2>2. h[i] = e + 1 /\ h[i + 1] = end[i] + 1
    BY <1>12, <2>1
  <2>3. /\ e \in Nat /\ l \in Nat /\ end[i] = e + 1 + l /\ end[i] <= end[n]
        /\ \A j \in 1..l : bytes[e + 1 + j] = field[j]
    BY <1>7
  <2>4. field \in Seq(S)
    OBVIOUS
  <2> HIDE DEF e, l, field
  <2>5. from = e + 2 /\ to = e + 1 + l
    BY <2>2, <2>3
  <2> HIDE DEF from, to
  <2>6. /\ from \in Int /\ to \in Int /\ to - from + 1 = l /\ from >= 1 /\ to <= end[n]
        /\ (from <= to) = (l # 0)
    BY <2>3, <2>5
  <2>7. \A k \in from..to : bytes[k] \in S
    <3>1. \A k \in from..to : k \in 1..Len(bytes)
      BY <1>8, <2>6
    <3> QED
      BY <1>8, <3>1, ElementOfSeq
  <2>8. ASSUME NEW j \in 1..l PROVE bytes[from + j - 1] = field[j]
    <3>1. from + j - 1 = e + 1 + j
      BY <2>3, <2>5
    <3> QED
      BY <2>3, <3>1
  <2>9. /\ sub \in Seq(S)
        /\ Len(sub) = IF from <= to THEN to - from + 1 ELSE 0
        /\ \A j \in 1..(to - from + 1) : sub[j] = bytes[from + j - 1]
    BY <2>6, <2>7, SubSeqProperties
  <2> HIDE DEF sub
  <2>10. Len(sub) = l /\ \A j \in 1..l : sub[j] = field[j]
    BY <2>3, <2>6, <2>8, <2>9
  <2>11. sub = field
    BY <2>4, <2>9, <2>10, SeqEqual DEF l
  <2> QED
    BY <2>11 DEF sub, from, to, field
<1>16. [i \in 1..n |-> SubSeq(bytes, h[i] + 1, h[i + 1] - 1)] = fields
  BY <1>15
<1> QED
  BY <1>3, <1>8, <1>13, <1>14, <1>16
LEMMA TupleFields ==
  ASSUME NEW S, NEW x \in Seq(S), NEW y \in Seq(S), NEW z \in Seq(S)
  PROVE  <<x, y>> \in Fields(2, S) /\ <<x, y, z>> \in Fields(3, S)
  BY DEF Fields

LEMMA AttachmentRoundTrip ==
  ASSUME NEW a \in Attachment
  PROVE  DecodeAttachment(EncodeAttachment(a)) = Some(a)
<1> DEFINE S == Nat \cup STRING
           fields == <<a.filename, <<a.content_type>>, a.bytes>>
<1>1. a.filename \in Seq(S) /\ a.bytes \in Seq(S) /\ <<a.content_type>> \in Seq(S)
  <2>1. a.filename \in Seq(STRING) /\ a.bytes \in Seq(Byte) /\ a.content_type \in STRING
    BY DEF Attachment
  <2>2. STRING \subseteq S /\ Byte \subseteq S
    <3>1. Byte \subseteq Nat
      BY DEF Byte
    <3> QED
      BY <3>1, Zenon
  <2> HIDE DEF S
  <2>3. a.content_type \in S
    BY <2>1, <2>2
  <2>4. <<a.content_type>> \in Seq(S)
    BY <2>3
  <2>5. a.filename \in Seq(S) /\ a.bytes \in Seq(S)
    BY <2>1, <2>2, SeqMonotonic
  <2> QED
    BY <2>4, <2>5
<1>2. Nat \subseteq S
  OBVIOUS
<1> HIDE DEF S
<1>3. fields \in Fields(3, S)
  BY <1>1, TupleFields
<1>4. DecodeFields(EncodeAttachment(a), 3) = Some(fields)
  <2> HIDE DEF fields
  <2>1. DecodeFields(EncodeFields(fields), 3) = Some(fields)
    BY <1>2, <1>3, 3 \in Nat, 3 >= 1, FieldsRoundTrip
  <2> QED
    BY <2>1 DEF fields, EncodeAttachment
<1>5. /\ Some(fields) # None
      /\ Some(fields)[1][1] = a.filename /\ Some(fields)[1][2][1] = a.content_type
      /\ Some(fields)[1][3] = a.bytes
  BY DEF Some, None
<1>6. a = [filename |-> a.filename, content_type |-> a.content_type, bytes |-> a.bytes]
  BY DEF Attachment
<1> HIDE DEF fields
<1> QED
  BY <1>4, <1>5, <1>6 DEF DecodeAttachment

LEMMA ContentRoundTrip ==
  ASSUME NEW letter \in Letter, letter.seal_subject
  PROVE  SplitContent(BodyPlaintext(letter))
           = [body |-> letter.body, sealed_subject |-> Some(letter.subject)]
<1> DEFINE fields == <<letter.subject, letter.body>>
           encoded == EncodeFields(fields)
           plaintext == BodyPlaintext(letter)
<1>1. /\ letter.subject \in Seq(Nat) /\ letter.body \in Seq(Nat)
      /\ \A i \in DOMAIN letter.subject : ~(letter.subject[i] > 127)
  <2>1. letter.subject \in Seq(0..127) /\ letter.body \in Seq(Byte)
    BY DEF Letter
  <2>2. 0..127 \subseteq Nat /\ Byte \subseteq Nat
    BY DEF Byte
  <2>3. letter.subject \in Seq(Nat) /\ letter.body \in Seq(Nat)
    BY <2>1, <2>2, SeqMonotonic
  <2>4. \A i \in DOMAIN letter.subject : letter.subject[i] \in 0..127
    BY <2>1, LenProperties, ElementOfSeq
  <2>5. \A k \in 0..127 : ~(k > 127)
    OBVIOUS
  <2> QED
    BY <2>3, <2>4, <2>5
<1>2. fields \in Fields(2, Nat) /\ fields[1] = letter.subject /\ fields[2] = letter.body
  BY <1>1, TupleFields
<1>3. plaintext = <<BodyContentMagic>> \o encoded
  BY DEF BodyPlaintext, EncodeContent
<1> HIDE DEF fields
<1>4. encoded \in Seq(Nat) /\ DecodeFields(encoded, 2) = Some(fields)
  BY <1>2, Nat \subseteq Nat, 2 \in Nat, 2 >= 1, FieldsRoundTrip
<1> HIDE DEF encoded, plaintext
<1>5. plaintext # <<>> /\ Head(plaintext) = BodyContentMagic /\ Tail(plaintext) = encoded
  <2>1. BodyContentMagic \in Nat
    BY DEF BodyContentMagic
  <2> QED
    BY <1>3, <1>4, <2>1
<1>6. Some(fields) # None /\ Some(fields)[1] = fields
  BY DEF Some, None
<1>7. TryDecode(plaintext) = Some([subject |-> letter.subject, body |-> letter.body])
  BY <1>1, <1>2, <1>4, <1>5, <1>6 DEF TryDecode
<1>8. \A x : Some(x) # None /\ Some(x)[1] = x
  BY DEF Some, None
<1> QED
  BY <1>7, <1>8 DEF SplitContent, plaintext

(* A body that is not in the structured form, or only looks like it, is    *)
(* shown as it is.                                                         *)
LEMMA RawBody ==
  ASSUME NEW letter, ~letter.seal_subject
  PROVE  LET content == SplitContent(BodyPlaintext(letter))
         IN  \/ content = [body |-> letter.body, sealed_subject |-> None]
             \/ /\ letter.body # <<>> /\ letter.body[1] = BodyContentMagic
                /\ DecodeFields(Tail(letter.body), 2) # None
<1>1. BodyPlaintext(letter) = letter.body
  BY DEF BodyPlaintext
<1>2. Head(letter.body) = letter.body[1]
  OBVIOUS
<1>3. CASE TryDecode(letter.body) = None
  BY <1>1, <1>3 DEF SplitContent
<1>4. CASE TryDecode(letter.body) # None
  BY <1>2, <1>4 DEF TryDecode
<1> QED
  BY <1>3, <1>4

-----------------------------------------------------------------------------
(* Sealing.                                                                *)

(* A sealed blob opens for whom it was sealed to, and, once damaged, for   *)
(* nobody.                                                                 *)
LEMMA SealedOpens ==
  ASSUME NEW node, NEW plaintext, NEW eph, NEW x
  PROVE  OpenSealed(node, SealTo(node, plaintext, eph, <<"nonce", x>>)) = Some(plaintext)
<1> DEFINE sealed == SealTo(node, plaintext, eph, <<"nonce", x>>)
<1>1. /\ sealed.epk = Point(eph) /\ sealed.nonce = <<"nonce", x>>
      /\ sealed.ciphertext.key = Kdf(Ecdh(eph, PublicFromNodeId(node)), Point(eph))
      /\ sealed.ciphertext.nonce = <<"nonce", x>> /\ sealed.ciphertext.plaintext = plaintext
  BY DEF SealTo
<1>2. Point(eph) # <<>> /\ <<"nonce", x>> # <<>>
  BY DEF Point
<1>3. Ecdh(eph, PublicFromNodeId(node)) = Ecdh(Secret(node), Point(eph))
  BY DEF Ecdh, PublicFromNodeId, Point
<1> HIDE DEF sealed
<1> QED
  BY <1>1, <1>2, <1>3 DEF OpenSealed, sealed

LEMMA DamagedNeverOpens ==
  ASSUME NEW node, NEW plaintext, NEW blob, NEW damage \in Damage
  PROVE  OpenSealed(node, Damaged(SealTo(node, plaintext, <<"ephemeral", blob>>, <<"nonce", blob>>), damage))
           = None
<1> DEFINE eph == <<"ephemeral", blob>>
           nonce == <<"nonce", blob>>
           key == Kdf(Ecdh(eph, PublicFromNodeId(node)), Point(eph))
           sealed == SealTo(node, plaintext, eph, nonce)
           damaged == Damaged(sealed, damage)
           Unopened == \/ damaged.epk = <<>> \/ damaged.nonce = <<>>
                       \/ damaged.ciphertext.key # Kdf(Ecdh(Secret(node), damaged.epk), damaged.epk)
                       \/ damaged.ciphertext.nonce # damaged.nonce
<1>1. sealed = [epk |-> Point(eph), nonce |-> nonce,
                ciphertext |-> [key |-> key, nonce |-> nonce, plaintext |-> plaintext]]
  BY DEF SealTo
<1>2. \A a, b, c, d : Kdf(a, b) = Kdf(c, d) => b = d
  BY DEF Kdf
<1>3. \A a, b : Point(a) = Point(b) => a = b
  BY DEF Point
<1>4. eph # <<"other", "key">> /\ nonce # <<"other">>
  OBVIOUS
<1>5. \A a, b : Kdf(a, b) # <<>>
  BY DEF Kdf
<1> HIDE DEF eph, nonce, key, sealed
<1>6. Unopened
  <2> SUFFICES ASSUME ~Unopened PROVE FALSE
    OBVIOUS
  <2>1. CASE damage \in {"key cut", "nonce cut"}
    BY <1>1, <2>1 DEF Damaged
  <2>2. CASE damage = "other key"
    <3>1. damaged.epk = Point(<<"other", "key">>) /\ damaged.ciphertext.key = key
      BY <1>1, <2>2 DEF Damaged
    <3>2. key # Kdf(Ecdh(Secret(node), damaged.epk), damaged.epk)
      BY <1>2, <1>3, <1>4, <3>1 DEF key
    <3> QED
      BY <3>1, <3>2
  <2>3. CASE damage = "other nonce"
    <3>1. damaged.nonce = <<"other">> /\ damaged.ciphertext.nonce = nonce
      BY <1>1, <2>3 DEF Damaged
    <3> QED
      BY <1>4, <3>1
  <2>4. CASE damage = "tampered"
    <3>1. damaged.ciphertext.key = <<>>
      BY <1>1, <2>4 DEF Damaged
    <3> QED
      BY <1>5, <3>1
  <2> QED
    BY <2>1, <2>2, <2>3, <2>4 DEF Damage
<1> HIDE DEF damaged
<1>7. OpenSealed(node, damaged) = None
  BY <1>6 DEF OpenSealed
<1> QED
  BY <1>7 DEF damaged, sealed, eph, nonce
-----------------------------------------------------------------------------
(* Loops over a list.                                                      *)

(* What is left of a list was in it, at one of the places.                 *)
LEMMA SiftedElements ==
  ASSUME NEW S, NEW s \in Seq(S), NEW places
  PROVE  LET t == Sifted(s, places)
         IN  /\ t \in Seq(S)
             /\ \A j \in DOMAIN t : \E i \in 1..Len(s) \cap places : t[j] = s[i]
<1> DEFINE n == Len(s)
           Taken == {s[i] : i \in 1..n \cap places}
           step == [p \in (1..n) \X Seq(Taken) |->
                      IF p[1] \in places THEN Append(p[2], s[p[1]]) ELSE p[2]]
<1>1. n \in Nat
  BY LenProperties
<1>2. <<>> \in Seq(Taken)
  BY EmptySeq
<1>3. step \in Steps(n, Seq(Taken))
  <2>1. ASSUME NEW i \in 1..n, NEW t \in Seq(Taken), i \in places
        PROVE  Append(t, s[i]) \in Seq(Taken)
    <3>1. s[i] \in Taken
      BY <2>1
    <3> HIDE DEF Taken
    <3> QED
      BY <3>1, AppendProperties
  <2> HIDE DEF Taken
  <2> QED
    BY <2>1 DEF Steps
<1>4. PICK f : Follows(f, n, Seq(Taken), <<>>, step)
  <2> HIDE DEF n, step, Taken
  <2> QED
    BY <1>1, <1>2, <1>3, RecursionExists
<1>5. ASSUME NEW g,
             g = [i \in 0..n |-> IF i = 0 THEN <<>>
                                 ELSE IF i \in places THEN Append(g[i - 1], s[i]) ELSE g[i - 1]]
      PROVE  g[n] \in Seq(Taken)
  <2> DEFINE T == {i \in 0..n : g[i] \in Seq(Taken)}
  <2>1. 0 \in T
    BY <1>1, <1>2, <1>5
  <2>2. ASSUME NEW i \in 0..(n - 1), i \in T PROVE i + 1 \in T
    <3>1. i + 1 \in 1..n /\ i + 1 \in 0..n /\ i + 1 # 0 /\ (i + 1) - 1 = i
      BY <1>1
    <3>2. g[i + 1] = IF i + 1 \in places THEN Append(g[i], s[i + 1]) ELSE g[i]
      BY <1>5, <3>1
    <3>3. i + 1 \in places => s[i + 1] \in Taken
      BY <3>1
    <3>4. g[i] \in Seq(Taken)
      BY <2>2
    <3> HIDE DEF Taken
    <3>5. g[i + 1] \in Seq(Taken)
      BY <3>2, <3>3, <3>4, AppendProperties
    <3> QED
      BY <3>1, <3>5
  <2>3. 0..n \subseteq T
    <3> HIDE DEF T, n
    <3> QED
      BY <1>1, <2>1, <2>2, CountingUp
  <2> QED
    BY <1>1, <2>3
<1>6. f = [i \in 0..n |-> IF i = 0 THEN <<>> ELSE IF i \in places THEN Append(f[i - 1], s[i]) ELSE f[i - 1]]
  <2>1. ASSUME NEW i \in 0..n, i # 0
        PROVE  f[i] = IF i \in places THEN Append(f[i - 1], s[i]) ELSE f[i - 1]
    <3>1. i \in 1..n /\ f[i - 1] \in Seq(Taken)
      BY <1>1, <1>4, <2>1 DEF Follows
    <3> HIDE DEF Taken, n
    <3> QED
      BY <1>4, <3>1 DEF Follows
  <2>2. f \in [0..n -> Seq(Taken)] /\ f[0] = <<>>
    BY <1>4 DEF Follows
  <2> HIDE DEF Taken, n
  <2> QED
    BY <2>1, <2>2
<1>7. Sifted(s, places) \in Seq(Taken)
  <2> HIDE DEF Taken
  <2> QED
  BY <1>5, <1>6 DEF Sifted
<1>8. \A i \in 1..Len(s) : s[i] \in S
  BY ElementOfSeq
<1>9. Taken \subseteq S
  BY <1>8
<1> HIDE DEF Taken
<1>10. Sifted(s, places) \in Seq(S)
  BY <1>7, <1>9, SeqMonotonic
<1>11. \A j \in DOMAIN Sifted(s, places) : Sifted(s, places)[j] \in Taken
  BY <1>7, LenProperties, ElementOfSeq
<1> QED
  BY <1>10, <1>11 DEF Taken
-----------------------------------------------------------------------------
(* The invariant.                                                          *)

(* The blobs of a message are a list. *)
WellFormed == \A m \in MessageId : Len(BlobsOf(m)) \in Nat /\ DOMAIN BlobsOf(m) = 1..Len(BlobsOf(m))

Posted(m) == m \in attempted /\ \A i \in DOMAIN BlobsOf(m) : BlobsOf(m)[i] \in blobs

SendInv ==
  /\ stored \in Nat
  /\ send_pc \in {"idle", "storing", "delivering"}
  /\ send_pc # "idle" => /\ \E m \in MessageId : sending = <<m>>
                         /\ sending[1] \in attempted
                         /\ \A i \in DOMAIN BlobsOf(sending[1]) :
                              i <= stored => BlobsOf(sending[1])[i] \in blobs
  /\ send_pc = "delivering" => Posted(sending[1])
  /\ late \subseteq MessageId /\ \A m \in late : Posted(m)

(* What waits at the mailbox can be opened, whatever call failed before. *)
HeldMailIsPosted == \A i \in DOMAIN queues[Recipient] : Posted(queues[Recipient][i])

(* The receipts that await the author are the recipient's. *)
ReceiptsAreIssued ==
  \A i \in DOMAIN receipts[Author] :
    receipts[Author][i].by = Recipient /\ receipts[Author][i].message_id \in accepted

DeliveryInv == SendInv /\ HeldMailIsPosted

(* So it is with what a restart brings back. *)
FileInv ==
  /\ store_file \in [format : {"v2"}, queues : [Address -> Seq(MessageId)], capacity : Nat,
                     receipts : [Address -> Seq(Receipt)]]
  /\ SavedStore(store_file)
  /\ \A i \in DOMAIN store_file.queues[Recipient] : Posted(store_file.queues[Recipient][i])
  /\ \A i \in DOMAIN store_file.receipts[Author] :
       /\ store_file.receipts[Author][i].by = Recipient
       /\ store_file.receipts[Author][i].message_id \in accepted
  /\ saved_outstanding \subseteq ReceiptKey
  /\ saved_outstanding \subseteq Keys(store_file.receipts[Author])

ReceiptInv == ReceiptsAreIssued /\ CollectedWereIssued /\ ConfirmedReceiptsAwaitTheAuthor

-----------------------------------------------------------------------------
(* The client uses the store by its operations only. *)

LEMMA ClientStoreStep ==
  ASSUME SendInv, [ClientNext]_clientVars
  PROVE  [StoreNext]_storeVars \/ RestartMailbox
<1>1. ASSUME NEW m \in MessageId, Arrive(m) PROVE [StoreNext]_storeVars
  BY <1>1 DEF Arrive, StoreNext
<1>2. CASE Send
  <2>1. CASE Delivered \/ DeliveryFails
    <3>1. PICK m \in MessageId : sending = <<m>>
      BY <2>1 DEF Delivered, DeliveryFails, SendInv
    <3>2. Arrive(m) \/ UNCHANGED storeVars
      BY <2>1, <3>1 DEF Delivered, DeliveryFails
    <3> QED
      BY <1>1, <3>2
  <2> QED
    BY <1>2, <2>1 DEF Send, BeginSend, PutBlob, PutBlobFails, Seal, mailboxVars
<1>3. CASE LateDelivery
  BY <1>1, <1>3 DEF LateDelivery, SendInv
<1>4. CASE AckInbox
  <2>1. 1..MaxCursor \subseteq 0..MaxCursor
    BY StoreAssumption
  <2> QED
    BY <1>4, <2>1, ClientAssumption DEF AckInbox, StoreNext
<1>5. CASE \E r \in Receipt : SendReceipt(r)
  BY <1>5, ClientAssumption DEF SendReceipt, StoreNext
<1>6. CASE Collect
  BY <1>6, ClientAssumption DEF Collect, StoreNext
<1>7. CASE UNCHANGED storeVars
  BY <1>7
<1> QED
  BY <1>2, <1>3, <1>4, <1>5, <1>6, <1>7
  DEF ClientNext, Drain, Open, Screen, Establish, SaveStore, clientVars, mailboxVars

(* Or it restarts, from a file it saved. *)
LEMMA ClientStoreInv ==
  ASSUME IInv, SendInv, FileInv, [ClientNext]_clientVars
  PROVE  IInv'
<1>1. CASE [StoreNext]_storeVars
  BY <1>1, StepInv
<1>2. CASE RestartMailbox
  BY <1>2, LoadInv DEF RestartMailbox, FileInv
<1> QED
  BY <1>1, <1>2, ClientStoreStep

-----------------------------------------------------------------------------
(* Blobs.                                                                  *)

LEMMA PostedKept ==
  ASSUME NEW m, Posted(m), letters' = letters, blobs \subseteq blobs', attempted \subseteq attempted'
  PROVE  Posted(m)'
  BY DEF Posted, BlobsOf, BodyCid

(* What is stored in a queue by a delivery is that message.                *)
LEMMA ArriveKeepsPosted ==
  ASSUME IInv, HeldMailIsPosted, NEW m \in MessageId, Arrive(m), Posted(m),
         UNCHANGED <<letters, blobs, attempted>>
  PROVE  HeldMailIsPosted'
<1> DEFINE q == queues[Recipient]
           p == Append(q, m)
           k == Overflow(p)
<1>1. /\ q \in Seq(MessageId) /\ Len(q) \in Nat /\ DOMAIN q = 1..Len(q) /\ capacity \in Nat \ {0}
      /\ To[m] = Recipient /\ Recipient \in Address
  BY ClientAssumption, LenProperties DEF IInv, TypeOK
<1>2. queues' = queues \/ queues'[Recipient] = Retained(p)
  BY <1>1 DEF Arrive, Accept, storeVars, IInv, TypeOK
<1>3. /\ p \in Seq(MessageId) /\ Len(p) = Len(q) + 1 /\ p[Len(q) + 1] = m
      /\ \A i \in 1..Len(q) : p[i] = q[i]
  BY <1>1, AppendProperties
<1>4. \A x : Posted(x) => Posted(x)'
  BY PostedKept
<1>5. \A i \in 1..Len(q) : Posted(q[i])
  BY <1>1 DEF HeldMailIsPosted
<1>6. CASE queues' = queues
  BY <1>4, <1>6 DEF HeldMailIsPosted
<1>7. CASE queues'[Recipient] = Retained(p)
  <2> HIDE DEF p, q
  <2>1. /\ k \in 0..Len(q)
        /\ DOMAIN Retained(p) = 1..(Len(q) + 1 - k)
        /\ \A i \in 1..(Len(q) - k) : Retained(p)[i] = q[i + k]
        /\ Retained(p)[Len(q) + 1 - k] = m
    <3> HIDE DEF k
    <3>1. q \in Seq(MessageId) /\ p \in Seq(MessageId) /\ capacity \in Nat \ {0}
      BY <1>1, <1>3
    <3>2. Len(p) = Len(q) + 1 /\ p[Len(q) + 1] = m /\ \A i \in 1..Len(q) : p[i] = q[i]
      BY <1>3
    <3>3. /\ Overflow(p) \in 0..Len(q)
          /\ DOMAIN Retained(p) = 1..(Len(q) + 1 - Overflow(p))
          /\ \A i \in 1..(Len(q) - Overflow(p)) : Retained(p)[i] = q[i + Overflow(p)]
          /\ Retained(p)[Len(q) + 1 - Overflow(p)] = m
      BY <3>1, <3>2, AppendRetention
    <3> QED
      BY <3>3 DEF k
  <2> HIDE DEF k
  <2>2. ASSUME NEW i \in 1..(Len(q) + 1 - k) PROVE Posted(Retained(p)[i])
    <3>1. CASE i = Len(q) + 1 - k
      BY <2>1, <3>1
    <3>2. CASE i # Len(q) + 1 - k
      <4>1. Len(q) \in Nat /\ k \in 0..Len(q)
        BY <1>1, <2>1
      <4>2. i \in 1..(Len(q) - k) /\ i + k \in 1..Len(q)
        BY <3>2, <4>1
      <4> QED
        BY <1>5, <2>1, <4>2
    <3> QED
      BY <3>1, <3>2
  <2> QED
    BY <1>4, <1>7, <2>1, <2>2 DEF HeldMailIsPosted
<1> QED
  BY <1>2, <1>6, <1>7

(* Steps that move no mail. *)
LEMMA QueueKeepsPosted ==
  ASSUME HeldMailIsPosted, letters' = letters, blobs \subseteq blobs', queues' = queues,
         attempted \subseteq attempted'
  PROVE  HeldMailIsPosted'
<1>1. \A x : Posted(x) => Posted(x)'
  BY PostedKept
<1> QED
  BY <1>1 DEF HeldMailIsPosted

LEMMA AckKeepsPosted ==
  ASSUME IInv, HeldMailIsPosted, NEW cursor \in Nat, Ack(Recipient, cursor),
         UNCHANGED <<letters, blobs, attempted>>
  PROVE  HeldMailIsPosted'
<1> DEFINE q == queues[Recipient]
           n == Removed(Recipient, cursor)
<1>1. q \in Seq(MessageId) /\ Recipient \in Address /\ Len(q) \in Nat /\ DOMAIN q = 1..Len(q)
  BY ClientAssumption, LenProperties DEF IInv, TypeOK
<1>2. n \in 0..Len(q)
  BY <1>1 DEF Removed
<1>3. queues'[Recipient] = SubSeq(q, n + 1, Len(q))
  BY <1>1 DEF Ack, IInv, TypeOK
<1>4. \A x : Posted(x) => Posted(x)'
  BY PostedKept
<1>5. \A i \in 1..Len(q) : Posted(q[i])
  BY <1>1 DEF HeldMailIsPosted
<1> HIDE DEF q, n
<1>6. /\ DOMAIN SubSeq(q, n + 1, Len(q)) = 1..(Len(q) - n)
      /\ \A i \in 1..(Len(q) - n) :
           i + n \in 1..Len(q) /\ SubSeq(q, n + 1, Len(q))[i] = q[i + n]
  BY <1>1, <1>2, DropProperties
<1>7. \A i \in 1..(Len(q) - n) : Posted(SubSeq(q, n + 1, Len(q))[i])
  BY <1>5, <1>6
<1> QED
  BY <1>3, <1>4, <1>6, <1>7 DEF HeldMailIsPosted

(* The steps of send before the delivery. *)
LEMMA BeginSendInv ==
  ASSUME SendInv, NEW m \in MessageId, BeginSend(m), WellFormed
  PROVE  SendInv'
<1>1. \A x : Posted(x) => Posted(x)'
  BY PostedKept DEF BeginSend, worldVars
<1>2. \A i \in DOMAIN BlobsOf(m) : ~(i <= 0)
  BY DEF WellFormed
<1>3. BlobsOf(m)' = BlobsOf(m)
  BY DEF BeginSend, worldVars, BlobsOf, BodyCid
<1>4. send_pc' = "storing" /\ sending' = <<m>> /\ stored' = 0 /\ late' = late /\ m \in attempted'
  BY DEF BeginSend
<1>5. \A i \in DOMAIN (BlobsOf(sending[1])') : i <= stored' => (BlobsOf(sending[1])')[i] \in blobs'
  BY <1>2, <1>4 DEF BeginSend, worldVars, BlobsOf, BodyCid
<1> QED
  BY <1>1, <1>4, <1>5 DEF SendInv

LEMMA PutBlobInv ==
  ASSUME SendInv, PutBlob, WellFormed
  PROVE  SendInv' /\ blobs \subseteq blobs' /\ letters' = letters /\ attempted' = attempted
<1>1. letters' = letters /\ blobs' = blobs \cup {NextBlob} /\ stored' = stored + 1
      /\ send_pc = "storing" /\ send_pc' = send_pc /\ sending' = sending /\ late' = late
      /\ attempted' = attempted
  BY DEF PutBlob, MoreBlobs, worldVars, historyVars
<1>2. \A x : Posted(x) => Posted(x)'
  BY <1>1, PostedKept
<1>3. PICK m \in MessageId : sending = <<m>>
  BY <1>1 DEF SendInv
<1>4. BlobsOf(sending[1])' = BlobsOf(sending[1])
  BY <1>1 DEF BlobsOf, BodyCid
<1>5. DOMAIN BlobsOf(sending[1]) \subseteq Nat /\ stored \in Nat
  BY <1>3 DEF WellFormed, SendInv
<1>6. ASSUME NEW i \in DOMAIN BlobsOf(sending[1]), i <= stored + 1
      PROVE  BlobsOf(sending[1])[i] \in blobs'
  <2>1. CASE i <= stored
    BY <1>1, <2>1 DEF SendInv
  <2>2. CASE i = stored + 1
    BY <1>1, <2>2 DEF NextBlob
  <2> QED
    BY <1>5, <1>6, <2>1, <2>2
<1> QED
  BY <1>1, <1>2, <1>4, <1>5, <1>6 DEF SendInv

LEMMA SealInv ==
  ASSUME SendInv, Seal, WellFormed
  PROVE  SendInv'
<1>1. letters' = letters /\ blobs' = blobs /\ stored' = stored /\ send_pc = "storing"
      /\ send_pc' = "delivering" /\ sending' = sending /\ late' = late /\ ~MoreBlobs
      /\ attempted' = attempted
  BY DEF Seal, worldVars, historyVars
<1>2. \A x : Posted(x) => Posted(x)'
  BY <1>1, PostedKept
<1>3. PICK m \in MessageId : sending = <<m>>
  BY <1>1 DEF SendInv
<1>4. BlobsOf(sending[1])' = BlobsOf(sending[1])
  BY <1>1 DEF BlobsOf, BodyCid
<1>5. \A i \in DOMAIN BlobsOf(sending[1]) : i <= stored
  BY <1>1, <1>3 DEF MoreBlobs, WellFormed, SendInv
<1>6. Posted(sending[1])
  BY <1>1, <1>5 DEF SendInv, Posted
<1>7. Posted(sending[1])'
  BY <1>1, <1>4, <1>6 DEF Posted
<1> QED
  BY <1>1, <1>2, <1>4, <1>7 DEF SendInv

(* The steps that end a send. *)
LEMMA SendReturnsInv ==
  ASSUME SendInv, SendReturns, letters' = letters, blobs \subseteq blobs', attempted' = attempted,
         late' \in {late, late \cup {sending[1]}}, late' # late => send_pc = "delivering"
  PROVE  SendInv'
<1>1. \A x : Posted(x) => Posted(x)'
  BY PostedKept
<1>2. \A m \in late' : m \in MessageId /\ Posted(m)
  BY DEF SendInv
<1> QED
  BY <1>1, <1>2 DEF SendInv, SendReturns

(* Steps that leave the author's sending alone. *)
LEMMA SendUntouched ==
  ASSUME SendInv, UNCHANGED <<sendVars, letters, blobs, attempted>>, late' \subseteq late
  PROVE  SendInv'
<1>1. \A x : Posted(x) => Posted(x)'
  BY PostedKept
<1>2. /\ BlobsOf(sending[1])' = BlobsOf(sending[1]) /\ sending' = sending
      /\ send_pc' = send_pc /\ stored' = stored /\ blobs' = blobs /\ attempted' = attempted
  BY DEF sendVars, BlobsOf, BodyCid
<1>3. Posted(sending[1]) => Posted(sending[1])'
  BY <1>2 DEF Posted
<1> QED
  BY <1>1, <1>2, <1>3 DEF SendInv

LEMMA WellFormedKept == WellFormed /\ [ClientNext]_clientVars => WellFormed'
<1> SUFFICES ASSUME WellFormed, [ClientNext]_clientVars PROVE WellFormed'
  OBVIOUS
<1>1. letters' = letters
  BY DEF ClientNext, Send, BeginSend, PutBlob, PutBlobFails, Seal, Delivered, DeliveryFails,
     LateDelivery, Drain, Open, Screen, AckInbox, SendReceipt, Collect, Establish, SaveStore,
     RestartMailbox, clientVars, worldVars
<1> QED
  BY <1>1 DEF WellFormed, BlobsOf, BodyCid

LEMMA DeliveryStep ==
  ASSUME WellFormed, IInv, DeliveryInv, FileInv, [ClientNext]_clientVars
  PROVE  DeliveryInv'
<1> USE DEF DeliveryInv
<1>1. CASE \E m \in MessageId : BeginSend(m)
  <2>1. HeldMailIsPosted'
    BY <1>1, QueueKeepsPosted DEF BeginSend, mailboxVars, storeVars, worldVars
  <2> QED
    BY <1>1, <2>1, BeginSendInv
<1>2. CASE PutBlob
  <2>1. queues' = queues
    BY <1>2 DEF PutBlob, mailboxVars, storeVars
  <2> QED
    BY <1>2, <2>1, PutBlobInv, QueueKeepsPosted
<1>3. CASE PutBlobFails
  <2>1. /\ queues' = queues /\ letters' = letters /\ blobs \subseteq blobs'
        /\ SendReturns /\ late' = late /\ attempted' = attempted
    BY <1>3 DEF PutBlobFails, mailboxVars, storeVars, worldVars, historyVars
  <2> QED
    BY <2>1, SendReturnsInv, QueueKeepsPosted
<1>4. CASE Seal
  <2>1. HeldMailIsPosted'
    BY <1>4, QueueKeepsPosted DEF Seal, mailboxVars, storeVars, worldVars, historyVars
  <2> QED
    BY <1>4, <2>1, SealInv
<1>5. CASE Delivered \/ DeliveryFails
  <2>1. /\ letters' = letters /\ blobs' = blobs /\ SendReturns /\ send_pc = "delivering"
        /\ attempted' = attempted
        /\ late' \in {late, late \cup {sending[1]}}
        /\ Arrive(sending[1]) \/ queues' = queues
    BY <1>5 DEF Delivered, DeliveryFails, mailboxVars, storeVars, worldVars
  <2>2. sending[1] \in MessageId /\ Posted(sending[1])
    BY <2>1 DEF SendInv
  <2> QED
    BY <2>1, <2>2, SendReturnsInv, ArriveKeepsPosted, QueueKeepsPosted
<1>6. CASE LateDelivery
  <2>1. PICK m \in late : Arrive(m) /\ late' = late \ {m}
    BY <1>6 DEF LateDelivery
  <2>2. m \in MessageId /\ Posted(m) /\ UNCHANGED <<letters, blobs, attempted>>
    BY <1>6 DEF LateDelivery, SendInv, worldVars
  <2>3. SendInv'
    BY <1>6, <2>1, <2>2, SendUntouched DEF LateDelivery
  <2> QED
    BY <2>1, <2>2, <2>3, ArriveKeepsPosted
<1>7. CASE AckInbox
  <2>1. PICK cursor \in 1..MaxCursor : Ack(Recipient, cursor)
    BY <1>7 DEF AckInbox
  <2>2. cursor \in Nat /\ UNCHANGED <<letters, blobs, attempted, sendVars>> /\ late' = late
    BY <1>7, StoreAssumption DEF AckInbox, worldVars, historyVars
  <2> QED
    BY <2>1, <2>2, AckKeepsPosted, SendUntouched
<1>8. CASE \/ Drain \/ Open \/ Screen \/ (\E r \in Receipt : SendReceipt(r))
           \/ Collect \/ Establish \/ SaveStore \/ UNCHANGED clientVars
  <2>1. queues' = queues /\ UNCHANGED <<letters, blobs, attempted, sendVars>> /\ late' = late
    BY <1>8 DEF Drain, Open, Screen, SendReceipt, PutReceipt, Collect, CollectReceipts, Establish,
       SaveStore, clientVars, mailboxVars, storeVars, worldVars, historyVars
  <2> QED
    BY <2>1, QueueKeepsPosted, SendUntouched
<1>9. CASE RestartMailbox
  <2>1. /\ queues' = store_file.queues
        /\ UNCHANGED <<letters, blobs, attempted, sendVars>> /\ late' = late
    BY <1>9 DEF RestartMailbox, FromBytes, worldVars
  <2>2. \A x : Posted(x) => Posted(x)'
    BY <2>1, PostedKept
  <2>3. HeldMailIsPosted'
    BY <2>1, <2>2 DEF HeldMailIsPosted, FileInv
  <2> QED
    BY <2>1, <2>3, SendUntouched
<1> QED
  BY <1>1, <1>2, <1>3, <1>4, <1>5, <1>6, <1>7, <1>8, <1>9 DEF ClientNext, Send

(* A body blob or none, and one blob for each attachment. *)
LEMMA LettersWellFormed == letters \in [MessageId -> Letter] => WellFormed
<1> SUFFICES ASSUME letters \in [MessageId -> Letter], NEW m \in MessageId
             PROVE  Len(BlobsOf(m)) \in Nat /\ DOMAIN BlobsOf(m) = 1..Len(BlobsOf(m))
  BY DEF WellFormed
<1> DEFINE files == letters[m].attachments
           T == {m} \X Nat
           cids == [i \in DOMAIN files |-> <<m, i>>]
<1>1. files \in Seq(Attachment)
  BY DEF Letter
<1>2. Len(files) \in Nat /\ DOMAIN files = 1..Len(files)
  BY <1>1, LenProperties
<1>3. cids \in Seq(T)
  <2>1. cids \in [1..Len(files) -> T]
    BY <1>2
  <2> QED
    BY <1>2, <2>1, IsASeq
<1>4. BodyCid(m) \in Seq(T)
  <2>1. <<>> \in Seq(T)
    BY EmptySeq
  <2>2. <<m, 0>> \in T
    OBVIOUS
  <2> HIDE DEF T
  <2>3. <<<<m, 0>>>> \in Seq(T)
    BY <2>2
  <2> QED
    BY <2>1, <2>3 DEF BodyCid
<1>5. BlobsOf(m) = BodyCid(m) \o cids
  BY DEF BlobsOf
<1> HIDE DEF T, cids
<1>6. BlobsOf(m) \in Seq(T)
  BY <1>3, <1>4, <1>5, ConcatProperties
<1> QED
  BY <1>6, LenProperties

-----------------------------------------------------------------------------
(* Receipts.                                                               *)

(* The keys of a queue of receipts are those kept and those evicted. *)
LEMMA KeysKeptOrEvicted ==
  ASSUME NEW p \in Seq(Receipt), capacity \in Nat \ {0}
  PROVE  Keys(p) \subseteq Keys(Retained(p)) \cup Keys(Evicted(p))
<1> DEFINE k == Overflow(p)
<1>1. /\ Len(p) \in Nat /\ DOMAIN p = 1..Len(p) /\ k \in 0..Len(p)
      /\ DOMAIN Retained(p) = 1..(Len(p) - k)
      /\ \A i \in 1..(Len(p) - k) : Retained(p)[i] = p[i + k]
      /\ DOMAIN Evicted(p) = 1..k
      /\ \A i \in 1..k : Evicted(p)[i] = p[i]
  <2>1. /\ k \in 0..Len(p)
        /\ Retained(p) \in Seq(Receipt) /\ Len(Retained(p)) = Len(p) - k
        /\ \A i \in 1..Len(Retained(p)) : Retained(p)[i] = p[i + k]
        /\ Evicted(p) \in Seq(Receipt) /\ Len(Evicted(p)) = k
        /\ \A i \in 1..k : Evicted(p)[i] = p[i]
    BY Retention
  <2> HIDE DEF k
  <2> QED
    BY <2>1, LenProperties
<1> HIDE DEF k
<1> SUFFICES ASSUME NEW i \in 1..Len(p)
             PROVE  DedupKey(p[i]) \in Keys(Retained(p)) \cup Keys(Evicted(p))
  BY <1>1 DEF Keys
<1>2. CASE i <= k
  <2>1. i \in DOMAIN Evicted(p) /\ Evicted(p)[i] = p[i]
    BY <1>1, <1>2
  <2> QED
    BY <2>1 DEF Keys
<1>3. CASE i > k
  <2>1. i - k \in 1..(Len(p) - k) /\ (i - k) + k = i
    BY <1>1, <1>3
  <2>2. i - k \in DOMAIN Retained(p) /\ Retained(p)[i - k] = p[i]
    BY <1>1, <2>1
  <2> QED
    BY <2>2 DEF Keys
<1> QED
  BY <1>1, <1>2, <1>3

(* A receipt deposited is one more of the recipient's, and its key awaits  *)
(* the author beside those it does not displace.                           *)
LEMMA SendReceiptInv ==
  ASSUME IInv, ReceiptInv, NEW r \in Receipt, SendReceipt(r)
  PROVE  ReceiptInv'
<1> DEFINE q == receipts[Author]
           p == Append(q, r)
<1>1. /\ q \in Seq(Receipt) /\ Len(q) \in Nat /\ DOMAIN q = 1..Len(q) /\ capacity \in Nat \ {0}
      /\ Author \in Address /\ Author # NoAddress
  BY ClientAssumption, LenProperties DEF IInv, TypeOK
<1>2. /\ r.by = Recipient /\ r.message_id \in accepted
      /\ outstanding' \subseteq (outstanding \cup {DedupKey(r)}) \ Displaced(r)
      /\ accepted' = accepted /\ acknowledged' = acknowledged
      /\ PutReceipt(Author, r, TRUE)
  BY DEF SendReceipt
<1>3. outstanding \subseteq Keys(q)
  BY DEF ReceiptInv, ConfirmedReceiptsAwaitTheAuthor
<1>4. CollectedWereIssued'
  BY <1>2 DEF ReceiptInv, CollectedWereIssued
<1>5. CASE PutReceiptResult(Author, r, TRUE) # "Stored"
  <2>1. receipts' = receipts
    BY <1>2, <1>5 DEF PutReceipt, storeVars
  <2>2. DedupKey(r) \in Keys(q)
    BY <1>1, <1>5 DEF PutReceiptResult, IInv, ReceiptIndexExact
  <2>3. outstanding' \subseteq Keys(q)
    BY <1>2, <1>3, <2>2
  <2>4. ReceiptsAreIssued'
    BY <1>2, <2>1 DEF ReceiptInv, ReceiptsAreIssued
  <2> QED
    BY <1>4, <2>1, <2>3, <2>4 DEF ReceiptInv, ConfirmedReceiptsAwaitTheAuthor, Keys
<1>6. CASE PutReceiptResult(Author, r, TRUE) = "Stored"
  <2>1. receipts'[Author] = Retained(p)
    BY <1>1, <1>2, <1>6 DEF PutReceipt, IInv, TypeOK
  <2>2. /\ p \in Seq(Receipt) /\ Len(p) = Len(q) + 1 /\ DOMAIN p = 1..(Len(q) + 1)
        /\ p[Len(q) + 1] = r /\ \A i \in 1..Len(q) : p[i] = q[i]
    BY <1>1, AppendProperties, LenProperties
  <2>3. Displaced(r) = Keys(Evicted(p))
    BY <1>6 DEF Displaced
  <2>4. ASSUME NEW i \in 1..Len(q) PROVE q[i].by = Recipient /\ q[i].message_id \in accepted
    BY <1>1 DEF ReceiptInv, ReceiptsAreIssued
  <2> HIDE DEF p, q
  <2>5. Keys(q) \cup {DedupKey(r)} \subseteq Keys(p)
    <3>1. ASSUME NEW i \in DOMAIN q PROVE DedupKey(q[i]) \in Keys(p)
      <4>1. i \in DOMAIN p /\ p[i] = q[i]
        BY <1>1, <2>2, <3>1
      <4> QED
        BY <4>1 DEF Keys
    <3>2. DedupKey(r) \in Keys(p)
      <4>1. Len(q) + 1 \in DOMAIN p
        BY <1>1, <2>2
      <4> QED
        BY <2>2, <4>1 DEF Keys
    <3> QED
      BY <3>1, <3>2 DEF Keys
  <2>6. Keys(p) \subseteq Keys(Retained(p)) \cup Keys(Evicted(p))
    BY <1>1, <2>2, KeysKeptOrEvicted
  <2>7. outstanding' \subseteq Keys(Retained(p))
    BY <1>2, <1>3, <2>3, <2>5, <2>6
  <2>8. ConfirmedReceiptsAwaitTheAuthor'
    <3>1. Keys(receipts[Author])' = Keys(Retained(p))
      BY <2>1 DEF Keys
    <3> QED
      BY <2>7, <3>1 DEF ConfirmedReceiptsAwaitTheAuthor
  <2>9. ReceiptsAreIssued'
    <3> DEFINE k == Overflow(p)
    <3>1. /\ k \in 0..Len(q)
          /\ DOMAIN Retained(p) = 1..(Len(q) + 1 - k)
          /\ \A i \in 1..(Len(q) - k) : Retained(p)[i] = q[i + k]
          /\ Retained(p)[Len(q) + 1 - k] = r
      BY <1>1, <2>2, AppendRetention
    <3> HIDE DEF k
    <3>2. ASSUME NEW i \in 1..(Len(q) + 1 - k)
          PROVE  Retained(p)[i].by = Recipient /\ Retained(p)[i].message_id \in accepted
      <4>1. CASE i = Len(q) + 1 - k
        BY <1>2, <3>1, <4>1
      <4>2. CASE i # Len(q) + 1 - k
        <5>1. Len(q) \in Nat /\ k \in 0..Len(q)
          BY <1>1, <3>1
        <5>2. i \in 1..(Len(q) - k) /\ i + k \in 1..Len(q)
          BY <4>2, <5>1
        <5> QED
          BY <2>4, <3>1, <5>2
      <4> QED
        BY <4>1, <4>2
    <3> QED
      BY <1>2, <2>1, <3>1, <3>2 DEF ReceiptsAreIssued
  <2> QED
    BY <1>4, <2>8, <2>9 DEF ReceiptInv
<1> QED
  BY <1>5, <1>6

(* Collecting hands the author what was deposited; what the mailbox adds   *)
(* is in its own name, or left out.                                        *)
LEMMA CollectInv ==
  ASSUME IInv, ReceiptInv, Collect
  PROVE  ReceiptInv'
<1>1. Author \in Address /\ Recipient # NoAddress /\ receipts[Author] \in Seq(Receipt)
  BY ClientAssumption DEF IInv, TypeOK
<1>2. receipts'[Author] = <<>> /\ outstanding' = {} /\ accepted' = accepted
  BY <1>1 DEF Collect, CollectReceipts, IInv, TypeOK
<1>3. \A r \in Range(receipts[Author]) : r.message_id \in accepted
  BY DEF ReceiptInv, ReceiptsAreIssued, Range
<1>4. acknowledged' \subseteq
        acknowledged \cup Range(receipts[Author]) \cup {r \in Receipt : Verifies(NoAddress, r.by)}
  BY DEF Collect
<1>5. CollectedWereIssued'
  BY <1>1, <1>2, <1>3, <1>4 DEF ReceiptInv, CollectedWereIssued, Verifies
<1> QED
  BY <1>2, <1>5 DEF ReceiptInv, ReceiptsAreIssued, ConfirmedReceiptsAwaitTheAuthor

(* No other step touches the author's receipts. *)
LEMMA ReceiptsUntouched ==
  ASSUME ReceiptInv, receipts' = receipts, UNCHANGED <<outstanding, acknowledged>>,
         accepted \subseteq accepted'
  PROVE  ReceiptInv'
  BY DEF ReceiptInv, ReceiptsAreIssued, CollectedWereIssued, ConfirmedReceiptsAwaitTheAuthor, Keys

LEMMA ReceiptStep ==
  ASSUME IInv, ReceiptInv, FileInv, [ClientNext]_clientVars
  PROVE  ReceiptInv'
<1>1. CASE \E r \in Receipt : SendReceipt(r)
  BY <1>1, SendReceiptInv
<1>2. CASE Collect
  BY <1>2, CollectInv
<1>3. CASE \/ Send \/ LateDelivery \/ AckInbox
  <2>1. receipts' = receipts /\ UNCHANGED <<outstanding, acknowledged, accepted>>
    BY <1>3 DEF Send, BeginSend, PutBlob, PutBlobFails, Seal, Delivered, DeliveryFails, LateDelivery,
       AckInbox, Arrive, Accept, Ack, mailboxVars, storeVars, historyVars
  <2> QED
    BY <2>1, ReceiptsUntouched
<1>4. CASE Drain \/ Open \/ Screen \/ Establish \/ SaveStore \/ UNCHANGED clientVars
  <2>1. receipts' = receipts /\ UNCHANGED <<outstanding, acknowledged>> /\ accepted \subseteq accepted'
    BY <1>4 DEF Drain, Open, Screen, Establish, SaveStore, clientVars, mailboxVars, storeVars, historyVars
  <2> QED
    BY <2>1, ReceiptsUntouched
<1>5. CASE RestartMailbox
  <2>1. /\ receipts' = store_file.receipts /\ outstanding' = saved_outstanding
        /\ UNCHANGED <<accepted, acknowledged>>
    BY <1>5 DEF RestartMailbox, FromBytes, FileInv
  <2>2. ReceiptsAreIssued' /\ CollectedWereIssued'
    BY <2>1 DEF ReceiptInv, FileInv, ReceiptsAreIssued, CollectedWereIssued
  <2>3. ConfirmedReceiptsAwaitTheAuthor'
    BY <2>1 DEF FileInv, ConfirmedReceiptsAwaitTheAuthor, Keys
  <2> QED
    BY <2>2, <2>3 DEF ReceiptInv
<1> QED
  BY <1>1, <1>2, <1>3, <1>4, <1>5 DEF ClientNext

(* What is saved is what the mailbox holds. *)
LEMMA FileStep ==
  ASSUME IInv, DeliveryInv, ReceiptInv, FileInv, outstanding \subseteq ReceiptKey,
         [ClientNext]_clientVars
  PROVE  FileInv'
<1>1. letters' = letters /\ blobs \subseteq blobs' /\ attempted \subseteq attempted'
      /\ accepted \subseteq accepted'
  BY DEF ClientNext, Send, BeginSend, PutBlob, PutBlobFails, Seal, Delivered, DeliveryFails,
     LateDelivery, Drain, Open, Screen, AckInbox, SendReceipt, Collect, Establish, SaveStore,
     RestartMailbox, clientVars, worldVars, historyVars
<1>2. \A x : Posted(x) => Posted(x)'
  BY <1>1, PostedKept
<1>3. CASE SaveStore
  <2>1. /\ store_file'.format = "v2" /\ store_file'.queues = queues
        /\ store_file'.capacity = capacity /\ store_file'.receipts = receipts
        /\ saved_outstanding' = outstanding /\ store_file' = ToBytes
    BY <1>3 DEF SaveStore, ToBytes
  <2>2. SavedStore(store_file')
    BY <2>1, SavedBytes
  <2>3. store_file' \in [format : {"v2"}, queues : [Address -> Seq(MessageId)], capacity : Nat,
                         receipts : [Address -> Seq(Receipt)]]
    BY <1>3 DEF SaveStore, ToBytes, IInv, TypeOK
  <2> QED
    BY <1>1, <1>2, <2>1, <2>2, <2>3
    DEF FileInv, SavedStore, DeliveryInv, HeldMailIsPosted, ReceiptInv, ReceiptsAreIssued,
        ConfirmedReceiptsAwaitTheAuthor, Keys
<1>4. CASE UNCHANGED fileVars
  BY <1>1, <1>2, <1>4 DEF FileInv, SavedStore, fileVars, Keys
<1> QED
  BY <1>3, <1>4
  DEF ClientNext, Send, BeginSend, PutBlob, PutBlobFails, Seal, Delivered, DeliveryFails,
      LateDelivery, Drain, Open, Screen, AckInbox, SendReceipt, Collect, Establish,
      RestartMailbox, clientVars, mailboxVars, fileVars

LEMMA ReturnedStep ==
  ReturnedMailArrived /\ [ClientNext]_clientVars => ReturnedMailArrived'
  BY DEF ReturnedMailArrived, ClientNext, Send, BeginSend, PutBlob, PutBlobFails, Seal, Delivered,
     DeliveryFails, LateDelivery, Arrive, Drain, Open, Screen, AckInbox, SendReceipt, Collect,
     Establish, SaveStore, RestartMailbox, clientVars, historyVars

-----------------------------------------------------------------------------
(* What the recipient sees.                                                *)

WorldInv == <<letters, policy>> \in Correspondence /\ established \in BOOLEAN

LEMMA LettersTyped == WorldInv => letters \in [MessageId -> Letter]
  BY ClientAssumption DEF WorldInv

(* A message shows what its body blob holds, or nothing. *)
AsOpened(x) ==
  \/ x.body = <<>> /\ x.sealed_subject = None
  \/ LET content == SplitContent(BodyPlaintext(letters[x.id]))
     IN  x.body = content.body /\ x.sealed_subject = content.sealed_subject

Opened(list) ==
  \A i \in DOMAIN list : IsMessage(list[i]) /\ Posted(list[i].id) /\ AsOpened(list[i])

InboxInv ==
  /\ envelopes \in Seq(Envelope)
  /\ \A i \in DOMAIN envelopes : envelopes[i].signer = Author => Posted(envelopes[i].id)
  /\ messages \in Seq(Range(messages))
  /\ Opened(messages) /\ Opened(inbox) /\ Opened(spam)

LEMMA InboxUntouched ==
  ASSUME InboxInv, UNCHANGED <<inboxVars, letters>>, blobs \subseteq blobs', attempted \subseteq attempted'
  PROVE  InboxInv'
<1>1. \A x : Posted(x) => Posted(x)'
  BY PostedKept
<1>2. envelopes' = envelopes /\ messages' = messages /\ inbox' = inbox /\ spam' = spam
  BY DEF inboxVars
<1>3. \A x : AsOpened(x)' = AsOpened(x)
  BY DEF AsOpened
<1>4. \A list : Opened(list) => Opened(list)'
  BY <1>1, <1>3 DEF Opened
<1> QED
  BY <1>1, <1>2, <1>4 DEF InboxInv, Opened

(* The mailbox answers with mail that was sent, and with what it signs     *)
(* itself.                                                                 *)
LEMMA DrainInv ==
  ASSUME IInv, HeldMailIsPosted, InboxInv, Drain
  PROVE  InboxInv'
<1> DEFINE q == queues[Recipient]
           Mail == {m \in MessageId : Posted(m)}
           E == {e \in Envelope : e.signer = Author => Posted(e.id)}
<1>1. /\ q \in Seq(MessageId) /\ Len(q) \in Nat /\ DOMAIN q = 1..Len(q)
      /\ Author \in Address /\ NoAddress \in Address /\ NoAddress # Author
  BY ClientAssumption, StoreAssumption, LenProperties DEF IInv, TypeOK
<1>2. \A k \in 1..Len(q) : q[k] \in Mail
  BY <1>1, ElementOfSeq DEF HeldMailIsPosted
<1>3. PICK since \in 0..MaxCursor, forged \in {<<>>} \cup {<<m>> : m \in MessageId} :
        LET held == ReadFrom(Recipient, since).envelopes
        IN  envelopes' = [i \in DOMAIN held |-> [id |-> held[i], signer |-> Author]]
                           \o [i \in DOMAIN forged |-> [id |-> forged[i], signer |-> NoAddress]]
  BY DEF Drain
<1> DEFINE held == SubSeq(q, since + 1, Len(q))
           genuine == [i \in DOMAIN held |-> [id |-> held[i], signer |-> Author]]
           added == [i \in DOMAIN forged |-> [id |-> forged[i], signer |-> NoAddress]]
<1>4. envelopes' = genuine \o added
  BY <1>3 DEF ReadFrom
<1>5. held \in Seq(Mail)
  <2>1. since \in Nat
    BY StoreAssumption
  <2>2. since + 1 \in Int /\ Len(q) \in Int /\ \A k \in (since + 1)..Len(q) : q[k] \in Mail
    BY <1>1, <1>2, <2>1
  <2> HIDE DEF q, Mail
  <2> QED
    BY <2>2, SubSeqProperties
<1> HIDE DEF held
<1>6. genuine \in Seq(E)
  <2>1. Len(held) \in Nat /\ DOMAIN held = 1..Len(held) /\ \A i \in 1..Len(held) : held[i] \in Mail
    BY <1>5, LenProperties, ElementOfSeq
  <2>2. genuine \in [1..Len(held) -> E]
    BY <1>1, <2>1 DEF Envelope
  <2> QED
    BY <2>1, <2>2, IsASeq
<1>7. added \in Seq(E)
  <2>1. CASE forged = <<>>
    <3>1. added = <<>>
      BY <2>1
    <3> QED
      BY <3>1, EmptySeq
  <2>2. CASE \E m \in MessageId : forged = <<m>>
    <3>1. DOMAIN forged = 1..1 /\ forged[1] \in MessageId
      BY <2>2
    <3>2. added \in [1..1 -> E]
      BY <1>1, <3>1 DEF Envelope
    <3> QED
      BY <3>2, IsASeq
  <2> QED
    BY <2>1, <2>2
<1> HIDE DEF genuine, added
<1>8. envelopes' \in Seq(E)
  <2> HIDE DEF E
  <2> QED
    BY <1>4, <1>6, <1>7, ConcatProperties
<1>9. /\ E \subseteq Envelope
      /\ envelopes' \in Seq(Envelope)
      /\ \A i \in DOMAIN envelopes' : envelopes'[i].signer = Author => Posted(envelopes'[i].id)
  <2>1. E \subseteq Envelope
    OBVIOUS
  <2>2. \A i \in DOMAIN envelopes' : envelopes'[i] \in E
    <3> HIDE DEF E
    <3> QED
      BY <1>8, LenProperties, ElementOfSeq
  <2>3. envelopes' \in Seq(Envelope)
    <3> HIDE DEF E
    <3> QED
      BY <1>8, <2>1, SeqMonotonic
  <2> QED
    BY <2>1, <2>2, <2>3
<1>10. /\ UNCHANGED <<letters, blobs, attempted, messages>> /\ inbox' = <<>> /\ spam' = <<>>
  BY DEF Drain, worldVars, historyVars
<1>11. \A x : Posted(x) => Posted(x)'
  BY <1>10, PostedKept
<1>12. Opened(messages)'
  BY <1>10, <1>11 DEF InboxInv, Opened, AsOpened
<1>13. Opened(inbox)' /\ Opened(spam)'
  BY <1>10 DEF Opened
<1> QED
  BY <1>9, <1>10, <1>11, <1>12, <1>13 DEF InboxInv

(* Only an undamaged blob opens, and shows what was sealed. *)
LEMMA BlobOpens ==
  ASSUME NEW blob, To[blob[1]] = Recipient, NEW outcome \in Outcome
  PROVE  OpenBlob(blob, outcome)
           = IF blob \in blobs /\ outcome = "intact" THEN Some(Plaintext(blob)) ELSE None
<1>1. \A x : Some(x) # None /\ Some(x)[1] = x
  BY DEF Some, None
<1>2. OpenSealed(Recipient, SealedBlob(blob)) = Some(Plaintext(blob))
  BY SealedOpens DEF SealedBlob
<1>3. \A damage \in Damage : OpenSealed(Recipient, Damaged(SealedBlob(blob), damage)) = None
  BY DamagedNeverOpens DEF SealedBlob
<1>4. CASE blob \notin blobs \/ outcome = "nothing"
  BY <1>4 DEF OpenBlob, Fetched
<1>5. CASE blob \in blobs /\ outcome = "intact"
  BY <1>1, <1>2, <1>5 DEF OpenBlob, Fetched
<1>6. CASE blob \in blobs /\ outcome \in Damage
  <2>1. outcome # "intact" /\ outcome # "nothing"
    BY <1>6 DEF Damage
  <2> QED
    BY <1>1, <1>3, <1>6, <2>1 DEF OpenBlob, Fetched
<1> QED
  BY <1>4, <1>5, <1>6 DEF Outcome

LEMMA ContentOpens ==
  ASSUME NEW m \in MessageId, NEW outcome \in Outcome
  PROVE  LET content == OpenContent(m, outcome)
         IN  \/ content = NoContent
             \/ content = SplitContent(BodyPlaintext(letters[m]))
<1>1. \A x : Some(x) # None /\ Some(x)[1] = x
  BY DEF Some, None
<1>2. CASE BodyCid(m) = <<>>
  BY <1>2 DEF OpenContent
<1>3. CASE BodyCid(m) # <<>>
  <2>1. BodyCid(m)[1] = <<m, 0>> /\ To[<<m, 0>>[1]] = Recipient
    BY <1>3, ClientAssumption DEF BodyCid
  <2>2. Plaintext(<<m, 0>>) = BodyPlaintext(letters[m])
    BY DEF Plaintext
  <2>3. \/ OpenBlob(<<m, 0>>, outcome) = None
        \/ OpenBlob(<<m, 0>>, outcome) = Some(BodyPlaintext(letters[m]))
    BY <2>1, <2>2, BlobOpens
  <2> QED
    BY <1>1, <1>3, <2>1, <2>3 DEF OpenContent
<1> QED
  BY <1>2, <1>3

(* A message composed of an envelope and its content. *)
LEMMA Composed ==
  ASSUME NEW m \in MessageId, NEW outcome \in Outcome
  PROVE  LET x == Message(m, OpenContent(m, outcome))
         IN  IsMessage(x) /\ x.id = m /\ AsOpened(x)
<1>1. \/ OpenContent(m, outcome) = NoContent
      \/ OpenContent(m, outcome) = SplitContent(BodyPlaintext(letters[m]))
  BY ContentOpens
<1>2. NoContent.body = <<>> /\ NoContent.sealed_subject = None
  BY DEF NoContent
<1> QED
  BY <1>1, <1>2 DEF IsMessage, AsOpened, Message

(* Only what its author signed is composed. *)
LEMMA OpenInv ==
  ASSUME InboxInv, Open
  PROVE  InboxInv'
<1> DEFINE places == {i \in DOMAIN envelopes : Verifies(envelopes[i].signer, Author)}
           good == Sifted(envelopes, places)
<1>1. /\ envelopes \in Seq(Envelope) /\ DOMAIN envelopes = 1..Len(envelopes)
      /\ \A i \in 1..Len(envelopes) : envelopes[i] \in Envelope
  BY LenProperties, ElementOfSeq DEF InboxInv
<1>2. good \in Seq(Envelope) /\ \A j \in DOMAIN good : \E i \in 1..Len(envelopes) \cap places : good[j] = envelopes[i]
  <2> HIDE DEF places
  <2> QED
    BY <1>1, SiftedElements
<1>3. PICK outcome \in [{good[i].id : i \in DOMAIN good} -> Outcome] :
        messages' = [i \in DOMAIN good |-> Message(good[i].id, OpenContent(good[i].id, outcome[good[i].id]))]
  BY DEF Open
<1>4. ASSUME NEW j \in DOMAIN good
      PROVE  good[j].id \in MessageId /\ Posted(good[j].id)
  <2>1. PICK i \in 1..Len(envelopes) \cap places : good[j] = envelopes[i]
    BY <1>2
  <2>2. envelopes[i] \in Envelope /\ envelopes[i].signer = Author /\ i \in DOMAIN envelopes
    BY <1>1, <2>1 DEF Verifies
  <2> HIDE DEF good
  <2> QED
    BY <2>1, <2>2 DEF InboxInv, Envelope
<1> HIDE DEF good
<1>5. ASSUME NEW j \in DOMAIN good
      PROVE  IsMessage(messages'[j]) /\ Posted(messages'[j].id) /\ AsOpened(messages'[j])
  <2>1. /\ messages'[j] = Message(good[j].id, OpenContent(good[j].id, outcome[good[j].id]))
        /\ outcome[good[j].id] \in Outcome
    BY <1>3
  <2> QED
    BY <1>4, <2>1, Composed
<1>6. /\ UNCHANGED <<letters, blobs, attempted, inbox, spam>> /\ envelopes' = <<>>
      /\ DOMAIN messages' = DOMAIN good
  BY <1>3 DEF Open, worldVars, historyVars
<1>7. messages' \in Seq(Range(messages'))
  <2>1. Len(good) \in Nat /\ DOMAIN good = 1..Len(good)
    BY <1>2, LenProperties
  <2>2. messages' \in [1..Len(good) -> Range(messages')]
    BY <1>3, <1>6, <2>1 DEF Range
  <2> QED
    BY <2>1, <2>2, IsASeq
<1>8. \A x : Posted(x) => Posted(x)'
  BY <1>6, PostedKept
<1>9. \A x : AsOpened(x) => AsOpened(x)'
  BY <1>6 DEF AsOpened
<1>10. Opened(messages)' /\ Opened(inbox)' /\ Opened(spam)'
  BY <1>5, <1>6, <1>8, <1>9 DEF InboxInv, Opened
<1>11. envelopes' \in Seq(Envelope) /\ DOMAIN envelopes' = {}
  BY <1>6, EmptySeq
<1> QED
  BY <1>7, <1>10, <1>11 DEF InboxInv

(* Screening divides what was composed. *)
LEMMA ScreenSplits ==
  ASSUME InboxInv, Screen
  PROVE  \E found \in SUBSET {messages[i].id : i \in DOMAIN messages} :
           /\ \A j \in DOMAIN inbox' : \E i \in DOMAIN messages :
                /\ inbox'[j] = messages[i]
                /\ Verdict(messages[i].id, Standing(messages[i].id \in found)) \in {"Inbox", "InboxPaid"}
           /\ \A j \in DOMAIN spam' : \E i \in DOMAIN messages :
                /\ spam'[j] = messages[i]
                /\ Verdict(messages[i].id, Standing(messages[i].id \in found)) = "Spam"
<1>1. messages \in Seq(Range(messages))
  BY DEF InboxInv
<1>2. PICK found \in SUBSET {messages[i].id : i \in DOMAIN messages} :
        LET verdict(m) == Verdict(m, Standing(m \in found))
            rated(verdicts) == {i \in DOMAIN messages : verdict(messages[i].id) \in verdicts}
        IN  /\ inbox' = Sifted(messages, rated({"Inbox", "InboxPaid"}))
            /\ spam' = Sifted(messages, rated({"Spam"}))
  BY DEF Screen
<1> DEFINE verdict(m) == Verdict(m, Standing(m \in found))
           rated(verdicts) == {i \in DOMAIN messages : verdict(messages[i].id) \in verdicts}
           good == rated({"Inbox", "InboxPaid"})
           bad == rated({"Spam"})
<1>3. inbox' = Sifted(messages, good) /\ spam' = Sifted(messages, bad)
  BY <1>2
<1> HIDE DEF good, bad
<1>4. /\ \A j \in DOMAIN inbox' : \E i \in 1..Len(messages) \cap good : inbox'[j] = messages[i]
      /\ \A j \in DOMAIN spam' : \E i \in 1..Len(messages) \cap bad : spam'[j] = messages[i]
  <2>1. ASSUME NEW places
        PROVE  LET t == Sifted(messages, places)
               IN  \A j \in DOMAIN t : \E i \in 1..Len(messages) \cap places : t[j] = messages[i]
    BY <1>1, SiftedElements
  <2> QED
    BY <1>3, <2>1
<1>5. /\ \A i \in good : i \in DOMAIN messages /\ verdict(messages[i].id) \in {"Inbox", "InboxPaid"}
      /\ \A i \in bad : i \in DOMAIN messages /\ verdict(messages[i].id) = "Spam"
  BY DEF good, bad
<1> QED
  BY <1>4, <1>5

LEMMA ScreenInv ==
  ASSUME InboxInv, Screen
  PROVE  InboxInv'
<1>1. /\ \A j \in DOMAIN inbox' : \E i \in DOMAIN messages : inbox'[j] = messages[i]
      /\ \A j \in DOMAIN spam' : \E i \in DOMAIN messages : spam'[j] = messages[i]
  BY ScreenSplits
<1>2. UNCHANGED <<letters, blobs, attempted, envelopes>> /\ messages' = <<>>
  BY DEF Screen, worldVars
<1>3. \A x : Posted(x) => Posted(x)'
  BY <1>2, PostedKept
<1>4. \A x : AsOpened(x) => AsOpened(x)'
  BY <1>2 DEF AsOpened
<1>5. Opened(inbox)' /\ Opened(spam)'
  BY <1>1, <1>3, <1>4 DEF InboxInv, Opened
<1>6. messages' \in Seq(Range(messages')) /\ Opened(messages)'
  BY <1>2, EmptySeq DEF Opened
<1> QED
  BY <1>2, <1>3, <1>5, <1>6 DEF InboxInv

LEMMA InboxStep ==
  ASSUME WellFormed, IInv, DeliveryInv, InboxInv, [ClientNext]_clientVars
  PROVE  InboxInv'
<1>1. CASE Drain
  BY <1>1, DrainInv DEF DeliveryInv
<1>2. CASE Open
  BY <1>2, OpenInv
<1>3. CASE Screen
  BY <1>3, ScreenInv
<1>4. CASE \/ Send \/ LateDelivery \/ AckInbox \/ (\E r \in Receipt : SendReceipt(r))
           \/ Collect \/ Establish \/ SaveStore \/ RestartMailbox \/ UNCHANGED clientVars
  <2>1. UNCHANGED <<inboxVars, letters>> /\ blobs \subseteq blobs' /\ attempted \subseteq attempted'
    BY <1>4 DEF Send, BeginSend, PutBlob, PutBlobFails, Seal, Delivered, DeliveryFails, LateDelivery,
       AckInbox, SendReceipt, Collect, Establish, SaveStore, RestartMailbox, clientVars, worldVars,
       historyVars
  <2> QED
    BY <2>1, InboxUntouched
<1> QED
  BY <1>1, <1>2, <1>3, <1>4 DEF ClientNext

-----------------------------------------------------------------------------
(* Screening.                                                              *)

(* To be known never worsens a verdict. *)
LEMMA StandingHelps ==
  ASSUME NEW m
  PROVE  /\ Verdict(m, "Newcomer") \in {"Inbox", "InboxPaid"}
              => Verdict(m, "Established") \in {"Inbox", "InboxPaid"}
         /\ Verdict(m, "Newcomer") # "Rejected" => Verdict(m, "Established") # "Rejected"
<1> DEFINE l(s) == [from |-> Author, to |-> To[m], standing |-> s, postage |-> PostageOf[m]]
<1>1. /\ l("Newcomer").from = l("Established").from /\ l("Newcomer").to = l("Established").to
      /\ l("Newcomer").postage = l("Established").postage
      /\ l("Newcomer").standing # "Established"
  OBVIOUS
<1>2. \A s : Verdict(m, s) = Under(policy)!Screen(l(s))
  BY DEF Verdict
<1> HIDE DEF l
<1>3. \A k : Under(policy)!Screen(k) \in {"Inbox", "InboxPaid", "Spam", "Rejected"}
  BY DEF Under!Screen, Under!Deny
<1> QED
  BY <1>1, <1>2 DEF Under!Screen, Under!Waived, Under!Paid, Under!Deny

LEMMA ScreenedStep ==
  ASSUME WorldInv, InboxInv, FailedLookupsNeverAdmit, [ClientNext]_clientVars
  PROVE  FailedLookupsNeverAdmit'
<1> DEFINE Actual(m) == Verdict(m, IF established THEN "Established" ELSE "Newcomer")
<1>1. policy' = policy /\ established' \in {established, TRUE}
  BY DEF ClientNext, Send, BeginSend, PutBlob, PutBlobFails, Seal, Delivered, DeliveryFails,
     LateDelivery, Drain, Open, Screen, AckInbox, SendReceipt, Collect, Establish, SaveStore,
     RestartMailbox, clientVars, worldVars
<1>2. \A m, s : Verdict(m, s)' = Verdict(m, s)
  BY <1>1 DEF Verdict, Under!Screen, Under!Waived, Under!Paid, Under!Deny
<1>3. established \in BOOLEAN /\ established' \in BOOLEAN
  BY <1>1 DEF WorldInv
<1>4. \A m : /\ Actual(m) \in {"Inbox", "InboxPaid"} => Actual(m)' \in {"Inbox", "InboxPaid"}
             /\ Actual(m) # "Rejected" => Actual(m)' # "Rejected"
  BY <1>1, <1>2, <1>3, StandingHelps
<1>5. CASE Screen
  <2>1. \A m, found : /\ Verdict(m, Standing(found)) \in {"Inbox", "InboxPaid"} => Actual(m) \in {"Inbox", "InboxPaid"}
                      /\ Verdict(m, Standing(found)) = "Spam" => Actual(m) # "Rejected"
    BY <1>3, StandingHelps DEF Standing
  <2>2. /\ \A j \in DOMAIN inbox' : Actual(inbox'[j].id) \in {"Inbox", "InboxPaid"}
        /\ \A j \in DOMAIN spam' : Actual(spam'[j].id) # "Rejected"
    <3> HIDE DEF Actual
    <3> QED
      BY <1>5, <2>1, ScreenSplits
  <2> QED
    BY <1>4, <2>2 DEF FailedLookupsNeverAdmit
<1>6. CASE UNCHANGED <<inbox, spam>>
  BY <1>4, <1>6 DEF FailedLookupsNeverAdmit
<1>7. CASE Drain
  BY <1>7 DEF Drain, FailedLookupsNeverAdmit
<1> QED
  BY <1>5, <1>6, <1>7 DEF ClientNext, Send, BeginSend, PutBlob, PutBlobFails, Seal, Delivered,
     DeliveryFails, LateDelivery, Open, AckInbox, SendReceipt, Collect, Establish, SaveStore,
     RestartMailbox, clientVars, inboxVars

-----------------------------------------------------------------------------
(* Types.                                                                  *)

SendTypes ==
  /\ blobs \subseteq UNION {Range(BlobsOf(m)) : m \in MessageId}
  /\ (send_pc = "idle") = (sending = <<>>)
  /\ sending # <<>> => stored <= Len(BlobsOf(sending[1]))

HistoryTypes ==
  /\ inbox_pc \in {"idle", "opening", "screening"}
  /\ attempted \subseteq MessageId /\ returned \subseteq MessageId /\ arrived \subseteq MessageId
  /\ accepted \subseteq MessageId /\ outstanding \subseteq ReceiptKey /\ acknowledged \subseteq Receipt

LEMMA SendTypesStep ==
  ASSUME WellFormed, SendInv, SendTypes, [ClientNext]_clientVars
  PROVE  SendTypes'
<1>1. letters' = letters
  BY DEF ClientNext, Send, BeginSend, PutBlob, PutBlobFails, Seal, Delivered, DeliveryFails,
     LateDelivery, Drain, Open, Screen, AckInbox, SendReceipt, Collect, Establish, SaveStore,
     RestartMailbox, clientVars, worldVars
<1>2. \A m : BlobsOf(m)' = BlobsOf(m)
  BY <1>1 DEF BlobsOf, BodyCid
<1>3. CASE \E m \in MessageId : BeginSend(m)
  <2>1. PICK m \in MessageId : BeginSend(m)
    BY <1>3
  <2>2. blobs' = blobs /\ send_pc' = "storing" /\ sending' = <<m>> /\ stored' = 0
    BY <2>1 DEF BeginSend
  <2>3. sending'[1] = m /\ sending' # <<>> /\ 0 <= Len(BlobsOf(m))
    BY <2>2 DEF WellFormed
  <2> QED
    BY <1>2, <2>2, <2>3 DEF SendTypes
<1>4. CASE PutBlob \/ PutBlobFails
  <2>1. send_pc = "storing" /\ stored < Len(BlobsOf(sending[1])) /\ stored \in Nat
    BY <1>4 DEF PutBlob, PutBlobFails, MoreBlobs, SendInv
  <2>2. PICK m \in MessageId : sending = <<m>>
    BY <2>1 DEF SendInv
  <2>3. Len(BlobsOf(m)) \in Nat /\ DOMAIN BlobsOf(m) = 1..Len(BlobsOf(m)) /\ sending[1] = m
    BY <2>2 DEF WellFormed
  <2>4. stored + 1 \in DOMAIN BlobsOf(m) /\ stored + 1 <= Len(BlobsOf(m))
    BY <2>1, <2>3
  <2>5. NextBlob \in Range(BlobsOf(m))
    BY <2>3, <2>4 DEF NextBlob, Range
  <2>6. blobs' \subseteq blobs \cup {NextBlob}
    BY <1>4 DEF PutBlob, PutBlobFails
  <2>7. blobs' \subseteq UNION {Range(BlobsOf(k)) : k \in MessageId}
    BY <2>5, <2>6 DEF SendTypes
  <2>8. \/ sending' = sending /\ send_pc' = send_pc /\ stored' = stored + 1
        \/ sending' = <<>> /\ send_pc' = "idle"
    BY <1>4 DEF PutBlob, PutBlobFails, SendReturns
  <2>9. sending # <<>>
    BY <2>2
  <2> QED
    BY <1>2, <2>1, <2>3, <2>4, <2>7, <2>8, <2>9 DEF SendTypes
<1>5. CASE Seal
  BY <1>2, <1>5 DEF Seal, SendTypes
<1>6. CASE Delivered \/ DeliveryFails
  BY <1>2, <1>6 DEF Delivered, DeliveryFails, SendReturns, SendTypes
<1>7. CASE UNCHANGED <<blobs, sendVars>>
  BY <1>2, <1>7 DEF sendVars, SendTypes
<1> QED
  BY <1>3, <1>4, <1>5, <1>6, <1>7
  DEF ClientNext, Send, LateDelivery, Drain, Open, Screen, AckInbox, SendReceipt, Collect, Establish,
     SaveStore, RestartMailbox, clientVars

LEMMA HistoryTypesStep ==
  ASSUME IInv, SendInv, FileInv, HistoryTypes, InboxInv', [ClientNext]_clientVars
  PROVE  HistoryTypes'
<1>1. CASE Send \/ LateDelivery
  <2>1. send_pc # "idle" => sending[1] \in MessageId
    BY DEF SendInv
  <2> QED
    BY <1>1, <2>1 DEF Send, BeginSend, PutBlob, PutBlobFails, Seal, Delivered, DeliveryFails, LateDelivery,
       Arrive, SendInv, inboxVars, historyVars, HistoryTypes
<1>2. CASE \/ Drain \/ Open \/ AckInbox \/ Establish \/ SaveStore \/ RestartMailbox
           \/ UNCHANGED clientVars
  BY <1>2 DEF Drain, Open, AckInbox, Establish, SaveStore, RestartMailbox, clientVars, inboxVars,
     historyVars, HistoryTypes, FileInv
<1>3. CASE Screen
  <2>1. \A i \in DOMAIN inbox' : inbox'[i].id \in MessageId
    BY DEF InboxInv, Opened, IsMessage
  <2> QED
    BY <1>3, <2>1 DEF Screen, HistoryTypes
<1>4. CASE \E r \in Receipt : SendReceipt(r)
  <2>1. PICK r \in Receipt : SendReceipt(r)
    BY <1>4
  <2>2. DedupKey(r) \in ReceiptKey
    BY StoreAssumption DEF DedupKey, ReceiptKey
  <2>3. outstanding' \subseteq outstanding \cup {DedupKey(r)}
    BY <2>1 DEF SendReceipt
  <2> QED
    BY <2>1, <2>2, <2>3 DEF SendReceipt, inboxVars, HistoryTypes
<1>5. CASE Collect
  <2>1. Range(receipts[Author]) \subseteq Receipt
    <3>1. receipts[Author] \in Seq(Receipt)
      BY ClientAssumption DEF IInv, TypeOK
    <3> QED
      BY <3>1, LenProperties, ElementOfSeq DEF Range
  <2>2. acknowledged' \subseteq acknowledged \cup Range(receipts[Author]) \cup Receipt /\ outstanding' = {}
    BY <1>5 DEF Collect
  <2> QED
    BY <1>5, <2>1, <2>2 DEF Collect, inboxVars, HistoryTypes
<1> QED
  BY <1>1, <1>2, <1>3, <1>4, <1>5 DEF ClientNext

LEMMA WorldStep == WorldInv /\ [ClientNext]_clientVars => WorldInv'
<1> SUFFICES ASSUME WorldInv, [ClientNext]_clientVars PROVE WorldInv'
  OBVIOUS
<1>1. letters' = letters /\ policy' = policy /\ established' \in {established, TRUE}
  BY DEF ClientNext, Send, BeginSend, PutBlob, PutBlobFails, Seal, Delivered, DeliveryFails,
     LateDelivery, Drain, Open, Screen, AckInbox, SendReceipt, Collect, Establish, SaveStore,
     RestartMailbox, clientVars, worldVars
<1> QED
  BY <1>1 DEF WorldInv

-----------------------------------------------------------------------------

ClientInv ==
  /\ WellFormed /\ IInv /\ DeliveryInv /\ ReceiptInv /\ FileInv /\ ReturnedMailArrived
  /\ WorldInv /\ InboxInv /\ FailedLookupsNeverAdmit /\ SendTypes /\ HistoryTypes

LEMMA ClientStart == ClientInit => ClientInv
<1> SUFFICES ASSUME ClientInit PROVE ClientInv
  OBVIOUS
<1>1. WorldInv
  <2>1. PICK pair \in Correspondence : letters = pair[1] /\ policy = pair[2]
    BY DEF ClientInit
  <2>2. pair = <<letters, policy>>
    BY <2>1, ClientAssumption
  <2> QED
    BY <2>1, <2>2 DEF ClientInit, WorldInv
<1>2. IInv /\ WellFormed
  BY <1>1, InitInv, LettersTyped, LettersWellFormed DEF ClientInit
<1>3. queues[Recipient] = <<>> /\ receipts[Author] = <<>>
  BY ClientAssumption DEF ClientInit, StoreInit, New, Empty
<1>4. DeliveryInv
  BY <1>3 DEF ClientInit, DeliveryInv, SendInv, HeldMailIsPosted
<1>5. FileInv
  <2>1. /\ store_file.format = "v2" /\ store_file.queues = queues
        /\ store_file.capacity = capacity /\ store_file.receipts = receipts
        /\ saved_outstanding = {} /\ SavedStore(store_file)
    BY <1>2, SavedBytes DEF ClientInit, ToBytes
  <2>2. store_file \in [format : {"v2"}, queues : [Address -> Seq(MessageId)], capacity : Nat,
                        receipts : [Address -> Seq(Receipt)]]
    BY <1>2 DEF ClientInit, ToBytes, IInv, TypeOK
  <2> QED
    BY <1>3, <2>1, <2>2 DEF FileInv
<1>6. ReceiptInv /\ ReturnedMailArrived
  BY <1>3 DEF ClientInit, ReceiptInv, ReceiptsAreIssued, CollectedWereIssued,
     ConfirmedReceiptsAwaitTheAuthor, ReturnedMailArrived
<1>7. InboxInv /\ FailedLookupsNeverAdmit
  <2>1. /\ envelopes = <<>> /\ messages = <<>> /\ inbox = <<>> /\ spam = <<>>
        /\ envelopes \in Seq(Envelope) /\ messages \in Seq(Range(messages))
    BY EmptySeq DEF ClientInit
  <2> QED
    BY <2>1 DEF InboxInv, Opened, FailedLookupsNeverAdmit
<1>8. SendTypes /\ HistoryTypes
  BY DEF ClientInit, SendTypes, HistoryTypes
<1> QED
  BY <1>1, <1>2, <1>4, <1>5, <1>6, <1>7, <1>8 DEF ClientInv

THEOREM ClientInvariant == ClientSpec => []ClientInv
<1>1. ClientInv /\ [ClientNext]_clientVars => ClientInv'
  <2> SUFFICES ASSUME ClientInv, [ClientNext]_clientVars PROVE ClientInv'
    OBVIOUS
  <2>1. WellFormed' /\ IInv' /\ DeliveryInv' /\ ReceiptInv' /\ ReturnedMailArrived'
    BY WellFormedKept, DeliveryStep, ReceiptStep, ReturnedStep, ClientStoreInv
    DEF ClientInv, DeliveryInv
  <2>2. WorldInv' /\ InboxInv' /\ FailedLookupsNeverAdmit'
    BY WorldStep, InboxStep, ScreenedStep DEF ClientInv
  <2>3. SendTypes' /\ HistoryTypes'
    BY <2>2, SendTypesStep, HistoryTypesStep DEF ClientInv, DeliveryInv
  <2>4. FileInv'
    BY FileStep DEF ClientInv, HistoryTypes
  <2> QED
    BY <2>1, <2>2, <2>3, <2>4 DEF ClientInv
<1> QED
  BY <1>1, ClientStart, PTL DEF ClientSpec

(* Every variable of the client has its type, whatever fails or comes      *)
(* late.                                                                   *)
THEOREM ClientTypesOK == ClientSpec => []ClientTypeOK
<1>1. ASSUME ClientInv PROVE ClientTypeOK
  <2>1. sending \in {<<>>} \cup {<<m>> : m \in MessageId}
    BY <1>1 DEF ClientInv, DeliveryInv, SendInv, SendTypes
  <2>2. \A list \in {messages, inbox, spam} : \A i \in DOMAIN list : IsMessage(list[i])
    BY <1>1 DEF ClientInv, InboxInv, Opened
  <2> QED
    BY <1>1, <2>1, <2>2 DEF ClientInv, ClientTypeOK, DeliveryInv, SendInv, SendTypes, HistoryTypes, WorldInv,
       InboxInv, IInv, FileInv
<1> QED
  BY <1>1, ClientInvariant, PTL

(* Whatever is stored, refused, retried or delivered late: an envelope     *)
(* that waits at the mailbox or is listed has its body and attachments in  *)
(* the blob store.                                                         *)
THEOREM ClientMailHasItsBlobs == ClientSpec => []MailHasItsBlobs
<1>1. ASSUME ClientInv PROVE MailHasItsBlobs
  <2>1. \A m : Posted(m) => Range(BlobsOf(m)) \subseteq blobs
    BY DEF Posted, Range
  <2>2. \A m \in Range(queues[Recipient]) : Posted(m)
    BY <1>1 DEF ClientInv, DeliveryInv, HeldMailIsPosted, Range
  <2>3. \A list \in {messages, inbox, spam} : \A i \in DOMAIN list : Posted(list[i].id)
    BY <1>1 DEF ClientInv, InboxInv, Opened
  <2> QED
    BY <2>1, <2>2, <2>3 DEF MailHasItsBlobs
<1> QED
  BY <1>1, ClientInvariant, PTL

(* No envelope the mailbox slips in is listed: each message was sent by    *)
(* its author.                                                             *)
THEOREM ClientListedWereSent == ClientSpec => []ListedWereSent
<1>1. ClientInv => ListedWereSent
  BY DEF ClientInv, InboxInv, Opened, Posted, ListedWereSent
<1> QED
  BY <1>1, ClientInvariant, PTL

(* No lookup that fails gives a message a better place than its sender's   *)
(* standing does.                                                          *)
THEOREM ClientFailedLookupsNeverAdmit == ClientSpec => []FailedLookupsNeverAdmit
<1>1. ClientInv => FailedLookupsNeverAdmit
  BY DEF ClientInv
<1> QED
  BY <1>1, ClientInvariant, PTL

(* What is shown of a message, for what was opened of its body. *)
LEMMA ShownAsComposed ==
  ASSUME NEW x, letters[x.id] \in Letter, AsOpened(x)
  PROVE  LET letter == letters[x.id]
             shown == [body |-> x.body, subject |-> ShownSubject(letter, x)]
         IN  \/ shown = [body |-> letter.body, subject |-> letter.subject]
             \/ shown = [body |-> <<>>, subject |-> EnvelopeSubject(letter)]
             \/ /\ ~letter.seal_subject /\ letter.body # <<>> /\ letter.body[1] = BodyContentMagic
                /\ DecodeFields(Tail(letter.body), 2) # None
<1> DEFINE letter == letters[x.id]
           content == SplitContent(BodyPlaintext(letter))
<1>1. \A y : Some(y) # None /\ Some(y)[1] = y
  BY DEF Some, None
<1>2. CASE x.body = <<>> /\ x.sealed_subject = None
  BY <1>2 DEF ShownSubject
<1>3. CASE x.body = content.body /\ x.sealed_subject = content.sealed_subject
  <2>1. CASE letter.seal_subject
    <3>1. content = [body |-> letter.body, sealed_subject |-> Some(letter.subject)]
      BY <2>1, ContentRoundTrip
    <3> QED
      BY <1>1, <1>3, <3>1 DEF ShownSubject
  <2>2. CASE ~letter.seal_subject
    <3>1. EnvelopeSubject(letter) = letter.subject
      BY <2>2 DEF EnvelopeSubject
    <3>2. \/ content = [body |-> letter.body, sealed_subject |-> None]
          \/ /\ letter.body # <<>> /\ letter.body[1] = BodyContentMagic
             /\ DecodeFields(Tail(letter.body), 2) # None
      BY <2>2, RawBody
    <3> QED
      BY <1>3, <2>2, <3>1, <3>2 DEF ShownSubject
  <2> QED
    BY <2>1, <2>2
<1> QED
  BY <1>2, <1>3 DEF AsOpened

(* The attachments of a posted message. *)
LEMMA AttachmentOpens ==
  ASSUME NEW m \in MessageId, letters[m] \in Letter, Posted(m), WellFormed,
         NEW k \in DOMAIN letters[m].attachments, NEW outcome \in Outcome
  PROVE  OpenAttachment(m, k, outcome)
           = IF outcome = "intact" THEN Some(letters[m].attachments[k]) ELSE None
<1> DEFINE files == letters[m].attachments
           cids == [i \in DOMAIN files |-> <<m, i>>]
           T == {m} \X Nat
<1>1. files \in Seq(Attachment) /\ Len(files) \in Nat /\ DOMAIN files = 1..Len(files)
  BY LenProperties DEF Letter
<1>2. k \in Nat /\ k # 0 /\ files[k] \in Attachment
  BY <1>1, ElementOfSeq
<1>3. <<m, k>> \in blobs
  <2>1. cids \in Seq(T) /\ Len(cids) = Len(files)
    <3>1. cids \in [1..Len(files) -> T]
      BY <1>1
    <3> QED
      BY <1>1, <3>1, IsASeq, LenProperties
  <2>2. BodyCid(m) \in Seq(T) /\ Len(BodyCid(m)) \in Nat
    <3>1. <<>> \in Seq(T) /\ <<m, 0>> \in T
      BY EmptySeq
    <3> HIDE DEF T
    <3>2. <<<<m, 0>>>> \in Seq(T)
      BY <3>1
    <3>3. BodyCid(m) \in Seq(T)
      BY <3>1, <3>2 DEF BodyCid
    <3> QED
      BY <3>3, LenProperties
  <2>3. cids[k] = <<m, k>> /\ BlobsOf(m) = BodyCid(m) \o cids
    BY DEF BlobsOf
  <2> DEFINE j == Len(BodyCid(m)) + k
  <2>4. j \in 1..(Len(BodyCid(m)) + Len(cids)) /\ ~(j <= Len(BodyCid(m))) /\ j - Len(BodyCid(m)) = k
    BY <1>1, <2>1, <2>2
  <2> HIDE DEF T, cids, j
  <2>5. BlobsOf(m)[j] = cids[k] /\ Len(BlobsOf(m)) = Len(BodyCid(m)) + Len(cids)
    <3>1. BodyCid(m) \in Seq(T) /\ cids \in Seq(T)
      BY <2>1, <2>2
    <3>2. /\ Len(BodyCid(m) \o cids) = Len(BodyCid(m)) + Len(cids)
          /\ \A i \in 1..(Len(BodyCid(m)) + Len(cids)) :
               (BodyCid(m) \o cids)[i]
                 = IF i <= Len(BodyCid(m)) THEN BodyCid(m)[i] ELSE cids[i - Len(BodyCid(m))]
      BY <3>1, ConcatProperties
    <3> QED
      BY <2>3, <2>4, <3>2
  <2>6. j \in DOMAIN BlobsOf(m)
    BY <2>4, <2>5 DEF WellFormed
  <2> QED
    BY <2>3, <2>5, <2>6 DEF Posted
<1>4. Plaintext(<<m, k>>) = EncodeAttachment(files[k])
  BY <1>2 DEF Plaintext
<1>5. OpenBlob(<<m, k>>, outcome) = IF outcome = "intact" THEN Some(EncodeAttachment(files[k])) ELSE None
  <2>1. To[<<m, k>>[1]] = Recipient
    BY ClientAssumption
  <2> QED
    BY <1>3, <1>4, <2>1, BlobOpens
<1>6. \A y : Some(y) # None /\ Some(y)[1] = y
  BY DEF Some, None
<1>7. DecodeAttachment(EncodeAttachment(files[k])) = Some(files[k])
  BY <1>2, AttachmentRoundTrip
<1> HIDE DEF files
<1> QED
  BY <1>5, <1>6, <1>7 DEF OpenAttachment, files

(* The recipient sees what was written, to the byte, or nothing of it; a   *)
(* damaged attachment never opens, a whole one as it was attached.         *)
THEOREM ClientOpenedAsComposed == ClientSpec => []OpenedAsComposed
<1>1. ASSUME ClientInv PROVE OpenedAsComposed
  <2>1. ASSUME NEW list \in {messages, inbox, spam}, NEW i \in DOMAIN list
        PROVE  /\ list[i].id \in MessageId /\ letters[list[i].id] \in Letter
               /\ Posted(list[i].id) /\ AsOpened(list[i])
    BY <1>1, <2>1, LettersTyped DEF ClientInv, InboxInv, Opened, IsMessage
  <2> QED
    BY <1>1, <2>1, ShownAsComposed, AttachmentOpens DEF OpenedAsComposed, ClientInv
<1> QED
  BY <1>1, ClientInvariant, PTL

(* An id send returned is one of a message the mailbox stored. *)
THEOREM ClientReturnedMailArrived == ClientSpec => []ReturnedMailArrived
<1>1. ClientInv => ReturnedMailArrived
  BY DEF ClientInv
<1> QED
  BY <1>1, ClientInvariant, PTL

(* No mailbox makes the author believe the recipient got a message the     *)
(* recipient never listed.                                                 *)
THEOREM ClientCollectedWereIssued == ClientSpec => []CollectedWereIssued
<1>1. ClientInv => CollectedWereIssued
  BY DEF ClientInv, ReceiptInv
<1> QED
  BY <1>1, ClientInvariant, PTL

(* A confirmed receipt waits for the author until it is collected, newer   *)
(* ones displace it or a restart takes its deposit back; and one that was  *)
(* saved waits again after each restart.                                   *)
THEOREM ClientReceiptsAwaitTheAuthor == ClientSpec => []ConfirmedReceiptsAwaitTheAuthor
<1>1. ClientInv => ConfirmedReceiptsAwaitTheAuthor
  BY DEF ClientInv, ReceiptInv
<1> QED
  BY <1>1, ClientInvariant, PTL
=============================================================================
