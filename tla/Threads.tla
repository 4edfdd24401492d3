------------------------------ MODULE Threads ------------------------------
(***************************************************************************)
(* Conversations, src/src/thread.rs: the envelopes of an inbox grouped by  *)
(* the root that their in_reply_to links lead to.  The grouping is pure;   *)
(* the state is an inbox that grows one drained envelope at a time, with   *)
(* repetitions, over a correspondence fixed at the start.                  *)
(*                                                                         *)
(* An envelope is its message id, a number so that ids are ordered.  The   *)
(* id is a hash of a body that names the parent, so links have no cycle.   *)
(* A subject is a sequence of tokens: words, signs, digits and blanks.  It *)
(* is whatever the sender gave, a reply's as well; nothing derives it from *)
(* the subject replied to, and a sealed one is a fixed text.               *)
(***************************************************************************)
EXTENDS Naturals, Sequences, FiniteSets, SequencesExt

CONSTANTS
  MessageId,    \* the ids of the messages the inbox may receive
  Unseen,       \* ids of messages that never reach this inbox
  NoParent,     \* the empty in_reply_to
  Time,         \* the clocks' readings
  Lowercase,    \* Lowercase[t]: a token in small letters
  Subjects,     \* what the senders may have given as the subjects
  MaxInbox      \* bound: the envelopes drained

ASSUME ThreadAssumption ==
  /\ MessageId \subseteq Nat /\ Unseen \subseteq Nat
  /\ MessageId \cap Unseen = {} /\ NoParent \in Nat \ (MessageId \cup Unseen)
  /\ Time \subseteq Nat /\ MaxInbox \in Nat
  /\ Subjects \subseteq [MessageId -> Seq(DOMAIN Lowercase)]

VARIABLES
  in_reply_to,  \* in_reply_to[m]: the message m replies to
  sent_at,      \* sent_at[m]: what the sender's clock said
  subject,      \* subject[m]: the subject of its envelope
  inbox         \* the envelopes drained so far, in order

threadVars == <<in_reply_to, sent_at, subject, inbox>>

ThreadTypeOK ==
  /\ in_reply_to \in [MessageId -> MessageId \cup Unseen \cup {NoParent}]
  /\ sent_at \in [MessageId -> Time] /\ subject \in Subjects
  /\ inbox \in Seq(MessageId)

-----------------------------------------------------------------------------

(* The elements of S by how many come before them, in a strict order of    *)
(* pairs.                                                                  *)
Sorted(S, before) ==
  LET rank == [x \in S |-> Cardinality({y \in S : <<y, x>> \in before})]
  IN  [i \in 1..Cardinality(S) |-> CHOOSE x \in S : rank[x] = i - 1]

ReplyPrefixes == {"re", "fwd", "fw", "aw", "sv", "vs"}

Digit == {"0", "1", "2", "3", "4", "5", "6", "7", "8", "9"}

Blank == " "

(* strip_prefix_token: the places of the colon that ends a reply prefix at *)
(* place i, one at most.  Between may stand a bracketed count.             *)
PrefixEnd(s, i) ==
  LET counted(c) ==
        /\ c > i + 2 /\ s[i + 1] = "[" /\ s[c - 1] = "]"
        /\ \A j \in (i + 2)..(c - 2) : s[j] \in Digit
  IN  {c \in (i + 1)..Len(s) :
         Lowercase[s[i]] \in ReplyPrefixes /\ s[c] = ":" /\ (c = i + 1 \/ counted(c))}

(* trim_start: the place of the first token from i on that is no blank.    *)
FirstText(s, i) == {j \in i..Len(s) : s[j] # Blank /\ \A k \in i..(j - 1) : s[k] = Blank}

(* Where the reply prefix ends that the text from i on begins with.        *)
PrefixEndsFrom(s, i) == UNION {PrefixEnd(s, j) : j \in FirstText(s, i)}

(* Mutant of TitleStart: one prefix is taken off. *)
TitleAfterOnePrefix(s) ==
  LET ends == PrefixEndsFrom(s, 1)
  IN  IF ends = {} THEN FirstText(s, 1) ELSE UNION {FirstText(s, c + 1) : c \in ends}

(* The place where a subject begins behind blanks and prefixes, if there   *)
(* is one.                                                                 *)
TitleStart(s) ==
  LET start[i \in 1..(Len(s) + 1)] ==
        IF PrefixEndsFrom(s, i) = {} THEN FirstText(s, i)
        ELSE UNION {start[c + 1] : c \in PrefixEndsFrom(s, i)}
  IN  start[1]

(* normalize_subject: without prefixes, blanks collapsed, in small letters. *)
NormalizeSubject(s) ==
  LET text == UNION {i..Len(s) : i \in TitleStart(s)}
      kept == {i \in text : s[i] = Blank => s[i - 1] # Blank /\ \E j \in text : j > i /\ s[j] # Blank}
      places == Sorted(kept, {pair \in kept \X kept : pair[1] < pair[2]})
  IN  [i \in DOMAIN places |-> Lowercase[s[places[i]]]]

-----------------------------------------------------------------------------

Parents(ms) ==
  LET replies == {m \in ms : in_reply_to[m] # NoParent}
  IN  [m \in replies |-> in_reply_to[m]]

(* Mutant of ResolveRoot: a message threads on its direct parent. *)
DirectParent(target, parents) ==
  IF target \in DOMAIN parents THEN parents[target] ELSE target

(* resolve_root: climb from target until a message without a parent in the *)
(* map, the parent that is not in it, or a repetition.                     *)
ResolveRoot(target, parents) ==
  LET climb[place \in MessageId \X SUBSET MessageId] ==
        LET current == place[1]
            seen == place[2]
        IN  IF current \notin DOMAIN parents \/ parents[current] \in seen THEN current
            ELSE LET parent == parents[current]
                 IN  IF parent \in DOMAIN parents THEN climb[<<parent, seen \cup {parent}>>]
                     ELSE parent
  IN  climb[<<target, {target}>>]

(* The orders: messages by time and id, conversations by time and root. *)
Earlier(ms) ==
  {pair \in ms \X ms :
     LET m == pair[1]
         n == pair[2]
     IN  sent_at[m] < sent_at[n] \/ (sent_at[m] = sent_at[n] /\ m < n)}

MoreRecent(active) ==
  {pair \in (DOMAIN active) \X (DOMAIN active) :
     LET r == pair[1]
         s == pair[2]
     IN  active[r] > active[s] \/ (active[r] = active[s] /\ r < s)}

(* Mutant of LastActivity: the oldest message dates a conversation. *)
FirstActivity(ms) == CHOOSE t \in Time : /\ \E m \in ms : sent_at[m] = t
                                         /\ \A m \in ms : sent_at[m] >= t

LastActivity(ms) == CHOOSE t \in Time : /\ \E m \in ms : sent_at[m] = t
                                        /\ \A m \in ms : sent_at[m] <= t

(* group_threads: one conversation per root, its messages oldest first,    *)
(* the conversation with the latest activity first.                        *)
GroupThreads(envelopes) ==
  LET ms == ToSet(envelopes)
      parents == Parents(ms)
      Under(root) == {m \in ms : ResolveRoot(m, parents) = root}
      active == [r \in {ResolveRoot(m, parents) : m \in ms} |-> LastActivity(Under(r))]
      roots == Sorted(DOMAIN active, MoreRecent(active))
  IN  [i \in DOMAIN roots |->
         [root |-> roots[i], messages |-> Sorted(Under(roots[i]), Earlier(Under(roots[i])))]]

(* Conversation::subject: of the first message listed, which is the root   *)
(* only when the inbox has it and no clock is behind.                      *)
Subject(conversation) == NormalizeSubject(subject[conversation.messages[1]])

-----------------------------------------------------------------------------

Acyclic(f) ==
  \A S \in SUBSET DOMAIN f : S # {} => \E m \in S : f[m] \notin S

ThreadInit ==
  /\ in_reply_to \in {f \in [MessageId -> MessageId \cup Unseen \cup {NoParent}] : Acyclic(f)}
  /\ sent_at \in [MessageId -> Time] /\ subject \in Subjects
  /\ inbox = <<>>

(* Mutant of Receive: the parent named by a reply is taken for received. *)
ReceiveWithParent ==
  /\ Len(inbox) < MaxInbox
  /\ \E m \in MessageId : inbox' = Append(inbox, in_reply_to[m])
  /\ UNCHANGED <<in_reply_to, sent_at, subject>>

Receive ==
  /\ Len(inbox) < MaxInbox
  /\ \E m \in MessageId : inbox' = Append(inbox, m)
  /\ UNCHANGED <<in_reply_to, sent_at, subject>>

ThreadSpec == ThreadInit /\ [][Receive]_threadVars

-----------------------------------------------------------------------------

(* m and n are connected by replies among what the inbox holds: no set of  *)
(* messages closed under sharing or being a parent separates them.         *)
Linked(x, y) == in_reply_to[x] = y \/ in_reply_to[y] = x
                \/ (in_reply_to[x] = in_reply_to[y] /\ in_reply_to[x] # NoParent)

Connected(m, n, ms) ==
  \A S \in SUBSET ms :
    (m \in S /\ \A x \in S, y \in ms : Linked(x, y) => y \in S) => n \in S

Together(m, n, conversations) ==
  \E i \in DOMAIN conversations :
    {m, n} \subseteq ToSet(conversations[i].messages)

(* Two messages are in one conversation exactly when replies connect them, *)
(* also through a parent the inbox has never seen.                         *)
ConversationsAreComponents ==
  LET conversations == GroupThreads(inbox)
  IN  \A m, n \in ToSet(inbox) :
        Together(m, n, conversations) <=> Connected(m, n, ToSet(inbox))

(* Nothing but blanks and reply prefixes, which end at the places in ends. *)
OnlyPrefixes(s) ==
  \E ends \in SUBSET (0..Len(s)) :
    /\ 0 \in ends
    /\ \A c \in ends : FirstText(s, c + 1) = {} \/ PrefixEndsFrom(s, c + 1) \cap ends # {}

(* Bare[s]: what s may be without reply prefixes before it, none to all.   *)
Bare ==
  [s \in UNION {Range(f) : f \in Subjects} |->
     {SubSeq(s, l + 1, Len(s)) : l \in {k \in 0..Len(s) : OnlyPrefixes(SubSeq(s, 1, k))}}]

(* A conversation has the title of the message its clocks put first, in    *)
(* whatever order and however often its messages came, and of each that    *)
(* has that one's subject behind more or fewer prefixes: among such, no    *)
(* clock and no missing message changes the title.  A reply with another   *)
(* subject, or a sealed one, may title the conversation.                   *)
TitlesIgnorePrefixes ==
  LET conversations == GroupThreads(inbox)
  IN  \A i \in DOMAIN conversations :
        LET ms == ToSet(conversations[i].messages)
        IN  \E oldest \in ms :
              /\ \A m \in ms : sent_at[oldest] <= sent_at[m]
              /\ \A m \in ms :
                   Bare[subject[m]] \cap Bare[subject[oldest]] # {} =>
                     Subject(conversations[i]) = NormalizeSubject(subject[m])

(* However often a message was drained, it is listed once, in one          *)
(* conversation; conversations come latest activity first.                 *)
ListedOnceLatestFirst ==
  LET conversations == GroupThreads(inbox)
  IN  /\ FlattenSeq([i \in DOMAIN conversations |-> conversations[i].messages])
           \in SetToSeqs(ToSet(inbox))
      /\ \A i, j \in DOMAIN conversations : i < j =>
           \A n \in ToSet(conversations[j].messages) :
             \E m \in ToSet(conversations[i].messages) : sent_at[m] >= sent_at[n]
=============================================================================
