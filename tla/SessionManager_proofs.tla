------------------------- MODULE SessionManager_proofs -------------------------
(***************************************************************************)
(* The session for every set of clients and turns. ShapeInv says what a    *)
(* stored transcript looks like at every step of every task, and gives     *)
(* that a run opens on a closed history and that the file can always be    *)
(* resumed. IInv says how the lane, the objects and the threads agree, and *)
(* LogInv adds what a save means: with no deletion and no operation        *)
(* cancelled twice, the lane is exclusive, the cached history is the       *)
(* stored one, and the document is the abstract log of ConversationLog.    *)
(***************************************************************************)
EXTENDS SessionManager, SequenceTheorems, FiniteSetTheorems, TLAPS

(***************************************************************************)
(* Sequences: the least element of a set, the elements At a set of         *)
(* positions, and the sequence a flattening joins.                         *)
(***************************************************************************)

\* Induction over the positions of a sequence, stated for sets: the library states
\* it for operators.
LEMMA Least ==
  ASSUME NEW S \in SUBSET Nat, S # {}
  PROVE  \E n \in S : \A m \in S : n <= m
<1> DEFINE Below == OpToRel(<, Nat)
<1>1. \A x, y \in Nat : y < x => <<y, x>> \in Below
  BY Zenon DEF OpToRel
<1>2. \E x \in S : \A y \in S : <<y, x>> \notin Below
  BY NatLessThanWellFounded, WFMin, Zenon
<1> HIDE DEF Below
<1>3. PICK x \in S : \A y \in S : <<y, x>> \notin Below
  BY <1>2
<1>4. \A y \in S : ~(y < x)
  BY <1>1, <1>3, Zenon
<1>5. QED BY <1>4

\* Induction up to n: a set with 0 and every successor has all of 0..n.
LEMMA UpTo ==
  ASSUME NEW n \in Nat, NEW S, 0 \in S, \A i \in 1..n : i - 1 \in S => i \in S
  PROVE  \A i \in 0..n : i \in S
<1> DEFINE Out == {i \in 0..n : i \notin S}
<1>1. SUFFICES ASSUME Out # {} PROVE FALSE
  OBVIOUS
<1>2. Out \in SUBSET Nat
  OBVIOUS
<1>3. PICK k \in Out : \A m \in Out : k <= m
  <2> HIDE DEF Out
  <2> QED BY <1>1, <1>2, Least
<1>4. k \in 1..n /\ k - 1 \in 0..n /\ ~(k <= k - 1)
  BY <1>3
<1>5. k - 1 \in S
  BY <1>3, <1>4
<1>6. QED BY <1>3, <1>4, <1>5

\* What the loops of the transcript compute, given the partial results g.
Keeps(g, s, I, n) ==
  /\ g[0] = <<>>
  /\ \A i \in 1..n : g[i] = IF i \in I THEN Append(g[i - 1], s[i]) ELSE g[i - 1]

\* At(s, I) is the last element of any sequence built the way At builds its
\* own.
LEMMA AtIs ==
  ASSUME NEW s, NEW I, NEW g, NEW n \in Nat, Len(s) = n, Keeps(g, s, I, n)
  PROVE  At(s, I) = g[n]
<1> USE DEF Keeps
<1> DEFINE Step(f, i) == IF i = 0 THEN <<>>
                         ELSE IF i \in I THEN Append(f[i - 1], s[i]) ELSE f[i - 1]
           at == CHOOSE f : f = [i \in 0..n |-> Step(f, i)]
           h == [i \in 0..n |-> g[i]]
<1>1. h = [i \in 0..n |-> Step(h, i)]
  OBVIOUS
<1>2. at = [i \in 0..n |-> Step(at, i)]
  <2> HIDE DEF h, Step
  <2> QED BY <1>1
<1>3. At(s, I) = at[n]
  BY DEF At
<1> HIDE DEF at
<1>4. \A i \in 0..n : at[i] = Step(at, i)
  <2> HIDE DEF Step
  <2> QED BY <1>2, Zenon
<1>5. \A i \in 0..n : at[i] = g[i]
  <2> DEFINE Same == {i \in 0..n : at[i] = g[i]}
  <2>1. 0 \in Same
    BY <1>4
  <2>2. \A i \in 1..n : i - 1 \in Same => i \in Same
    BY <1>4
  <2>3. \A i \in 0..n : i \in Same
    <3> HIDE DEF Same
    <3> QED BY <2>1, <2>2, UpTo
  <2>4. QED BY <2>3
<1>6. QED BY <1>3, <1>5

Joins(g, s, n) == g[1] = s[1] /\ \A i \in 2..n : g[i] = g[i - 1] \o s[i]

\* FlattenSeq(s) is the last element of any sequence that joins s one by one.
LEMMA FlattenIs ==
  ASSUME NEW s, NEW g, NEW n \in Nat \ {0}, Len(s) = n, Joins(g, s, n)
  PROVE  FlattenSeq(s) = g[n]
<1> USE DEF Joins
<1> DEFINE Step(f, i) == IF i = 1 THEN s[i] ELSE f[i - 1] \o s[i]
           flat == CHOOSE f : f = [i \in 1..n |-> Step(f, i)]
           h == [i \in 1..n |-> g[i]]
<1>1. h = [i \in 1..n |-> Step(h, i)]
  <2>1. ASSUME NEW i \in 1..n PROVE g[i] = Step(h, i)
    <3>1. CASE i = 1
      BY <3>1
    <3>2. CASE i # 1
      <4>1. i \in 2..n /\ h[i - 1] = g[i - 1]
        BY <3>2
      <4>2. g[i] = g[i - 1] \o s[i]
        BY <4>1
      <4>3. QED BY <3>2, <4>1, <4>2
    <3>3. QED BY <3>1, <3>2
  <2>2. QED BY <2>1
<1>2. flat = [i \in 1..n |-> Step(flat, i)]
  <2> HIDE DEF h, Step
  <2> QED BY <1>1
<1>3. FlattenSeq(s) = flat[n]
  BY DEF FlattenSeq
<1> HIDE DEF flat
<1>4. \A i \in 1..n : flat[i] = Step(flat, i)
  <2> HIDE DEF Step
  <2> QED BY <1>2, Zenon
<1>5. \A i \in 1..n : flat[i] = g[i]
  <2> DEFINE Same == {i \in 0..n : i = 0 \/ flat[i] = g[i]}
  <2>1. ASSUME NEW i \in 1..n, i - 1 \in Same PROVE i \in Same
    <3>1. CASE i = 1
      BY <1>4, <3>1
    <3>2. CASE i # 1
      <4>1. i \in 2..n /\ flat[i - 1] = g[i - 1]
        BY <2>1, <3>2
      <4>2. g[i] = g[i - 1] \o s[i] /\ flat[i] = flat[i - 1] \o s[i]
        BY <1>4, <4>1
      <4>3. flat[i] = g[i]
        BY <4>1, <4>2, Zenon
      <4>4. QED BY <4>3
    <3>3. QED BY <3>1, <3>2
  <2>2. \A i \in 0..n : i \in Same
    <3>1. 0 \in Same
      OBVIOUS
    <3> HIDE DEF Same
    <3> QED BY <2>1, <3>1, UpTo
  <2>3. QED BY <2>2
<1>6. QED BY <1>3, <1>5
\* What is kept from some position on is the end of the sequence.
LEMMA AtFrom ==
  ASSUME NEW T, NEW s \in Seq(T), NEW I, NEW k \in 1..(Len(s) + 1),
         \A i \in 1..Len(s) : i \in I <=> i >= k
  PROVE  At(s, I) = SubSeq(s, k, Len(s))
<1> DEFINE n == Len(s)
           g == [i \in 0..n |-> SubSeq(s, k, i)]
<1>1. n \in Nat /\ k \in 1..(n + 1)
  OBVIOUS
<1>2. g[0] = <<>>
  BY <1>1, SubSeqEmpty
<1>3. ASSUME NEW i \in 1..n
      PROVE  g[i] = IF i \in I THEN Append(g[i - 1], s[i]) ELSE g[i - 1]
  <2>1. g[i] = SubSeq(s, k, i) /\ g[i - 1] = SubSeq(s, k, i - 1)
    BY <1>1
  <2>2. CASE i < k
    <3>1. SubSeq(s, k, i) = <<>> /\ SubSeq(s, k, i - 1) = <<>> /\ i \notin I
      BY <1>1, <2>2, SubSeqEmpty
    <3>2. QED BY <2>1, <3>1
  <2>3. CASE i >= k
    <3>1. SubSeq(s, k, i) = Append(SubSeq(s, k, i - 1), s[i])
      BY <1>1, <2>3, SubSeqRecursiveSecond
    <3>2. i \in I
      BY <2>3
    <3>3. QED BY <2>1, <3>1, <3>2
  <2>4. QED BY <1>1, <2>2, <2>3
<1>4. Keeps(g, s, I, n)
  <2> HIDE DEF g, n
  <2> QED BY <1>2, <1>3, Zenon DEF Keeps
<1>5. g[n] = SubSeq(s, k, n)
  BY <1>1
<1>6. At(s, I) = g[n]
  <2> HIDE DEF g
  <2> QED BY <1>1, <1>4, AtIs
<1>7. QED BY <1>5, <1>6

\* At the positions of the whole sequence, nothing goes.
LEMMA AtAll ==
  ASSUME NEW T, NEW s \in Seq(T), NEW I, \A i \in 1..Len(s) : i \in I
  PROVE  At(s, I) = s
<1>1. At(s, I) = SubSeq(s, 1, Len(s))
  BY AtFrom
<1>2. QED BY <1>1, SubSeqFull

(***************************************************************************)
(* The transcripts a session stores, and what each of the passes of the    *)
(* repair does to one: nothing, but for the results that are missing.      *)
(***************************************************************************)

Just(S) == {<<x>> : x \in S}
Speech == Turns \union {InterruptedReply, InterruptedTool, LostResult}

\* The messages a session stores.
Messages ==
  {m \in [role : {"user", "assistant", "tool"}, text : {<<>>} \union Just(Speech),
          parts : {FALSE}, reasoning : {FALSE}, calls : {<<>>} \union Just(Turns),
          ref : Turns \union {NoCall}, ui : BOOLEAN] :
     /\ m.role = "user" =>
          m.text \in Just(Turns) /\ m.calls = <<>> /\ m.ref = NoCall /\ m.ui = FALSE
     /\ m.role = "tool" =>
          m.text # <<>> /\ m.calls = <<>> /\ m.ref \in Turns /\ m.ui = FALSE
     /\ m.role = "assistant" => m.ref = NoCall /\ (m.calls = <<>> <=> m.text # <<>>)}

Asks(m)    == m.role = "assistant" /\ m.calls # <<>>
Replies(m) == m.role = "assistant" /\ m.calls = <<>>

\* A turn is a user message, at most one call with its result, and a reply; it may
\* stop anywhere, and the next begins behind a reply.
Order(h) ==
  \A i \in 1..Len(h) :
    /\ h[i].role = "user" => i = 1 \/ Replies(h[i - 1])
    /\ Asks(h[i]) => i # 1 /\ h[i - 1].role = "user" /\ h[i].calls = h[i - 1].text
    /\ h[i].role = "tool" => i # 1 /\ Asks(h[i - 1]) /\ h[i - 1].calls = <<h[i].ref>>
    /\ Replies(h[i]) => i # 1 /\ h[i - 1].role \in {"user", "tool"}
Distinct(h) ==
  \A i, j \in 1..Len(h) :
    h[i].role = "user" /\ h[j].role = "user" /\ h[i].text = h[j].text => i = j
Conversation(h) == h \in Seq(Messages) /\ Order(h) /\ Distinct(h)

Bare(h) == [i \in 1..Len(h) |-> [h[i] EXCEPT !.ui = FALSE]]
Filled(h) == IF h # <<>> /\ Asks(h[Len(h)])
             THEN Append(h, ToolResult(h[Len(h)].calls[1], LostResult))
             ELSE h

\* The fields of a stored message, one by one.
LEMMA MessageFields ==
  ASSUME NEW m \in Messages
  PROVE  /\ m.role \in {"user", "assistant", "tool"}
         /\ m.parts = FALSE /\ m.reasoning = FALSE /\ m.ui \in BOOLEAN
         /\ m.text = <<>> \/ \E w \in Speech : m.text = <<w>>
         /\ m.calls = <<>> \/ \E t \in Turns : m.calls = <<t>>
         /\ m.ref \in Turns \union {NoCall}
         /\ m.role = "user" =>
              (\E t \in Turns : m.text = <<t>>) /\ m.calls = <<>> /\ m.ref = NoCall /\ m.ui = FALSE
         /\ m.role = "tool" =>
              m.text # <<>> /\ m.calls = <<>> /\ m.ref \in Turns /\ m.ui = FALSE
         /\ m.role = "assistant" => m.ref = NoCall /\ (m.calls = <<>> <=> m.text # <<>>)
BY DEF Messages, Just

\* Taking the annotation off a message leaves the rest.
LEMMA BareMessage ==
  ASSUME NEW m \in Messages
  PROVE  LET b == [m EXCEPT !.ui = FALSE]
         IN  /\ b \in Messages
             /\ b.role = m.role /\ b.text = m.text /\ b.calls = m.calls /\ b.ref = m.ref
             /\ b.ui = FALSE
BY DEF Messages

\* Taking the annotations off a transcript leaves it well formed.
LEMMA BareConversation ==
  ASSUME NEW h, Conversation(h)
  PROVE  /\ Bare(h) \in Seq(Messages) /\ Len(Bare(h)) = Len(h) /\ Conversation(Bare(h))
         /\ \A i \in 1..Len(h) :
              /\ Bare(h)[i].role = h[i].role /\ Bare(h)[i].text = h[i].text
              /\ Bare(h)[i].calls = h[i].calls /\ Bare(h)[i].ref = h[i].ref
              /\ Bare(h)[i].ui = FALSE
<1> DEFINE n == Len(h)
           b == Bare(h)
<1>1. n \in Nat /\ h \in Seq(Messages) /\ \A i \in 1..n : h[i] \in Messages
  BY DEF Conversation
<1>2. b = [i \in 1..n |-> [h[i] EXCEPT !.ui = FALSE]]
  BY DEF Bare
<1> HIDE DEF b, n
<1>3. \A i \in 1..n : /\ b[i] = [h[i] EXCEPT !.ui = FALSE] /\ b[i] \in Messages
                     /\ b[i].role = h[i].role /\ b[i].text = h[i].text
                     /\ b[i].calls = h[i].calls /\ b[i].ref = h[i].ref
                     /\ b[i].ui = FALSE
  BY <1>1, <1>2, BareMessage
<1>4. b \in Seq(Messages) /\ Len(b) = n
  BY <1>1, <1>2, <1>3
<1>5. Order(b)
  <2> SUFFICES ASSUME NEW i \in 1..n
      PROVE  /\ b[i].role = "user" => i = 1 \/ Replies(b[i - 1])
             /\ Asks(b[i]) => i # 1 /\ b[i - 1].role = "user" /\ b[i].calls = b[i - 1].text
             /\ b[i].role = "tool" => i # 1 /\ Asks(b[i - 1]) /\ b[i - 1].calls = <<b[i].ref>>
             /\ Replies(b[i]) => i # 1 /\ b[i - 1].role \in {"user", "tool"}
    BY <1>4 DEF Order
  <2>1. i # 1 => i - 1 \in 1..n
    BY <1>1
  <2>2. /\ h[i].role = "user" => i = 1 \/ Replies(h[i - 1])
        /\ Asks(h[i]) => i # 1 /\ h[i - 1].role = "user" /\ h[i].calls = h[i - 1].text
        /\ h[i].role = "tool" => i # 1 /\ Asks(h[i - 1]) /\ h[i - 1].calls = <<h[i].ref>>
        /\ Replies(h[i]) => i # 1 /\ h[i - 1].role \in {"user", "tool"}
    BY DEF Conversation, Order, n
  <2>3. QED BY <1>3, <2>1, <2>2 DEF Asks, Replies
<1>6. Distinct(b)
  <2>1. Distinct(h)
    BY DEF Conversation
  <2>2. QED BY <1>3, <1>4, <2>1 DEF Distinct, n
<1>7. QED BY <1>3, <1>4, <1>5, <1>6 DEF Conversation, n, b

\* _sanitize_messages only takes the annotations off a stored transcript.
LEMMA Sanitized ==
  ASSUME NEW h, Conversation(h)
  PROVE  SanitizeMessages(h) = Bare(h)
<1>1. h \in Seq(Messages) /\ DOMAIN h = 1..Len(h)
  BY DEF Conversation
<1>2. \A i \in 1..Len(h) : h[i].role \in AllowedRoles
  <2>1. \A m \in Messages : m.role \in AllowedRoles
    BY DEF Messages, AllowedRoles
  <2>2. QED BY <1>1, <2>1
<1>3. At(h, {i \in DOMAIN h : h[i].role \in AllowedRoles}) = h
  BY <1>1, <1>2, AtAll
<1>4. QED BY <1>1, <1>3 DEF SanitizeMessages, Bare

\* _drop_empty_messages drops nothing from a stored transcript.
LEMMA NothingEmpty ==
  ASSUME NEW h, Conversation(h)
  PROVE  DropEmptyMessages(h) = h
<1> DEFINE Kept(m) == \/ m.role = "assistant" /\ (m.calls # <<>> \/ m.reasoning)
                      \/ m.role = "tool" /\ m.ref # NoCall
                      \/ HasContent(m)
           I == {i \in DOMAIN h : Kept(h[i])}
<1>1. h \in Seq(Messages) /\ DOMAIN h = 1..Len(h)
  BY DEF Conversation
<1>2. ASSUME NEW m \in Messages PROVE Kept(m)
  <2>1. m.role \in {"user", "assistant", "tool"}
    BY MessageFields
  <2>2. CASE m.role = "user"
    <3>1. PICK t : m.text = <<t>>
      BY <2>2, MessageFields
    <3>2. QED BY <3>1 DEF HasContent
  <2>3. CASE m.role = "tool"
    BY <2>3, MessageFields DEF HasContent
  <2>4. CASE m.role = "assistant"
    BY <2>4, MessageFields DEF HasContent
  <2>5. QED BY <2>1, <2>2, <2>3, <2>4
<1>3. \A i \in 1..Len(h) : i \in I
  <2> HIDE DEF Kept
  <2> QED BY <1>1, <1>2
<1>4. At(h, I) = h
  <2> HIDE DEF I
  <2> QED BY <1>1, <1>3, AtAll
<1>5. QED BY <1>4 DEF DropEmptyMessages

\* A sequence of one part is that part.
LEMMA FlattenOne == \A x : FlattenSeq(<<x>>) = x
<1> TAKE x
<1>1. Joins(<<x>>, <<x>>, 1)
  BY DEF Joins
<1>2. Len(<<x>>) = 1 /\ 1 \in Nat \ {0} /\ <<x>>[1] = x
  OBVIOUS
<1>3. FlattenSeq(<<x>>) = <<x>>[1]
  BY <1>1, <1>2, FlattenIs
<1>4. QED BY <1>2, <1>3

\* _merge_consecutive_text merges nothing in a stored transcript.
LEMMA NothingMerged ==
  ASSUME NEW h, Conversation(h)
  PROVE  MergeConsecutiveText(h) = h
<1> DEFINE n == Len(h)
           Mergeable(a, b) == /\ b.role \in {"user", "assistant"}
                              /\ a.role = b.role
                              /\ IsPlainText(a) /\ IsPlainText(b)
           positions == [i \in DOMAIN h |-> i]
           Opens == {i \in DOMAIN h : i = 1 \/ ~Mergeable(h[i - 1], h[i])}
           opening == At(positions, Opens)
           Until(k) == IF k = Len(opening) THEN Len(h) ELSE opening[k + 1] - 1
           TextOf(k) == FlattenSeq([j \in 1..(Until(k) - opening[k] + 1) |->
                                      h[opening[k] + j - 1].text])
<1>1. h \in Seq(Messages) /\ n \in Nat /\ DOMAIN h = 1..n /\ \A i \in 1..n : h[i] \in Messages
  BY DEF Conversation
<1>2. ASSUME NEW i \in 1..n PROVE i \in Opens
  <2>1. CASE i = 1
    BY <1>1, <2>1
  <2>2. CASE i # 1
    <3>1. i - 1 \in 1..n
      BY <1>1, <2>2
    <3>2. ~Mergeable(h[i - 1], h[i])
      <4>1. /\ h[i].role = "user" => i = 1 \/ Replies(h[i - 1])
            /\ Replies(h[i]) => i # 1 /\ h[i - 1].role \in {"user", "tool"}
        BY DEF Conversation, Order
      <4>2. QED BY <2>2, <4>1 DEF IsPlainText, Replies
    <3>3. QED BY <1>1, <3>2
  <2>3. QED BY <2>1, <2>2
<1>3. opening = [i \in 1..n |-> i]
  <2>1. positions \in Seq(Nat) /\ Len(positions) = n
    BY <1>1
  <2> HIDE DEF Opens
  <2>2. At(positions, Opens) = positions
    BY <1>2, <2>1, AtAll
  <2>3. QED BY <1>1, <2>2
<1>4. Len(opening) = n /\ DOMAIN opening = 1..n /\ \A k \in 1..n : opening[k] = k
  <2> HIDE DEF opening
  <2> QED BY <1>1, <1>3
<1> HIDE DEF opening
<1>5. ASSUME NEW k \in 1..n PROVE [h[opening[k]] EXCEPT !.text = TextOf(k)] = h[k]
  <2>1. Until(k) = k /\ opening[k] = k
    <3>1. CASE k = n
      BY <1>1, <1>4, <3>1
    <3>2. CASE k # n
      <4>1. n \in Nat /\ k \in 1..n /\ k # n
        BY <1>1, <3>2
      <4>2. k + 1 \in 1..n
        <5> HIDE DEF n
        <5> QED BY <4>1
      <4>3. opening[k + 1] = k + 1 /\ opening[k] = k /\ k # Len(opening)
        BY <1>4, <4>1, <4>2, Zenon
      <4>4. Until(k) = opening[k + 1] - 1
        BY <4>3, Zenon
      <4>5. QED
        <5> HIDE DEF Until, n
        <5> QED BY <4>1, <4>3, <4>4
    <3>3. QED BY <3>1, <3>2
  <2>2. [j \in 1..(Until(k) - opening[k] + 1) |-> h[opening[k] + j - 1].text] = <<h[k].text>>
    <3> HIDE DEF Until
    <3>1. Until(k) - opening[k] + 1 = 1
      BY <2>1
    <3>2. [j \in 1..1 |-> h[opening[k] + j - 1].text] = <<h[k].text>>
      BY <1>4
    <3>3. QED BY <3>1, <3>2
  <2>3. TextOf(k) = h[k].text
    BY <2>2, FlattenOne
  <2> HIDE DEF TextOf
  <2>4. h[k] \in Messages /\ opening[k] = k
    BY <1>1, <1>4
  <2>5. [h[k] EXCEPT !.text = h[k].text] = h[k]
    BY <2>4 DEF Messages
  <2>6. QED BY <2>3, <2>4, <2>5
<1>6. MergeConsecutiveText(h) = [k \in DOMAIN opening |-> [h[opening[k]] EXCEPT !.text = TextOf(k)]]
  BY DEF MergeConsecutiveText, opening
<1> HIDE DEF TextOf
<1>7. MergeConsecutiveText(h) = [k \in 1..n |-> h[k]]
  BY <1>4, <1>5, <1>6
<1>8. QED BY <1>1, <1>7

\* _drop_orphan_tool_results drops nothing from a stored transcript.
LEMMA NothingOrphaned ==
  ASSUME NEW h, Conversation(h)
  PROVE  DropOrphanToolResults(h) = h
<1> DEFINE DeclaredBefore(i) == UNION {CallIds(h[j]) : j \in 1..(i - 1)}
           I == {i \in DOMAIN h : h[i].role = "tool" => h[i].ref \in DeclaredBefore(i)}
<1>1. h \in Seq(Messages) /\ DOMAIN h = 1..Len(h) /\ \A i \in 1..Len(h) : h[i] \in Messages
  BY DEF Conversation
<1>2. ASSUME NEW i \in 1..Len(h), h[i].role = "tool" PROVE h[i].ref \in DeclaredBefore(i)
  <2>1. i # 1 /\ Asks(h[i - 1]) /\ h[i - 1].calls = <<h[i].ref>>
    BY <1>2 DEF Conversation, Order
  <2>2. i - 1 \in 1..(i - 1)
    BY <2>1
  <2>3. h[i].ref \in Turns /\ h[i].ref # NoCall
    BY <1>1, <1>2, MessageFields, ConstantsAssumption
  <2>4. Range(<<h[i].ref>>) = {h[i].ref}
    BY DEF Range
  <2>5. h[i].ref \in CallIds(h[i - 1])
    BY <2>1, <2>3, <2>4 DEF CallIds, Asks
  <2>6. QED BY <2>2, <2>5
<1>3. \A i \in 1..Len(h) : i \in I
  <2> HIDE DEF DeclaredBefore
  <2> QED BY <1>1, <1>2
<1>4. At(h, I) = h
  <2> HIDE DEF I
  <2> QED BY <1>1, <1>3, AtAll
<1>5. QED BY <1>4 DEF DropOrphanToolResults

\* One message after another.
LEMMA Pairs ==
  ASSUME NEW x, NEW y
  PROVE  <<x>> \o <<y>> = <<x, y>> /\ Append(<<x>>, y) = <<x, y>>
<1> DEFINE S == {x, y}
<1>1. <<x>> \in Seq(S) /\ <<y>> \in Seq(S) /\ <<x, y>> \in Seq(S) /\ y \in S
  OBVIOUS
<1>2. Append(<<x>>, y) = <<x>> \o <<y>>
  BY <1>1, AppendIsConcat
<1>3. /\ Len(<<x>>) = 1 /\ Len(<<y>>) = 1 /\ Len(<<x, y>>) = 2
      /\ <<x>>[1] = x /\ <<y>>[1] = y /\ <<x, y>>[1] = x /\ <<x, y>>[2] = y
  OBVIOUS
<1>4. PICK p, a, b : p = <<x, y>> /\ a = <<x>> /\ b = <<y>>
  OBVIOUS
<1> HIDE DEF S
<1>5. a \o b \in Seq(S) /\ Len(a \o b) = 2 /\ (a \o b)[1] = x /\ (a \o b)[2] = y
  BY <1>1, <1>3, <1>4, ConcatProperties
<1>6. a \o b = p
  <2>1. \A i \in 1..2 : (a \o b)[i] = p[i]
    BY <1>3, <1>4, <1>5
  <2>2. QED BY <1>1, <1>3, <1>4, <1>5, <2>1, SeqEqual
<1>7. QED BY <1>2, <1>4, <1>6

\* A call is answered by the message behind it, or is the last message.
LEMMA AnsweredNext ==
  ASSUME NEW h, Conversation(h), NEW i \in 1..Len(h), Asks(h[i]), i # Len(h)
  PROVE  /\ i + 1 \in 1..Len(h) /\ h[i + 1].role = "tool"
         /\ h[i].calls = <<h[i + 1].ref>>
<1>1. h \in Seq(Messages) /\ i + 1 \in 1..Len(h) /\ i + 1 # 1 /\ i + 1 - 1 = i
  BY DEF Conversation
<1>2. h[i + 1] \in Messages
  BY <1>1
<1>3. /\ h[i + 1].role = "user" => Replies(h[i])
      /\ Asks(h[i + 1]) => h[i].role = "user"
      /\ h[i + 1].role = "tool" => h[i].calls = <<h[i + 1].ref>>
      /\ Replies(h[i + 1]) => h[i].role \in {"user", "tool"}
  <2>1. PICK k \in 1..Len(h) : k = i + 1 /\ k # 1 /\ k - 1 = i
    BY <1>1
  <2>2. QED BY <2>1 DEF Conversation, Order
<1>4. h[i + 1].role \in {"user", "assistant", "tool"}
  BY <1>2, MessageFields
<1>5. QED BY <1>1, <1>3, <1>4 DEF Asks, Replies

\* A call at the end has no result: its turn has sent no other message.
LEMMA LastUnanswered ==
  ASSUME NEW h, Conversation(h), h # <<>>, Asks(h[Len(h)]),
         NEW j \in 1..Len(h), h[j].role = "tool"
  PROVE  h[Len(h)].calls # <<h[j].ref>>
<1> DEFINE n == Len(h)
<1>1. n \in Nat /\ n # 0 /\ n \in 1..n /\ h \in Seq(Messages)
  BY DEF Conversation
<1>2. Order(h) /\ Distinct(h)
  BY DEF Conversation
<1> HIDE DEF n
<1>3. n # 1 /\ h[n - 1].role = "user" /\ h[n].calls = h[n - 1].text
  BY <1>1, <1>2 DEF Order, n
<1>4. j # 1 /\ Asks(h[j - 1]) /\ h[j - 1].calls = <<h[j].ref>>
  BY <1>2 DEF Order
<1>5. j - 1 \in 1..n /\ j - 1 # 1 => j - 2 \in 1..n
  BY <1>1, <1>4 DEF n
<1>6. j - 1 # 1 /\ h[j - 2].role = "user" /\ h[j - 1].calls = h[j - 2].text
  <2>1. j - 1 \in 1..Len(h) /\ (j - 1) - 1 = j - 2
    BY <1>1, <1>4, <1>5 DEF n
  <2>2. Asks(h[j - 1]) => j - 1 # 1 /\ h[(j - 1) - 1].role = "user"
                          /\ h[j - 1].calls = h[(j - 1) - 1].text
    BY <1>2, <2>1, Zenon DEF Order
  <2>3. QED BY <1>4, <2>1, <2>2
<1>7. SUFFICES ASSUME h[n].calls = <<h[j].ref>> PROVE FALSE
  BY DEF n
<1>8. h[n - 1].text = h[j - 2].text
  BY <1>3, <1>4, <1>6, <1>7
<1>9. n - 1 \in 1..Len(h) /\ j - 2 \in 1..Len(h)
  BY <1>1, <1>3, <1>4, <1>5, <1>6 DEF n
<1>10. n - 1 = j - 2
  BY <1>2, <1>3, <1>6, <1>8, <1>9 DEF Distinct
<1>11. j \in 1..n
  BY DEF n
<1>12. QED BY <1>1, <1>10, <1>11

\* _backfill_missing_tool_results adds the one result the end may lack.
LEMMA Backfilled ==
  ASSUME NEW h, Conversation(h)
  PROVE  BackfillMissingToolResults(h) = Filled(h)
<1> DEFINE n == Len(h)
           Fulfilled == {h[i].ref : i \in {j \in DOMAIN h : h[j].role = "tool"}}
           Open(i) == {k \in DOMAIN h[i].calls :
                         h[i].calls[k] \notin Fulfilled \union {NoCall}}
           Ids(i) == At(h[i].calls, Open(i))
           Lost(i) == [k \in DOMAIN Ids(i) |-> ToolResult(Ids(i)[k], LostResult)]
           Callers(last) ==
             {i \in 1..last : /\ h[i].role = "assistant"
                              /\ \A j \in (i + 1)..last : h[j].role = "tool"
                              /\ last < Len(h) => h[last + 1].role # "tool"}
           After(last) == IF Callers(last) = {} THEN <<>>
                          ELSE Lost(CHOOSE i \in Callers(last) : TRUE)
           parts == [i \in DOMAIN h |-> <<h[i]>> \o After(i)]
<1>1. h \in Seq(Messages) /\ n \in Nat /\ DOMAIN h = 1..n /\ \A i \in 1..n : h[i] \in Messages
  BY DEF Conversation
<1>2. BackfillMissingToolResults(h) = FlattenSeq(parts) /\ Len(h) = n
  BY DEF BackfillMissingToolResults
<1> HIDE DEF n
<1>3. ASSUME NEW i \in 1..n, h[i].role = "assistant", ~(i = n /\ Asks(h[i]))
      PROVE  Lost(i) = <<>>
  <2>1. Ids(i) = <<>>
    <3>1. CASE h[i].calls = <<>>
      <4>1. h[i].calls \in Seq(Turns) /\ Len(h[i].calls) = 0
        BY <3>1
      <4>2. Ids(i) = h[i].calls
        <5> HIDE DEF Open
        <5> QED BY <4>1, AtAll
      <4>3. QED BY <3>1, <4>2
    <3>2. CASE h[i].calls # <<>>
      <4>1. h[i + 1].role = "tool" /\ h[i].calls = <<h[i + 1].ref>> /\ i + 1 \in 1..n
        BY <1>2, <1>3, <3>2, AnsweredNext DEF Asks
      <4>2. h[i + 1].ref \in Fulfilled
        BY <1>1, <4>1
      <4>3. h[i].calls \in Seq({h[i + 1].ref}) /\ Len(h[i].calls) = 1
            /\ h[i].calls[1] = h[i + 1].ref
        BY <4>1
      <4>4. 1 \notin Open(i)
        BY <4>2, <4>3
      <4>5. Ids(i) = SubSeq(h[i].calls, 2, 1)
        <5> HIDE DEF Open
        <5>1. 2 \in 1..(Len(h[i].calls) + 1) /\ \A k \in 1..Len(h[i].calls) : k \in Open(i) <=> k >= 2
          BY <4>3, <4>4
        <5>2. QED BY <4>3, <5>1, AtFrom
      <4>6. QED BY <4>5, SubSeqEmpty
    <3>3. QED BY <3>1, <3>2
  <2> HIDE DEF Ids
  <2>2. QED BY <2>1
<1>4. ASSUME n # 0, Asks(h[n])
      PROVE  Lost(n) = <<ToolResult(h[n].calls[1], LostResult)>>
  <2>0. h[n] \in Messages
    BY <1>1, <1>4
  <2>1. PICK t \in Turns : h[n].calls = <<t>>
    BY <1>4, <2>0, MessageFields DEF Asks
  <2>2. n \in 1..n /\ h # <<>>
    BY <1>1, <1>4
  <2>3. t \notin Fulfilled \union {NoCall}
    BY <1>1, <1>4, <2>1, <2>2, LastUnanswered, ConstantsAssumption
  <2>4. h[n].calls \in Seq(Turns) /\ Len(h[n].calls) = 1 /\ h[n].calls[1] = t
        /\ DOMAIN h[n].calls = {1}
    BY <2>1
  <2>5. 1 \in Open(n)
    BY <2>3, <2>4
  <2>6. Ids(n) = <<t>>
    <3> HIDE DEF Open
    <3>1. \A k \in 1..Len(h[n].calls) : k \in Open(n)
      BY <2>4, <2>5
    <3>2. QED BY <2>1, <2>4, <3>1, AtAll
  <2> HIDE DEF Ids
  <2>7. Lost(n) = [k \in {1} |-> ToolResult(t, LostResult)]
    BY <2>6
  <2>8. QED BY <2>4, <2>7
<1> HIDE DEF Lost
<1>5. ASSUME NEW i \in 1..n, ~(i = n /\ Asks(h[n])) PROVE After(i) = <<>>
  <2> SUFFICES ASSUME Callers(i) # {}
               PROVE  Lost(CHOOSE k \in Callers(i) : TRUE) = <<>>
    OBVIOUS
  <2>1. PICK k : k = (CHOOSE c \in Callers(i) : TRUE) /\ k \in Callers(i)
    OBVIOUS
  <2>2. k \in 1..n /\ h[k].role = "assistant"
    BY <1>1, <2>1
  <2>3. ~(k = n /\ Asks(h[k]))
    <3>1. k <= i
      BY <2>1
    <3>2. k = n => i = n
      BY <1>1, <3>1
    <3>3. QED BY <1>5, <3>2
  <2>4. QED BY <1>3, <2>1, <2>2, <2>3
<1>6. ASSUME n # 0, Asks(h[n]) PROVE After(n) = <<ToolResult(h[n].calls[1], LostResult)>>
  <2>1. n \in Callers(n)
    BY <1>1, <1>6 DEF Asks
  <2>2. \A i \in Callers(n) : i = n
    <3>1. SUFFICES ASSUME NEW i \in Callers(n), i # n PROVE FALSE
      OBVIOUS
    <3>2. n \in (i + 1)..n
      BY <1>1, <3>1
    <3>3. h[n].role = "tool"
      BY <3>1, <3>2
    <3>4. QED BY <1>6, <3>3 DEF Asks
  <2>3. (CHOOSE i \in Callers(n) : TRUE) = n
    <3> HIDE DEF Callers
    <3> QED BY <2>1, <2>2
  <2> HIDE DEF Callers
  <2>4. QED BY <1>4, <1>6, <2>1, <2>3
<1> HIDE DEF After
<1>7. CASE n = 0
  <2>1. parts = <<>>
    BY <1>1, <1>7
  <2>2. h = <<>>
    BY <1>1, <1>7
  <2>3. FlattenSeq(<<>>) = <<>>
    BY DEF FlattenSeq
  <2>4. QED BY <1>2, <2>1, <2>2, <2>3 DEF Filled
<1>8. CASE n # 0
  <2> DEFINE g == [i \in 1..n |-> IF i = n THEN Filled(h) ELSE SubSeq(h, 1, i)]
  <2>1. n \in Nat \ {0} /\ n \in 1..n /\ Len(parts) = n /\ h # <<>>
    BY <1>1, <1>8
  <2>2. \A i \in 1..n : i # n => parts[i] = <<h[i]>>
    <3>1. ASSUME NEW i \in 1..n, i # n PROVE parts[i] = <<h[i]>>
      <4>1. parts[i] = <<h[i]>> \o After(i) /\ After(i) = <<>>
        BY <1>1, <1>5, <3>1
      <4>2. QED BY <4>1
    <3>2. QED BY <3>1
  <2>3. parts[n] = IF Asks(h[n]) THEN <<h[n], ToolResult(h[n].calls[1], LostResult)>>
                   ELSE <<h[n]>>
    <3>1. parts[n] = <<h[n]>> \o After(n)
      BY <1>1, <2>1
    <3>2. CASE Asks(h[n])
      <4>1. After(n) = <<ToolResult(h[n].calls[1], LostResult)>>
        BY <1>6, <1>8, <3>2
      <4>2. <<h[n]>> \o After(n) = <<h[n], ToolResult(h[n].calls[1], LostResult)>>
        BY <4>1, Pairs
      <4>3. QED BY <3>1, <3>2, <4>2
    <3>3. CASE ~Asks(h[n])
      <4>1. After(n) = <<>>
        BY <1>5, <2>1, <3>3
      <4>2. QED BY <3>1, <3>3, <4>1
    <3>4. QED BY <3>2, <3>3
  <2>4. Filled(h) = IF Asks(h[n]) THEN Append(h, ToolResult(h[n].calls[1], LostResult)) ELSE h
    BY <2>1 DEF Filled
  <2> HIDE DEF parts
  <2>5. Joins(g, parts, n)
    <3>1. g[1] = parts[1]
      <4>1. CASE n = 1
        <5>1. h = <<h[1]>>
          BY <1>1, <4>1
        <5>2. g[1] = Filled(h)
          BY <4>1
        <5>3. Asks(h[n]) => Append(h, ToolResult(h[n].calls[1], LostResult))
                            = <<h[1], ToolResult(h[n].calls[1], LostResult)>>
          <6> DEFINE r == ToolResult(h[n].calls[1], LostResult)
          <6> HIDE DEF r
          <6>1. Append(<<h[1]>>, r) = <<h[1], r>>
            BY Pairs
          <6>2. Append(h, r) = <<h[1], r>>
            BY <5>1, <6>1, Zenon
          <6>3. h[n] = h[1]
            BY <4>1
          <6>4. r = ToolResult(h[n].calls[1], LostResult)
            BY DEF r
          <6>5. QED BY <6>2, <6>3, <6>4
        <5>4. QED BY <2>3, <2>4, <4>1, <5>1, <5>2, <5>3
      <4>2. CASE n # 1
        <5>1. 1 \in 1..n /\ g[1] = SubSeq(h, 1, 1)
          BY <2>1, <4>2
        <5>2. SubSeq(h, 1, 1) = <<h[1]>>
          <6>1. \A i \in 1..1 : h[i] \in Messages
            BY <1>1, <2>1
          <6>2. /\ SubSeq(h, 1, 1) \in Seq(Messages) /\ Len(SubSeq(h, 1, 1)) = 1
                /\ SubSeq(h, 1, 1)[1] = h[1]
            BY <6>1, SubSeqProperties
          <6>3. <<h[1]>> \in Seq(Messages) /\ Len(<<h[1]>>) = 1 /\ <<h[1]>>[1] = h[1]
            BY <6>1
          <6>4. PICK a, b : a = SubSeq(h, 1, 1) /\ b = <<h[1]>>
            OBVIOUS
          <6>5. Len(a) = Len(b) /\ \A i \in 1..Len(a) : a[i] = b[i]
            BY <6>2, <6>3, <6>4
          <6>6. a = b
            BY <6>2, <6>3, <6>4, <6>5, SeqEqual
          <6>7. QED BY <6>4, <6>6
        <5>3. QED BY <2>2, <4>2, <5>1, <5>2
      <4>3. QED BY <4>1, <4>2
    <3>2. ASSUME NEW i \in 2..n PROVE g[i] = g[i - 1] \o parts[i]
      <4>0. i - 1 \in 1..n /\ i - 1 # n /\ i \in 1..n
        BY <1>1
      <4>1. i - 1 \in 1..n /\ i - 1 # n /\ i \in 1..n /\ g[i - 1] = SubSeq(h, 1, i - 1)
        BY <4>0
      <4>2. SubSeq(h, 1, i) = SubSeq(h, 1, i - 1) \o <<h[i]>>
        BY <1>1, <4>1, SubSeqRecursiveSecond
      <4>3. CASE i # n
        BY <2>2, <4>1, <4>2, <4>3
      <4>4. CASE i = n
        <5>1. SubSeq(h, 1, n) = h /\ g[i] = Filled(h)
          BY <1>1, <4>1, <4>4, SubSeqFull
        <5>2. h = SubSeq(h, 1, n - 1) \o <<h[n]>>
          BY <4>2, <4>4, <5>1
        <5>3. CASE ~Asks(h[n])
          BY <2>3, <2>4, <4>1, <4>4, <5>1, <5>2, <5>3
        <5>4. CASE Asks(h[n])
          <6> DEFINE r == ToolResult(h[n].calls[1], LostResult)
                     p == SubSeq(h, 1, n - 1)
          <6>1. Append(h, r) = p \o <<h[n], r>>
            <7>1. p \in Seq(Messages) /\ h[n] \in Messages
              BY <1>1, <2>1
            <7>2. h = p \o <<h[n]>>
              BY <5>2
            <7> HIDE DEF p, r
            <7>3. Append(p \o <<h[n]>>, r) = (p \o <<h[n]>>) \o <<r>>
              BY <7>1, <7>2, <1>1, AppendIsConcat
            <7>4. <<h[n]>> \o <<r>> = <<h[n], r>>
              BY Pairs
            <7>5. (p \o <<h[n]>>) \o <<r>> = p \o (<<h[n]>> \o <<r>>)
              BY <7>1, ConcatAssociative
            <7>6. QED BY <7>2, <7>3, <7>4, <7>5
          <6>2. QED BY <2>3, <2>4, <4>1, <4>4, <5>1, <5>4, <6>1
        <5>5. QED BY <5>3, <5>4
      <4>5. QED BY <4>3, <4>4
    <3> HIDE DEF g
    <3>3. QED BY <3>1, <3>2 DEF Joins
  <2>6. g[n] = Filled(h)
    BY <2>1
  <2> HIDE DEF g
  <2>7. QED BY <1>2, <2>1, <2>5, <2>6, FlattenIs
<1>9. QED BY <1>7, <1>8

(***************************************************************************)
(* What recovery makes of a transcript, and what may follow it.            *)
(***************************************************************************)

\* What the users of a transcript said.
Says(h) == {h[i].text : i \in {j \in 1..Len(h) : h[j].role = "user"}}

\* A message that may follow the transcript.
Follows(m, h) ==
  LET last == h[Len(h)] IN
  /\ m \in Messages
  /\ m.role = "user" => (h = <<>> \/ Replies(last)) /\ m.text \notin Says(h)
  /\ Asks(m) => h # <<>> /\ last.role = "user" /\ m.calls = last.text
  /\ m.role = "tool" => h # <<>> /\ Asks(last) /\ last.calls = <<m.ref>>
  /\ Replies(m) => h # <<>> /\ last.role \in {"user", "tool"}

\* A transcript that ends with a reply, if it is not empty.
Restored(h) == Conversation(h) /\ (h # <<>> => Replies(h[Len(h)]))

\* The messages of a transcript with one more.
LEMMA AppendAt ==
  ASSUME NEW S, NEW h \in Seq(S), NEW m \in S
  PROVE  /\ Append(h, m) \in Seq(S) /\ Len(Append(h, m)) = Len(h) + 1
         /\ \A i \in 1..Len(h) : Append(h, m)[i] = h[i]
         /\ Append(h, m)[Len(h) + 1] = m
  BY AppendProperties

\* A transcript with a message that may follow it is well formed.
LEMMA Followed ==
  ASSUME NEW h, Conversation(h), NEW m, Follows(m, h)
  PROVE  /\ Conversation(Append(h, m))
         /\ Says(Append(h, m)) = IF m.role = "user" THEN Says(h) \union {m.text} ELSE Says(h)
<1> DEFINE n == Len(h)
           a == Append(h, m)
<1>1. h \in Seq(Messages) /\ n \in Nat /\ m \in Messages /\ Order(h) /\ Distinct(h)
  BY DEF Conversation, Follows
<1>2. /\ a \in Seq(Messages) /\ Len(a) = n + 1 /\ a[n + 1] = m
      /\ \A i \in 1..n : a[i] = h[i]
  BY <1>1, AppendAt
<1>3. Len(h) = n /\ (h # <<>> <=> n # 0)
  BY <1>1
<1> HIDE DEF n, a
<1>4. Order(a)
  <2> SUFFICES ASSUME NEW i \in 1..(n + 1)
      PROVE  /\ a[i].role = "user" => i = 1 \/ Replies(a[i - 1])
             /\ Asks(a[i]) => i # 1 /\ a[i - 1].role = "user" /\ a[i].calls = a[i - 1].text
             /\ a[i].role = "tool" => i # 1 /\ Asks(a[i - 1]) /\ a[i - 1].calls = <<a[i].ref>>
             /\ Replies(a[i]) => i # 1 /\ a[i - 1].role \in {"user", "tool"}
    BY <1>2 DEF Order
  <2>1. CASE i \in 1..n
    <3>1. i # 1 => i - 1 \in 1..n /\ a[i - 1] = h[i - 1]
      BY <1>1, <1>2, <2>1
    <3>2. a[i] = h[i]
      BY <1>2, <2>1
    <3>3. /\ h[i].role = "user" => i = 1 \/ Replies(h[i - 1])
          /\ Asks(h[i]) => i # 1 /\ h[i - 1].role = "user" /\ h[i].calls = h[i - 1].text
          /\ h[i].role = "tool" => i # 1 /\ Asks(h[i - 1]) /\ h[i - 1].calls = <<h[i].ref>>
          /\ Replies(h[i]) => i # 1 /\ h[i - 1].role \in {"user", "tool"}
      BY <1>1, <1>3, <2>1 DEF Order
    <3>4. QED BY <3>1, <3>2, <3>3, Zenon
  <2>2. CASE i = n + 1
    <3>1. i - 1 = n /\ a[i] = m /\ (n # 0 => a[n] = h[n] /\ i # 1) /\ (n = 0 => i = 1)
      BY <1>1, <1>2, <2>2
    <3>2. QED BY <1>3, <3>1 DEF Follows
  <2>3. QED BY <1>1, <2>1, <2>2
<1>5. Distinct(a)
  <2> SUFFICES ASSUME NEW i \in 1..(n + 1), NEW j \in 1..(n + 1),
                      a[i].role = "user", a[j].role = "user", a[i].text = a[j].text, i # j
               PROVE  FALSE
    BY <1>2 DEF Distinct
  <2>1. CASE i \in 1..n /\ j \in 1..n
    BY <1>1, <1>2, <1>3, <2>1 DEF Distinct
  <2>2. ASSUME m.role = "user", NEW k \in 1..n, h[k].role = "user", h[k].text = m.text PROVE FALSE
    BY <1>3, <2>2 DEF Follows, Says
  <2>3. CASE i = n + 1
    <3>1. j \in 1..n
      BY <1>1, <2>3
    <3>2. QED BY <1>2, <2>2, <2>3, <3>1
  <2>4. CASE j = n + 1
    <3>1. i \in 1..n
      BY <1>1, <2>4
    <3>2. QED BY <1>2, <2>2, <2>4, <3>1
  <2>5. QED BY <1>1, <2>1, <2>3, <2>4
<1>6. Says(a) = IF m.role = "user" THEN Says(h) \union {m.text} ELSE Says(h)
  <2>1. 1..(n + 1) = 1..n \union {n + 1}
    BY <1>1
  <2>2. QED BY <1>2, <1>3, <2>1 DEF Says
<1>7. QED BY <1>2, <1>4, <1>5, <1>6 DEF Conversation, a

\* Last, as the community modules define it.
LEMMA LastIs ==
  ASSUME NEW h, h \in Seq(Messages)
  PROVE  /\ Last(h) = h[Len(h)] /\ Len(h) \in Nat /\ (h # <<>> <=> Len(h) # 0)
         /\ h # <<>> => Len(h) \in 1..Len(h) /\ h[Len(h)] \in Messages
  BY DEF Last

\* recover yields a transcript that ends with a reply, of the same user messages.
LEMMA FilledConversation ==
  ASSUME NEW h, Conversation(h)
  PROVE  /\ Conversation(Filled(h)) /\ Says(Filled(h)) = Says(h)
         /\ Filled(h) # <<>> => ~Asks(Filled(h)[Len(Filled(h))])
<1>1. h \in Seq(Messages)
  BY DEF Conversation
<1>2. CASE h # <<>> /\ Asks(h[Len(h)])
  <2> DEFINE m == ToolResult(h[Len(h)].calls[1], LostResult)
  <2>1. h[Len(h)] \in Messages
    BY <1>1, <1>2, LastIs
  <2>2. PICK t \in Turns : h[Len(h)].calls = <<t>>
    BY <1>2, <2>1, MessageFields DEF Asks
  <2>3. m = [role |-> "tool", text |-> <<LostResult>>, parts |-> FALSE, reasoning |-> FALSE,
             calls |-> <<>>, ref |-> t, ui |-> FALSE]
    <3>1. h[Len(h)].calls[1] = t
      BY <2>2
    <3>2. m = ToolResult(t, LostResult)
      BY <3>1
    <3> HIDE DEF m
    <3>3. QED BY <3>2 DEF ToolResult, Message
  <2>4. m \in Messages /\ m.role = "tool" /\ m.ref = t
    <3>1. <<LostResult>> \in Just(Speech)
      BY DEF Just, Speech
    <3>2. <<LostResult>> # <<>>
      OBVIOUS
    <3>3. QED BY <2>3, <3>1, <3>2 DEF Messages
  <2> HIDE DEF m
  <2>5. Follows(m, h)
    BY <1>2, <2>2, <2>4 DEF Follows, Asks, Replies
  <2>6. Filled(h) = Append(h, m)
    BY <1>2 DEF Filled, m
  <2>7. Len(Append(h, m)) = Len(h) + 1 /\ Append(h, m)[Len(h) + 1] = m
    BY <1>1, <2>4, AppendAt
  <2>8. QED BY <2>4, <2>5, <2>6, <2>7, Followed DEF Asks
<1>3. CASE ~(h # <<>> /\ Asks(h[Len(h)]))
  BY <1>3 DEF Filled
<1>4. QED BY <1>2, <1>3

\* The whole repair of a stored transcript.
LEMMA Repaired ==
  ASSUME NEW h, Conversation(h)
  PROVE  Repair(h) = Filled(Bare(h))
<1>1. Conversation(Bare(h))
  BY BareConversation
<1>2. QED BY <1>1, Sanitized, NothingEmpty, NothingMerged, NothingOrphaned, Backfilled DEF Repair

\* Annotations are not what the users said.
LEMMA SaysBare ==
  ASSUME NEW h, Conversation(h)
  PROVE  Says(Bare(h)) = Says(h)
<1>1. /\ Len(Bare(h)) = Len(h)
      /\ \A i \in 1..Len(h) : Bare(h)[i].role = h[i].role /\ Bare(h)[i].text = h[i].text
  BY BareConversation
<1>2. {j \in 1..Len(h) : Bare(h)[j].role = "user"} = {j \in 1..Len(h) : h[j].role = "user"}
  BY <1>1
<1>3. QED BY <1>1, <1>2 DEF Says

\* A plain reply is a message, and closes a turn.
LEMMA ReplyMessage ==
  ASSUME NEW w \in Speech
  PROVE  /\ Assistant(w) \in Messages /\ Replies(Assistant(w)) /\ ~Asks(Assistant(w))
         /\ Assistant(w).role = "assistant"
<1>1. Assistant(w) = [role |-> "assistant", text |-> <<w>>, parts |-> FALSE, reasoning |-> FALSE,
                      calls |-> <<>>, ref |-> NoCall, ui |-> FALSE]
  BY DEF Assistant, Message
<1>2. <<w>> \in Just(Speech) /\ <<w>> # <<>>
  BY DEF Just
<1>3. QED BY <1>1, <1>2 DEF Messages, Replies, Asks

\* SessionManager.recover closes every stored transcript.
LEMMA RecoveredRestored ==
  ASSUME NEW h, Conversation(h)
  PROVE  Restored(Recovered(h)) /\ Says(Recovered(h)) = Says(h)
<1> DEFINE r == Filled(Bare(h))
<1>1. /\ Repair(h) = r /\ Conversation(r) /\ Says(r) = Says(h)
      /\ r # <<>> => ~Asks(r[Len(r)])
  BY Repaired, BareConversation, FilledConversation, SaysBare
<1> HIDE DEF r
<1>2. r \in Seq(Messages)
  BY <1>1 DEF Conversation
<1>3. CASE r = <<>>
  BY <1>1, <1>3 DEF Recovered, Restored
<1>4. ASSUME r # <<>>, r[Len(r)].role \in {"user", "tool"},
             NEW w \in Speech, Recovered(h) = Append(r, Assistant(w))
      PROVE  Restored(Recovered(h)) /\ Says(Recovered(h)) = Says(h)
  <2>1. Follows(Assistant(w), r)
    BY <1>4, ReplyMessage DEF Follows
  <2>2. Conversation(Append(r, Assistant(w))) /\ Says(Append(r, Assistant(w))) = Says(r)
    BY <1>1, <2>1, ReplyMessage, Followed
  <2>3. /\ Len(Append(r, Assistant(w))) = Len(r) + 1
        /\ Append(r, Assistant(w))[Len(r) + 1] = Assistant(w)
    BY <1>2, ReplyMessage, AppendAt
  <2>4. QED BY <1>1, <1>4, <2>2, <2>3, ReplyMessage DEF Restored
<1>5. CASE r # <<>> /\ r[Len(r)].role = "user"
  <2>1. Recovered(h) = Append(r, Assistant(InterruptedReply))
    BY <1>1, <1>2, <1>5, LastIs DEF Recovered
  <2>2. InterruptedReply \in Speech
    BY DEF Speech
  <2>3. QED BY <1>4, <1>5, <2>1, <2>2
<1>6. CASE r # <<>> /\ r[Len(r)].role = "tool"
  <2>1. Recovered(h) = Append(r, Assistant(InterruptedTool))
    BY <1>1, <1>2, <1>6, LastIs DEF Recovered
  <2>2. InterruptedTool \in Speech
    BY DEF Speech
  <2>3. QED BY <1>4, <1>6, <2>1, <2>2
<1>7. CASE r # <<>> /\ r[Len(r)].role \notin {"user", "tool"}
  <2>1. Recovered(h) = r
    BY <1>1, <1>2, <1>7, LastIs DEF Recovered
  <2>2. Replies(r[Len(r)])
    BY <1>1, <1>2, <1>7, LastIs, MessageFields DEF Replies, Asks
  <2>3. QED BY <1>1, <2>1, <2>2 DEF Restored
<1>8. QED BY <1>3, <1>5, <1>6, <1>7

(***************************************************************************)
(* From the messages of a run back to the history it was built from.       *)
(***************************************************************************)

\* The message of the turn as the model sees it.
InContext(t) == Message("user", <<t, RuntimeContext>>)
RunMessages  == Messages \union {SystemMessage} \union {InContext(t) : t \in Turns}

\* The history as the messages of a run carry it: behind the system prompt, and
\* with the runtime context on the message of the turn.
Carries(r, h, t) ==
  /\ r \in Seq(RunMessages)
  /\ Len(r) = Len(h) + 1 /\ r[1] = SystemMessage /\ h # <<>>
  /\ \A i \in 1..Len(h) :
       \/ r[i + 1] = h[i]
       \/ \E w \in Turns : h[i] = UserMessage(w) /\ r[i + 1] = InContext(w)
  /\ LET last == h[Len(h)] IN
       /\ last.role = "user" => last.text = <<t>>
       /\ Asks(last) => last.calls = <<t>>
       /\ last.role = "tool" => last.ref = t

\* The timing stamp touches no field a provider sees.
LEMMA StampedConversation ==
  ASSUME NEW h, Conversation(h), NEW i \in 1..Len(h), h[i].role = "assistant"
  PROVE  LET s == [h EXCEPT ![i].ui = TRUE]
         IN  Conversation(s) /\ Says(s) = Says(h) /\ Bare(s) = Bare(h)
<1> DEFINE n == Len(h)
           s == [h EXCEPT ![i].ui = TRUE]
<1>1. h \in Seq(Messages) /\ n \in Nat /\ \A j \in 1..n : h[j] \in Messages
  BY DEF Conversation
<1>2. [h[i] EXCEPT !.ui = TRUE] \in Messages
  <2>1. h[i] \in Messages
    BY <1>1
  <2>2. QED BY <2>1 DEF Messages
<1>3. s \in Seq(Messages) /\ Len(s) = n
  BY <1>1, <1>2
<1>4. \A j \in 1..n :
        /\ s[j].role = h[j].role /\ s[j].text = h[j].text
        /\ s[j].calls = h[j].calls /\ s[j].ref = h[j].ref
        /\ [s[j] EXCEPT !.ui = FALSE] = [h[j] EXCEPT !.ui = FALSE]
  <2> SUFFICES ASSUME NEW j \in 1..n
               PROVE  /\ s[j].role = h[j].role /\ s[j].text = h[j].text
                      /\ s[j].calls = h[j].calls /\ s[j].ref = h[j].ref
                      /\ [s[j] EXCEPT !.ui = FALSE] = [h[j] EXCEPT !.ui = FALSE]
    OBVIOUS
  <2>1. CASE j = i
    <3>1. s = [h EXCEPT ![i] = [h[i] EXCEPT !.ui = TRUE]]
      OBVIOUS
    <3>2. PICK m : m = h[i] /\ m \in Messages
      BY <1>1
    <3>3. s[j] = [m EXCEPT !.ui = TRUE] /\ h[j] = m
      <4>1. PICK e : e = [m EXCEPT !.ui = TRUE]
        OBVIOUS
      <4>2. s = [h EXCEPT ![i] = e]
        BY <3>1, <3>2, <4>1
      <4>3. i \in DOMAIN h
        BY <1>1
      <4> HIDE DEF s
      <4>4. s[i] = e
        BY <4>2, <4>3, Zenon
      <4>5. QED BY <2>1, <3>2, <4>1, <4>4
    <3> HIDE DEF s
    <3>4. /\ [m EXCEPT !.ui = TRUE].role = m.role /\ [m EXCEPT !.ui = TRUE].text = m.text
          /\ [m EXCEPT !.ui = TRUE].calls = m.calls /\ [m EXCEPT !.ui = TRUE].ref = m.ref
          /\ [[m EXCEPT !.ui = TRUE] EXCEPT !.ui = FALSE] = [m EXCEPT !.ui = FALSE]
      BY <3>2 DEF Messages
    <3>5. QED BY <3>3, <3>4
  <2>2. CASE j # i
    BY <1>1, <2>2
  <2>3. QED BY <2>1, <2>2
<1>5. Len(h) = n
  OBVIOUS
<1> HIDE DEF n, s
<1>6. Order(s)
  <2> SUFFICES ASSUME NEW j \in 1..n
      PROVE  /\ s[j].role = "user" => j = 1 \/ Replies(s[j - 1])
             /\ Asks(s[j]) => j # 1 /\ s[j - 1].role = "user" /\ s[j].calls = s[j - 1].text
             /\ s[j].role = "tool" => j # 1 /\ Asks(s[j - 1]) /\ s[j - 1].calls = <<s[j].ref>>
             /\ Replies(s[j]) => j # 1 /\ s[j - 1].role \in {"user", "tool"}
    BY <1>3 DEF Order
  <2>1. j # 1 => j - 1 \in 1..n
    BY <1>1
  <2>2. /\ h[j].role = "user" => j = 1 \/ Replies(h[j - 1])
        /\ Asks(h[j]) => j # 1 /\ h[j - 1].role = "user" /\ h[j].calls = h[j - 1].text
        /\ h[j].role = "tool" => j # 1 /\ Asks(h[j - 1]) /\ h[j - 1].calls = <<h[j].ref>>
        /\ Replies(h[j]) => j # 1 /\ h[j - 1].role \in {"user", "tool"}
    BY <1>5 DEF Conversation, Order
  <2>3. QED BY <1>4, <2>1, <2>2 DEF Asks, Replies
<1>7. Distinct(s)
  <2>1. \A j, k \in 1..n : h[j].role = "user" /\ h[k].role = "user" /\ h[j].text = h[k].text => j = k
    BY <1>5 DEF Conversation, Distinct
  <2>2. QED BY <1>3, <1>4, <2>1 DEF Distinct
<1>8. Says(s) = Says(h)
  <2> DEFINE U(x) == {j \in 1..n : x[j].role = "user"}
  <2>1. U(s) = U(h) /\ \A j \in U(h) : s[j].text = h[j].text
    BY <1>4
  <2>2. Says(s) = {s[j].text : j \in U(s)} /\ Says(h) = {h[j].text : j \in U(h)}
    BY <1>3, <1>5 DEF Says
  <2> HIDE DEF U
  <2>3. QED BY <2>1, <2>2
<1>9. Bare(s) = Bare(h)
  BY <1>3, <1>4, <1>5 DEF Bare
<1>10. QED BY <1>3, <1>6, <1>7, <1>8, <1>9 DEF Conversation, s

\* Front undoes Append.
LEMMA FrontOfAppend ==
  ASSUME NEW S, NEW h \in Seq(S), NEW m \in S
  PROVE  Front(Append(h, m)) = h
<1> DEFINE a == Append(h, m)
           f == SubSeq(a, 1, Len(h))
<1>1. /\ a \in Seq(S) /\ Len(a) = Len(h) + 1 /\ Len(h) \in Nat
      /\ \A i \in 1..Len(h) : a[i] = h[i]
  BY AppendAt
<1> HIDE DEF a
<1>2. /\ f \in Seq(S) /\ Len(f) = Len(h) /\ \A i \in 1..Len(h) : f[i] = a[i]
  <2>1. \A i \in 1..Len(h) : a[i] \in S
    BY <1>1
  <2>2. QED BY <1>1, <2>1, SubSeqProperties
<1> HIDE DEF f
<1>3. f = h
  BY <1>1, <1>2, SeqEqual
<1>4. Front(a) = f
  BY <1>1 DEF Front, f
<1>5. QED BY <1>3, <1>4 DEF a

\* The message of the turn, with its runtime context stripped again.
LEMMA StrippedContext ==
  ASSUME NEW w
  PROVE  StripUserRuntimeContext(InContext(w)) = UserMessage(w)
<1>1. InContext(w).text = <<w, RuntimeContext>>
  BY DEF InContext, Message
<1>2. <<w, RuntimeContext>> # <<>> /\ Last(<<w, RuntimeContext>>) = RuntimeContext
  BY DEF Last
<1>3. Front(<<w, RuntimeContext>>) = <<w>>
  <2>1. <<w>> \in Seq({w, RuntimeContext})
    OBVIOUS
  <2>2. Front(Append(<<w>>, RuntimeContext)) = <<w>>
    BY <2>1, FrontOfAppend
  <2>3. QED BY <2>2, Pairs, Zenon
<1>4. StripUserRuntimeContext(InContext(w)) = [InContext(w) EXCEPT !.text = <<w>>]
  BY <1>1, <1>2, <1>3 DEF StripUserRuntimeContext
<1>5. QED BY <1>4 DEF InContext, UserMessage, Message

\* What a run persists is the history it carries.
LEMMA CarriedIs ==
  ASSUME NEW h, NEW r, NEW t, Conversation(h), Carries(r, h, t)
  PROVE  RunMessagesToHistory(r) = h
<1> DEFINE Stripped == [i \in DOMAIN r |->
                          IF r[i].role = "user" THEN StripUserRuntimeContext(r[i])
                                                ELSE r[i]]
           Kept(i) == r[i].role # "system" /\ (r[i].role = "user" => HasContent(Stripped[i]))
           n == Len(h)
           I == {i \in DOMAIN r : Kept(i)}
           All == Messages \union {SystemMessage}
<1>1. h \in Seq(Messages) /\ n \in Nat /\ \A j \in 1..n : h[j] \in Messages
  BY DEF Conversation
<1>2. Len(h) = n /\ Len(r) = n + 1 /\ r[1] = SystemMessage /\ DOMAIN r = 1..(n + 1)
  BY DEF Carries
<1> HIDE DEF n
<1>3. ASSUME NEW i \in 1..n
      PROVE  Stripped[i + 1] = h[i] /\ Kept(i + 1)
  <2>0. i + 1 \in DOMAIN r
    BY <1>1, <1>2
  <2>1. h[i] \in Messages /\ h[i].role # "system"
    BY <1>1, MessageFields
  <2>2. CASE r[i + 1] = h[i]
    <3>1. CASE h[i].role # "user"
      BY <2>0, <2>1, <2>2, <3>1
    <3>2. CASE h[i].role = "user"
      <4>1. PICK w \in Turns : h[i].text = <<w>>
        BY <2>1, <3>2, MessageFields
      <4>2. h[i].text # <<>> /\ Last(h[i].text) = w /\ w # RuntimeContext
        BY <4>1, ConstantsAssumption DEF Last
      <4>3. StripUserRuntimeContext(h[i]) = h[i]
        BY <4>2 DEF StripUserRuntimeContext
      <4>4. Stripped[i + 1] = h[i]
        BY <2>0, <2>2, <3>2, <4>3
      <4>5. QED BY <2>1, <2>2, <4>2, <4>4 DEF HasContent
    <3>3. QED BY <3>1, <3>2
  <2>3. CASE \E w \in Turns : h[i] = UserMessage(w) /\ r[i + 1] = InContext(w)
    <3>1. PICK w \in Turns : h[i] = UserMessage(w) /\ r[i + 1] = InContext(w)
      BY <2>3
    <3>2. StripUserRuntimeContext(InContext(w)) = UserMessage(w)
      BY StrippedContext
    <3>3. InContext(w).role = "user" /\ UserMessage(w).text # <<>>
      BY DEF InContext, UserMessage, Message
    <3>4. Stripped[i + 1] = h[i]
      BY <2>0, <3>1, <3>2, <3>3
    <3>5. QED BY <3>1, <3>3, <3>4 DEF HasContent
  <2>4. r[i + 1] = h[i] \/ \E w \in Turns : h[i] = UserMessage(w) /\ r[i + 1] = InContext(w)
    BY <1>2 DEF Carries
  <2>5. QED BY <2>2, <2>3, <2>4
<1>4. Stripped[1] = SystemMessage /\ ~Kept(1)
  BY <1>1, <1>2 DEF SystemMessage, Message
<1>5. Stripped \in Seq(All) /\ Len(Stripped) = n + 1
  <2>1. \A i \in 1..(n + 1) : Stripped[i] \in All
    <3>1. ASSUME NEW i \in 1..(n + 1) PROVE Stripped[i] \in All
      <4>1. CASE i = 1
        BY <1>4, <4>1
      <4>2. CASE i # 1
        <5>1. i - 1 \in 1..n /\ i = (i - 1) + 1
          BY <1>1, <4>2
        <5>2. Stripped[i] = h[i - 1]
          BY <1>3, <5>1
        <5>3. QED BY <1>1, <5>1, <5>2
      <4>3. QED BY <4>1, <4>2
    <3>2. QED BY <3>1
  <2>2. Stripped = [i \in 1..(n + 1) |-> Stripped[i]]
    BY <1>2
  <2> HIDE DEF Stripped, All
  <2>3. QED BY <1>1, <2>1, <2>2
<1>6. ASSUME NEW i \in 1..(n + 1) PROVE i \in I <=> i >= 2
  <2>1. CASE i = 1
    BY <1>4, <2>1
  <2>2. CASE i # 1
    <3>1. i - 1 \in 1..n /\ i = (i - 1) + 1 /\ i >= 2
      BY <1>1, <2>2
    <3>2. Kept(i)
      BY <1>3, <3>1
    <3>3. QED BY <1>2, <3>1, <3>2
  <2>3. QED BY <2>1, <2>2
<1>7. RunMessagesToHistory(r) = At(Stripped, I)
  BY DEF RunMessagesToHistory
<1> HIDE DEF I, Stripped, All
<1>8. At(Stripped, I) = SubSeq(Stripped, 2, n + 1)
  <2>1. 2 \in 1..(Len(Stripped) + 1)
    BY <1>1, <1>5
  <2>2. QED BY <1>5, <1>6, <2>1, AtFrom
<1>9. SubSeq(Stripped, 2, n + 1) = h
  <2> DEFINE e == SubSeq(Stripped, 2, n + 1)
  <2>1. \A i \in 2..(n + 1) : Stripped[i] \in All
    BY <1>1, <1>5
  <2>2. /\ e \in Seq(All) /\ Len(e) = n /\ \A i \in 1..n : e[i] = Stripped[i + 1]
    <3>1. \A i \in 1..n : 2 + i - 1 = i + 1
      BY <1>1
    <3>2. /\ e \in Seq(All)
          /\ Len(e) = IF 2 <= n + 1 THEN n + 1 - 2 + 1 ELSE 0
          /\ \A i \in 1..(n + 1 - 2 + 1) : e[i] = Stripped[2 + i - 1]
      BY <1>1, <2>1, SubSeqProperties
    <3> HIDE DEF e
    <3>3. n + 1 - 2 + 1 = n /\ (~(2 <= n + 1) => n = 0)
      BY <1>1
    <3>4. QED BY <3>1, <3>2, <3>3
  <2>3. h \in Seq(All) /\ Len(h) = n
    BY <1>1, <1>2 DEF All
  <2> HIDE DEF e
  <2>4. \A i \in 1..n : e[i] = h[i]
    BY <1>3, <2>2
  <2>5. e = h
    BY <2>2, <2>3, <2>4, SeqEqual
  <2>6. QED BY <2>5 DEF e
<1>10. QED BY <1>7, <1>8, <1>9

\* What a well-formed transcript gives a provider.
LEMMA ConversationDeclared ==
  ASSUME NEW h, Conversation(h)
  PROVE  /\ ResultsDeclared(h)
         /\ \A i \in DOMAIN h : h[i].calls # <<>> /\ i < Len(h) => h[i + 1].role = "tool"
<1> DEFINE n == Len(h)
<1>1. h \in Seq(Messages) /\ n \in Nat /\ DOMAIN h = 1..n /\ \A j \in 1..n : h[j] \in Messages
  BY DEF Conversation
<1>2. ASSUME NEW j \in 1..n, h[j].role = "tool"
      PROVE  \E i \in 1..(j - 1) : /\ h[j].ref \in CallIds(h[i])
                                   /\ \A k \in (i + 1)..j : h[k].role = "tool"
  <2>1. j # 1 /\ Asks(h[j - 1]) /\ h[j - 1].calls = <<h[j].ref>>
    BY <1>2 DEF Conversation, Order
  <2>2. h[j].ref \in Turns /\ h[j].ref # NoCall
    BY <1>1, <1>2, MessageFields, ConstantsAssumption
  <2>3. Range(<<h[j].ref>>) = {h[j].ref}
    BY DEF Range
  <2>4. h[j].ref \in CallIds(h[j - 1])
    BY <2>1, <2>2, <2>3 DEF CallIds, Asks
  <2>5. j - 1 \in 1..(j - 1) /\ \A k \in (j - 1 + 1)..j : k = j
    BY <1>1, <2>1
  <2>6. QED BY <1>2, <2>4, <2>5
<1>3. ASSUME NEW i \in 1..n, h[i].calls # <<>>, i < n PROVE h[i + 1].role = "tool"
  <2>1. h[i] \in Messages /\ i # Len(h)
    <3> HIDE DEF n
    <3>1. n = Len(h)
      BY DEF n
    <3>2. QED BY <1>1, <1>3, <3>1
  <2>2. Asks(h[i])
    BY <1>3, <2>1, MessageFields DEF Asks
  <2>3. QED BY <2>1, <2>2, AnsweredNext
<1>4. QED BY <1>1, <1>2, <1>3 DEF ResultsDeclared

\* A restored transcript is what a turn may open on.
LEMMA RestoredClosed ==
  ASSUME NEW h, Restored(h)
  PROVE  Closed(h) /\ CallsAnswered(h) /\ ResultsDeclared(h)
<1> DEFINE n == Len(h)
<1>1. Conversation(h) /\ h \in Seq(Messages) /\ n \in Nat /\ DOMAIN h = 1..n
      /\ \A j \in 1..n : h[j] \in Messages
  BY DEF Restored, Conversation
<1>2. Closed(h)
  BY <1>1, LastIs DEF Restored, Closed, Replies
<1>3. ASSUME NEW i \in 1..n, h[i].role = "assistant", NEW id \in Range(h[i].calls)
      PROVE  \E j \in (i + 1)..n : /\ h[j].role = "tool" /\ h[j].ref = id
                                   /\ \A k \in (i + 1)..j : h[k].role = "tool"
  <2>1. PICK t \in Turns : h[i].calls = <<t>>
    <3>1. h[i].calls # <<>>
      BY <1>3 DEF Range
    <3>2. QED BY <1>1, <3>1, MessageFields
  <2>2. Range(<<t>>) = {t}
    BY DEF Range
  <2>3. Asks(h[i]) /\ id = t
    BY <1>3, <2>1, <2>2 DEF Asks
  <2>4. i # n
    <3>1. h # <<>>
      BY <1>1
    <3>2. Replies(h[n])
      BY <3>1 DEF Restored
    <3>3. QED BY <2>3, <3>2 DEF Replies, Asks
  <2>5. i + 1 \in 1..n /\ h[i + 1].role = "tool" /\ h[i].calls = <<h[i + 1].ref>>
    BY <1>1, <2>3, <2>4, AnsweredNext
  <2>6. h[i + 1].ref = id
    BY <2>1, <2>3, <2>5
  <2>7. i + 1 \in (i + 1)..n /\ \A k \in (i + 1)..(i + 1) : k = i + 1
    BY <1>1, <2>5
  <2>8. QED BY <2>5, <2>6, <2>7
<1>4. CallsAnswered(h)
  BY <1>1, <1>3 DEF CallsAnswered
<1>5. QED BY <1>1, <1>2, <1>4, ConversationDeclared

\* The message of a turn is a message.
LEMMA UserIsMessage ==
  ASSUME NEW t \in Turns
  PROVE  /\ UserMessage(t) \in Messages /\ UserMessage(t).role = "user"
         /\ UserMessage(t).text = <<t>>
<1>1. UserMessage(t) = [role |-> "user", text |-> <<t>>, parts |-> FALSE, reasoning |-> FALSE,
                        calls |-> <<>>, ref |-> NoCall, ui |-> FALSE]
  BY DEF UserMessage, Message
<1>2. <<t>> \in Just(Speech) /\ <<t>> \in Just(Turns)
  BY DEF Just, Speech
<1>3. QED BY <1>1, <1>2 DEF Messages

\* A turn opens: its message is behind a restored history, and what the model gets
\* carries both.
LEMMA Opened ==
  ASSUME NEW h, Restored(h), NEW t \in Turns, <<t>> \notin Says(h)
  PROVE  LET a == Append(h, UserMessage(t))
             r == <<SystemMessage>> \o h \o <<Message("user", <<t, RuntimeContext>>)>>
         IN  /\ Conversation(a) /\ Says(a) = Says(h) \union {<<t>>}
             /\ Carries(r, a, t) /\ Front(a) = h
<1> DEFINE n == Len(h)
           m == UserMessage(t)
           x == InContext(t)
           a == Append(h, m)
           r == <<SystemMessage>> \o h \o <<x>>
<1>1. Conversation(h) /\ h \in Seq(Messages) /\ n \in Nat /\ Len(h) = n
  BY DEF Restored, Conversation
<1>2. m \in Messages /\ m.role = "user" /\ m.text = <<t>>
  BY UserIsMessage
<1> HIDE DEF m
<1>3. Follows(m, h)
  BY <1>2 DEF Follows, Restored, Asks, Replies
<1>4. Conversation(a) /\ Says(a) = Says(h) \union {<<t>>}
  BY <1>1, <1>2, <1>3, Followed
<1>5. /\ a \in Seq(Messages) /\ Len(a) = n + 1 /\ a[n + 1] = m
      /\ \A i \in 1..n : a[i] = h[i]
  BY <1>1, <1>2, AppendAt
<1>6. Front(a) = h
  BY <1>1, <1>2, FrontOfAppend
<1> HIDE DEF a, n
<1>7. x \in RunMessages /\ SystemMessage \in RunMessages /\ h \in Seq(RunMessages)
  BY <1>1 DEF RunMessages
<1> HIDE DEF x
<1>8. /\ r \in Seq(RunMessages) /\ Len(r) = n + 2 /\ r[1] = SystemMessage /\ r[n + 2] = x
      /\ \A i \in 1..n : r[i + 1] = h[i]
  <2>1. PICK s : s = <<SystemMessage>>
    OBVIOUS
  <2>2. PICK y : y = <<x>>
    OBVIOUS
  <2>3. /\ s \in Seq(RunMessages) /\ Len(s) = 1 /\ s[1] = SystemMessage
        /\ y \in Seq(RunMessages) /\ Len(y) = 1 /\ y[1] = x
    BY <1>7, <2>1, <2>2
  <2>4. PICK sh : sh = s \o h
    OBVIOUS
  <2>5. /\ sh \in Seq(RunMessages) /\ Len(sh) = n + 1 /\ sh[1] = SystemMessage
        /\ \A i \in 1..n : sh[i + 1] = h[i]
    <3>1. sh \in Seq(RunMessages) /\ Len(sh) = Len(s) + Len(h)
      BY <1>7, <2>3, <2>4, ConcatProperties
    <3>2. \A i \in 1..(Len(s) + Len(h)) : sh[i] = IF i <= Len(s) THEN s[i] ELSE h[i - Len(s)]
      BY <1>7, <2>3, <2>4, ConcatProperties
    <3>3. 1 + n = n + 1 /\ 1 \in 1..(1 + n)
          /\ \A i \in 1..n : i + 1 \in 1..(1 + n) /\ ~(i + 1 <= 1) /\ i + 1 - 1 = i
      BY <1>1
    <3>4. QED BY <1>1, <2>3, <3>1, <3>2, <3>3
  <2>6. PICK z : z = sh \o y
    OBVIOUS
  <2>7. /\ z \in Seq(RunMessages) /\ Len(z) = n + 2
        /\ \A i \in 1..(n + 1) : z[i] = sh[i]
        /\ z[n + 2] = x
    <3>1. z \in Seq(RunMessages) /\ Len(z) = Len(sh) + Len(y)
      BY <2>3, <2>5, <2>6, ConcatProperties
    <3>2. \A i \in 1..(Len(sh) + Len(y)) : z[i] = IF i <= Len(sh) THEN sh[i] ELSE y[i - Len(sh)]
      BY <2>3, <2>5, <2>6, ConcatProperties
    <3>3. /\ n + 1 + 1 = n + 2 /\ n + 2 \in 1..(n + 1 + 1) /\ ~(n + 2 <= n + 1)
          /\ n + 2 - (n + 1) = 1
          /\ \A i \in 1..(n + 1) : i \in 1..(n + 1 + 1) /\ i <= n + 1
      BY <1>1
    <3>4. QED BY <2>3, <2>5, <3>1, <3>2, <3>3
  <2>8. r = z
    BY <2>1, <2>2, <2>4, <2>6
  <2>9. 1 \in 1..(n + 1) /\ \A i \in 1..n : i + 1 \in 1..(n + 1)
    BY <1>1
  <2> HIDE DEF r
  <2>10. QED BY <2>5, <2>7, <2>8, <2>9
<1> HIDE DEF r
<1>9. Carries(r, a, t)
  <2>1. Len(r) = Len(a) + 1 /\ a # <<>>
    BY <1>1, <1>5, <1>8
  <2>2. ASSUME NEW i \in 1..Len(a)
        PROVE \/ r[i + 1] = a[i]
              \/ \E w \in Turns : a[i] = UserMessage(w) /\ r[i + 1] = InContext(w)
    <3>1. CASE i \in 1..n
      BY <1>5, <1>8, <3>1
    <3>2. CASE i = n + 1
      <4>1. r[i + 1] = x /\ a[i] = m
        BY <1>1, <1>5, <1>8, <3>2
      <4>2. QED BY <4>1 DEF m, x
    <3>3. QED BY <1>1, <1>5, <2>2, <3>1, <3>2
  <2>3. a[Len(a)] = m
    BY <1>5
  <2>4. QED BY <1>2, <1>8, <2>1, <2>2, <2>3 DEF Carries, Asks
<1>10. r = <<SystemMessage>> \o h \o <<Message("user", <<t, RuntimeContext>>)>>
       /\ a = Append(h, UserMessage(t))
  BY DEF r, x, InContext, a, m
<1>11. QED BY <1>4, <1>6, <1>9, <1>10

\* The run adds a message: the call, its result or the reply.
LEMMA CarriesOn ==
  ASSUME NEW h, Conversation(h), NEW t \in Turns, NEW r, Carries(r, h, t),
         NEW m, Follows(m, h), m.role # "user", m.calls \in {<<>>, <<t>>},
         m.ref \in {NoCall, t}
  PROVE  Carries(Append(r, m), Append(h, m), t)
<1> DEFINE n == Len(h)
           a == Append(h, m)
           b == Append(r, m)
<1>1. h \in Seq(Messages) /\ n \in Nat /\ m \in Messages /\ Len(h) = n
      /\ r \in Seq(RunMessages) /\ Len(r) = n + 1 /\ r[1] = SystemMessage
  BY DEF Conversation, Follows, Carries
<1>2. m \in RunMessages
  BY <1>1 DEF RunMessages
<1>3. /\ a \in Seq(Messages) /\ Len(a) = n + 1 /\ a[n + 1] = m
      /\ \A i \in 1..n : a[i] = h[i]
  BY <1>1, AppendAt
<1>4. /\ b \in Seq(RunMessages) /\ Len(b) = n + 2 /\ b[n + 2] = m
      /\ \A i \in 1..(n + 1) : b[i] = r[i]
  <2>1. n + 1 + 1 = n + 2
    BY <1>1
  <2>2. QED BY <1>1, <1>2, <2>1, AppendAt
<1> HIDE DEF n, a, b
<1>5. ASSUME NEW i \in 1..Len(a)
      PROVE \/ b[i + 1] = a[i]
            \/ \E w \in Turns : a[i] = UserMessage(w) /\ b[i + 1] = InContext(w)
  <2>1. CASE i \in 1..n
    <3>1. i + 1 \in 1..(n + 1)
      BY <1>1, <2>1
    <3>2. b[i + 1] = r[i + 1] /\ a[i] = h[i]
      BY <1>3, <1>4, <2>1, <3>1
    <3>3. \/ r[i + 1] = h[i]
          \/ \E w \in Turns : h[i] = UserMessage(w) /\ r[i + 1] = InContext(w)
      BY <1>1, <2>1 DEF Carries
    <3>4. QED BY <3>2, <3>3
  <2>2. CASE i = n + 1
    <3>1. i + 1 = n + 2
      BY <1>1, <2>2
    <3>2. QED BY <1>3, <1>4, <2>2, <3>1
  <2>3. QED BY <1>1, <1>3, <1>5, <2>1, <2>2
<1>6. Len(b) = Len(a) + 1 /\ a # <<>> /\ a[Len(a)] = m /\ b[1] = SystemMessage
  BY <1>1, <1>3, <1>4
<1>7. (Asks(m) => m.calls = <<t>>) /\ (m.role = "tool" => m.ref = t)
  <2>1. m.role = "tool" => m.ref # NoCall
    BY <1>1, MessageFields, ConstantsAssumption
  <2>2. QED BY <2>1 DEF Asks
<1>8. Carries(b, a, t)
  BY <1>4, <1>5, <1>6, <1>7 DEF Carries
<1>9. QED BY <1>8 DEF a, b

\* What is appended to extends.
LEMMA AppendExtends ==
  ASSUME NEW S, NEW h \in Seq(S), NEW m \in S
  PROVE  IsStrictPrefix(h, Append(h, m))
<1> DEFINE a == Append(h, m)
           f == SubSeq(a, 1, Len(h))
<1>1. /\ a \in Seq(S) /\ Len(a) = Len(h) + 1 /\ Len(h) \in Nat
      /\ \A i \in 1..Len(h) : a[i] = h[i]
  BY AppendAt
<1> HIDE DEF a
<1>2. /\ f \in Seq(S) /\ Len(f) = Len(h) /\ \A i \in 1..Len(h) : f[i] = a[i]
  <2>1. \A i \in 1..Len(h) : a[i] \in S
    BY <1>1
  <2>2. QED BY <1>1, <2>1, SubSeqProperties
<1> HIDE DEF f
<1>3. f = h
  BY <1>1, <1>2, SeqEqual
<1>4. SubSeq(h, 1, Len(h)) = h
  BY SubSeqFull
<1>5. Len(h) <= Len(a) /\ h # a
  BY <1>1
<1>6. IsPrefix(h, a)
  BY <1>3, <1>4, <1>5 DEF IsPrefix, f
<1>7. QED BY <1>5, <1>6 DEF IsStrictPrefix, a

(***************************************************************************)
(* ShapeInv: every transcript in the file, an object or a thread is a      *)
(* Conversation, and a save writes what its stage says.                    *)
(***************************************************************************)

\* A turn whose message is not in the session yet.
Waits(c) == /\ op[c] = "turn"
            /\ \/ pc[c] \in {"loadWait", "loading", "lockWait"}
               \/ stage[c] = "recover"
\* A turn whose run goes on.
Running(c) == pc[c] = "running" \/ stage[c] \in {"user", "checkpoint"}

\* The turns whose message may be in the session.
Spoken == used \ {turn[c] : c \in {d \in Clients : Waits(d)}}
Known(h, S) == Conversation(h) /\ Says(h) \subseteq Just(S)

Typed ==
  /\ pc \in [Clients -> PCs] /\ stage \in [Clients -> Stages]
  /\ op \in [Clients -> {"none", "turn", "clear", "delete", "stamp"}]
  /\ turn \in [Clients -> Turns \union {None}]
  /\ obj \in [Clients -> 0..MaxObjects] /\ created \in 0..MaxObjects /\ cached \in 0..created
  /\ thread = [c \in Clients |-> thread[c]]
  /\ run = [c \in Clients |-> run[c]]
  /\ histories = [o \in Objects |-> histories[o]]
  /\ used \subseteq Turns

\* Where each task is, and what it has there.
Places ==
  \A c \in Clients :
    /\ stage[c] # "none" <=> pc[c] = "saving"
    /\ pc[c] = "saving" => thread[c].kind = "save"
    /\ pc[c] = "loading" => loader = c /\ created < MaxObjects
    /\ pc[c] \in {"lockWait", "saving", "running"} => obj[c] \in 1..created
    /\ op[c] = "turn" => turn[c] \in used
    /\ Running(c) \/ stage[c] = "recover" => op[c] = "turn"
    /\ \A d \in Clients : op[c] = "turn" /\ op[d] = "turn" /\ turn[c] = turn[d] => c = d

\* Every transcript in a file, an object or a thread is well formed, and has no
\* message of a turn that still waits.
Stored == {disk} \union {histories[o] : o \in Objects}
                 \union {thread[c].content : c \in Clients}
                 \union {o.content : o \in orphans}
Kept == \A h \in Stored : Known(h, Spoken)

\* What a save of the turn writes.
Works(c) ==
  /\ stage[c] = "recover" => Restored(thread[c].content)
  /\ stage[c] = "user" => Restored(Front(thread[c].content))
  /\ stage[c] \in {"user", "checkpoint"} => RunMessagesToHistory(run[c]) = thread[c].content
  /\ Running(c) => /\ Known(RunMessagesToHistory(run[c]), Spoken)
                   /\ Carries(run[c], RunMessagesToHistory(run[c]), turn[c])
Working == \A c \in Clients : Works(c)

ShapeInv == Typed /\ Places /\ Kept /\ Working

\* What the assumptions on the constants give the proofs below.
LEMMA Bounds ==
  /\ MaxObjects \in Nat \ {0} /\ None \notin Clients
  /\ MaxCancels \in Nat /\ MaxDeletes \in Nat
  /\ Objects = 1..MaxObjects /\ NoCall \notin Turns /\ RuntimeContext \notin Turns
  BY ConstantsAssumption DEF Objects

\* A new session is well formed.
LEMMA EmptyKnown == \A S : Known(<<>>, S) /\ Restored(<<>>)
  BY DEF Known, Conversation, Order, Distinct, Says, Restored

\* More turns may have spoken than have.
LEMMA KnownGrows ==
  ASSUME NEW h, NEW S, NEW R, Known(h, S), S \subseteq R
  PROVE  Known(h, R)
  BY DEF Known, Just

\* The first state.
LEMMA InitShape == Init => ShapeInv
<1> SUFFICES ASSUME Init PROVE ShapeInv
  OBVIOUS
<1> USE Bounds DEF Init
<1>1. Typed  BY DEF Typed, PCs, Stages
<1>2. Places BY DEF Places, Running, NoThread
<1>3. Kept
  <2>1. \A h \in Stored : h = <<>>
    BY DEF Stored, NoThread
  <2>2. QED BY <2>1, EmptyKnown DEF Kept
<1>4. Working BY DEF Working, Works, Running
<1>5. QED BY <1>1, <1>2, <1>3, <1>4 DEF ShapeInv

\* Nobody starts to wait: the messages allowed in the session stay allowed.
LEMMA SpokenGrows ==
  ASSUME used \subseteq used',
         \A d \in Clients : Waits(d)' => Waits(d) /\ turn'[d] = turn[d]
  PROVE  Spoken \subseteq Spoken'
  BY DEF Spoken

\* Kept holds on when what is new is well formed.
LEMMA KeptStays ==
  ASSUME Kept, Spoken \subseteq Spoken',
         \A h \in Stored' : h \in Stored \/ Known(h, Spoken')
  PROVE  Kept'
  BY KnownGrows DEF Kept

\* A task whose own part of the state does not change goes on as before.
LEMMA WorksStays ==
  ASSUME NEW d \in Clients, Works(d), Spoken \subseteq Spoken',
         pc'[d] = pc[d], stage'[d] = stage[d], turn'[d] = turn[d], run'[d] = run[d],
         thread'[d].content = thread[d].content
  PROVE  Works(d)'
  BY KnownGrows DEF Works, Running

\* Leaving an operation.
LEMMA FinishShape ==
  ASSUME ShapeInv, NEW c \in Clients, Finish(c),
         loader' \in {loader, LoaderAfter(c)}, created' = created, cached' \in {0, cached},
         histories' = [o \in Objects |-> histories'[o]],
         \A h \in {disk'} \union {histories'[o] : o \in Objects} \union {o.content : o \in orphans'} :
           h \in Stored,
         UNCHANGED used
  PROVE  ShapeInv'
<1> USE Bounds DEF ShapeInv
<1>1. Typed'
  <2>1. pc' \in [Clients -> PCs] /\ stage' \in [Clients -> Stages]
    BY DEF Typed, Finish, PCs, Stages
  <2>2. /\ op' \in [Clients -> {"none", "turn", "clear", "delete", "stamp"}]
        /\ turn' \in [Clients -> Turns \union {None}]
    BY DEF Typed, Finish
  <2>3. /\ obj' \in [Clients -> 0..MaxObjects]
        /\ created' \in 0..MaxObjects /\ cached' \in 0..created'
    BY DEF Typed, Finish
  <2>4. thread' = [d \in Clients |-> thread'[d]] /\ run' = [d \in Clients |-> run'[d]]
    BY DEF Typed, Finish
  <2>5. QED BY <2>1, <2>2, <2>3, <2>4 DEF Typed
<1>2. /\ \A d \in Clients \ {c} : /\ pc'[d] = pc[d] /\ stage'[d] = stage[d] /\ op'[d] = op[d]
                                 /\ turn'[d] = turn[d] /\ obj'[d] = obj[d] /\ run'[d] = run[d]
                                 /\ thread'[d] = thread[d]
      /\ pc'[c] = "idle" /\ stage'[c] = "none" /\ op'[c] = "none" /\ thread'[c] = NoThread
  BY DEF Typed, Finish
<1>3. Spoken \subseteq Spoken'
  BY <1>2, SpokenGrows DEF Waits
<1>4. Places'
  BY <1>2 DEF Places, LoaderAfter, Running, Finish
<1>5. Kept'
  <2>1. ASSUME NEW d \in Clients PROVE thread'[d].content \in Stored \/ thread'[d].content = <<>>
    BY <1>2 DEF Stored, NoThread
  <2>2. \A h \in Stored' : h \in Stored \/ h = <<>>
    BY <2>1 DEF Stored
  <2>3. QED BY <1>3, <2>2, KeptStays, EmptyKnown
<1>6. Working'
  <2>1. ASSUME NEW d \in Clients, d # c PROVE Works(d)'
    BY <1>2, <1>3, <2>1, WorksStays DEF Working
  <2>2. Works(c)'
    BY <1>2 DEF Works, Running
  <2>3. QED BY <2>1, <2>2 DEF Working
<1>7. QED BY <1>1, <1>4, <1>5, <1>6

\* Starting a save of messages that may be stored.
LEMMA SaveShape ==
  ASSUME ShapeInv, NEW c \in Clients, NEW why \in Stages \ {"none"}, NEW messages,
         StartSave(c, why, messages), pc[c] \in {"lockWait", "saving", "running"},
         Known(messages, Spoken'),
         run' = [d \in Clients |-> run'[d]], \A d \in Clients \ {c} : run'[d] = run[d],
         why \in {"recover", "user", "checkpoint"} => op[c] = "turn",
         why = "recover" => pc[c] = "lockWait" /\ Restored(messages),
         why = "user" => Restored(Front(messages)),
         why \in {"user", "checkpoint"} =>
           RunMessagesToHistory(run'[c]) = messages /\ Carries(run'[c], messages, turn[c]),
         histories' = [o \in Objects |-> histories'[o]],
         \A o \in Objects : histories'[o] \in Stored,
         UNCHANGED <<op, turn, obj, created, cached, loader, disk, orphans, used>>
  PROVE  ShapeInv'
<1> USE Bounds DEF ShapeInv
<1>1. Typed'
  BY DEF Typed, StartSave, PCs, Stages
<1>2. /\ \A d \in Clients \ {c} : /\ pc'[d] = pc[d] /\ stage'[d] = stage[d]
                                 /\ thread'[d] = thread[d]
      /\ pc'[c] = "saving" /\ stage'[c] = why /\ thread'[c] = Thread("save", messages)
  BY DEF Typed, StartSave
<1>3. Spoken \subseteq Spoken'
  BY <1>2, SpokenGrows DEF Waits
<1>4. Places'
  BY <1>2 DEF Places, Running, Thread
<1>5. Kept'
  <2>1. \A d \in Clients : thread'[d].content \in Stored \/ thread'[d].content = messages
    BY <1>2 DEF Stored, Thread
  <2>2. \A h \in Stored' : h \in Stored \/ h = messages
    BY <2>1 DEF Stored
  <2>3. QED BY <1>3, <2>2, KeptStays
<1>6. Working'
  <2>1. ASSUME NEW d \in Clients, d # c PROVE Works(d)'
    BY <1>2, <1>3, <2>1, WorksStays DEF Working
  <2>2. Works(c)'
    BY <1>2 DEF Works, Running, Thread
  <2>3. QED BY <2>1, <2>2 DEF Working
<1>7. QED BY <1>1, <1>4, <1>5, <1>6

\* The step of a task that opens its turn on a restored history.
LEMMA AppendUserShape ==
  ASSUME ShapeInv, NEW c \in Clients, NEW history, AppendUser(c, history), Waits(c),
         pc[c] \in {"lockWait", "saving"},
         Restored(history), Known(history, Spoken),
         histories' = [o \in Objects |-> histories'[o]],
         \A o \in Objects : histories'[o] \in Stored,
         UNCHANGED <<op, turn, obj, created, cached, loader, disk, orphans, used>>
  PROVE  ShapeInv'
<1> DEFINE t == turn[c]
           a == Append(history, UserMessage(t))
           r == <<SystemMessage>> \o history \o <<Message("user", <<t, RuntimeContext>>)>>
<1>1. op[c] = "turn" /\ t \in used /\ t \in Turns
  BY DEF Waits, ShapeInv, Places, Typed
<1>2. t \notin Spoken /\ <<t>> \notin Says(history)
  <2>1. t \notin Spoken
    BY DEF Spoken
  <2>2. <<t>> \in Just(Spoken) => t \in Spoken
    BY DEF Just
  <2>3. QED BY <2>1, <2>2 DEF Known
<1>3. /\ Conversation(a) /\ Says(a) = Says(history) \union {<<t>>}
      /\ Carries(r, a, t) /\ Front(a) = history
  BY <1>1, <1>2, Opened
<1>4. RunMessagesToHistory(r) = a
  BY <1>3, CarriedIs
<1>5. StartSave(c, "user", a) /\ run' = [run EXCEPT ![c] = r]
  BY DEF AppendUser
<1> HIDE DEF a, r
<1>6. run' = [d \in Clients |-> run'[d]] /\ run'[c] = r /\ \A d \in Clients \ {c} : run'[d] = run[d]
  BY <1>5 DEF ShapeInv, Typed
<1>7. Spoken \union {t} \subseteq Spoken'
  <2>1. stage'[c] = "user" /\ pc'[c] = "saving" /\ \A d \in Clients \ {c} : pc'[d] = pc[d] /\ stage'[d] = stage[d]
    BY <1>5 DEF StartSave, ShapeInv, Typed
  <2>2. ~Waits(c)' /\ \A d \in Clients \ {c} : Waits(d)' <=> Waits(d)
    BY <2>1 DEF Waits
  <2>3. \A d \in Clients \ {c} : Waits(d) => turn[d] # t
    BY <1>1 DEF Waits, ShapeInv, Places
  <2>4. QED BY <1>1, <2>2, <2>3 DEF Spoken
<1>8. Known(a, Spoken')
  <2>1. Says(history) \subseteq Just(Spoken') /\ <<t>> \in Just(Spoken')
    BY <1>7 DEF Known, Just
  <2>2. QED BY <1>3, <2>1 DEF Known
<1>9. "user" \in Stages \ {"none"}
  BY DEF Stages
<1>10. QED BY <1>1, <1>3, <1>4, <1>5, <1>6, <1>8, <1>9, SaveShape

\* A transcript some object holds can be restored.
LEMMA RecoveredKnown ==
  ASSUME NEW h, NEW S, Known(h, S)
  PROVE  Known(Recovered(h), S) /\ Restored(Recovered(h))
  BY RecoveredRestored DEF Known, Restored

\* The history of the object a task has taken.
LEMMA ObjectKnown ==
  ASSUME ShapeInv, NEW c \in Clients, pc[c] \in {"lockWait", "saving", "running"}
  PROVE  /\ obj[c] \in Objects
         /\ histories[obj[c]] \in Stored /\ Known(histories[obj[c]], Spoken)
<1>1. obj[c] \in Objects
  BY Bounds DEF ShapeInv, Places, Typed
<1>2. histories[obj[c]] \in Stored
  BY <1>1 DEF Stored
<1>3. QED BY <1>1, <1>2 DEF ShapeInv, Kept

\* A save of a turn's message makes the turn one that has spoken.
LEMMA SpokenSaving ==
  ASSUME ShapeInv, NEW c \in Clients, NEW why, NEW messages, StartSave(c, why, messages),
         why = "recover" => pc[c] = "lockWait", UNCHANGED <<op, turn, used>>
  PROVE  Spoken \subseteq Spoken'
<1>1. /\ \A d \in Clients \ {c} : pc'[d] = pc[d] /\ stage'[d] = stage[d]
      /\ pc'[c] = "saving" /\ stage'[c] = why
  BY DEF StartSave, ShapeInv, Typed
<1>2. QED BY <1>1, SpokenGrows DEF Waits

\* The first step in the lane: recovery, a new message, a clear or a stamp.
LEMMA EnterLaneShape ==
  ASSUME ShapeInv, NEW c \in Clients, EnterLane(c)
  PROVE  ShapeInv'
<1> DEFINE h == histories[obj[c]]
<1>1. /\ pc[c] = "lockWait" /\ obj[c] \in Objects /\ h \in Stored /\ Known(h, Spoken)
      /\ UNCHANGED <<cached, created, histories, loader, disk, orphans, used>>
  BY ObjectKnown DEF EnterLane, fileVars, ghostVars
<1>2. /\ histories' = [o \in Objects |-> histories'[o]] /\ \A o \in Objects : histories'[o] \in Stored
      /\ run = [d \in Clients |-> run[d]]
  BY <1>1 DEF ShapeInv, Typed, Stored
<1>3. h \in Seq(Messages)
  BY <1>1 DEF Known, Conversation
<1> HIDE DEF h
<1>4. CASE op[c] = "turn"
  <2>1. CASE NeedsRecovery(h)
    <3>1. StartSave(c, "recover", Recovered(h)) /\ UNCHANGED <<run, op, turn, obj>>
      BY <1>4, <2>1 DEF EnterLane, h
    <3>2. Known(Recovered(h), Spoken) /\ Restored(Recovered(h))
      BY <1>1, RecoveredKnown
    <3>3. Known(Recovered(h), Spoken')
      BY <1>1, <3>1, <3>2, SpokenSaving, KnownGrows
    <3>4. "recover" \in Stages \ {"none"}
      BY DEF Stages
    <3> HIDE DEF Recovered
    <3>5. QED BY <1>1, <1>2, <1>4, <3>1, <3>2, <3>3, <3>4, SaveShape
  <2>2. CASE ~NeedsRecovery(h)
    <3>1. AppendUser(c, h) /\ UNCHANGED <<op, turn, obj>>
      BY <1>4, <2>2 DEF EnterLane, h
    <3>2. Restored(h)
      BY <1>1, <2>2, RecoveredKnown DEF NeedsRecovery
    <3>3. QED BY <1>1, <1>2, <1>4, <3>1, <3>2, AppendUserShape DEF Waits
  <2>3. QED BY <2>1, <2>2
<1>5. CASE op[c] = "clear"
  <2>1. StartSave(c, "clear", <<>>) /\ UNCHANGED <<run, op, turn, obj>>
    BY <1>5 DEF EnterLane
  <2>2. "clear" \in Stages \ {"none"}
    BY DEF Stages
  <2>3. QED BY <1>1, <1>2, <2>1, <2>2, EmptyKnown, SaveShape
<1>6. CASE op[c] = "delete"
  <2>1. /\ pc' = [pc EXCEPT ![c] = "unlinking"]
        /\ thread' = [thread EXCEPT ![c] = Thread("unlink", <<>>)]
        /\ UNCHANGED <<op, turn, obj, stage, run>>
    BY <1>6 DEF EnterLane
  <2>2. \A d \in Clients : d # c => pc'[d] = pc[d] /\ thread'[d] = thread[d]
    BY <2>1 DEF ShapeInv, Typed
  <2>3. pc'[c] = "unlinking" /\ thread'[c] = Thread("unlink", <<>>) /\ stage[c] = "none"
    BY <1>1, <2>1 DEF ShapeInv, Typed, Places
  <2>4. Typed'
    BY <1>1, <1>2, <2>1 DEF ShapeInv, Typed, PCs
  <2>5. Places'
    BY <1>1, <1>6, <2>1, <2>2, <2>3 DEF ShapeInv, Places, Running
  <2>6. Spoken \subseteq Spoken'
    BY <1>1, <2>1, <2>2, <2>3, SpokenGrows DEF Waits
  <2>7. Kept'
    <3>1. \A d \in Clients : thread'[d].content \in Stored \/ thread'[d].content = <<>>
      BY <2>2, <2>3 DEF Stored, Thread
    <3>2. \A x \in Stored' : x \in Stored \/ x = <<>>
      BY <1>1, <3>1 DEF Stored
    <3>3. QED BY <2>6, <3>2, EmptyKnown, KeptStays DEF ShapeInv
  <2>8. Working'
    <3>1. ASSUME NEW d \in Clients, d # c PROVE Works(d)'
      BY <2>1, <2>2, <2>6, <3>1, WorksStays DEF ShapeInv, Working
    <3>2. Works(c)'
      BY <2>1, <2>3 DEF Works, Running
    <3>3. QED BY <3>1, <3>2 DEF Working
  <2>9. QED BY <2>4, <2>5, <2>7, <2>8 DEF ShapeInv
<1>7. CASE op[c] = "stamp" /\ LastAssistant(h) # {}
  <2>1. PICK i \in LastAssistant(h) : StartSave(c, "stamp", [h EXCEPT ![i].ui = TRUE])
    BY <1>7 DEF EnterLane, h
  <2>2. UNCHANGED <<run, op, turn, obj>>
    BY <1>7 DEF EnterLane, h
  <2>3. i \in 1..Len(h) /\ h[i].role = "assistant"
    BY <1>3 DEF LastAssistant
  <2>4. PICK s : s = [h EXCEPT ![i].ui = TRUE]
    OBVIOUS
  <2>5. Conversation(s) /\ Says(s) = Says(h)
    BY <1>1, <2>3, <2>4, StampedConversation DEF Known
  <2>6. Known(s, Spoken)
    BY <1>1, <2>5 DEF Known
  <2>7. StartSave(c, "stamp", s)
    BY <2>1, <2>4
  <2>8. Known(s, Spoken')
    BY <1>1, <2>2, <2>6, <2>7, SpokenSaving, KnownGrows
  <2>9. "stamp" \in Stages \ {"none"}
    BY DEF Stages
  <2>10. QED BY <1>1, <1>2, <2>2, <2>7, <2>8, <2>9, SaveShape
<1>8. CASE op[c] = "stamp" /\ LastAssistant(h) = {}
  <2>1. Finish(c)
    BY <1>8 DEF EnterLane, h
  <2>2. \A x \in {disk'} \union {histories'[o] : o \in Objects} \union {o.content : o \in orphans'} :
          x \in Stored
    BY <1>1 DEF Stored
  <2>3. QED BY <1>1, <1>2, <2>1, <2>2, FinishShape
<1>9. QED BY <1>4, <1>5, <1>6, <1>7, <1>8 DEF EnterLane, h

\* A step of one task that starts no save, stores nothing new and opens no turn.
LEMMA QuietShape ==
  ASSUME ShapeInv, NEW c \in Clients, Typed', Places', Spoken \subseteq Spoken',
         \A d \in Clients \ {c} : /\ pc'[d] = pc[d] /\ stage'[d] = stage[d]
                                  /\ turn'[d] = turn[d] /\ run'[d] = run[d]
                                  /\ thread'[d].content = thread[d].content,
         thread'[c].content \in Stored \union {<<>>},
         \A h \in {disk'} \union {histories'[o] : o \in Objects} \union {o.content : o \in orphans'} :
           h \in Stored,
         Works(c)'
  PROVE  ShapeInv'
<1>1. Kept'
  <2>1. \A d \in Clients : thread'[d].content \in Stored \/ thread'[d].content = <<>>
    BY DEF Stored
  <2>2. \A h \in Stored' : h \in {disk'} \union {histories'[o] : o \in Objects}
                                  \union {o.content : o \in orphans'}
                         \/ \E d \in Clients : h = thread'[d].content
    BY Zenon DEF Stored
  <2>3. \A h \in Stored' : h \in Stored \/ h = <<>>
    BY <2>1, <2>2, Zenon
  <2>4. QED BY <2>3, EmptyKnown, KeptStays DEF ShapeInv
<1>2. Working'
  <2>1. ASSUME NEW d \in Clients, d # c PROVE Works(d)'
    BY <2>1, WorksStays DEF ShapeInv, Working
  <2>2. QED BY <2>1 DEF Working
<1>3. QED BY <1>1, <1>2 DEF ShapeInv

\* Stored, when only the hands of one task change.
LEMMA StoredStays ==
  ASSUME UNCHANGED <<disk, histories, orphans>>
  PROVE  \A h \in {disk'} \union {histories'[o] : o \in Objects} \union {o.content : o \in orphans'} :
           h \in Stored
  BY DEF Stored

\* A client asks for an operation.
LEMMA BeginShape ==
  ASSUME ShapeInv, NEW c \in Clients, Begin(c)
  PROVE  ShapeInv'
<1> USE Bounds DEF ShapeInv
<1>1. UNCHANGED <<stage, run, cached, created, histories, loader, disk, orphans>>
  BY DEF Begin, BeginTurn, BeginClear, BeginDelete, BeginStamp, cacheVars, fileVars, ghostVars
<1>2. pc[c] \in {"idle", "returned"} /\ stage[c] = "none"
  BY DEF Begin, BeginTurn, BeginClear, BeginDelete, BeginStamp, Typed, Places
<1>3. CASE ~BeginDelete(c)
  <2>1. /\ pc' = [pc EXCEPT ![c] = IF cached # 0 THEN "lockWait" ELSE "loadWait"]
        /\ obj' = [obj EXCEPT ![c] = cached] /\ thread' = thread
    BY <1>3 DEF Begin, BeginTurn, BeginClear, BeginStamp, Get
  <2>2. PICK v \in {"turn", "clear", "stamp"} : op' = [op EXCEPT ![c] = v]
    BY <1>3 DEF Begin, BeginTurn, BeginClear, BeginStamp
  <2>3. \/ /\ v # "turn" /\ UNCHANGED <<turn, used>>
        \/ /\ v = "turn" /\ \E t \in Turns \ used : /\ turn' = [turn EXCEPT ![c] = t]
                                                   /\ used' = used \union {t}
    <3>1. CASE \E t \in Turns : BeginTurn(c, t)
      <4>1. PICK t \in Turns : BeginTurn(c, t)
        BY <3>1
      <4>2. v = "turn"
        BY <2>2, <4>1 DEF BeginTurn, Typed
      <4>3. QED BY <4>1, <4>2 DEF BeginTurn
    <3>2. CASE BeginClear(c)
      BY <2>2, <3>2 DEF BeginClear, Typed
    <3>3. CASE BeginStamp(c)
      BY <2>2, <3>3 DEF BeginStamp, Typed, ghostVars
    <3>4. QED BY <1>3, <3>1, <3>2, <3>3 DEF Begin
  <2>4. /\ \A d \in Clients \ {c} : /\ pc'[d] = pc[d] /\ obj'[d] = obj[d] /\ op'[d] = op[d]
                                   /\ turn'[d] = turn[d]
        /\ pc'[c] \in {"lockWait", "loadWait"} /\ obj'[c] = cached /\ op'[c] = v
        /\ pc'[c] = "lockWait" => cached # 0
    BY <2>1, <2>2, <2>3 DEF Typed
  <2>5. Typed'
    <3>1. pc' \in [Clients -> PCs] /\ obj' \in [Clients -> 0..MaxObjects]
      <4>1. cached \in 0..MaxObjects
        BY DEF Typed
      <4>2. QED BY <2>1, <4>1 DEF Typed, PCs
    <3>2. op' \in [Clients -> {"none", "turn", "clear", "delete", "stamp"}]
      BY <2>2 DEF Typed
    <3>3. turn' \in [Clients -> Turns \union {None}] /\ used' \subseteq Turns
      <4>1. CASE UNCHANGED <<turn, used>>
        BY <4>1 DEF Typed
      <4>2. CASE \E t \in Turns : turn' = [turn EXCEPT ![c] = t] /\ used' = used \union {t}
        <5>1. PICK t \in Turns : turn' = [turn EXCEPT ![c] = t] /\ used' = used \union {t}
          BY <4>2
        <5>2. QED BY <5>1 DEF Typed
      <4>3. QED BY <2>3, <4>1, <4>2
    <3>4. QED BY <1>1, <2>1, <3>1, <3>2, <3>3 DEF Typed
  <2>6. Places'
    <3>1. \A d \in Clients : Running(d)' <=> Running(d) /\ d # c
      BY <1>1, <1>2, <2>4 DEF Running
    <3>2. CASE v # "turn"
      BY <1>1, <1>2, <2>1, <2>3, <2>4, <3>1, <3>2 DEF Places, Typed
    <3>3. CASE v = "turn"
      <4>1. PICK t \in Turns \ used : turn' = [turn EXCEPT ![c] = t] /\ used' = used \union {t}
        BY <2>3, <3>3
      <4>2. turn'[c] = t /\ \A d \in Clients : op[d] = "turn" => turn[d] # t
        BY <4>1 DEF Typed, Places
      <4>3. QED BY <1>1, <1>2, <2>1, <2>4, <3>1, <4>1, <4>2 DEF Places, Typed
    <3>4. QED BY <3>2, <3>3
  <2>7. Spoken \subseteq Spoken'
    <3>1. CASE v # "turn"
      BY <1>1, <2>3, <2>4, <3>1, SpokenGrows DEF Waits
    <3>2. CASE v = "turn"
      <4>1. PICK t \in Turns \ used : turn' = [turn EXCEPT ![c] = t] /\ used' = used \union {t}
        BY <2>3, <3>2
      <4>2. \A d \in Clients \ {c} : Waits(d)' => Waits(d) /\ turn'[d] = turn[d]
        BY <1>1, <2>4 DEF Waits
      <4>3. turn'[c] = t
        BY <4>1 DEF Typed
      <4>4. QED BY <4>1, <4>2, <4>3 DEF Spoken
    <3>3. QED BY <3>1, <3>2
  <2>8. Works(c)'
    BY <1>1, <1>2, <2>4 DEF Works, Running
  <2>9. thread'[c].content \in Stored
    BY <2>1 DEF Stored
  <2>10. QED BY <1>1, <2>1, <2>4, <2>5, <2>6, <2>7, <2>8, <2>9, StoredStays, QuietShape
<1>4. CASE BeginDelete(c)
  <2>1. /\ op' = [op EXCEPT ![c] = "delete"] /\ obj' = [obj EXCEPT ![c] = cached]
        /\ UNCHANGED <<turn, used>>
        /\ \/ /\ cached = 0 /\ pc' = [pc EXCEPT ![c] = "unlinking"]
              /\ thread' = [thread EXCEPT ![c] = Thread("unlink", <<>>)]
           \/ cached # 0 /\ pc' = [pc EXCEPT ![c] = "lockWait"] /\ UNCHANGED thread
    BY <1>4 DEF BeginDelete
  <2>2. /\ \A d \in Clients \ {c} : /\ pc'[d] = pc[d] /\ obj'[d] = obj[d] /\ op'[d] = op[d]
                                   /\ thread'[d] = thread[d]
        /\ pc'[c] \in {"lockWait", "unlinking"} /\ obj'[c] = cached /\ op'[c] = "delete"
        /\ pc'[c] = "lockWait" => cached # 0
        /\ thread'[c] \in {thread[c], Thread("unlink", <<>>)}
    BY <2>1 DEF Typed
  <2>3. Typed'
    <3>1. pc' \in [Clients -> PCs] /\ obj' \in [Clients -> 0..MaxObjects]
      <4>1. cached \in 0..MaxObjects
        BY DEF Typed
      <4>2. QED BY <2>1, <4>1 DEF Typed, PCs
    <3>2. op' \in [Clients -> {"none", "turn", "clear", "delete", "stamp"}]
      BY <2>1 DEF Typed
    <3>3. thread' = [d \in Clients |-> thread'[d]]
      BY <2>1 DEF Typed
    <3>4. QED BY <1>1, <2>1, <3>1, <3>2, <3>3 DEF Typed
  <2>4. Places'
    BY <1>1, <1>2, <2>1, <2>2 DEF Places, Running, Typed
  <2>5. Spoken \subseteq Spoken'
    BY <1>1, <1>2, <2>1, <2>2, SpokenGrows DEF Waits
  <2>6. Works(c)'
    BY <1>1, <1>2, <2>2 DEF Works, Running
  <2>7. thread'[c].content \in Stored \union {<<>>}
    BY <2>2 DEF Stored, Thread
  <2>8. QED BY <1>1, <2>1, <2>2, <2>3, <2>4, <2>5, <2>6, <2>7, StoredStays, QuietShape
<1>5. QED BY <1>3, <1>4

\* SessionManager.load, under the load lock.
LEMMA LoadShape ==
  ASSUME ShapeInv, NEW c \in Clients, EnterLoad(c) \/ LoadDone(c)
  PROVE  ShapeInv'
<1> USE Bounds DEF ShapeInv
<1>1. CASE EnterLoad(c)
  <2>1. /\ pc[c] = "loadWait" /\ loader = None /\ stage[c] = "none"
        /\ UNCHANGED <<op, turn, stage, run, cached, created, histories, disk, orphans, used>>
    BY <1>1 DEF EnterLoad, fileVars, ghostVars, Places
  <2>2. \/ /\ cached # 0 /\ obj' = [obj EXCEPT ![c] = cached]
           /\ pc' = [pc EXCEPT ![c] = "lockWait"] /\ UNCHANGED <<loader, thread>>
        \/ /\ created < MaxObjects /\ loader' = c /\ thread' = [thread EXCEPT ![c] = Thread("load", <<>>)]
           /\ pc' = [pc EXCEPT ![c] = "loading"] /\ UNCHANGED obj
    BY <1>1 DEF EnterLoad
  <2>3. /\ \A d \in Clients \ {c} : pc'[d] = pc[d] /\ obj'[d] = obj[d] /\ thread'[d] = thread[d]
        /\ \/ pc'[c] = "lockWait" /\ obj'[c] = cached /\ cached # 0 /\ loader' = loader
           \/ pc'[c] = "loading" /\ loader' = c /\ created < MaxObjects
        /\ thread'[c] \in {thread[c], Thread("load", <<>>)}
    BY <2>2 DEF Typed
  <2>4. Typed'
    <3>1. pc' \in [Clients -> PCs]
      BY <2>2 DEF Typed, PCs
    <3>2. obj' \in [Clients -> 0..MaxObjects]
      <4>1. cached \in 0..MaxObjects
        BY DEF Typed
      <4>2. QED BY <2>2, <4>1 DEF Typed
    <3>3. thread' = [d \in Clients |-> thread'[d]]
      BY <2>2 DEF Typed
    <3>4. QED BY <2>1, <3>1, <3>2, <3>3 DEF Typed
  <2>5. Places'
    <3>1. \A d \in Clients : pc[d] # "loading"
      BY <2>1 DEF Places
    <3>2. QED BY <2>1, <2>3, <3>1 DEF Places, Running, Typed
  <2>6. Spoken \subseteq Spoken'
    BY <2>1, <2>3, SpokenGrows DEF Waits
  <2>7. Works(c)'
    BY <2>1, <2>3 DEF Works, Running
  <2>8. thread'[c].content \in Stored \union {<<>>}
    BY <2>3 DEF Stored, Thread
  <2>9. QED BY <2>1, <2>3, <2>4, <2>5, <2>6, <2>7, <2>8, StoredStays, QuietShape
<1>2. CASE LoadDone(c)
  <2>1. /\ pc[c] = "loading" /\ stage[c] = "none" /\ created < MaxObjects /\ loader = c
        /\ created' = created + 1 /\ cached' = created + 1
        /\ histories' = [histories EXCEPT ![created + 1] = thread[c].content]
        /\ obj' = [obj EXCEPT ![c] = created + 1] /\ loader' = LoaderAfter(c)
        /\ pc' = [pc EXCEPT ![c] = "lockWait"] /\ thread' = [thread EXCEPT ![c] = NoThread]
        /\ UNCHANGED <<op, turn, stage, run, disk, orphans, used>>
    BY <1>2 DEF LoadDone, fileVars, ghostVars, Places
  <2>2. /\ \A d \in Clients \ {c} : pc'[d] = pc[d] /\ obj'[d] = obj[d] /\ thread'[d] = thread[d]
        /\ pc'[c] = "lockWait" /\ obj'[c] = created + 1 /\ thread'[c] = NoThread
    BY <2>1 DEF Typed
  <2>3. created + 1 \in 1..MaxObjects /\ created \in Nat
    BY <2>1 DEF Typed
  <2>4. Typed'
    <3>1. pc' \in [Clients -> PCs] /\ obj' \in [Clients -> 0..MaxObjects]
      BY <2>1, <2>3 DEF Typed, PCs
    <3>2. created' \in 0..MaxObjects /\ cached' \in 0..created'
      BY <2>1, <2>3
    <3>3. thread' = [d \in Clients |-> thread'[d]] /\ histories' = [o \in Objects |-> histories'[o]]
      BY <2>1 DEF Typed
    <3>4. QED BY <2>1, <3>1, <3>2, <3>3 DEF Typed
  <2>5. Places'
    <3>1. \A d \in Clients \ {c} : pc[d] # "loading"
      BY <2>1 DEF Places
    <3>2. \A d \in Clients : obj[d] \in 1..created => obj[d] \in 1..created'
      BY <2>1, <2>3
    <3>3. QED BY <2>1, <2>2, <2>3, <3>1, <3>2 DEF Places, Running
  <2>6. Spoken \subseteq Spoken'
    BY <2>1, <2>2, SpokenGrows DEF Waits
  <2>7. Works(c)'
    BY <2>1, <2>2 DEF Works, Running
  <2>8. thread'[c].content = <<>>
    BY <2>2 DEF NoThread
  <2>9. \A h \in {disk'} \union {histories'[o] : o \in Objects} \union {o.content : o \in orphans'} :
          h \in Stored
    <3>1. \A o \in Objects : histories'[o] \in {histories[o], thread[c].content}
      BY <2>1 DEF Typed
    <3>2. QED BY <2>1, <3>1 DEF Stored
  <2>10. QED BY <2>1, <2>2, <2>4, <2>5, <2>6, <2>7, <2>8, <2>9, QuietShape
<1>3. QED BY <1>1, <1>2

\* A thread writes or reads the file, or fails.
LEMMA ThreadShape ==
  ASSUME ShapeInv, NEW c \in Clients, ThreadDone(c) \/ ThreadFails(c)
  PROVE  ShapeInv'
<1> USE Bounds DEF ShapeInv
<1>1. UNCHANGED <<pc, op, turn, obj, stage, run, cached, created, histories, loader, orphans, used>>
  BY DEF ThreadDone, ThreadFails, cacheVars, fileVars, ghostVars
<1>2. PICK v, z :
        /\ v \in Stored
        /\ thread' = [thread EXCEPT ![c] = [kind |-> thread[c].kind, state |-> z, content |-> v]]
        /\ thread[c].kind = "save" => v = thread[c].content
  <2>0. disk \in Stored /\ thread[c].content \in Stored
    BY DEF Stored
  <2>1. CASE ThreadDone(c)
    BY <2>0, <2>1 DEF ThreadDone
  <2>2. CASE ThreadFails(c)
    BY <2>0, <2>2 DEF ThreadFails
  <2>3. QED BY <2>1, <2>2
<1>3. disk' \in Stored \union {<<>>} /\ (disk' = <<>> => Known(disk', Spoken))
  <2>1. CASE ThreadDone(c)
    BY <2>1, EmptyKnown DEF ThreadDone, FileAfter, Stored
  <2>2. CASE ThreadFails(c)
    BY <2>2, EmptyKnown DEF ThreadFails, fileVars, Stored
  <2>3. QED BY <2>1, <2>2
<1>4. /\ \A d \in Clients : d # c => thread'[d] = thread[d]
      /\ thread'[c].kind = thread[c].kind /\ thread'[c].content = v
  BY <1>2 DEF Typed
<1>5. Typed'
  <2>1. thread' = [d \in Clients |-> thread'[d]]
    BY <1>2 DEF Typed
  <2>2. QED BY <1>1, <2>1 DEF Typed
<1>6. Places'
  BY <1>1, <1>4 DEF Places, Running
<1>7. Spoken' = Spoken
  BY <1>1 DEF Spoken, Waits
<1>8. Kept'
  <2>1. \A d \in Clients : thread'[d].content \in Stored
    BY <1>2, <1>4 DEF Stored
  <2>2. \A h \in Stored' : h \in Stored \/ h = <<>>
    BY <1>1, <1>3, <2>1 DEF Stored
  <2>3. QED BY <1>7, <2>2, EmptyKnown, KeptStays
<1>9. Working'
  <2>1. ASSUME NEW d \in Clients PROVE Works(d)'
    <3>1. thread'[d].content = thread[d].content \/ stage[d] = "none"
      BY <1>2, <1>4 DEF Places
    <3>2. CASE thread'[d].content = thread[d].content
      BY <1>1, <1>7, <3>2, WorksStays DEF Working
    <3>3. CASE stage[d] = "none"
      <4>1. Works(d)
        BY DEF Working
      <4>2. Running(d)' <=> Running(d)
        BY <1>1 DEF Running
      <4>3. QED BY <1>1, <1>7, <3>3, <4>1, <4>2 DEF Works
    <3>4. QED BY <3>1, <3>2, <3>3
  <2>2. QED BY <2>1 DEF Working
<1>10. QED BY <1>5, <1>6, <1>8, <1>9

\* A thread nobody awaits ends.
LEMMA OrphanShape ==
  ASSUME ShapeInv, OrphanEnds
  PROVE  ShapeInv'
<1> USE DEF ShapeInv
<1>1. PICK o \in orphans : /\ orphans' = orphans \ {o}
                           /\ disk' \in {disk, FileAfter(o.kind, o.content)}
                           /\ UNCHANGED <<taskVars, cacheVars, ghostVars>>
  BY DEF OrphanEnds
<1>2. Typed'
  BY <1>1 DEF Typed, taskVars, cacheVars, ghostVars
<1>3. Places'
  BY <1>1 DEF Places, Running, taskVars, cacheVars, ghostVars
<1>4. Spoken' = Spoken
  BY <1>1 DEF Spoken, Waits, taskVars, ghostVars
<1>5. Kept'
  <2>1. disk' \in {disk, o.content, <<>>}
    BY <1>1 DEF FileAfter
  <2>2. \A h \in Stored' : h \in Stored \/ h = <<>>
    BY <1>1, <2>1 DEF Stored, taskVars, cacheVars
  <2>3. QED BY <1>4, <2>2, EmptyKnown, KeptStays
<1>6. Working'
  BY <1>1, <1>4 DEF Working, Works, Running, taskVars
<1>7. QED BY <1>2, <1>3, <1>5, <1>6

\* Where a finished operation leaves the stored transcripts.
LEMMA LeaveShape ==
  ASSUME ShapeInv, NEW c \in Clients, Finish(c),
         loader' \in {loader, LoaderAfter(c)}, cached' \in {0, cached},
         UNCHANGED <<created, histories, disk, used>>, UNCHANGED orphans \/ Abandon(c)
  PROVE  ShapeInv'
<1>1. \A h \in {disk'} \union {histories'[o] : o \in Objects} \union {o.content : o \in orphans'} :
        h \in Stored
  BY DEF Stored, Abandon
<1>2. histories' = [o \in Objects |-> histories'[o]]
  BY DEF ShapeInv, Typed
<1>3. QED BY <1>1, <1>2, FinishShape

\* What replace_and_save publishes is stored.
LEMMA PublishStored ==
  ASSUME ShapeInv, NEW c \in Clients, histories' = [histories EXCEPT ![obj[c]] = Published(c)],
         UNCHANGED <<disk, orphans>>
  PROVE  /\ histories' = [o \in Objects |-> histories'[o]]
         /\ \A o \in Objects : histories'[o] \in Stored
         /\ \A h \in {disk'} \union {histories'[o] : o \in Objects} \union {o.content : o \in orphans'} :
              h \in Stored
<1>1. \A o \in Objects : histories'[o] \in {histories[o], thread[c].content}
  BY DEF ShapeInv, Typed, Published
<1>2. histories' = [o \in Objects |-> histories'[o]]
  BY DEF ShapeInv, Typed
<1>3. QED BY <1>1, <1>2 DEF Stored

\* A failed turn is closed on what its object holds.
LEMMA CloseShape ==
  ASSUME ShapeInv, NEW c \in Clients, CloseTurn(c), pc[c] \in {"saving", "running"},
         UNCHANGED <<cached, created, histories, loader, disk, orphans, used>>
  PROVE  ShapeInv'
<1> DEFINE h == histories[obj[c]]
<1>1. obj[c] \in Objects /\ Known(h, Spoken)
  BY ObjectKnown
<1>2. CASE Finish(c)
  BY <1>2, LeaveShape
<1>3. CASE /\ StartSave(c, "close", Recovered(h))
           /\ UNCHANGED <<op, turn, obj, run, cancels, holder>>
  <2>1. Known(Recovered(h), Spoken)
    BY <1>1, RecoveredKnown
  <2> HIDE DEF Recovered, h
  <2>2. Known(Recovered(h), Spoken')
    BY <1>3, <2>1, SpokenSaving, KnownGrows
  <2>3. "close" \in Stages \ {"none"}
    BY DEF Stages
  <2>4. /\ histories' = [o \in Objects |-> histories'[o]] /\ \A o \in Objects : histories'[o] \in Stored
        /\ run = [d \in Clients |-> run[d]]
    BY DEF ShapeInv, Typed, Stored
  <2>5. QED BY <1>3, <2>2, <2>3, <2>4, SaveShape
<1>4. QED BY <1>2, <1>3 DEF CloseTurn

\* The ends of an operation: failed saves, deletions, a run that raises or
\* returns.
LEMMA EndShape ==
  ASSUME ShapeInv, NEW c \in Clients,
         \/ SaveDone(c) \/ SaveFailed(c) \/ LoadFailed(c) \/ DeleteDone(c)
         \/ DeleteFailed(c) \/ EndTurn(c) \/ RunRaises(c)
  PROVE  ShapeInv'
<1> USE DEF fileVars, ghostVars
<1>1. CASE SaveDone(c)
  <2> USE <1>1
  <2>1. /\ pc[c] = "saving" /\ UNCHANGED <<cached, created, loader, disk, orphans, used>>
        /\ histories' = [histories EXCEPT ![obj[c]] = Published(c)]
    BY DEF SaveDone
  <2>2. /\ histories' = [o \in Objects |-> histories'[o]]
        /\ \A o \in Objects : histories'[o] \in Stored
        /\ \A h \in {disk'} \union {histories'[o] : o \in Objects} \union {o.content : o \in orphans'} :
             h \in Stored
    BY <2>1, PublishStored
  <2>3. CASE Finish(c)
    BY <2>1, <2>2, <2>3, FinishShape
  <2>4. CASE /\ stage[c] = "recover" /\ AppendUser(c, thread[c].content)
             /\ UNCHANGED <<op, turn, obj, cancels, holder>>
    <3>1. thread[c].content \in Stored
      BY DEF Stored
    <3>2. Restored(thread[c].content) /\ Known(thread[c].content, Spoken) /\ Waits(c)
      BY <2>4, <3>1 DEF ShapeInv, Working, Works, Kept, Waits, Places
    <3>3. QED BY <2>1, <2>2, <2>4, <3>2, AppendUserShape
  <2>5. CASE /\ stage[c] \in {"user", "checkpoint"}
             /\ pc' = [pc EXCEPT ![c] = "running"]
             /\ stage' = [stage EXCEPT ![c] = "none"]
             /\ thread' = [thread EXCEPT ![c] = NoThread]
             /\ UNCHANGED <<op, turn, obj, run, interrupted, cancels, holder>>
    <3>1. /\ \A d \in Clients \ {c} : /\ pc'[d] = pc[d] /\ stage'[d] = stage[d]
                                     /\ thread'[d] = thread[d]
          /\ pc'[c] = "running" /\ stage'[c] = "none" /\ thread'[c] = NoThread
      BY <2>5 DEF ShapeInv, Typed
    <3>2. Typed'
      BY <2>1, <2>2, <2>5 DEF ShapeInv, Typed, PCs, Stages
    <3>3. Places'
      BY <2>1, <2>5, <3>1 DEF ShapeInv, Places, Running
    <3>4. Spoken \subseteq Spoken'
      BY <2>1, <2>5, <3>1, SpokenGrows DEF Waits
    <3>5. Works(c)'
      <4>1. Running(c)
        BY <2>5 DEF Running
      <4>2. Works(c)
        BY DEF ShapeInv, Working
      <4>3. /\ Known(RunMessagesToHistory(run[c]), Spoken)
            /\ Carries(run[c], RunMessagesToHistory(run[c]), turn[c])
        BY <4>1, <4>2 DEF Works
      <4>4. Known(RunMessagesToHistory(run[c]), Spoken')
        BY <3>4, <4>3, KnownGrows
      <4>5. QED BY <2>5, <3>1, <4>3, <4>4 DEF Works
    <3>6. thread'[c].content = <<>>
      BY <3>1 DEF NoThread
    <3>7. QED BY <2>2, <2>5, <3>1, <3>2, <3>3, <3>4, <3>5, <3>6, QuietShape
  <2>6. QED BY <2>3, <2>4, <2>5 DEF SaveDone
<1>2. CASE SaveFailed(c)
  <2>1. pc[c] = "saving" /\ UNCHANGED <<cached, created, histories, loader, disk, orphans, used>>
    BY <1>2 DEF SaveFailed
  <2>2. QED BY <1>2, <2>1, CloseShape, LeaveShape DEF SaveFailed
<1>3. CASE RunRaises(c)
  BY <1>3, CloseShape DEF RunRaises
<1>4. CASE LoadFailed(c) \/ EndTurn(c) \/ DeleteFailed(c)
  BY <1>4, LeaveShape DEF LoadFailed, EndTurn, DeleteFailed
<1>5. CASE DeleteDone(c)
  BY <1>5, LeaveShape DEF DeleteDone, CacheAfterDelete
<1>6. QED BY <1>1, <1>2, <1>3, <1>4, <1>5

\* The message of a tool call.
LEMMA CallMessage ==
  ASSUME NEW t \in Turns
  PROVE  /\ ToolCalls(<<t>>) \in Messages /\ Asks(ToolCalls(<<t>>)) /\ ~Replies(ToolCalls(<<t>>))
         /\ ToolCalls(<<t>>).role = "assistant" /\ ToolCalls(<<t>>).calls = <<t>>
         /\ ToolCalls(<<t>>).ref = NoCall
<1>1. ToolCalls(<<t>>) = [role |-> "assistant", text |-> <<>>, parts |-> FALSE, reasoning |-> FALSE,
                          calls |-> <<t>>, ref |-> NoCall, ui |-> FALSE]
  <2>1. PICK ids : ids = <<t>>
    OBVIOUS
  <2>2. PICK m : m = ToolCalls(ids)
    OBVIOUS
  <2>3. m = [role |-> "assistant", text |-> <<>>, parts |-> FALSE, reasoning |-> FALSE,
             calls |-> ids, ref |-> NoCall, ui |-> FALSE]
    BY <2>2 DEF ToolCalls, Message
  <2>4. QED BY <2>1, <2>2, <2>3, Zenon
<1>2. <<t>> \in Just(Turns) /\ <<t>> # <<>>
  BY DEF Just
<1>3. PICK ids : ids = <<t>>
  OBVIOUS
<1>4. ToolCalls(ids) = [role |-> "assistant", text |-> <<>>, parts |-> FALSE, reasoning |-> FALSE,
                        calls |-> ids, ref |-> NoCall, ui |-> FALSE]
      /\ ids \in Just(Turns) /\ ids # <<>>
  BY <1>1, <1>2, <1>3
<1>5. /\ ToolCalls(ids) \in Messages /\ Asks(ToolCalls(ids)) /\ ~Replies(ToolCalls(ids))
      /\ ToolCalls(ids).role = "assistant" /\ ToolCalls(ids).calls = ids
      /\ ToolCalls(ids).ref = NoCall
  BY <1>4 DEF Messages, Asks, Replies
<1>6. QED BY <1>3, <1>5

\* The message of a tool result.
LEMMA ResultMessage ==
  ASSUME NEW t \in Turns, NEW w \in Speech
  PROVE  /\ ToolResult(t, w) \in Messages /\ ToolResult(t, w).role = "tool"
         /\ ToolResult(t, w).calls = <<>> /\ ToolResult(t, w).ref = t
<1>1. ToolResult(t, w) = [role |-> "tool", text |-> <<w>>, parts |-> FALSE, reasoning |-> FALSE,
                          calls |-> <<>>, ref |-> t, ui |-> FALSE]
  <2>1. PICK m : m = ToolResult(t, w)
    OBVIOUS
  <2>2. m = [role |-> "tool", text |-> <<w>>, parts |-> FALSE, reasoning |-> FALSE,
             calls |-> <<>>, ref |-> t, ui |-> FALSE]
    BY <2>1 DEF ToolResult, Message
  <2>3. QED BY <2>1, <2>2, Zenon
<1>2. <<w>> \in Just(Speech) /\ <<w>> # <<>>
  BY DEF Just
<1> DEFINE m == [role |-> "tool", text |-> <<w>>, parts |-> FALSE, reasoning |-> FALSE,
                 calls |-> <<>>, ref |-> t, ui |-> FALSE]
<1>3. m \in Messages
  BY <1>2 DEF Messages
<1>4. m.role = "tool" /\ m.calls = <<>> /\ m.ref = t
  OBVIOUS
<1> HIDE DEF m
<1>5. ToolResult(t, w) = m
  BY <1>1 DEF m
<1>6. QED BY <1>3, <1>4, <1>5

\* What the runner adds to its messages may follow the history they carry.
LEMMA AnswerFollows ==
  ASSUME ShapeInv, NEW c \in Clients, Checkpoint(c)
  PROVE  LET h == RunMessagesToHistory(run[c])
         IN  /\ Conversation(h) /\ Carries(run[c], h, turn[c]) /\ turn[c] \in Turns
             /\ \E m : /\ run' = [run EXCEPT ![c] = Append(run[c], m)]
                       /\ StartSave(c, "checkpoint", RunMessagesToHistory(Append(run[c], m)))
                       /\ Follows(m, h) /\ m.role # "user"
                       /\ m.calls \in {<<>>, <<turn[c]>>} /\ m.ref \in {NoCall, turn[c]}
<1> DEFINE h == RunMessagesToHistory(run[c])
           n == Len(h)
           t == turn[c]
           r == run[c]
<1>1. pc[c] = "running" /\ Running(c) /\ Works(c)
  BY DEF Checkpoint, Running, ShapeInv, Working
<1>2. Conversation(h) /\ Carries(r, h, t)
  BY <1>1 DEF Works, Known
<1>3. t \in Turns
  BY <1>1 DEF ShapeInv, Places, Typed
<1> HIDE DEF h
<1>4. h \in Seq(Messages) /\ n \in Nat /\ h # <<>> /\ n \in 1..n /\ h[n] \in Messages /\ Len(h) = n
  BY <1>2, LastIs DEF Conversation, Carries
<1>5. r \in Seq(RunMessages) /\ Len(r) = n + 1
  BY <1>2 DEF Carries
<1>6. ASSUME NEW i \in 1..n
      PROVE  /\ r[i + 1].role = h[i].role /\ r[i + 1].calls = h[i].calls
             /\ h[i].role # "user" => r[i + 1] = h[i]
  <2>1. r[i + 1] = h[i] \/ \E w \in Turns : h[i] = UserMessage(w) /\ r[i + 1] = InContext(w)
    BY <1>2, <1>6 DEF Carries
  <2>2. \A w : /\ InContext(w).role = "user" /\ UserMessage(w).role = "user"
               /\ InContext(w).calls = UserMessage(w).calls
    BY DEF InContext, UserMessage, Message
  <2>3. QED BY <2>1, <2>2
<1>7. Last(r).role = h[n].role /\ Last(r).calls = h[n].calls
  <2>1. Last(r) = r[n + 1]
    BY <1>5 DEF Last
  <2>2. QED BY <1>4, <1>6, <2>1
<1>8. PICK m : /\ run' = [run EXCEPT ![c] = Append(run[c], m)]
               /\ StartSave(c, "checkpoint", RunMessagesToHistory(Append(run[c], m)))
               /\ IF h[n].calls # <<>> THEN m = ToolResult(t, t)
                  ELSE \/ m = Assistant(t)
                       \/ /\ m = ToolCalls(<<t>>)
                          /\ ~\E i \in DOMAIN r : t \in CallIds(r[i])
               /\ h[n].role # "assistant" \/ h[n].calls # <<>>
  BY <1>7 DEF Checkpoint
<1>9. t \in Speech
  BY <1>3 DEF Speech
<1>10. h[n].role \in {"user", "assistant", "tool"}
  BY <1>4, MessageFields
<1>11. Follows(m, h) /\ m.role # "user" /\ m.calls \in {<<>>, <<t>>} /\ m.ref \in {NoCall, t}
  <2>1. CASE h[n].calls # <<>>
    <3>1. m = ToolResult(t, t) /\ Asks(h[n])
      BY <1>4, <1>8, <2>1, MessageFields DEF Asks
    <3>2. h[n].calls = <<t>>
      BY <1>2, <3>1 DEF Carries
    <3>3. QED BY <1>3, <1>4, <1>9, <3>1, <3>2, ResultMessage DEF Follows, Asks, Replies
  <2>2. CASE h[n].calls = <<>> /\ m = Assistant(t)
    <3>1. h[n].role \in {"user", "tool"}
      BY <1>8, <1>10, <2>2
    <3>2. m.calls = <<>> /\ m.ref = NoCall
      BY <2>2 DEF Assistant, Message
    <3>3. QED BY <1>4, <1>9, <2>2, <3>1, <3>2, ReplyMessage DEF Follows
  <2>3. CASE h[n].calls = <<>> /\ m = ToolCalls(<<t>>) /\ ~\E i \in DOMAIN r : t \in CallIds(r[i])
    <3>1. h[n].role # "tool"
      <4> SUFFICES ASSUME h[n].role = "tool" PROVE FALSE
        OBVIOUS
      <4>1. h[n].ref = t
        BY <1>2 DEF Carries
      <4>2. n # 1 /\ Asks(h[n - 1]) /\ h[n - 1].calls = <<t>>
        BY <1>2, <1>4, <4>1 DEF Conversation, Order
      <4>3. n - 1 \in 1..n /\ n - 1 + 1 = n /\ n \in DOMAIN r
        <5>1. DOMAIN r = 1..(n + 1)
          BY <1>5
        <5> HIDE DEF n, r
        <5>2. QED BY <1>4, <4>2, <5>1
      <4>4. r[n] = h[n - 1]
        BY <1>6, <4>2, <4>3 DEF Asks
      <4>5. Range(<<t>>) = {t} /\ t # NoCall
        BY <1>3, Bounds DEF Range
      <4>6. t \in CallIds(r[n])
        BY <4>2, <4>4, <4>5 DEF CallIds, Asks
      <4>7. QED BY <2>3, <4>3, <4>6
    <3>2. h[n].role = "user"
      BY <1>8, <1>10, <2>3, <3>1
    <3>3. h[n].text = <<t>>
      BY <1>2, <3>2 DEF Carries
    <3>4. QED BY <1>3, <1>4, <2>3, <3>2, <3>3, CallMessage DEF Follows
  <2>4. QED BY <1>8, <2>1, <2>2, <2>3
<1>12. QED BY <1>2, <1>3, <1>8, <1>11 DEF h

\* The steps of a run.
LEMMA RunShape ==
  ASSUME ShapeInv, NEW c \in Clients, Checkpoint(c) \/ RunReturns(c)
  PROVE  ShapeInv'
<1>1. CASE Checkpoint(c)
  <2> DEFINE h == RunMessagesToHistory(run[c])
             t == turn[c]
  <2>1. Conversation(h) /\ Carries(run[c], h, t) /\ t \in Turns
    BY <1>1, AnswerFollows
  <2>2. PICK m : /\ run' = [run EXCEPT ![c] = Append(run[c], m)]
                 /\ StartSave(c, "checkpoint", RunMessagesToHistory(Append(run[c], m)))
                 /\ Follows(m, h) /\ m.role # "user"
                 /\ m.calls \in {<<>>, <<t>>} /\ m.ref \in {NoCall, t}
    BY <1>1, AnswerFollows
  <2>3. Known(h, Spoken)
    BY <1>1 DEF Checkpoint, Running, ShapeInv, Working, Works
  <2> HIDE DEF h
  <2>4. PICK a, b : a = Append(h, m) /\ b = Append(run[c], m)
    OBVIOUS
  <2>5. Conversation(a) /\ Says(a) = Says(h) /\ Carries(b, a, t)
    BY <2>1, <2>2, <2>4, Followed, CarriesOn
  <2>6. RunMessagesToHistory(b) = a
    BY <2>5, CarriedIs
  <2>7. StartSave(c, "checkpoint", a)
    BY <2>2, <2>4, <2>6
  <2>8. /\ pc[c] = "running" /\ op[c] = "turn"
        /\ UNCHANGED <<op, turn, obj, created, cached, histories, loader, disk, orphans, used>>
    BY <1>1 DEF Checkpoint, cacheVars, fileVars, ghostVars, ShapeInv, Places, Running
  <2>9. Known(a, Spoken)
    BY <2>3, <2>5 DEF Known
  <2>10. Known(a, Spoken')
    BY <2>7, <2>8, <2>9, SpokenSaving, KnownGrows
  <2>11. /\ run' = [d \in Clients |-> run'[d]] /\ run'[c] = b
         /\ \A d \in Clients \ {c} : run'[d] = run[d]
         /\ histories' = [o \in Objects |-> histories'[o]] /\ \A o \in Objects : histories'[o] \in Stored
    BY <2>2, <2>4, <2>8 DEF ShapeInv, Typed, Stored
  <2>12. "checkpoint" \in Stages \ {"none"}
    BY DEF Stages
  <2>13. QED BY <2>5, <2>6, <2>7, <2>8, <2>10, <2>11, <2>12, SaveShape
<1>2. CASE RunReturns(c)
  <2>1. /\ pc[c] = "running" /\ pc' = [pc EXCEPT ![c] = "returned"]
        /\ obj' = [obj EXCEPT ![c] = 0]
        /\ UNCHANGED <<op, turn, stage, run, thread, cached, created, histories, loader,
                       disk, orphans, used>>
    BY <1>2 DEF RunReturns, fileVars, ghostVars
  <2>2. /\ \A d \in Clients \ {c} : pc'[d] = pc[d] /\ obj'[d] = obj[d]
        /\ pc'[c] = "returned" /\ stage[c] = "none"
    BY <2>1 DEF ShapeInv, Typed, Places
  <2>3. Typed'
    BY <2>1, Bounds DEF ShapeInv, Typed, PCs
  <2>4. Places'
    BY <2>1, <2>2 DEF ShapeInv, Places, Running
  <2>5. Spoken \subseteq Spoken'
    BY <2>1, <2>2, SpokenGrows DEF Waits
  <2>6. Works(c)'
    BY <2>1, <2>2 DEF Works, Running
  <2>7. thread'[c].content \in Stored
    BY <2>1 DEF Stored
  <2>8. QED BY <2>1, <2>2, <2>3, <2>4, <2>5, <2>6, <2>7, StoredStays, QuietShape
<1>3. QED BY <1>1, <1>2

\* A cancellation, wherever the task is.
LEMMA CancelShape ==
  ASSUME ShapeInv, NEW c \in Clients, Cancel(c)
  PROVE  ShapeInv'
<1>1. CASE pc[c] = "saving" /\ ~interrupted[c]
  <2>1. UNCHANGED <<pc, op, turn, obj, stage, run, thread, cached, created, histories, loader,
                    disk, orphans, used>>
    BY <1>1 DEF Cancel, ghostVars
  <2>2. Typed' /\ Places' /\ Spoken' = Spoken /\ Stored' = Stored
    BY <2>1 DEF ShapeInv, Typed, Places, Running, Spoken, Waits, Stored
  <2>3. Kept' /\ Working'
    BY <2>1, <2>2 DEF ShapeInv, Kept, Working, Works, Running
  <2>4. QED BY <2>2, <2>3 DEF ShapeInv
<1>2. CASE ~(pc[c] = "saving" /\ ~interrupted[c])
  <2>1. Finish(c) /\ loader' = LoaderAfter(c) /\ Abandon(c)
        /\ UNCHANGED <<cached, created, histories, disk, used>>
    BY <1>2 DEF Cancel, ghostVars
  <2>2. QED BY <2>1, LeaveShape
<1>3. QED BY <1>1, <1>2

\* A restart.
LEMMA CrashShape ==
  ASSUME ShapeInv, Crash
  PROVE  ShapeInv'
<1> USE Bounds DEF ShapeInv, Crash
<1>1. Typed'  BY DEF Typed, PCs, Stages
<1>2. Places' BY DEF Places, Running, NoThread
<1>3. Spoken \subseteq Spoken'
  BY DEF Spoken, Waits
<1>4. Kept'
  <2>1. \A h \in Stored' : h \in Stored \/ h = <<>>
    BY DEF Stored, NoThread
  <2>2. QED BY <1>3, <2>1, EmptyKnown, KeptStays
<1>5. Working' BY DEF Working, Works, Running
<1>6. QED BY <1>1, <1>2, <1>4, <1>5

\* Nothing happens.
LEMMA StutterShape == ShapeInv /\ UNCHANGED vars => ShapeInv'
<1> SUFFICES ASSUME ShapeInv, UNCHANGED vars PROVE ShapeInv'
  OBVIOUS
<1> USE DEF vars, taskVars, cacheVars, fileVars, ghostVars
<1>1. Typed' /\ Places' /\ Spoken' = Spoken /\ Stored' = Stored
  BY DEF ShapeInv, Typed, Places, Running, Spoken, Waits, Stored
<1>2. Kept' /\ Working'
  BY <1>1 DEF ShapeInv, Kept, Working, Works, Running
<1>3. QED BY <1>1, <1>2 DEF ShapeInv

\* ShapeInv is inductive.
LEMMA StepShape == ShapeInv /\ [Next]_vars => ShapeInv'
<1> SUFFICES ASSUME ShapeInv, [Next]_vars PROVE ShapeInv'
  OBVIOUS
<1>1. ASSUME NEW c \in Clients,
             Begin(c) \/ Advance(c) \/ ThreadFails(c) \/ RunRaises(c) \/ Cancel(c)
      PROVE  ShapeInv'
  BY <1>1, BeginShape, LoadShape, EnterLaneShape, ThreadShape, EndShape, RunShape, CancelShape
  DEF Advance
<1>2. QED BY <1>1, OrphanShape, CrashShape, StutterShape DEF Next

\* SessionManager.recover runs before the message of a turn is appended:
\* whatever was cancelled, failed, deleted or lost in a restart, no user
\* message follows an unanswered one or an unanswered tool call. For every
\* constant, and with nothing assumed of deletions and cancellations.
THEOREM TurnsOpenClosed == Spec => []TurnOpensOnClosedHistory
<1>1. ShapeInv => TurnOpensOnClosedHistory
  BY RestoredClosed DEF ShapeInv, Working, Works, TurnOpensOnClosedHistory
<1>2. QED BY <1>1, InitShape, StepShape, PTL DEF Spec

\* The session file can be resumed after any step, a restart in the middle of
\* a turn included: each tool result in it is declared by a call before it,
\* and only the last message can be a call without its result.
THEOREM DocumentResumable == Spec => []DiskAlwaysResumable
<1>1. ShapeInv => DiskAlwaysResumable
  <2> SUFFICES ASSUME ShapeInv PROVE DiskAlwaysResumable
    OBVIOUS
  <2>1. Conversation(disk)
    BY DEF ShapeInv, Kept, Stored, Known
  <2>2. QED BY <2>1, ConversationDeclared DEF DiskAlwaysResumable
<1>2. QED BY <1>1, InitShape, StepShape, PTL DEF Spec

(***************************************************************************)
(* IInv: with no deletion and at most one cancellation of an operation,    *)
(* the lane, the objects and the threads agree.                            *)
(***************************************************************************)

InSession == {"saving", "running"}
Ops == {"none", "turn", "clear", "delete", "stamp"}

\* The parts of the state that need a domain.
Domains ==
  /\ pc \in [Clients -> PCs]
  /\ op \in [Clients -> Ops]
  /\ obj \in [Clients -> Nat]
  /\ interrupted \in [Clients -> BOOLEAN]
  /\ cancels \in [Clients -> Nat]
  /\ thread = [c \in Clients |-> thread[c]]
  /\ histories = [o \in Objects |-> histories[o]]
  /\ holder \in [Objects -> Clients \union {None}]
  /\ loader \in Clients \union {None}

\* Nothing deletes, and nothing leaves a thread behind.
NothingDeleted ==
  /\ deletes = 0 /\ orphans = {}
  /\ \A c \in Clients : op[c] # "delete" /\ pc[c] # "unlinking"

\* The load lock protects the creation of the only SessionState.
OneObject ==
  /\ cached = created /\ created \in {0, 1} /\ created <= MaxObjects
  /\ \A c \in Clients : pc[c] = "loading" <=> loader = c
  /\ \A c \in Clients : pc[c] = "loading" => cached = 0
  /\ \A c \in Clients :
       pc[c] \in {"lockWait"} \union InSession => obj[c] = cached /\ cached = 1

\* The lock is held exactly by the task that saves or runs.
LockedLane ==
  \A c \in Clients, o \in Objects :
    holder[o] = c <=> pc[c] \in InSession /\ obj[c] = o

\* Each task awaits the thread its place in the code started.
OwnThread ==
  \A c \in Clients :
    /\ thread[c] = [kind |-> thread[c].kind, content |-> thread[c].content,
                    state |-> thread[c].state]
    /\ pc[c] = "saving" => thread[c].kind = "save"
    /\ pc[c] = "loading" => thread[c].kind = "load"
    /\ pc[c] \notin {"saving", "loading"} => thread[c].state = "none"
    /\ interrupted[c] => pc[c] = "saving" /\ cancels[c] >= 1

\* The file runs ahead of the cached history only between the end of a save
\* thread and the step that publishes it.
Saved(c) == pc[c] \in {"saving", "loading"} /\ thread[c].state = "ok"

FileInStep ==
  /\ \A c \in Clients : Saved(c) => thread[c].content = disk
  /\ cached = 1 /\ (\A c \in Clients : pc[c] = "saving" => thread[c].state # "ok")
       => histories[1] = disk

IInv == Domains /\ NothingDeleted /\ OneObject /\ LockedLane /\ OwnThread /\ FileInStep

-----------------------------------------------------------------------------
\* The initial state satisfies the inductive invariant.
LEMMA InitIInv == Init => IInv
  BY ConstantsAssumption
  DEF Init, IInv, Domains, NothingDeleted, OneObject, LockedLane, OwnThread,
      FileInStep, Saved, InSession, PCs, Ops, Objects, NoThread

\* A step that changes none of the variables of the invariant keeps it.
LEMMA StutterIInv == IInv /\ UNCHANGED vars => IInv'
  BY DEF IInv, Domains, NothingDeleted, OneObject, LockedLane, OwnThread,
         FileInStep, Saved, vars, taskVars, cacheVars, fileVars, ghostVars

-----------------------------------------------------------------------------
\* The two ways in which an operation goes on.

\* The history is left alone, or the content of the task's own finished save
\* thread is published.
Publishes(c) ==
  \/ UNCHANGED histories /\ ~(pc[c] = "saving" /\ thread[c].state = "ok")
  \/ /\ pc[c] = "saving" /\ thread[c].state = "ok"
     /\ histories' = [histories EXCEPT ![obj[c]] = thread[c].content]

\* Leaving the operation, with or without publishing, keeps the invariant.
LEMMA FinishIInv ==
  ASSUME IInv, NEW c \in Clients, Finish(c), Publishes(c), loader' = LoaderAfter(c),
         UNCHANGED <<cached, created, disk, orphans, deletes>>
  PROVE  IInv'
<1> USE DEF IInv
<1>1. Domains'
  BY DEF Domains, Finish, Publishes, LoaderAfter, NoThread, PCs, Ops
<1>2. NothingDeleted'
  BY DEF NothingDeleted, Domains, Finish
<1>3. OneObject'
  BY ConstantsAssumption DEF OneObject, Domains, Finish, LoaderAfter, InSession
<1>4. LockedLane'
  BY ConstantsAssumption DEF LockedLane, Domains, Finish, InSession
<1>5. OwnThread'
  BY DEF OwnThread, Domains, Finish, NoThread
<1>6. FileInStep'
  <2>1. ASSUME NEW d \in Clients, Saved(d)' PROVE thread[d].content = disk
    BY <2>1 DEF Saved, FileInStep, Domains, Finish
  <2>2. ASSUME cached = 1, \A d \in Clients : pc'[d] = "saving" => thread'[d].state # "ok"
        PROVE  histories'[1] = disk
    <3>1. \A d \in Clients \ {c} : pc[d] = "saving" => thread[d].state # "ok"
      BY <2>2 DEF Domains, Finish
    <3>2. CASE pc[c] = "saving" /\ thread[c].state = "ok"
      <4>1. obj[c] = 1 /\ 1 \in Objects
        BY <3>2, Bounds DEF OneObject, InSession, Objects
      <4>2. thread[c].content = disk
        BY <3>2 DEF FileInStep, Saved
      <4>3. histories' = [histories EXCEPT ![1] = disk]
        BY <3>2, <4>1, <4>2 DEF Publishes
      <4>4. QED BY <4>1, <4>3 DEF Domains
    <3>3. CASE ~(pc[c] = "saving" /\ thread[c].state = "ok")
      BY <3>1, <3>3, <2>2 DEF Publishes, FileInStep
    <3>4. QED BY <3>2, <3>3
  <2>3. \A d \in Clients : Saved(d)' => thread'[d].content = disk
    BY <2>1 DEF Saved, Domains, Finish, NoThread
  <2>4. QED BY <2>2, <2>3 DEF FileInStep
<1>7. QED BY <1>1, <1>2, <1>3, <1>4, <1>5, <1>6

\* Starting a save, by the task in the lane or by one that enters the free lane,
\* keeps the invariant.
LEMMA StartSaveIInv ==
  ASSUME IInv, NEW c \in Clients, NEW why, NEW messages, StartSave(c, why, messages),
         Publishes(c),
         \/ pc[c] \in InSession /\ UNCHANGED holder
         \/ /\ pc[c] = "lockWait" /\ LaneFree(c)
            /\ holder' = [holder EXCEPT ![obj[c]] = c],
         UNCHANGED <<op, obj, cancels, cached, created, loader, disk, orphans, deletes>>
  PROVE  IInv'
<1> USE DEF IInv
<1>1. Domains'
  BY DEF Domains, StartSave, Publishes, Thread, PCs
<1>2. NothingDeleted'
  BY DEF NothingDeleted, Domains, StartSave
<1>3. OneObject'
  BY DEF OneObject, Domains, StartSave, InSession
<1>4. LockedLane'
  <2>1. obj[c] \in Objects
    BY DEF OneObject, InSession, Objects
  <2>2. CASE pc[c] \in InSession /\ UNCHANGED holder
    BY <2>2 DEF LockedLane, Domains, StartSave, InSession
  <2>3. CASE pc[c] = "lockWait" /\ LaneFree(c) /\ holder' = [holder EXCEPT ![obj[c]] = c]
    BY <2>1, <2>3, ConstantsAssumption
    DEF LockedLane, OneObject, Domains, StartSave, LaneFree, InSession
  <2>4. QED BY <2>2, <2>3
<1>5. OwnThread'
  BY DEF OwnThread, Domains, StartSave, Thread
<1>6. FileInStep'
  <2>1. \A d \in Clients : Saved(d)' => thread'[d].content = disk
    BY DEF Saved, FileInStep, Domains, StartSave, Thread
  <2>2. ASSUME cached = 1, \A d \in Clients : pc'[d] = "saving" => thread'[d].state # "ok"
        PROVE  histories'[1] = disk
    <3>1. \A d \in Clients \ {c} : pc[d] = "saving" => thread[d].state # "ok"
      BY <2>2 DEF Domains, StartSave
    <3>2. CASE pc[c] = "saving" /\ thread[c].state = "ok"
      <4>1. obj[c] = 1 /\ 1 \in Objects
        BY <3>2, Bounds DEF OneObject, InSession, Objects
      <4>2. thread[c].content = disk
        BY <3>2 DEF FileInStep, Saved
      <4>3. histories' = [histories EXCEPT ![1] = disk]
        BY <3>2, <4>1, <4>2 DEF Publishes
      <4>4. QED BY <4>1, <4>3 DEF Domains
    <3>3. CASE ~(pc[c] = "saving" /\ thread[c].state = "ok")
      BY <3>1, <3>3, <2>2 DEF Publishes, FileInStep
    <3>4. QED BY <3>2, <3>3
  <2>3. QED BY <2>1, <2>2 DEF FileInStep
<1>7. QED BY <1>1, <1>2, <1>3, <1>4, <1>5, <1>6

\* The lock admits one task at a time.
LEMMA OnlyOneInSession ==
  ASSUME IInv, NEW c \in Clients, NEW d \in Clients,
         pc[c] \in InSession, pc[d] \in InSession
  PROVE  c = d
<1>1. obj[c] = obj[d] /\ obj[c] \in Objects
  BY Bounds DEF IInv, OneObject, InSession, Objects
<1>2. holder[obj[c]] = c /\ holder[obj[c]] = d
  BY <1>1 DEF IInv, LockedLane
<1>3. QED BY <1>2

-----------------------------------------------------------------------------
\* Every action keeps the invariant.

\* A task that looks for the session or waits touches neither lane nor file.
LEMMA BeginIInv ==
  ASSUME MaxDeletes = 0, IInv, NEW c \in Clients, Begin(c)
  PROVE  IInv'
<1> USE Bounds DEF IInv, Domains, NothingDeleted, OneObject, LockedLane,
        OwnThread, FileInStep, Saved, InSession, PCs, Ops, cacheVars, fileVars, ghostVars
<1>1. CASE \E t \in Turns : BeginTurn(c, t)
  BY <1>1 DEF BeginTurn, Get
<1>2. CASE BeginClear(c)
  BY <1>2 DEF BeginClear, Get
<1>3. CASE BeginDelete(c)
  BY <1>3 DEF BeginDelete
<1>4. CASE BeginStamp(c)
  BY <1>4 DEF BeginStamp, Get
<1>5. QED BY <1>1, <1>2, <1>3, <1>4 DEF Begin

\* Creating the SessionState: nobody else has one.
LEMMA LoadIInv ==
  ASSUME IInv, NEW c \in Clients, EnterLoad(c) \/ LoadDone(c)
  PROVE  IInv'
<1> USE Bounds, ConstantsAssumption DEF IInv
<1>1. CASE EnterLoad(c)
  <2> USE <1>1 DEF EnterLoad, fileVars, ghostVars
  <2>1. Domains'
    <3>1. pc' \in [Clients -> PCs] /\ obj' \in [Clients -> Nat]
      <4>1. pc \in [Clients -> PCs] /\ obj \in [Clients -> Nat] /\ cached \in Nat
        BY DEF Domains, OneObject
      <4>2. pc' \in [Clients -> PCs]
        BY <4>1 DEF PCs
      <4>3. obj' \in [Clients -> Nat]
        BY <4>1
      <4>4. QED BY <4>2, <4>3
    <3>2. thread' = [d \in Clients |-> thread'[d]]
      BY DEF Domains
    <3>3. loader' \in Clients \union {None}
      BY DEF Domains
    <3>4. QED BY <3>1, <3>2, <3>3 DEF Domains
  <2>2. NothingDeleted' BY DEF NothingDeleted, Domains
  <2>3. OneObject'      BY DEF OneObject, Domains, InSession
  <2>4. LockedLane'     BY DEF LockedLane, Domains, InSession
  <2>5. OwnThread'      BY DEF OwnThread, Domains, Thread
  <2>6. FileInStep'
    <3>1. \A d \in Clients : Saved(d)' => Saved(d) /\ thread'[d] = thread[d]
      BY DEF Saved, Domains, Thread
    <3>2. \A d \in Clients : pc[d] = "saving" => pc'[d] = "saving" /\ thread'[d] = thread[d]
      BY DEF Domains
    <3>3. QED BY <3>1, <3>2 DEF FileInStep
  <2>7. QED BY <2>1, <2>2, <2>3, <2>4, <2>5, <2>6
<1>2. CASE LoadDone(c)
  <2> USE <1>2 DEF LoadDone, fileVars, ghostVars
  <2>1. loader = c /\ cached = 0 /\ created = 0
    BY DEF OneObject
  <2>2. 1 \in Objects
    BY ConstantsAssumption DEF Objects
  <2>3. Domains'
    <3>1. pc' \in [Clients -> PCs] /\ obj' \in [Clients -> Nat]
      BY <2>1 DEF Domains, PCs
    <3>2. thread' = [d \in Clients |-> thread'[d]]
      BY DEF Domains
    <3>3. histories' = [o \in Objects |-> histories'[o]]
      BY DEF Domains
    <3>4. loader' \in Clients \union {None}
      BY DEF Domains, LoaderAfter
    <3>5. QED BY <3>1, <3>2, <3>3, <3>4 DEF Domains
  <2>4. NothingDeleted' BY DEF NothingDeleted, Domains
  <2>5. OneObject'      BY <2>1, <2>2 DEF OneObject, Domains, InSession, LoaderAfter, Objects
  <2>6. LockedLane'     BY <2>1 DEF LockedLane, OneObject, Domains, InSession
  <2>7. OwnThread'      BY DEF OwnThread, Domains, NoThread
  <2>8. FileInStep'
    BY <2>1, <2>2 DEF FileInStep, Saved, OneObject, Domains, InSession, NoThread
  <2>9. QED BY <2>3, <2>4, <2>5, <2>6, <2>7, <2>8
<1>3. QED BY <1>1, <1>2

\* The first step in the lane.
LEMMA EnterLaneIInv ==
  ASSUME IInv, NEW c \in Clients, EnterLane(c)
  PROVE  IInv'
<1> USE DEF IInv
<1>1. Publishes(c) /\ op[c] # "delete"
  BY DEF EnterLane, Publishes, NothingDeleted, ghostVars
<1>2. CASE Finish(c)
  <2>1. loader' = LoaderAfter(c)
    BY DEF EnterLane, LoaderAfter, OneObject
  <2>2. QED BY <1>1, <1>2, <2>1, FinishIInv DEF EnterLane, fileVars, ghostVars
<1>3. CASE ~Finish(c)
  <2>1. \E why, messages : StartSave(c, why, messages)
    BY <1>1, <1>3 DEF EnterLane, AppendUser
  <2>2. QED BY <1>1, <1>3, <2>1, StartSaveIInv DEF EnterLane, fileVars, ghostVars
<1>4. QED BY <1>2, <1>3

\* A thread ends: the file changes only under the hands of the lane's task.
LEMMA ThreadIInv ==
  ASSUME IInv, NEW c \in Clients, ThreadDone(c) \/ ThreadFails(c)
  PROVE  IInv'
<1> USE DEF IInv
<1>1. pc[c] \in {"saving", "loading"} /\ thread[c].state = "running"
  BY DEF ThreadDone, ThreadFails, OwnThread
<1>2. Domains' /\ NothingDeleted' /\ OneObject' /\ LockedLane'
  BY DEF ThreadDone, ThreadFails, Domains, NothingDeleted, OneObject, LockedLane,
         cacheVars, fileVars, ghostVars
<1>3. PICK v, z :
        /\ thread' = [thread EXCEPT ![c] = [kind |-> thread[c].kind, state |-> z, content |-> v]]
        /\ \/ z = "failed" /\ disk' = disk
           \/ /\ z = "ok" /\ disk' = FileAfter(thread[c].kind, thread[c].content)
              /\ v = IF thread[c].kind = "save" THEN thread[c].content ELSE disk
  <2>1. CASE ThreadDone(c)
    BY <2>1 DEF ThreadDone
  <2>2. CASE ThreadFails(c)
    BY <2>2 DEF ThreadFails, fileVars
  <2>3. QED BY <2>1, <2>2
<1>4. /\ \A d \in Clients : d # c => thread'[d] = thread[d]
      /\ thread'[c].kind = thread[c].kind /\ thread'[c].content = v /\ thread'[c].state = z
      /\ thread'[c] = [kind |-> thread'[c].kind, content |-> thread'[c].content,
                       state |-> thread'[c].state]
      /\ UNCHANGED <<pc, obj, interrupted, cancels, cached, histories>>
  BY <1>3 DEF ThreadDone, ThreadFails, Domains, cacheVars
<1>5. OwnThread'
  BY <1>1, <1>4 DEF OwnThread
<1>6. CASE z = "failed" /\ disk' = disk
  <2>1. FileInStep'
    BY <1>1, <1>4, <1>6 DEF FileInStep, Saved, OneObject
  <2>2. QED BY <1>2, <1>5, <2>1
<1>7. CASE /\ z = "ok" /\ disk' = FileAfter(thread[c].kind, thread[c].content)
           /\ v = IF thread[c].kind = "save" THEN thread[c].content ELSE disk
  <2>1. FileInStep'
    <3>1. CASE pc[c] = "loading"
      <4>1. thread[c].kind = "load"
        BY <3>1 DEF OwnThread
      <4>2. disk' = disk /\ v = disk
        BY <1>7, <4>1 DEF FileAfter
      <4>3. cached # 1 /\ \A d \in Clients : d # c => ~Saved(d)
        BY <3>1 DEF OneObject, Saved, InSession
      <4>4. QED BY <1>4, <4>2, <4>3 DEF FileInStep, Saved
    <3>2. CASE pc[c] = "saving"
      <4>1. \A d \in Clients : d # c => ~Saved(d)
        BY <3>2, OnlyOneInSession DEF Saved, OneObject, InSession
      <4>2. thread[c].kind = "save"
        BY <3>2 DEF OwnThread
      <4>3. disk' = v
        BY <1>7, <4>2 DEF FileAfter
      <4>4. QED BY <1>4, <1>7, <3>2, <4>1, <4>3 DEF FileInStep, Saved
    <3>3. QED BY <1>1, <3>1, <3>2
  <2>2. QED BY <1>2, <1>5, <2>1
<1>8. QED BY <1>3, <1>6, <1>7

\* The end of replace_and_save, of a turn and of the waits that fail.
LEMMA EndIInv ==
  ASSUME IInv, NEW c \in Clients,
         \/ SaveDone(c) \/ SaveFailed(c) \/ LoadFailed(c) \/ DeleteDone(c)
         \/ DeleteFailed(c) \/ EndTurn(c) \/ RunRaises(c)
  PROVE  IInv'
<1> USE DEF IInv, fileVars, ghostVars
<1>1. pc[c] # "loading" => loader = LoaderAfter(c)
  BY DEF OneObject, LoaderAfter
<1>2. CASE SaveDone(c)
  <2>1. Publishes(c)
    BY <1>2 DEF SaveDone, Publishes, Published
  <2>2. CASE Finish(c)
    BY <1>1, <1>2, <2>1, <2>2, FinishIInv DEF SaveDone
  <2>3. CASE AppendUser(c, thread[c].content) /\ UNCHANGED <<op, turn, obj, cancels, holder>>
    BY <1>2, <2>1, <2>3, StartSaveIInv DEF SaveDone, AppendUser, InSession
  <2>4. CASE /\ pc' = [pc EXCEPT ![c] = "running"]
             /\ thread' = [thread EXCEPT ![c] = NoThread]
             /\ ~interrupted[c]
             /\ UNCHANGED <<op, obj, interrupted, cancels, holder>>
    <3> USE <1>2, <2>4
    <3>1. UNCHANGED <<cached, created, loader, disk, orphans, deletes>>
      BY DEF SaveDone
    <3>2. obj[c] = 1 /\ cached = 1 /\ 1 \in Objects /\ thread[c].content = disk
      BY Bounds DEF SaveDone, OneObject, InSession, Objects, FileInStep, Saved
    <3>3. histories' = [histories EXCEPT ![1] = disk]
      BY <3>2 DEF SaveDone, Published
    <3>4. Domains'        BY <3>1, <3>3 DEF Domains, PCs, NoThread
    <3>5. NothingDeleted' BY <3>1 DEF NothingDeleted, Domains
    <3>6. OneObject'      BY <3>1, <3>2 DEF SaveDone, OneObject, Domains, InSession
    <3>7. LockedLane'     BY DEF SaveDone, LockedLane, Domains, InSession
    <3>8. OwnThread'      BY DEF OwnThread, Domains, NoThread
    <3>9. FileInStep'
      BY <3>1, <3>2, <3>3 DEF FileInStep, Saved, Domains, NoThread
    <3>10. QED BY <3>4, <3>5, <3>6, <3>7, <3>8, <3>9
  <2>5. QED BY <1>2, <2>2, <2>3, <2>4 DEF SaveDone
<1>3. CASE SaveFailed(c) \/ RunRaises(c)
  <2>1. Publishes(c) /\ pc[c] \in InSession
    BY <1>3 DEF SaveFailed, RunRaises, Publishes, InSession
  <2>2. CASE Finish(c)
    BY <1>1, <1>3, <2>1, <2>2, FinishIInv DEF SaveFailed, RunRaises, InSession
  <2>3. CASE /\ StartSave(c, "close", Recovered(histories[obj[c]]))
             /\ UNCHANGED <<op, turn, obj, run, cancels, holder>>
    BY <1>3, <2>1, <2>3, StartSaveIInv DEF SaveFailed, RunRaises
  <2>4. QED BY <1>3, <2>2, <2>3 DEF SaveFailed, RunRaises, CloseTurn
<1>4. CASE LoadFailed(c) \/ EndTurn(c)
  BY <1>1, <1>4, FinishIInv DEF LoadFailed, EndTurn, Publishes
<1>5. CASE DeleteDone(c) \/ DeleteFailed(c)
  BY <1>5 DEF DeleteDone, DeleteFailed, NothingDeleted
<1>6. QED BY <1>2, <1>3, <1>4, <1>5

\* A checkpoint, and the release of the lane at the end of the run.
LEMMA RunIInv ==
  ASSUME IInv, NEW c \in Clients, Checkpoint(c) \/ RunReturns(c)
  PROVE  IInv'
<1> USE DEF IInv
<1>1. CASE Checkpoint(c)
  <2>1. \E messages : StartSave(c, "checkpoint", messages)
    BY <1>1 DEF Checkpoint
  <2>2. Publishes(c) /\ pc[c] \in InSession
    BY <1>1 DEF Checkpoint, Publishes, InSession, cacheVars
  <2>3. UNCHANGED <<op, obj, cancels, cached, created, loader, disk, orphans, deletes, holder>>
    BY <1>1 DEF Checkpoint, cacheVars, fileVars, ghostVars
  <2>4. QED BY <2>1, <2>2, <2>3, StartSaveIInv
<1>2. CASE RunReturns(c)
  <2> USE <1>2 DEF RunReturns, fileVars, ghostVars
  <2>1. obj[c] = 1 /\ 1 \in Objects
    BY Bounds DEF OneObject, InSession, Objects
  <2>2. Domains'        BY <2>1 DEF Domains, PCs
  <2>3. NothingDeleted' BY DEF NothingDeleted, Domains
  <2>4. OneObject'      BY DEF OneObject, Domains, InSession
  <2>5. LockedLane'
    BY <2>1, OnlyOneInSession, ConstantsAssumption
    DEF LockedLane, OneObject, Domains, InSession
  <2>6. OwnThread'      BY DEF OwnThread, Domains
  <2>7. FileInStep'     BY DEF FileInStep, Saved, Domains
  <2>8. QED BY <2>2, <2>3, <2>4, <2>5, <2>6, <2>7
<1>3. QED BY <1>1, <1>2

\* One cancellation: replace_and_save remembers it, every other place ends.
LEMMA CancelIInv ==
  ASSUME MaxCancels <= 1, IInv, NEW c \in Clients, Cancel(c)
  PROVE  IInv'
<1> USE DEF IInv
<1>1. cancels[c] = 0 /\ ~interrupted[c]
  BY Bounds DEF Cancel, OwnThread, Domains
<1>2. CASE pc[c] = "saving"
  <2>1. /\ interrupted' = [interrupted EXCEPT ![c] = TRUE]
        /\ cancels' = [cancels EXCEPT ![c] = @ + 1]
        /\ UNCHANGED <<pc, op, obj, thread, holder, loader, orphans, cached, created,
                       histories, disk, deletes>>
    BY <1>1, <1>2 DEF Cancel, ghostVars
  <2>2. Domains' /\ OwnThread'
    BY <1>2, <2>1 DEF Domains, OwnThread
  <2>3. NothingDeleted' /\ OneObject' /\ LockedLane' /\ FileInStep'
    BY <2>1 DEF NothingDeleted, OneObject, LockedLane, FileInStep, Saved
  <2>4. QED BY <2>2, <2>3
<1>3. CASE pc[c] # "saving"
  <2>1. Finish(c) /\ loader' = LoaderAfter(c) /\ Abandon(c)
    BY <1>3 DEF Cancel
  <2>2. UNCHANGED orphans
    BY <1>3, <2>1 DEF Abandon, OwnThread
  <2>3. QED
    BY <1>3, <2>1, <2>2, FinishIInv DEF Cancel, Publishes, ghostVars
<1>4. QED BY <1>2, <1>3

\* A restart forgets everything but the file.
LEMMA CrashIInv ==
  ASSUME MaxDeletes = 0, IInv, Crash
  PROVE  IInv'
  BY Bounds, ConstantsAssumption
  DEF Crash, IInv, Domains, NothingDeleted, OneObject, LockedLane, OwnThread,
      FileInStep, Saved, InSession, PCs, Ops, NoThread

\* The invariant is inductive.
LEMMA StepIInv ==
  ASSUME MaxDeletes = 0, MaxCancels <= 1, IInv, [Next]_vars
  PROVE  IInv'
<1>1. ASSUME NEW c \in Clients,
             Begin(c) \/ Advance(c) \/ ThreadFails(c) \/ RunRaises(c) \/ Cancel(c)
      PROVE  IInv'
  BY <1>1, BeginIInv, LoadIInv, EnterLaneIInv, ThreadIInv, EndIInv, RunIInv, CancelIInv
  DEF Advance
<1>2. CASE OrphanEnds
  BY <1>2 DEF OrphanEnds, IInv, NothingDeleted
<1>3. CASE Crash
  BY <1>3, CrashIInv
<1>4. CASE UNCHANGED vars
  BY <1>4, StutterIInv
<1>5. QED BY <1>1, <1>2, <1>3, <1>4 DEF Next

\* One task at a time works on the conversation: session.lock of the one cached
\* SessionState is the lane, whoever loads it and whoever is cancelled.
THEOREM LaneIsExclusive ==
  ASSUME MaxDeletes = 0, MaxCancels <= 1
  PROVE  Spec => []LaneExclusive
<1>1. IInv => LaneExclusive
  <2> SUFFICES ASSUME IInv, NEW c \in Clients, NEW d \in Clients, InLane(c), InLane(d)
               PROVE  c = d
    BY DEF LaneExclusive
  <2>1. pc[c] \in InSession /\ pc[d] \in InSession
    BY DEF InLane, IInv, NothingDeleted, InSession
  <2>2. QED BY <2>1, OnlyOneInSession
<1>2. QED BY <1>1, InitIInv, StepIInv, PTL DEF Spec

\* replace_and_save publishes exactly what it stored: with the lane free, the
\* cached history is the document, after failures and single cancellations too.
THEOREM PublishedIsStored ==
  ASSUME MaxDeletes = 0, MaxCancels <= 1
  PROVE  Spec => []MemoryMatchesDisk
<1>1. IInv => MemoryMatchesDisk
  <2> SUFFICES ASSUME IInv, cached # 0, holder[cached] = None
               PROVE  histories[cached] = disk
    BY DEF MemoryMatchesDisk
  <2>1. cached = 1 /\ 1 \in Objects
    BY Bounds DEF IInv, OneObject, Objects
  <2>2. \A c \in Clients : pc[c] # "saving"
    BY <2>1, ConstantsAssumption DEF IInv, OneObject, LockedLane, InSession
  <2>3. QED BY <2>1, <2>2 DEF IInv, FileInStep
<1>2. QED BY <1>1, InitIInv, StepIInv, PTL DEF Spec

(***************************************************************************)
(* LogInv: with the lane in order, each save moves the document the way    *)
(* the abstract log does.                                                  *)
(***************************************************************************)

\* What a save does to the document, by what it is for.
Moves(s, old, new) ==
  /\ s \in {"recover", "close"} => new = Recovered(old)
  /\ s = "clear" => new = <<>>
  /\ s = "stamp" => SanitizeMessages(new) = SanitizeMessages(old)
  /\ s \in {"user", "checkpoint"} => IsStrictPrefix(old, new)

LogOf(c) ==
  /\ pc[c] = "running" => RunMessagesToHistory(run[c]) = disk
  /\ pc[c] = "saving" /\ thread[c].state = "running"
       => Moves(stage[c], disk, thread[c].content)
LogInv == IInv /\ ShapeInv /\ \A c \in Clients : LogOf(c)

\* The cached history is the document when a task enters or goes on in the lane.
LEMMA InStep ==
  ASSUME IInv, NEW c \in Clients,
         \/ pc[c] = "running"
         \/ pc[c] = "lockWait" /\ LaneFree(c)
         \/ pc[c] = "saving" /\ thread[c].state = "failed"
  PROVE  histories[obj[c]] = disk
<1> USE DEF IInv
<1>1. obj[c] = 1 /\ cached = 1 /\ 1 \in Objects
  BY Bounds DEF OneObject, InSession, Objects
<1>2. ASSUME NEW d \in Clients, pc[d] = "saving" PROVE thread[d].state # "ok"
  <2>1. CASE pc[c] = "lockWait" /\ LaneFree(c)
    <3>1. obj[d] = 1
      BY <1>1, <1>2 DEF OneObject, InSession
    <3>2. holder[1] = d /\ holder[1] = None
      BY <1>1, <1>2, <2>1, <3>1 DEF LockedLane, LaneFree, InSession
    <3>3. QED BY <3>2, ConstantsAssumption
  <2>2. CASE pc[c] \in InSession
    <3>1. d = c
      BY <1>2, <2>2, OnlyOneInSession DEF InSession
    <3>2. QED BY <1>2, <3>1
  <2>3. QED BY <2>1, <2>2 DEF InSession
<1>3. QED BY <1>1, <1>2 DEF FileInStep

\* A task that keeps its place and its hands keeps LogOf, if the file does
\* not change.
LEMMA LogStays ==
  ASSUME NEW d \in Clients, LogOf(d), disk' = disk, pc'[d] = pc[d], stage'[d] = stage[d],
         run'[d] = run[d], thread'[d] = thread[d]
  PROVE  LogOf(d)'
  BY DEF LogOf

\* A save that starts with the right content.
LEMMA SaveLog ==
  ASSUME LogInv, NEW c \in Clients, NEW why, NEW messages, StartSave(c, why, messages),
         Moves(why, disk, messages), \A d \in Clients \ {c} : run'[d] = run[d], disk' = disk
  PROVE  \A d \in Clients : LogOf(d)'
<1>1. /\ \A d \in Clients \ {c} : pc'[d] = pc[d] /\ stage'[d] = stage[d] /\ thread'[d] = thread[d]
      /\ pc'[c] = "saving" /\ stage'[c] = why /\ thread'[c] = Thread("save", messages)
  BY DEF StartSave, LogInv, ShapeInv, Typed
<1>2. LogOf(c)'
  BY <1>1 DEF LogOf, Thread
<1>3. ASSUME NEW d \in Clients, d # c PROVE LogOf(d)'
  BY <1>1, <1>3, LogStays DEF LogInv
<1>4. QED BY <1>2, <1>3

\* A task that ends leaves the others' part of the log alone.
LEMMA FinishLog ==
  ASSUME LogInv, NEW c \in Clients, Finish(c), disk' = disk
  PROVE  \A d \in Clients : LogOf(d)'
<1>1. /\ \A d \in Clients \ {c} : /\ pc'[d] = pc[d] /\ stage'[d] = stage[d]
                                 /\ run'[d] = run[d] /\ thread'[d] = thread[d]
      /\ pc'[c] = "idle"
  BY DEF Finish, LogInv, ShapeInv, Typed
<1>2. LogOf(c)'
  BY <1>1 DEF LogOf
<1>3. ASSUME NEW d \in Clients, d # c PROVE LogOf(d)'
  BY <1>1, <1>3, LogStays DEF LogInv
<1>4. QED BY <1>2, <1>3

\* The message of a turn extends the document.
LEMMA AppendUserLog ==
  ASSUME LogInv, NEW c \in Clients, AppendUser(c, disk), Waits(c), disk' = disk
  PROVE  \A d \in Clients : LogOf(d)'
<1>1. turn[c] \in Turns /\ disk \in Seq(Messages)
  BY DEF LogInv, ShapeInv, Waits, Places, Typed, Kept, Stored, Known, Conversation
<1>2. IsStrictPrefix(disk, Append(disk, UserMessage(turn[c])))
  BY <1>1, UserIsMessage, AppendExtends
<1>3. /\ StartSave(c, "user", Append(disk, UserMessage(turn[c])))
      /\ \A d \in Clients \ {c} : run'[d] = run[d]
  BY DEF AppendUser, LogInv, ShapeInv, Typed
<1>4. Moves("user", disk, Append(disk, UserMessage(turn[c])))
  BY <1>2 DEF Moves
<1>5. QED BY <1>3, <1>4, SaveLog

\* The first save in the lane: recovered, cleared, stamped or with a new
\* message.
LEMMA EnterLaneLog ==
  ASSUME LogInv, NEW c \in Clients, EnterLane(c)
  PROVE  \A d \in Clients : LogOf(d)'
<1>1. /\ histories[obj[c]] = disk /\ disk' = disk
      /\ pc[c] = "lockWait" /\ LaneFree(c) /\ op[c] # "delete"
  BY InStep DEF EnterLane, fileVars, LogInv, IInv, NothingDeleted
<1>2. Conversation(disk)
  BY DEF LogInv, ShapeInv, Kept, Stored, Known
<1>3. CASE op[c] = "turn" /\ NeedsRecovery(disk)
  <2>1. StartSave(c, "recover", Recovered(disk)) /\ UNCHANGED run
    BY <1>1, <1>3 DEF EnterLane
  <2>2. Moves("recover", disk, Recovered(disk))
    BY DEF Moves
  <2> HIDE DEF Recovered
  <2>3. QED BY <1>1, <2>1, <2>2, SaveLog
<1>4. CASE op[c] = "turn" /\ ~NeedsRecovery(disk)
  <2>1. AppendUser(c, disk)
    BY <1>1, <1>4 DEF EnterLane
  <2>2. QED BY <1>1, <1>4, <2>1, AppendUserLog DEF Waits
<1>5. CASE op[c] = "clear"
  <2>1. StartSave(c, "clear", <<>>) /\ UNCHANGED run
    BY <1>5 DEF EnterLane
  <2>2. QED BY <1>1, <2>1, SaveLog DEF Moves
<1>6. CASE op[c] = "stamp" /\ LastAssistant(disk) # {}
  <2>1. PICK i \in LastAssistant(disk) : StartSave(c, "stamp", [disk EXCEPT ![i].ui = TRUE])
    BY <1>1, <1>6 DEF EnterLane
  <2>2. UNCHANGED run
    BY <1>1, <1>6 DEF EnterLane
  <2>3. i \in 1..Len(disk) /\ disk[i].role = "assistant"
    BY <1>2 DEF LastAssistant, Conversation
  <2>4. PICK s : s = [disk EXCEPT ![i].ui = TRUE]
    OBVIOUS
  <2>5. Conversation(s) /\ Bare(s) = Bare(disk)
    BY <1>2, <2>3, <2>4, StampedConversation
  <2>6. SanitizeMessages(s) = SanitizeMessages(disk)
    BY <1>2, <2>5, Sanitized
  <2>7. StartSave(c, "stamp", s) /\ Moves("stamp", disk, s)
    BY <2>1, <2>4, <2>6 DEF Moves
  <2>8. QED BY <1>1, <2>2, <2>7, SaveLog
<1>7. CASE op[c] = "stamp" /\ LastAssistant(disk) = {}
  <2>1. Finish(c)
    BY <1>1, <1>7 DEF EnterLane
  <2>2. QED BY <1>1, <2>1, FinishLog
<1>8. QED BY <1>1, <1>3, <1>4, <1>5, <1>6, <1>7 DEF EnterLane

\* The turn is closed on the document.
LEMMA CloseLog ==
  ASSUME LogInv, NEW c \in Clients, CloseTurn(c), disk' = disk,
         pc[c] = "running" \/ (pc[c] = "saving" /\ thread[c].state = "failed")
  PROVE  \A d \in Clients : LogOf(d)'
<1>1. histories[obj[c]] = disk
  BY InStep DEF LogInv
<1>2. CASE Finish(c)
  BY <1>2, FinishLog
<1>3. CASE StartSave(c, "close", Recovered(disk)) /\ UNCHANGED run
  <2>1. Moves("close", disk, Recovered(disk))
    BY DEF Moves
  <2> HIDE DEF Recovered
  <2>2. QED BY <1>3, <2>1, SaveLog
<1>4. QED BY <1>1, <1>2, <1>3 DEF CloseTurn

\* A stored save is published, and the task goes on.
LEMMA SaveDoneLog ==
  ASSUME LogInv, NEW c \in Clients, SaveDone(c)
  PROVE  \A d \in Clients : LogOf(d)'
<1>1. /\ pc[c] = "saving" /\ thread[c].content = disk /\ disk' = disk
  BY DEF SaveDone, fileVars, LogInv, IInv, FileInStep, Saved
<1>2. CASE Finish(c)
  BY <1>1, <1>2, FinishLog
<1>3. CASE stage[c] = "recover" /\ AppendUser(c, disk)
  BY <1>1, <1>3, AppendUserLog DEF LogInv, ShapeInv, Places, Waits
<1>4. CASE /\ stage[c] \in {"user", "checkpoint"}
           /\ pc' = [pc EXCEPT ![c] = "running"]
           /\ stage' = [stage EXCEPT ![c] = "none"]
           /\ thread' = [thread EXCEPT ![c] = NoThread]
           /\ UNCHANGED run
  <2>1. /\ \A d \in Clients \ {c} : /\ pc'[d] = pc[d] /\ stage'[d] = stage[d]
                                   /\ thread'[d] = thread[d]
        /\ pc'[c] = "running"
    BY <1>4 DEF LogInv, ShapeInv, Typed
  <2>2. RunMessagesToHistory(run[c]) = disk
    BY <1>1, <1>4 DEF LogInv, ShapeInv, Working, Works
  <2>3. LogOf(c)'
    BY <1>1, <1>4, <2>1, <2>2 DEF LogOf
  <2>4. ASSUME NEW d \in Clients, d # c PROVE LogOf(d)'
    BY <1>1, <1>4, <2>1, <2>4, LogStays DEF LogInv
  <2>5. QED BY <2>3, <2>4
<1>5. QED BY <1>1, <1>2, <1>3, <1>4 DEF SaveDone

\* A checkpoint extends the document.
LEMMA CheckpointLog ==
  ASSUME LogInv, NEW c \in Clients, Checkpoint(c)
  PROVE  \A d \in Clients : LogOf(d)'
<1> DEFINE h == RunMessagesToHistory(run[c])
           t == turn[c]
<1>1. h = disk /\ disk' = disk
  BY DEF Checkpoint, LogInv, LogOf, fileVars
<1>2. Conversation(h) /\ Carries(run[c], h, t) /\ t \in Turns
  BY AnswerFollows DEF LogInv
<1>3. PICK m : /\ run' = [run EXCEPT ![c] = Append(run[c], m)]
               /\ StartSave(c, "checkpoint", RunMessagesToHistory(Append(run[c], m)))
               /\ Follows(m, h) /\ m.role # "user"
               /\ m.calls \in {<<>>, <<t>>} /\ m.ref \in {NoCall, t}
  BY AnswerFollows DEF LogInv
<1> HIDE DEF h
<1>4. PICK a, b : a = Append(h, m) /\ b = Append(run[c], m)
  OBVIOUS
<1>5. Conversation(a) /\ Carries(b, a, t)
  BY <1>2, <1>3, <1>4, Followed, CarriesOn
<1>6. RunMessagesToHistory(b) = a
  BY <1>5, CarriedIs
<1>7. IsStrictPrefix(disk, a)
  BY <1>1, <1>2, <1>3, <1>4, AppendExtends DEF Follows, Conversation
<1>8. StartSave(c, "checkpoint", a) /\ Moves("checkpoint", disk, a)
  BY <1>3, <1>4, <1>6, <1>7 DEF Moves
<1>9. \A d \in Clients \ {c} : run'[d] = run[d]
  BY <1>3 DEF LogInv, ShapeInv, Typed
<1>10. QED BY <1>1, <1>8, <1>9, SaveLog

\* A step of one task that leaves the document and its own save alone.
LEMMA ThreadLog ==
  ASSUME LogInv, NEW c \in Clients, ThreadDone(c) \/ ThreadFails(c)
  PROVE  \A d \in Clients : LogOf(d)'
<1>1. /\ UNCHANGED <<pc, stage, run>> /\ thread[c].state = "running"
      /\ pc[c] \in {"saving", "loading"}
  BY DEF ThreadDone, ThreadFails, LogInv, IInv, OwnThread
<1>2. /\ \A d \in Clients : d # c => thread'[d] = thread[d]
      /\ thread'[c].state \in {"ok", "failed"}
  <2>1. CASE ThreadDone(c)
    BY <2>1 DEF ThreadDone, LogInv, ShapeInv, Typed
  <2>2. CASE ThreadFails(c)
    BY <2>2 DEF ThreadFails, LogInv, ShapeInv, Typed
  <2>3. QED BY <2>1, <2>2
<1>3. LogOf(c)'
  BY <1>1, <1>2 DEF LogOf
<1>4. ASSUME NEW d \in Clients, d # c PROVE LogOf(d)'
  <2>1. CASE disk' = disk
    BY <1>1, <1>2, <1>4, <2>1, LogStays DEF LogInv
  <2>2. CASE disk' # disk
    <3>1. pc[c] = "saving"
      BY <1>1, <2>2 DEF ThreadDone, ThreadFails, FileAfter, fileVars, LogInv, IInv, OwnThread
    <3>2. pc[d] \notin InSession
      BY <1>4, <3>1, OnlyOneInSession DEF LogInv, InSession
    <3>3. QED BY <1>1, <3>2 DEF LogOf, InSession
  <2>3. QED BY <2>1, <2>2
<1>5. QED BY <1>3, <1>4

\* A step of one task that starts no save and no run.
LEMMA QuietLog ==
  ASSUME LogInv, NEW c \in Clients, disk' = disk,
         \A d \in Clients \ {c} : /\ pc'[d] = pc[d] /\ stage'[d] = stage[d]
                                  /\ run'[d] = run[d] /\ thread'[d] = thread[d],
         pc'[c] \notin {"saving", "running"}
  PROVE  \A d \in Clients : LogOf(d)'
<1>1. LogOf(c)'
  BY DEF LogOf
<1>2. ASSUME NEW d \in Clients, d # c PROVE LogOf(d)'
  BY <1>2, LogStays DEF LogInv
<1>3. QED BY <1>1, <1>2

\* Every step of a task.
LEMMA TaskLog ==
  ASSUME LogInv, NEW c \in Clients,
         Begin(c) \/ Advance(c) \/ ThreadFails(c) \/ RunRaises(c) \/ Cancel(c)
  PROVE  \A d \in Clients : LogOf(d)'
<1> USE DEF fileVars, ghostVars, cacheVars
<1>1. CASE Begin(c)
  <2>1. disk' = disk /\ UNCHANGED <<stage, run>>
    BY <1>1 DEF Begin, BeginTurn, BeginClear, BeginDelete, BeginStamp
  <2>2. \A d \in Clients \ {c} : pc'[d] = pc[d] /\ thread'[d] = thread[d]
    BY <1>1 DEF Begin, BeginTurn, BeginClear, BeginDelete, BeginStamp, Get, LogInv, ShapeInv, Typed
  <2>3. pc'[c] \notin {"saving", "running"}
    BY <1>1 DEF Begin, BeginTurn, BeginClear, BeginDelete, BeginStamp, Get, LogInv, ShapeInv, Typed
  <2>4. QED BY <2>1, <2>2, <2>3, QuietLog
<1>2. CASE EnterLoad(c)
  <2>1. disk' = disk /\ UNCHANGED <<stage, run>>
    BY <1>2 DEF EnterLoad
  <2>2. /\ \A d \in Clients \ {c} : pc'[d] = pc[d] /\ thread'[d] = thread[d]
        /\ pc'[c] \notin {"saving", "running"}
    BY <1>2 DEF EnterLoad, LogInv, ShapeInv, Typed
  <2>3. QED BY <2>1, <2>2, QuietLog
<1>3. CASE LoadDone(c)
  <2>1. disk' = disk /\ UNCHANGED <<stage, run>>
    BY <1>3 DEF LoadDone
  <2>2. /\ \A d \in Clients \ {c} : pc'[d] = pc[d] /\ thread'[d] = thread[d]
        /\ pc'[c] \notin {"saving", "running"}
    BY <1>3 DEF LoadDone, LogInv, ShapeInv, Typed
  <2>3. QED BY <2>1, <2>2, QuietLog
<1>4. CASE RunReturns(c)
  <2>1. disk' = disk /\ UNCHANGED <<stage, run, thread>>
    BY <1>4 DEF RunReturns
  <2>2. /\ \A d \in Clients \ {c} : pc'[d] = pc[d]
        /\ pc'[c] \notin {"saving", "running"}
    BY <1>4 DEF RunReturns, LogInv, ShapeInv, Typed
  <2>3. QED BY <2>1, <2>2, QuietLog
<1>5. CASE LoadFailed(c) \/ EndTurn(c) \/ DeleteFailed(c) \/ DeleteDone(c)
  BY <1>5, FinishLog DEF LoadFailed, EndTurn, DeleteFailed, DeleteDone
<1>6. CASE SaveFailed(c)
  BY <1>6, FinishLog, CloseLog DEF SaveFailed
<1>7. CASE RunRaises(c)
  <2>1. pc[c] = "running" /\ CloseTurn(c) /\ disk' = disk
    BY <1>7 DEF RunRaises
  <2>2. QED BY <2>1, CloseLog
<1>8. CASE Cancel(c)
  <2>1. CASE Finish(c)
    BY <1>8, <2>1, FinishLog DEF Cancel
  <2>2. CASE UNCHANGED <<pc, stage, run, thread>>
    BY <1>8, <2>2, LogStays DEF Cancel, LogInv
  <2>3. QED BY <1>8, <2>1, <2>2 DEF Cancel
<1>9. CASE ThreadDone(c) \/ ThreadFails(c)
  BY <1>9, ThreadLog
<1>10. QED BY <1>1, <1>2, <1>3, <1>4, <1>5, <1>6, <1>7, <1>8, <1>9, EnterLaneLog, SaveDoneLog,
              CheckpointLog DEF Advance

\* The first state.
LEMMA InitLog == Init => LogInv
<1>1. Init => \A c \in Clients : LogOf(c)
  BY DEF Init, LogOf
<1>2. QED BY <1>1, InitIInv, InitShape DEF LogInv

\* LogInv is inductive.
LEMMA StepLog ==
  ASSUME MaxDeletes = 0, MaxCancels <= 1, LogInv, [Next]_vars
  PROVE  LogInv'
<1>1. IInv' /\ ShapeInv'
  BY StepIInv, StepShape DEF LogInv
<1>2. \A d \in Clients : LogOf(d)'
  <2>1. CASE OrphanEnds
    BY <2>1 DEF OrphanEnds, LogInv, IInv, NothingDeleted
  <2>2. CASE Crash
    BY <2>2 DEF Crash, LogOf
  <2>3. CASE UNCHANGED vars
    BY <2>3, LogStays DEF LogInv, vars, taskVars, fileVars
  <2>4. QED BY <2>1, <2>2, <2>3, TaskLog DEF Next
<1>3. QED BY <1>1, <1>2, Zenon DEF LogInv

\* The abstract log reads transcripts as the session does.
LEMMA LogAt == \A s, I : Log!At(s, I) = At(s, I)
BY Zenon DEF Log!At, At

\* ... drops annotations as it does,
LEMMA LogSanitize == \A h : Log!SanitizeMessages(h) = SanitizeMessages(h)
BY LogAt, Zenon DEF Log!SanitizeMessages, SanitizeMessages, Log!AllowedRoles, AllowedRoles

\* ... knows the same extensions,
LEMMA LogPrefix == \A g, h : Log!IsStrictPrefix(g, h) = IsStrictPrefix(g, h)
BY Zenon DEF Log!IsStrictPrefix, IsStrictPrefix, Log!IsPrefix, IsPrefix

\* ... the same empty messages,
LEMMA LogDrop == \A h : Log!DropEmptyMessages(h) = DropEmptyMessages(h)
BY LogAt, Zenon DEF Log!DropEmptyMessages, DropEmptyMessages, Log!HasContent, HasContent

\* ... the same messages to merge,
LEMMA LogMerge == \A h : Log!MergeConsecutiveText(h) = MergeConsecutiveText(h)
BY ZenonT(90) DEF Log!MergeConsecutiveText, MergeConsecutiveText, Log!IsPlainText, IsPlainText,
  Log!FlattenSeq, FlattenSeq, Log!At, At

\* ... the same orphaned results,
LEMMA LogOrphan == \A h : Log!DropOrphanToolResults(h) = DropOrphanToolResults(h)
BY LogAt, Zenon DEF Log!DropOrphanToolResults, DropOrphanToolResults,
  Log!CallIds, CallIds, Log!Range, Range

\* ... the same missing results,
LEMMA LogBackfill == \A h : Log!BackfillMissingToolResults(h) = BackfillMissingToolResults(h)
BY ZenonT(90) DEF Log!BackfillMissingToolResults, BackfillMissingToolResults,
  Log!ToolResult, ToolResult, Log!Message, Message, Log!LostResult, LostResult,
  Log!At, At, Log!FlattenSeq, FlattenSeq

\* ... hence the same repair,
LEMMA LogRepair == \A h : Log!Repair(h) = Repair(h)
BY LogSanitize, LogDrop, LogMerge, LogOrphan, LogBackfill, Zenon DEF Log!Repair, Repair

\* ... the same placeholder replies,
LEMMA LogAssistant == \A w : Log!Assistant(w) = Assistant(w)
BY Zenon DEF Log!Assistant, Assistant, Log!Message, Message

\* ... and the same recovery.
LEMMA LogRecovered == \A h : Log!Recovered(h) = Recovered(h)
<1> TAKE h
<1>1. Log!InterruptedReply = InterruptedReply /\ Log!InterruptedTool = InterruptedTool
  BY Zenon DEF Log!InterruptedReply, InterruptedReply, Log!InterruptedTool, InterruptedTool
<1>2. \A s : Log!Last(s) = Last(s)
  BY Zenon DEF Log!Last, Last
<1>3. QED
  BY <1>1, <1>2, LogRepair, LogAssistant DEF Log!Recovered, Recovered

\* The document changes only when the save of the task in the lane takes effect.
LEMMA LogStep ==
  ASSUME LogInv, Next
  PROVE  [Log!Next]_disk
<1> SUFFICES ASSUME disk' # disk PROVE Log!Next
  OBVIOUS
<1> USE DEF fileVars, ghostVars, cacheVars
<1>1. PICK c \in Clients : ThreadDone(c)
  <2>1. CASE OrphanEnds
    BY <2>1 DEF OrphanEnds, LogInv, IInv, NothingDeleted
  <2>2. CASE Crash
    BY <2>2 DEF Crash
  <2>3. CASE \E c \in Clients : Begin(c)
    BY <2>3 DEF Begin, BeginTurn, BeginClear, BeginDelete, BeginStamp
  <2>4. CASE \E c \in Clients : Advance(c)
    BY <2>4 DEF Advance, EnterLoad, LoadDone, LoadFailed, EnterLane, SaveDone, SaveFailed,
       DeleteDone, DeleteFailed, Checkpoint, RunReturns, EndTurn
  <2>5. CASE \E c \in Clients : ThreadFails(c) \/ RunRaises(c) \/ Cancel(c)
    BY <2>5 DEF ThreadFails, RunRaises, Cancel
  <2>6. QED BY <2>1, <2>2, <2>3, <2>4, <2>5 DEF Next
<1>2. QED
  <2>1. pc[c] = "saving" /\ thread[c].state = "running" /\ disk' = thread[c].content
    BY <1>1 DEF ThreadDone, FileAfter, LogInv, IInv, OwnThread
  <2>2. stage[c] \in {"recover", "user", "checkpoint", "close", "clear", "stamp"}
    BY <2>1 DEF LogInv, ShapeInv, Places, Typed, Stages
  <2>3. Moves(stage[c], disk, disk')
    BY <2>1 DEF LogInv, LogOf
  <2>4. CASE stage[c] \in {"recover", "close"}
    BY <2>3, <2>4, LogRecovered DEF Moves, Log!Next, Log!Close
  <2>5. CASE stage[c] \in {"user", "checkpoint"}
    BY <2>3, <2>5, LogPrefix DEF Moves, Log!Next, Log!Extend
  <2>6. CASE stage[c] = "stamp"
    BY <2>3, <2>6, LogSanitize DEF Moves, Log!Next, Log!Annotate
  <2>7. CASE stage[c] = "clear"
    BY <2>3, <2>7 DEF Moves, Log!Next, Log!Erase
  <2>8. QED BY <2>2, <2>4, <2>5, <2>6, <2>7

\* The lane implements ConversationLog: with no deletion and no operation
\* cancelled twice, the document changes only by an extension of the run, a
\* repair, an annotation or an erasure.
THEOREM DocumentIsLog ==
  ASSUME MaxDeletes = 0, MaxCancels <= 1
  PROVE  Spec => ImplementsLog
<1>1. Init => Log!Init
  BY DEF Init, Log!Init
<1>2. LogInv /\ [Next]_vars => [Log!Next]_disk
  <2>1. UNCHANGED vars => UNCHANGED disk
    BY DEF vars, fileVars
  <2>2. QED BY <2>1, LogStep
<1>3. QED BY <1>1, <1>2, InitLog, StepLog, PTL DEF Spec, ImplementsLog, Log!Spec
=============================================================================
