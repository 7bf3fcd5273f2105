---------------------------- MODULE MessageLemmas ---------------------------
(***************************************************************************)
(* The operators of RpcMessages, and what becomes of a stream of texts     *)
(* that is written, cut and read: facts about values, on which the proofs  *)
(* about sessions and clients rest.                                        *)
(***************************************************************************)
EXTENDS RpcMessages, SequenceTheorems, TLAPS

-----------------------------------------------------------------------------
(* Texts and terminators                                                   *)

\* Whatever text parse_json is given, its answer is a response, the text of an
\* exception or an empty text (session::parse_json).
LEMMA ReplyIsReply == ASSUME NEW text \in Frames PROVE Reply(text) \in Replies
<1>1. CASE text \in Requests
  BY <1>1 DEF Requests, Reply, Executes, Replies, Responses, Results, ErrorText, EmptyText
<1>2. CASE text \in [kind : {"other", "malformed"}]
  BY <1>2 DEF Reply, Executes, Replies, ErrorText, EmptyText
<1> QED BY <1>1, <1>2 DEF Frames

\* A text is never mistaken for a terminator.
LEMMA NulIsNoText == NUL \notin Frames /\ NUL \notin Replies
  BY DEF NUL, Frames, Requests, Replies, Responses, EmptyText, ErrorText

\* The first read of a buffer that begins with a text and its terminator takes
\* exactly these two (the read handlers).
LEMMA FirstText ==
  ASSUME NEW s \in Seq(Symbols), Len(s) >= 1, s[1] # NUL,
         HasText(s), Len(s) >= 2 => s[2] = NUL
  PROVE  /\ Len(s) >= 2
         /\ NextText(s) = s[1]
         /\ AfterText(s) = SubSeq(s, 3, Len(s))
         /\ AfterText(s) \in Seq(Symbols)
         /\ Len(AfterText(s)) + 2 = Len(s)
         /\ \A k \in 1..(Len(s) - 2) : AfterText(s)[k] = s[k + 2]
<1>1. s[1] # NUL
  OBVIOUS
<1>2. Len(s) >= 2 /\ s[2] = NUL
  <2>1. PICK i \in 1..Len(s) : s[i] = NUL
    BY DEF HasText
  <2> QED BY <2>1, <1>1
<1>3. \A i \in 1..Len(s) :
        (s[i] = NUL /\ \A j \in 1..(i - 1) : s[j] # NUL) <=> i = 2
  BY <1>1, <1>2
<1>4. TextLength(s) = 2
  BY <1>2, <1>3 DEF TextLength
<1>5. NextText(s) = s[1]
  BY <1>2, <1>4, HeadTailOfSubSeq DEF NextText
<1>6. AfterText(s) = SubSeq(s, 3, Len(s))
  BY <1>4 DEF AfterText
<1>7. /\ SubSeq(s, 3, Len(s)) \in Seq(Symbols)
      /\ Len(SubSeq(s, 3, Len(s))) + 2 = Len(s)
      /\ \A k \in 1..(Len(s) - 2) : SubSeq(s, 3, Len(s))[k] = s[k + 2]
  <2>1. SubSeq(s, 3, Len(s)) \in Seq(Symbols)
    BY <1>2
  <2>2. Len(SubSeq(s, 3, Len(s))) + 2 = Len(s)
    <3> DEFINE rest == SubSeq(s, 3, Len(s))
               n == Len(s)
    <3>1. n \in Nat /\ n >= 2 /\ \A i \in 3..n : s[i] \in Symbols
      BY <1>2
    <3>2. Len(rest) = IF 3 <= n THEN n - 3 + 1 ELSE 0
      BY <3>1, SubSeqProperties
    <3> HIDE DEF rest, n
    <3>3. Len(rest) + 2 = n
      BY <3>1, <3>2
    <3> QED BY <3>3 DEF rest, n
  <2>3. ASSUME NEW k \in 1..(Len(s) - 2)
        PROVE  SubSeq(s, 3, Len(s))[k] = s[k + 2]
    BY <1>2
  <2> QED BY <2>1, <2>2, <2>3
<1> QED BY <1>2, <1>5, <1>6, <1>7

\* Taking symbols from the kernel does not change the stream.
LEMMA MoveBetween ==
  ASSUME NEW S, NEW a \in Seq(S), NEW b \in Seq(S), NEW n \in 1..Len(b)
  PROVE  /\ a \o SubSeq(b, 1, n) \in Seq(S)
         /\ SubSeq(b, n + 1, Len(b)) \in Seq(S)
         /\ (a \o SubSeq(b, 1, n)) \o SubSeq(b, n + 1, Len(b)) = a \o b
<1>1. SubSeq(b, 1, n) \in Seq(S) /\ SubSeq(b, n + 1, Len(b)) \in Seq(S)
  BY ElementOfSeq, SubSeqProperties
<1>2. SubSeq(b, 1, n) \o SubSeq(b, n + 1, Len(b)) = b
  BY ConcatAdjacentSubSeq, SubSeqFull
<1>3. a \o SubSeq(b, 1, n) \in Seq(S)
  BY <1>1
<1>4. (a \o SubSeq(b, 1, n)) \o SubSeq(b, n + 1, Len(b))
        = a \o (SubSeq(b, 1, n) \o SubSeq(b, n + 1, Len(b)))
  <2> DEFINE x == SubSeq(b, 1, n)
             y == SubSeq(b, n + 1, Len(b))
  <2>1. x \in Seq(S) /\ y \in Seq(S)
    BY <1>1
  <2> HIDE DEF x, y
  <2>2. (a \o x) \o y = a \o (x \o y)
    BY <2>1, ConcatAssociative, SMTT(30)
  <2> QED BY <2>2 DEF x, y
<1> QED BY <1>1, <1>2, <1>3, <1>4

LEMMA RemoveKeepsType ==
  ASSUME NEW S, NEW s \in Seq(S), NEW i \in 1..Len(s)
  PROVE  RemoveAt(s, i) \in Seq(S)
<1>1. SubSeq(s, 1, i - 1) \in Seq(S) /\ SubSeq(s, i + 1, Len(s)) \in Seq(S)
  BY ElementOfSeq, SubSeqProperties
<1> QED BY <1>1 DEF RemoveAt

\* At most one write is outstanding: taking it away leaves none.
LEMMA RemoveOnly ==
  ASSUME NEW S, NEW s \in Seq(S), Len(s) <= 1, NEW i \in 1..Len(s)
  PROVE  RemoveAt(s, i) = <<>>
<1>1. i = 1 /\ Len(s) < i + 1
  OBVIOUS
<1>2. SubSeq(s, 1, i - 1) = <<>> /\ SubSeq(s, i + 1, Len(s)) = <<>>
  BY <1>1, SubSeqEmpty
<1> QED BY <1>2, ConcatEmptySeq, EmptySeq DEF RemoveAt

LEMMA AgreesIsPrefix ==
  ASSUME NEW S, NEW s \in Seq(S), NEW t \in Seq(S), Len(s) <= Len(t),
         \A i \in 1..Len(s) : s[i] = t[i]
  PROVE  IsPrefix(s, t)
<1> DEFINE m == Len(s)
<1>1. m \in Nat /\ Len(t) \in Nat /\ m <= Len(t)
  OBVIOUS
<1>2. SubSeq(s, 1, m) = SubSeq(t, 1, m)
  BY <1>1
<1> QED BY <1>1, <1>2 DEF IsPrefix

-----------------------------------------------------------------------------
(* Streams                                                                 *)

\* A stream carries, in order, the texts that follow the first `from' of a
\* sequence, each with its terminator; it may end within one.
Carries(stream, texts, from) ==
    \A k \in 1..Len(stream) :
        /\ from + ((k + 1) \div 2) <= Len(texts)
        /\ stream[k] = IF k % 2 = 1 THEN texts[from + ((k + 1) \div 2)] ELSE NUL

\* A text made later changes nothing of what is under way.
LEMMA CarriesMore ==
  ASSUME NEW Texts, NEW texts \in Seq(Texts), NEW text \in Texts, NEW from \in Nat,
         NEW stream \in Seq(Symbols), Carries(stream, texts, from)
  PROVE  Carries(stream, Append(texts, text), from)
<1> DEFINE n == Len(texts)
           more == Append(texts, text)
<1>1. n \in Nat /\ Len(more) = n + 1 /\ \A i \in 1..n : more[i] = texts[i]
  OBVIOUS
<1> HIDE DEF n, more
<1> SUFFICES ASSUME NEW k \in 1..Len(stream)
             PROVE  /\ from + ((k + 1) \div 2) <= n + 1
                    /\ stream[k] = IF k % 2 = 1 THEN more[from + ((k + 1) \div 2)] ELSE NUL
  BY <1>1 DEF Carries, more
<1> DEFINE j == from + ((k + 1) \div 2)
<1>2. j <= n /\ stream[k] = IF k % 2 = 1 THEN texts[j] ELSE NUL
  BY DEF Carries, n
<1>3. j \in Nat /\ j >= 1
  <2>1. k \in Nat /\ k >= 1
    OBVIOUS
  <2> QED BY <2>1
<1> HIDE DEF j
<1>4. j \in 1..n /\ j <= n + 1
  BY <1>1, <1>2, <1>3
<1> QED BY <1>1, <1>2, <1>4 DEF j

\* What has arrived of a stream is a beginning of it.
LEMMA CarriesLess ==
  ASSUME NEW texts, NEW from, NEW a \in Seq(Symbols), NEW b \in Seq(Symbols),
         Carries(a \o b, texts, from)
  PROVE  Carries(a, texts, from)
<1>1. \A k \in 1..Len(a) : k \in 1..Len(a \o b) /\ (a \o b)[k] = a[k]
  OBVIOUS
<1> QED BY <1>1 DEF Carries

\* What async_write_some hands over next continues the stream.
LEMMA CarriesPut ==
  ASSUME NEW Texts, NEW texts \in Seq(Texts), Texts \subseteq Symbols, NEW from \in Nat,
         NEW stream \in Seq(Symbols), Carries(stream, texts, from),
         NEW done \in Nat, NEW put \in 0..1, from <= done, done + 1 <= Len(texts),
         Len(stream) = 2 * (done - from) + put
  PROVE  /\ Append(stream, Encode(texts[done + 1])[put + 1]) \in Seq(Symbols)
         /\ Len(Append(stream, Encode(texts[done + 1])[put + 1])) = 2 * (done - from) + put + 1
         /\ Carries(Append(stream, Encode(texts[done + 1])[put + 1]), texts, from)
<1> DEFINE n == Len(stream)
           text == texts[done + 1]
           symbol == Encode(text)[put + 1]
           longer == Append(stream, symbol)
<1>1. n \in Nat /\ n = 2 * (done - from) + put
  OBVIOUS
<1>2. text \in Texts
  <2>1. done + 1 \in 1..Len(texts)
    OBVIOUS
  <2> QED BY <2>1
<1>3. symbol = (IF put = 0 THEN text ELSE NUL) /\ symbol \in Symbols
  <2> HIDE DEF text
  <2> QED BY <1>2 DEF Encode, Symbols
<1> HIDE DEF symbol, text
<1>4. /\ longer \in Seq(Symbols) /\ Len(longer) = n + 1
      /\ \A k \in 1..n : longer[k] = stream[k]
      /\ longer[n + 1] = symbol
  BY <1>3
<1>5. (n + 2) \div 2 = done - from + 1 /\ ((n + 1) % 2 = 1 <=> put = 0)
  <2> HIDE DEF n
  <2> QED BY <1>1
<1> HIDE DEF longer, n
<1>6. ASSUME NEW k \in 1..(n + 1)
      PROVE  /\ from + ((k + 1) \div 2) <= Len(texts)
             /\ longer[k] = IF k % 2 = 1 THEN texts[from + ((k + 1) \div 2)] ELSE NUL
  <2>1. CASE k \in 1..n
    BY <1>4, <2>1 DEF Carries, n
  <2>2. CASE k = n + 1
    <3>1. (k + 1) \div 2 = done - from + 1 /\ (k % 2 = 1 <=> put = 0)
      <4>1. k + 1 = n + 2
        BY <1>1, <2>2
      <4> QED BY <1>5, <2>2, <4>1
    <3>2. from + (done - from + 1) = done + 1
      OBVIOUS
    <3>3. from + ((k + 1) \div 2) = done + 1
      BY <3>1, <3>2
    <3>4. longer[k] = symbol
      BY <1>4, <2>2
    <3>5. longer[k] = IF put = 0 THEN text ELSE NUL
      BY <1>3, <3>4
    <3>6. longer[k] = IF k % 2 = 1 THEN text ELSE NUL
      BY <3>1, <3>5
    <3> DEFINE half == (k + 1) \div 2
               bit == k % 2
    <3> HIDE DEF half, bit
    <3>7. from + half = done + 1 /\ longer[k] = IF bit = 1 THEN text ELSE NUL
      BY <3>3, <3>6 DEF half, bit
    <3>8. /\ from + half <= Len(texts)
          /\ longer[k] = IF bit = 1 THEN texts[from + half] ELSE NUL
      BY <3>7 DEF text
    <3> QED BY <3>8 DEF half, bit
  <2>3. k \in 1..n \/ k = n + 1
    BY <1>1
  <2> QED BY <2>1, <2>2, <2>3, Zenon
<1>7. Carries(longer, texts, from)
  BY <1>4, <1>6 DEF Carries
<1> QED BY <1>1, <1>4, <1>7 DEF longer, symbol, text

\* A peer that sends a text whole.
LEMMA CarriesSent ==
  ASSUME NEW Texts, NEW texts \in Seq(Texts), Texts \subseteq Symbols, NEW text \in Texts,
         NEW from \in Nat, from <= Len(texts),
         NEW stream \in Seq(Symbols), Carries(stream, texts, from),
         Len(stream) = 2 * (Len(texts) - from)
  PROVE  /\ stream \o <<text>> \in Seq(Symbols)
         /\ Len(stream \o <<text>>) = 2 * (Len(texts) - from) + 1
         /\ Carries(stream \o <<text>>, Append(texts, text), from)
         /\ stream \o Encode(text) \in Seq(Symbols)
         /\ Len(stream \o Encode(text)) = 2 * (Len(texts) + 1 - from)
         /\ Carries(stream \o Encode(text), Append(texts, text), from)
<1> DEFINE n == Len(texts)
           more == Append(texts, text)
           half == Append(stream, text)
           whole == Append(half, NUL)
<1>1. /\ n \in Nat /\ more \in Seq(Texts) /\ Len(more) = n + 1 /\ more[n + 1] = text
      /\ text \in Symbols /\ NUL \in Symbols
  BY DEF Symbols
<1>2. Encode(text)[1] = text /\ Encode(text)[2] = NUL
  BY DEF Encode
<1>3. Carries(stream, more, from)
  BY CarriesMore
<1> HIDE DEF more, n
<1>4. half \in Seq(Symbols) /\ Len(half) = 2 * (n - from) + 1 /\ Carries(half, more, from)
  <2>1. Len(stream) = 2 * (n - from) + 0 /\ from <= n /\ n + 1 <= Len(more)
    BY <1>1 DEF n
  <2>2. 0 \in 0..1 /\ 0 + 1 = 1
    OBVIOUS
  <2>3. /\ Append(stream, Encode(more[n + 1])[0 + 1]) \in Seq(Symbols)
        /\ Len(Append(stream, Encode(more[n + 1])[0 + 1])) = 2 * (n - from) + 0 + 1
        /\ Carries(Append(stream, Encode(more[n + 1])[0 + 1]), more, from)
    BY <1>1, <1>3, <2>1, <2>2, CarriesPut
  <2>4. Encode(more[n + 1])[0 + 1] = text
    BY <1>1, <1>2, <2>2
  <2> QED BY <1>1, <2>3, <2>4
<1> HIDE DEF half
<1>5. whole \in Seq(Symbols) /\ Len(whole) = 2 * (n - from) + 2 /\ Carries(whole, more, from)
  <2>1. from <= n /\ n + 1 <= Len(more)
    BY <1>1 DEF n
  <2>2. 1 \in 0..1 /\ 1 + 1 = 2
    OBVIOUS
  <2>3. /\ Append(half, Encode(more[n + 1])[1 + 1]) \in Seq(Symbols)
        /\ Len(Append(half, Encode(more[n + 1])[1 + 1])) = 2 * (n - from) + 1 + 1
        /\ Carries(Append(half, Encode(more[n + 1])[1 + 1]), more, from)
    BY <1>1, <1>4, <2>1, <2>2, CarriesPut
  <2>4. Encode(more[n + 1])[1 + 1] = NUL
    BY <1>1, <1>2, <2>2
  <2> QED BY <1>1, <2>3, <2>4
<1>6. stream \o <<text>> = half
  BY <1>1 DEF half
<1>7. stream \o Encode(text) = whole
  BY <1>1 DEF half, Encode
<1>8. 2 * (n - from) + 2 = 2 * (n + 1 - from)
  BY <1>1
<1> QED BY <1>4, <1>5, <1>6, <1>7, <1>8 DEF n, more

\* A read handler takes the first text carried, and its terminator.
LEMMA CarriesTake ==
  ASSUME NEW Texts, Texts \subseteq Symbols, NUL \notin Texts, NEW texts \in Seq(Texts), NEW from \in Nat,
         NEW buffer \in Seq(Symbols), NEW rest \in Seq(Symbols),
         Carries(buffer \o rest, texts, from), HasText(buffer)
  PROVE  /\ from + 1 <= Len(texts)
         /\ NextText(buffer) = texts[from + 1] /\ texts[from + 1] \in Texts
         /\ AfterText(buffer) \in Seq(Symbols)
         /\ AfterText(buffer) \o rest \in Seq(Symbols)
         /\ Len(AfterText(buffer) \o rest) + 2 = Len(buffer \o rest)
         /\ Carries(AfterText(buffer) \o rest, texts, from + 1)
<1> DEFINE stream == buffer \o rest
           after == AfterText(buffer)
           left == after \o rest
           a == Len(buffer)
           b == Len(rest)
<1>1. /\ a \in Nat /\ b \in Nat /\ Len(stream) = a + b
      /\ \A k \in 1..a : stream[k] = buffer[k]
      /\ \A k \in 1..b : stream[a + k] = rest[k]
  OBVIOUS
<1>2. a >= 1
  BY DEF HasText
<1>3. from + 1 <= Len(texts) /\ buffer[1] = texts[from + 1] /\ buffer[1] \in Texts
  <2>1. 1 \in 1..Len(stream) /\ stream[1] = buffer[1]
    BY <1>1, <1>2
  <2>2. (1 + 1) \div 2 = 1 /\ 1 % 2 = 1
    OBVIOUS
  <2>3. from + 1 <= Len(texts) /\ stream[1] = texts[from + 1]
    BY <2>1, <2>2 DEF Carries
  <2>4. from + 1 \in 1..Len(texts)
    BY <2>3
  <2> QED BY <2>1, <2>3, <2>4
<1>4. a >= 2 => buffer[2] = NUL
  <2> SUFFICES ASSUME a >= 2 PROVE buffer[2] = NUL
    OBVIOUS
  <2>1. 2 \in 1..Len(stream) /\ stream[2] = buffer[2] /\ 2 % 2 = 0
    BY <1>1
  <2> HIDE DEF stream
  <2> QED BY <2>1 DEF Carries, stream
<1>5. /\ a >= 2 /\ NextText(buffer) = buffer[1]
      /\ after \in Seq(Symbols) /\ Len(after) + 2 = a
      /\ \A k \in 1..(a - 2) : after[k] = buffer[k + 2]
  BY <1>2, <1>3, <1>4, FirstText
<1> HIDE DEF after
<1> DEFINE c == Len(after)
<1>6. /\ left \in Seq(Symbols) /\ Len(left) = c + b
      /\ \A k \in 1..c : left[k] = after[k]
      /\ \A k \in 1..b : left[c + k] = rest[k]
  BY <1>5
<1>7. /\ c \in Nat /\ c + 2 = a
      /\ \A k \in 1..(a - 2) : after[k] = buffer[k + 2]
  BY <1>5
<1> HIDE DEF a, b, c, left, stream
<1>8. Len(left) = c + b /\ Len(left) + 2 = Len(stream)
  BY <1>1, <1>6, <1>7
<1>9. ASSUME NEW k \in 1..(c + b)
      PROVE  k + 2 \in 1..(a + b) /\ left[k] = stream[k + 2]
  <2>1. CASE k <= c
    <3>1. left[k] = after[k] /\ k \in 1..c
      BY <1>6, <1>7, <2>1
    <3>2. after[k] = buffer[k + 2] /\ k + 2 \in 1..a
      BY <1>1, <1>7, <3>1
    <3>3. k + 2 \in 1..(a + b)
      BY <1>1, <1>7
    <3>4. stream[k + 2] = buffer[k + 2]
      BY <1>1, <3>2
    <3> QED BY <3>1, <3>2, <3>3, <3>4
  <2>2. CASE k > c
    <3>1. k - c \in 1..b /\ c + (k - c) = k /\ a + (k - c) = k + 2
      BY <1>1, <1>7, <2>2
    <3>2. left[c + (k - c)] = rest[k - c] /\ stream[a + (k - c)] = rest[k - c]
      BY <1>1, <1>6, <3>1
    <3>3. k + 2 \in 1..(a + b)
      BY <1>1, <1>7
    <3> QED BY <3>1, <3>2, <3>3
  <2> QED BY <1>1, <1>7, <2>1, <2>2
<1>10. ASSUME NEW k \in 1..Len(left)
       PROVE  /\ from + 1 + ((k + 1) \div 2) <= Len(texts)
              /\ left[k] = IF k % 2 = 1 THEN texts[from + 1 + ((k + 1) \div 2)] ELSE NUL
  <2>1. k \in 1..(c + b)
    BY <1>8
  <2>2. k + 2 \in 1..Len(stream) /\ left[k] = stream[k + 2]
    BY <1>1, <1>9, <2>1
  <2>3. (k + 2) % 2 = k % 2 /\ from + ((k + 2 + 1) \div 2) = from + 1 + ((k + 1) \div 2)
    OBVIOUS
  <2>4. /\ from + ((k + 2 + 1) \div 2) <= Len(texts)
        /\ stream[k + 2] = IF (k + 2) % 2 = 1 THEN texts[from + ((k + 2 + 1) \div 2)] ELSE NUL
    BY <2>2 DEF Carries, stream
  <2> QED BY <2>2, <2>3, <2>4
<1>11. Carries(left, texts, from + 1)
  BY <1>10 DEF Carries
<1> QED BY <1>3, <1>5, <1>6, <1>8, <1>11 DEF left, stream, after
=============================================================================
