---------------------- MODULE HttpRequestParserProofs -----------------------
(***************************************************************************)
(* Proofs about HttpRequestParser: for any streams, cut into chunks in any *)
(* way, header and body are split where the first delimiter ends, what a   *)
(* request says is what the text of its header says, and the end of a      *)
(* message with a length is recognised at its last byte.                   *)
(*                                                                         *)
(* The loops of the parser are recursive functions over the positions of a *)
(* text.  That such a function exists (ChainSolved) and what it computes   *)
(* (QueryIsDictionary, LengthsFrom) is shown by Downwards: induction over  *)
(* a set of positions, from the last to the first.                         *)
(***************************************************************************)
EXTENDS HttpRequestParser, SequenceTheorems, WellFoundedInduction, TLAPS

-----------------------------------------------------------------------------
(* Sets of positions, and induction over them *)

\* Among natural numbers Min is a least one.
LEMMA MinLeast ==
  ASSUME NEW S \in SUBSET Nat, S # {}
  PROVE  Min(S) \in S /\ \A m \in S : Min(S) <= m
<1>1. PICK n \in S : \A m \in S : <<m, n>> \notin OpToRel(<, Nat)
  BY NatLessThanWellFounded, WFMin, Zenon
<1>2. \A m \in S : ~(m < n)
  BY <1>1 DEF OpToRel
<1>3. \E k \in S : \A m \in S : k <= m
  BY <1>2
<1> QED
  BY <1>3, Zenon DEF Min

\* A bounded, non-empty set of natural numbers has a greatest element.
LEMMA MaxGreatest ==
  ASSUME NEW S \in SUBSET Nat, S # {}, NEW bound \in Nat, \A n \in S : n <= bound
  PROVE  Max(S) \in S /\ \A m \in S : m <= Max(S)
<1> DEFINE below == {bound - n : n \in S}
<1>1. below \in SUBSET Nat /\ below # {}
  <2>1. \A n \in S : bound - n \in Nat
    OBVIOUS
  <2>2. PICK n \in S : TRUE
    OBVIOUS
  <2>3. bound - n \in below
    OBVIOUS
  <2> QED
    BY <2>1, <2>3
<1>2. Min(below) \in below /\ \A d \in below : Min(below) <= d
  BY <1>1, MinLeast
<1>3. PICK n \in S : \A m \in S : bound - n <= bound - m
  BY <1>2
<1>4. \E k \in S : \A m \in S : k >= m
  <2>1. \A m \in S : n >= m
    BY <1>3
  <2> QED
    BY <2>1
<1>5. Max(S) \in S /\ \A m \in S : Max(S) >= m
  BY <1>4, Zenon DEF Max
<1> QED
  BY <1>5

\* The greatest element is the one no other exceeds.
LEMMA MaxIs ==
  ASSUME NEW S \in SUBSET Nat, NEW k \in S, \A m \in S : m <= k
  PROVE  Max(S) = k
<1>1. \A m \in S : k >= m
  OBVIOUS
<1>2. Max(S) \in S /\ \A m \in S : Max(S) >= m
  BY <1>1, Zenon DEF Max
<1>3. Max(S) >= k /\ Max(S) <= k /\ Max(S) \in Nat /\ k \in Nat
  BY <1>2
<1> QED
  BY <1>3

\* Induction from the last position to the first.
LEMMA Downwards ==
  ASSUME NEW N \in Nat, NEW Good,
         \A i \in 1 .. N : (\A j \in i + 1 .. N : j \in Good) => i \in Good
  PROVE  \A i \in 1 .. N : i \in Good
<1> DEFINE distance == {d \in 0 .. N - 1 : N - d \notin Good}
<1>1. CASE distance = {}
  <2>1. \A i \in 1 .. N : N - i \in 0 .. N - 1 /\ N - (N - i) = i
    OBVIOUS
  <2> QED
    BY <1>1, <2>1
<1>2. CASE distance # {}
  <2>1. distance \in SUBSET Nat
    OBVIOUS
  <2>2. PICK d \in distance : \A e \in distance : d <= e
    BY <1>2, <2>1, MinLeast
  <2>3. ASSUME NEW j \in (N - d) + 1 .. N PROVE j \in Good
    <3>1. N - j \in 0 .. N - 1 /\ ~(d <= N - j) /\ N - (N - j) = j
      OBVIOUS
    <3> QED
      BY <2>2, <3>1
  <2>4. N - d \in 1 .. N
    OBVIOUS
  <2> QED
    BY <2>3, <2>4
<1> QED
  BY <1>1, <1>2

-----------------------------------------------------------------------------
(* Texts *)

\* The part of a text between two positions.
LEMMA Slice ==
  ASSUME NEW text \in Seq(Bytes), NEW i \in Nat \ {0}, NEW j \in 0 .. Len(text)
  PROVE  /\ SubSeq(text, i, j) \in Seq(Bytes)
         /\ Len(SubSeq(text, i, j)) = IF i <= j THEN j - i + 1 ELSE 0
         /\ \A k \in 1 .. j - i + 1 : SubSeq(text, i, j)[k] = text[i + k - 1]
OBVIOUS

\* The same, of a slice that is not cut short.
LEMMA SliceSize ==
  ASSUME NEW text \in Seq(Bytes), NEW i \in Nat \ {0}, NEW j \in 0 .. Len(text), j >= i - 1
  PROVE  /\ SubSeq(text, i, j) \in Seq(Bytes)
         /\ Len(SubSeq(text, i, j)) = j - i + 1
         /\ \A k \in 1 .. j - i + 1 : SubSeq(text, i, j)[k] = text[i + k - 1]
<1>1. (IF i <= j THEN j - i + 1 ELSE 0) = j - i + 1
  OBVIOUS
<1> QED
  BY <1>1, Slice

\* Two bytes of a text.
LEMMA PairAt ==
  ASSUME NEW text, NEW i \in Int, NEW j \in Int, j = i + 1
  PROVE  SubSeq(text, i, j) = <<text[i], text[j]>>
<1> DEFINE two == SubSeq(text, i, j)
           S   == {text[i], text[j]}
<1>1. i <= j /\ j - i + 1 = 2 /\ \A k \in i .. j : k = i \/ k = j
  OBVIOUS
<1>2. \A k \in i .. j : text[k] \in S
  BY <1>1
<1>3. /\ two \in Seq(S) /\ Len(two) = 2
      /\ \A k \in 1 .. 2 : two[k] = text[i + k - 1]
  <2> HIDE DEF S
  <2>1. /\ two \in Seq(S) /\ Len(two) = IF i <= j THEN j - i + 1 ELSE 0
        /\ \A k \in 1 .. j - i + 1 : two[k] = text[i + k - 1]
    BY <1>1, <1>2, SubSeqProperties
  <2> QED
    BY <1>1, <2>1
<1>4. two[1] = text[i] /\ two[2] = text[j]
  <2>1. i + 1 - 1 = i /\ i + 2 - 1 = j /\ 1 \in 1 .. 2 /\ 2 \in 1 .. 2
    OBVIOUS
  <2> QED
    BY <1>3, <2>1
<1>5. <<text[i], text[j]>> \in Seq(S) /\ Len(<<text[i], text[j]>>) = 2
  OBVIOUS
<1> HIDE DEF two, S
<1>6. \A k \in 1 .. 2 : two[k] = <<text[i], text[j]>>[k]
  BY <1>4
<1>7. two = <<text[i], text[j]>>
  BY <1>3, <1>5, <1>6, SeqEqual
<1> QED
  BY <1>7 DEF two

\* find returns the first match, or npos.
LEMMA FindFirst ==
  ASSUME NEW text \in Seq(Bytes), NEW pattern, Len(pattern) \in Nat, NEW from \in Nat \ {0}
  PROVE  LET place   == Find(text, pattern, from)
             Matches == {i \in from .. Len(text) - Len(pattern) + 1 :
                           SubSeq(text, i, i + Len(pattern) - 1) = pattern}
         IN  \/ place = 0 /\ Matches = {}
             \/ place \in Matches /\ \A i \in Matches : place <= i
<1> DEFINE Matches == {i \in from .. Len(text) - Len(pattern) + 1 :
                         SubSeq(text, i, i + Len(pattern) - 1) = pattern}
<1>1. Find(text, pattern, from) = IF Matches = {} THEN 0 ELSE Min(Matches)
  BY DEF Find
<1>2. Matches \in SUBSET Nat
  OBVIOUS
<1>3. Matches # {} => Min(Matches) \in Matches /\ \A i \in Matches : Min(Matches) <= i
  BY <1>2, MinLeast
<1> QED
  BY <1>1, <1>3

\* The same, for a byte.
LEMMA FindByte ==
  ASSUME NEW text \in Seq(Bytes), NEW c, NEW from \in Nat \ {0}
  PROVE  LET place == Find(text, <<c>>, from)
         IN  \/ place = 0 /\ \A i \in from .. Len(text) : text[i] # c
             \/ /\ place \in from .. Len(text) /\ text[place] = c
                /\ \A i \in from .. place - 1 : text[i] # c
<1> DEFINE pattern == <<c>>
           place   == Find(text, pattern, from)
           Matches == {i \in from .. Len(text) - Len(pattern) + 1 :
                         SubSeq(text, i, i + Len(pattern) - 1) = pattern}
<1>1. Len(pattern) = 1 /\ Len(text) \in Nat
  OBVIOUS
<1>2. pattern = <<c>>
  OBVIOUS
<1> HIDE DEF pattern
<1>3. \/ place = 0 /\ Matches = {}
      \/ place \in Matches /\ \A i \in Matches : place <= i
  <2>1. Len(pattern) \in Nat
    BY <1>1
  <2>2. text \in Seq(Bytes) /\ from \in Nat \ {0}
    OBVIOUS
  <2> QED
    BY ONLY <2>1, <2>2, FindFirst
<1>4. ASSUME NEW i \in from .. Len(text) PROVE i \in Matches <=> text[i] = c
  <2>1. SubSeq(text, i, i) = <<text[i]>>
    <3>1. i \in Nat \ {0} /\ i \in 0 .. Len(text) /\ i - i + 1 = 1 /\ i + 1 - 1 = i
      BY <1>1
    <3>2. /\ SubSeq(text, i, i) \in Seq(Bytes) /\ Len(SubSeq(text, i, i)) = 1
          /\ SubSeq(text, i, i)[1] = text[i]
      BY <3>1, Slice
    <3>3. <<text[i]>> \in Seq(Bytes) /\ Len(<<text[i]>>) = 1 /\ <<text[i]>>[1] = text[i]
      OBVIOUS
    <3>4. \A k \in 1 .. Len(SubSeq(text, i, i)) : SubSeq(text, i, i)[k] = <<text[i]>>[k]
      BY <3>2, <3>3
    <3> QED
      BY <3>2, <3>3, <3>4, SeqEqual
  <2>2. i + 1 - 1 = i /\ Len(text) - 1 + 1 = Len(text)
    BY <1>1
  <2> QED
    BY <1>1, <1>2, <2>1, <2>2
<1>5. Matches \subseteq from .. Len(text)
  BY <1>1
<1> HIDE DEF Matches, place
<1>6. CASE place = 0 /\ Matches = {}
  BY <1>4, <1>6, <1>2 DEF place
<1>7. CASE place \in Matches /\ \A i \in Matches : place <= i
  <2>1. place \in from .. Len(text) /\ text[place] = c
    BY <1>4, <1>5, <1>7
  <2>2. \A i \in from .. place - 1 : i \in from .. Len(text) /\ ~(place <= i)
    BY <1>1, <2>1
  <2>3. \A i \in from .. place - 1 : text[i] # c
    BY <1>4, <1>7, <2>2
  <2> QED
    BY <1>2, <2>1, <2>3 DEF place
<1> QED
  BY <1>3, <1>6, <1>7

\* A line of the text ends at i.
Break(text, i) == text[i] = "CR" /\ text[i + 1] = "LF"

\* The same, for the end of a line.
LEMMA FindBreak ==
  ASSUME NEW text \in Seq(Bytes), NEW from \in Nat \ {0}
  PROVE  LET place == Find(text, CRLF, from)
         IN  \/ place = 0 /\ \A i \in from .. Len(text) - 1 : ~Break(text, i)
             \/ /\ place \in from .. Len(text) - 1 /\ Break(text, place)
                /\ \A i \in from .. place - 1 : ~Break(text, i)
<1> DEFINE place   == Find(text, CRLF, from)
           Matches == {i \in from .. Len(text) - Len(CRLF) + 1 :
                         SubSeq(text, i, i + Len(CRLF) - 1) = CRLF}
<1>1. Len(CRLF) = 2 /\ Len(text) \in Nat
  BY DEF CRLF
<1>2. \/ place = 0 /\ Matches = {}
      \/ place \in Matches /\ \A i \in Matches : place <= i
  <2>1. Len(CRLF) \in Nat
    BY <1>1
  <2> QED
    BY ONLY <2>1, text \in Seq(Bytes), from \in Nat \ {0}, FindFirst
<1>3. ASSUME NEW i \in from .. Len(text) - 1 PROVE i \in Matches <=> Break(text, i)
  <2>1. i \in Int /\ i + 1 \in Int
    BY <1>1
  <2>2. SubSeq(text, i, i + 1) = <<text[i], text[i + 1]>>
    BY <2>1, PairAt
  <2>3. SubSeq(text, i, i + 1) = CRLF <=> text[i] = "CR" /\ text[i + 1] = "LF"
    BY <2>2 DEF CRLF
  <2>4. i + 2 - 1 = i + 1 /\ Len(text) - 2 + 1 = Len(text) - 1
    BY <1>1
  <2> QED
    BY <1>1, <2>3, <2>4 DEF Break
<1>4. Matches \subseteq from .. Len(text) - 1
  BY <1>1
<1> HIDE DEF Matches, place
<1>5. CASE place = 0 /\ Matches = {}
  BY <1>3, <1>5 DEF place
<1>6. CASE place \in Matches /\ \A i \in Matches : place <= i
  <2>1. place \in from .. Len(text) - 1 /\ Break(text, place)
    BY <1>3, <1>4, <1>6
  <2>2. \A i \in from .. place - 1 : i \in from .. Len(text) - 1 /\ ~(place <= i)
    BY <1>1, <2>1
  <2>3. \A i \in from .. place - 1 : ~Break(text, i)
    BY <1>3, <1>6, <2>2
  <2> QED
    BY <2>1, <2>3 DEF place
<1> QED
  BY <1>2, <1>5, <1>6

-----------------------------------------------------------------------------
(* The delimiter *)

\* Texts can be put together in any grouping.
LEMMA BytesAssociate ==
  ASSUME NEW s \in Seq(Bytes), NEW t \in Seq(Bytes), NEW u \in Seq(Bytes)
  PROVE  (s \o t) \o u = s \o (t \o u)
BY ConcatAssociative

\* The delimiter has four characters.
LEMMA DelimiterLength == Len(Delimiter) = 4
BY DEF Delimiter, CRLF

\* A delimiter that ends within a text ends there in a longer one as well, and
\* the other way round.
LEMMA EndsInPrefix ==
  ASSUME NEW text \in Seq(Bytes), NEW chunk \in Seq(Bytes), NEW n \in 1 .. Len(text)
  PROVE  n \in HeaderEnds(text) <=> n \in HeaderEnds(text \o chunk)
<1>1. Len(text \o chunk) = Len(text) + Len(chunk) /\ Len(text) \in Nat /\ Len(chunk) \in Nat
  BY ConcatProperties
<1>2. ASSUME n >= 4
      PROVE  SubSeq(text \o chunk, n - 3, n) = SubSeq(text, n - 3, n)
  <2>1. n - 3 \in 1 .. Len(text)
    BY <1>1, <1>2
  <2> QED
    BY <2>1, SubSeqOfConcat1
<1>3. n - 4 + 1 = n - 3
  BY <1>1
<1> QED
  BY <1>1, <1>2, <1>3, DelimiterLength DEF HeaderEnds

\* A search that begins three characters before what is new, or at the start of
\* a shorter text, finds the first delimiter if the old text has none.
LEMMA FindsFirstEnd ==
  ASSUME NEW chunk \in Seq(Bytes), header \in Seq(Bytes), HeaderEnds(header) = {}
  PROVE  LET received == header \o chunk
             location == Find(received, Delimiter, SearchStart)
         IN  /\ location = 0 => HeaderEnds(received) = {}
             /\ location # 0 => /\ location \in Nat
                                /\ location + 3 \in HeaderEnds(received)
                                /\ \A n \in HeaderEnds(received) : location + 3 <= n
<1> DEFINE received == header \o chunk
           places == {i \in SearchStart .. Len(received) - 4 + 1 :
                        SubSeq(received, i, i + 4 - 1) = Delimiter}
<1>1. /\ received \in Seq(Bytes) /\ Len(received) = Len(header) + Len(chunk)
      /\ Len(header) \in Nat /\ Len(chunk) \in Nat
  BY ConcatProperties
<1>2. Find(received, Delimiter, SearchStart) = IF places = {} THEN 0 ELSE Min(places)
  BY DelimiterLength DEF Find
<1>3. SearchStart \in Nat /\ SearchStart >= 1
      /\ SearchStart = IF Len(header) >= 4 THEN Len(header) - 2 ELSE 1
  BY <1>1, DelimiterLength DEF SearchStart
<1>4. \A n \in HeaderEnds(received) : /\ n \in 4 .. Len(received)
                                      /\ SubSeq(received, n - 3, n) = Delimiter
  <2>1. \A n \in 4 .. Len(received) : n - 4 + 1 = n - 3
    BY <1>1
  <2> QED
    BY <2>1, DelimiterLength DEF HeaderEnds
<1>5. ASSUME NEW n \in HeaderEnds(received) PROVE n - 3 \in places
  <2>1. n \in 4 .. Len(received) /\ SubSeq(received, n - 3, n) = Delimiter
    BY <1>4
  <2>2. ~(n <= Len(header))
    <3>1. ASSUME n <= Len(header) PROVE n \in HeaderEnds(header)
      <4>1. n \in 1 .. Len(header)
        BY <1>1, <2>1, <3>1
      <4> QED
        BY <4>1, EndsInPrefix
    <3> QED
      BY <3>1
  <2>3. n - 3 \in SearchStart .. Len(received) - 4 + 1 /\ (n - 3) + 4 - 1 = n
    BY <1>1, <1>3, <2>1, <2>2
  <2> QED
    BY <2>1, <2>3
<1>6. ASSUME NEW i \in places PROVE i \in Nat /\ i >= 1 /\ i + 3 \in HeaderEnds(received)
  <2>1. i \in Nat /\ i >= 1 /\ i + 3 \in 4 .. Len(received)
    BY <1>1, <1>3
  <2>2. i + 4 - 1 = i + 3 /\ (i + 3) - 4 + 1 = i
    BY <2>1
  <2>3. SubSeq(received, (i + 3) - 4 + 1, i + 3) = Delimiter
    BY <2>2
  <2> QED
    BY <2>1, <2>3, DelimiterLength DEF HeaderEnds
<1>7. CASE places = {}
  <2>1. HeaderEnds(received) = {}
    BY <1>5, <1>7
  <2> QED
    BY <1>2, <1>7, <2>1
<1>8. CASE places # {}
  <2>1. places \in SUBSET Nat
    BY <1>6
  <2>2. Min(places) \in places /\ \A i \in places : Min(places) <= i
    BY <1>8, <2>1, MinLeast
  <2> DEFINE location == Min(places)
  <2>3. Find(received, Delimiter, SearchStart) = location
    BY <1>2, <1>8
  <2> HIDE DEF location, places
  <2>4. location \in Nat /\ location >= 1 /\ location + 3 \in HeaderEnds(received)
    BY <1>6, <2>2 DEF location
  <2>5. ASSUME NEW n \in HeaderEnds(received) PROVE location + 3 <= n
    <3>1. location <= n - 3 /\ n \in Nat
      BY <1>1, <1>4, <1>5, <2>2 DEF location
    <3> QED
      BY <2>4, <3>1
  <2> QED
    BY <2>3, <2>4, <2>5
<1> QED
  BY <1>7, <1>8

\* A delimiter is two ends of lines.
LEMMA DelimiterBreaks ==
  ASSUME NEW text \in Seq(Bytes), NEW n \in 4 .. Len(text)
  PROVE  SubSeq(text, n - 3, n) = Delimiter <=> Break(text, n - 3) /\ Break(text, n - 1)
<1> DEFINE four == SubSeq(text, n - 3, n)
<1>1. /\ four \in Seq(Bytes) /\ Len(four) = 4
      /\ four[1] = text[n - 3] /\ four[2] = text[n - 2]
      /\ four[3] = text[n - 1] /\ four[4] = text[n]
  <2>1. /\ n - 3 \in Nat \ {0} /\ n \in 0 .. Len(text) /\ n - (n - 3) + 1 = 4
        /\ (IF n - 3 <= n THEN n - (n - 3) + 1 ELSE 0) = 4
    OBVIOUS
  <2>2. /\ four \in Seq(Bytes) /\ Len(four) = 4
        /\ \A k \in 1 .. 4 : four[k] = text[(n - 3) + k - 1]
    BY <2>1, Slice
  <2>3. /\ (n - 3) + 1 - 1 = n - 3 /\ (n - 3) + 2 - 1 = n - 2
        /\ (n - 3) + 3 - 1 = n - 1 /\ (n - 3) + 4 - 1 = n
    OBVIOUS
  <2> QED
    BY <2>2, <2>3
<1> HIDE DEF four
<1>2. /\ Delimiter \in Seq({"CR", "LF"}) /\ Len(Delimiter) = 4
      /\ Delimiter[1] = "CR" /\ Delimiter[2] = "LF"
      /\ Delimiter[3] = "CR" /\ Delimiter[4] = "LF"
  BY DEF Delimiter, CRLF
<1>3. four = Delimiter <=> /\ four[1] = "CR" /\ four[2] = "LF"
                           /\ four[3] = "CR" /\ four[4] = "LF"
  <2>1. ASSUME four[1] = "CR", four[2] = "LF", four[3] = "CR", four[4] = "LF"
        PROVE  four = Delimiter
    <3>1. /\ Delimiter \in Seq(Bytes \cup {"CR", "LF"})
          /\ four \in Seq(Bytes \cup {"CR", "LF"})
      BY <1>1, <1>2, SeqMonotonic
    <3>2. \A k \in 1 .. 4 : four[k] = Delimiter[k]
      BY <1>2, <2>1
    <3> QED
      <4>1. Len(four) = 4 /\ Len(Delimiter) = 4
        BY <1>1, <1>2
      <4> QED
        BY ONLY <3>1, <3>2, <4>1, SeqEqual
  <2> QED
    BY <1>2, <2>1
<1>4. (n - 3) + 1 = n - 2 /\ (n - 1) + 1 = n
  OBVIOUS
<1> QED
  BY <1>1, <1>3, <1>4 DEF Break, four

-----------------------------------------------------------------------------
(* The loops of parse_query and parse_header_fields *)

\* f is a solution of the recursion that goes from position i to next[i].
Solves(f, N, next, item) ==
  f = [i \in 1 .. N |->
         IF next[i] = 0 THEN item[i] ELSE Updated(item[i], f[next[i]])]

\* A recursion from each position to a later one has a solution.
LEMMA ChainSolved ==
  ASSUME NEW N \in Nat, NEW next \in [1 .. N -> 0 .. N],
         \A i \in 1 .. N : next[i] = 0 \/ next[i] > i, NEW item
  PROVE  \E f : Solves(f, N, next, item)
<1> DEFINE Solved == {n \in 1 .. N + 1 :
                        \E f : f = [i \in n .. N |->
                                 IF next[i] = 0 THEN item[i]
                                 ELSE Updated(item[i], f[next[i]])]}
<1>1. ASSUME NEW n \in 1 .. N, n + 1 \in Solved PROVE n \in Solved
  <2>1. PICK f : f = [i \in n + 1 .. N |->
                        IF next[i] = 0 THEN item[i] ELSE Updated(item[i], f[next[i]])]
    BY <1>1
  <2> DEFINE g == [i \in n .. N |->
                     IF i = n
                     THEN IF next[i] = 0 THEN item[i] ELSE Updated(item[i], f[next[i]])
                     ELSE f[i]]
  <2>2. \A i \in n + 1 .. N : g[i] = f[i]
    OBVIOUS
  <2>3. ASSUME NEW i \in n .. N
        PROVE  g[i] = IF next[i] = 0 THEN item[i] ELSE Updated(item[i], g[next[i]])
    <3>1. next[i] # 0 => next[i] \in n + 1 .. N
      OBVIOUS
    <3>2. next[i] # 0 => g[next[i]] = f[next[i]]
      BY <2>2, <3>1
    <3>3. CASE i = n
      BY <3>2, <3>3
    <3>4. CASE i # n
      <4>1. i \in n + 1 .. N
        BY <3>4
      <4>2. f[i] = IF next[i] = 0 THEN item[i] ELSE Updated(item[i], f[next[i]])
        BY <2>1, <4>1
      <4> QED
        BY <2>2, <3>2, <4>1, <4>2
    <3> QED
      BY <3>3, <3>4
  <2>4. g = [i \in n .. N |-> g[i]]
    OBVIOUS
  <2> HIDE DEF g
  <2>5. g = [i \in n .. N |->
               IF next[i] = 0 THEN item[i] ELSE Updated(item[i], g[next[i]])]
    BY <2>3, <2>4
  <2> QED
    BY <2>5
<1>2. N + 1 \in Solved
  <2> DEFINE f == [i \in N + 1 .. N |-> 0]
  <2>1. N + 1 .. N = {}
    OBVIOUS
  <2>2. f = [i \in N + 1 .. N |->
               IF next[i] = 0 THEN item[i] ELSE Updated(item[i], f[next[i]])]
    BY <2>1
  <2> QED
    BY <2>2
<1> HIDE DEF Solved
<1>3. \A i \in 1 .. N + 1 : i \in Solved
  <2>1. ASSUME NEW i \in 1 .. N + 1, \A j \in i + 1 .. N + 1 : j \in Solved
        PROVE  i \in Solved
    <3>1. CASE i = N + 1
      BY <1>2, <3>1
    <3>2. CASE i # N + 1
      <4>1. i \in 1 .. N /\ i + 1 \in Solved
        BY <2>1, <3>2
      <4> QED
        BY <1>1, <4>1
    <3> QED
      BY <3>1, <3>2
  <2>2. N + 1 \in Nat
    OBVIOUS
  <2> QED
    BY ONLY <2>1, <2>2, Downwards
<1>4. 1 \in Solved
  BY <1>3
<1> QED
  BY <1>4 DEF Solved, Solves

\* The value of parse_query's loop at position i, from its values further on.
QueryFrom(text, Rest, i) ==
  LET separator == Find(text, <<"&">>, i) IN
  IF i > Len(text) THEN Nothing
  ELSE IF separator = 0 THEN Assign(SubSeq(text, i, Len(text)))
  ELSE Updated(Assign(SubSeq(text, i, separator - 1)), Rest[separator + 1])

\* The same, of parse_header_fields.
FieldsFrom(text, Rest, i) ==
  LET line_end == Find(text, CRLF, i) IN
  IF line_end \in {0, i} THEN Nothing
  ELSE Updated(Field(SubSeq(text, i, line_end - 1)), Rest[line_end + 2])

\* Rest is what the loop of parse_header_fields makes of each position.
Reads(Rest, text) == Rest = [i \in 1 .. Len(text) + 1 |-> FieldsFrom(text, Rest, i)]

\* parse_query is the value of its loop at the first position.
LEMMA QueryLoop ==
  ASSUME NEW text \in Seq(Bytes)
  PROVE  \E Rest : /\ Rest = [i \in 1 .. Len(text) + 1 |-> QueryFrom(text, Rest, i)]
                   /\ ParseQuery(text) = Rest[1]
<1> DEFINE N    == Len(text) + 1
           next == [i \in 1 .. N |-> LET separator == Find(text, <<"&">>, i) IN
                                     IF i > Len(text) \/ separator = 0 THEN 0
                                     ELSE separator + 1]
           item == [i \in 1 .. N |-> LET separator == Find(text, <<"&">>, i) IN
                                     IF i > Len(text) THEN Nothing
                                     ELSE IF separator = 0
                                     THEN Assign(SubSeq(text, i, Len(text)))
                                     ELSE Assign(SubSeq(text, i, separator - 1))]
<1>1. N \in Nat
  OBVIOUS
<1>2. ASSUME NEW i \in 1 .. N
      PROVE  next[i] \in 0 .. N /\ (next[i] = 0 \/ next[i] > i)
  <2>1. \/ Find(text, <<"&">>, i) = 0
        \/ Find(text, <<"&">>, i) \in i .. Len(text)
    BY FindByte
  <2> QED
    BY <2>1
<1>3. next \in [1 .. N -> 0 .. N] /\ \A i \in 1 .. N : next[i] = 0 \/ next[i] > i
  BY <1>2
<1>4. \A f : \A i \in 1 .. N :
        QueryFrom(text, f, i)
          = IF next[i] = 0 THEN item[i] ELSE Updated(item[i], f[next[i]])
  <2> SUFFICES ASSUME NEW f, NEW i \in 1 .. N
               PROVE  QueryFrom(text, f, i)
                        = IF next[i] = 0 THEN item[i] ELSE Updated(item[i], f[next[i]])
    OBVIOUS
  <2>1. \/ Find(text, <<"&">>, i) = 0
        \/ Find(text, <<"&">>, i) \in i .. Len(text)
    BY FindByte
  <2> QED
    BY <2>1 DEF QueryFrom
<1> HIDE DEF N, next, item
<1>5. \E f : Solves(f, N, next, item)
  BY ONLY <1>1, <1>3, ChainSolved
<1>6. \E f : f = [i \in 1 .. N |-> QueryFrom(text, f, i)]
  BY <1>4, <1>5 DEF Solves
<1> DEFINE Rest == CHOOSE f : f = [i \in 1 .. N |-> QueryFrom(text, f, i)]
<1> USE DEF N
<1>7. Rest = [i \in 1 .. N |-> QueryFrom(text, Rest, i)]
  BY <1>6
<1>8. ParseQuery(text) = Rest[1]
  BY DEF ParseQuery, QueryFrom
<1> QED
  BY <1>7, <1>8

\* parse_header_fields is the value of its loop at the first position.
LEMMA FieldsLoop ==
  ASSUME NEW text \in Seq(Bytes)
  PROVE  \E Rest : Reads(Rest, text) /\ ParseHeaderFields(text) = Rest[1]
<1> DEFINE N    == Len(text) + 1
           next == [i \in 1 .. N |-> LET line_end == Find(text, CRLF, i) IN
                                     IF line_end \in {0, i} THEN 0 ELSE line_end + 2]
           item == [i \in 1 .. N |-> LET line_end == Find(text, CRLF, i) IN
                                     IF line_end \in {0, i} THEN Nothing
                                     ELSE Field(SubSeq(text, i, line_end - 1))]
<1>1. N \in Nat
  OBVIOUS
<1>2. ASSUME NEW i \in 1 .. N
      PROVE  next[i] \in 0 .. N /\ (next[i] = 0 \/ next[i] > i)
  <2>1. Find(text, CRLF, i) = 0 \/ Find(text, CRLF, i) \in i .. Len(text) - 1
    BY FindBreak
  <2> QED
    BY <2>1
<1>3. next \in [1 .. N -> 0 .. N] /\ \A i \in 1 .. N : next[i] = 0 \/ next[i] > i
  BY <1>2
<1>4. \A f : \A i \in 1 .. N :
        FieldsFrom(text, f, i)
          = IF next[i] = 0 THEN item[i] ELSE Updated(item[i], f[next[i]])
  <2> SUFFICES ASSUME NEW f, NEW i \in 1 .. N
               PROVE  FieldsFrom(text, f, i)
                        = IF next[i] = 0 THEN item[i] ELSE Updated(item[i], f[next[i]])
    OBVIOUS
  <2>1. Find(text, CRLF, i) = 0 \/ Find(text, CRLF, i) \in i .. Len(text) - 1
    BY FindBreak
  <2> QED
    BY <2>1 DEF FieldsFrom
<1> HIDE DEF N, next, item
<1>5. \E f : Solves(f, N, next, item)
  BY ONLY <1>1, <1>3, ChainSolved
<1>6. \E f : f = [i \in 1 .. N |-> FieldsFrom(text, f, i)]
  BY <1>4, <1>5 DEF Solves
<1> DEFINE Rest == CHOOSE f : f = [i \in 1 .. N |-> FieldsFrom(text, f, i)]
<1> USE DEF N
<1>7. Rest = [i \in 1 .. N |-> FieldsFrom(text, Rest, i)]
  BY <1>6
<1>8. ParseHeaderFields(text) = Rest[1]
  BY DEF ParseHeaderFields, FieldsFrom
<1> QED
  BY <1>7, <1>8 DEF Reads

-----------------------------------------------------------------------------
(* What is read is made of texts *)

\* A dictionary of texts.
Texts(dictionary) ==
  \A name \in DOMAIN dictionary : name \in Seq(Bytes) /\ dictionary[name] \in Seq(Bytes)

\* So is the empty one, which is an empty text as well.
LEMMA NothingTexts == Nothing \in Seq(Bytes) /\ Texts(Nothing)
BY DEF Nothing, Texts

\* An entry of two texts is one.
LEMMA EntryTexts ==
  ASSUME NEW name \in Seq(Bytes), NEW value \in Seq(Bytes)
  PROVE  Texts(Entry(name, value))
BY DEF Entry, Texts

\* Updating one with another gives one.
LEMMA UpdatedTexts ==
  ASSUME NEW earlier, NEW later, Texts(earlier), Texts(later)
  PROVE  Texts(Updated(earlier, later))
BY DEF Updated, Texts

\* What is before and after a byte that was found are texts.
LEMMA AroundTexts ==
  ASSUME NEW text \in Seq(Bytes), NEW i \in Nat, i <= Len(text) + 1
  PROVE  Before(text, i) \in Seq(Bytes) /\ After(text, i) \in Seq(Bytes)
<1>1. CASE i = 0
  <2>1. Before(text, i) = <<>>
    <3>1. i - 1 \in Int /\ 1 \in Int /\ i - 1 < 1
      BY <1>1
    <3> QED
      BY <3>1, SubSeqEmpty DEF Before
  <2>2. After(text, i) = text
    BY <1>1, SubSeqFull DEF After
  <2> QED
    BY <2>1, <2>2, EmptySeq
<1>2. CASE i # 0
  <2>1. i - 1 \in 0 .. Len(text) /\ i + 1 \in Nat \ {0} /\ Len(text) \in 0 .. Len(text)
    BY <1>2
  <2> QED
    BY <2>1, Slice DEF Before, After
<1> QED
  BY <1>1, <1>2

\* A pair of the query becomes one.
LEMMA AssignTexts ==
  ASSUME NEW pair \in Seq(Bytes)
  PROVE  Texts(Assign(pair))
<1>1. \/ Find(pair, <<"=">>, 1) = 0
      \/ Find(pair, <<"=">>, 1) \in 1 .. Len(pair)
  BY FindByte
<1>2. Find(pair, <<"=">>, 1) \in Nat /\ Find(pair, <<"=">>, 1) <= Len(pair) + 1
  BY <1>1
<1> QED
  BY <1>2, AroundTexts, EntryTexts, NothingTexts DEF Assign

\* Without its leading blanks a text is a text.
LEMMA BlanksTexts ==
  ASSUME NEW text \in Seq(Bytes)
  PROVE  WithoutLeadingBlanks(text) \in Seq(Bytes)
<1> DEFINE Ink == {i \in 1 .. Len(text) : text[i] \notin {"SP", "TAB"}}
<1>1. WithoutLeadingBlanks(text) = IF Ink = {} THEN Nothing ELSE SubSeq(text, Min(Ink), Len(text))
  BY DEF WithoutLeadingBlanks
<1>2. CASE Ink # {}
  <2>1. Ink \in SUBSET Nat
    OBVIOUS
  <2>2. Min(Ink) \in Ink
    BY <1>2, <2>1, MinLeast
  <2>3. Min(Ink) \in Nat \ {0} /\ Len(text) \in 0 .. Len(text)
    BY <2>2
  <2> QED
    BY <1>1, <1>2, <2>3, Slice
<1> QED
  BY <1>1, <1>2, NothingTexts

\* A header line becomes a dictionary of texts.
LEMMA FieldTexts ==
  ASSUME NEW line \in Seq(Bytes)
  PROVE  Texts(Field(line))
<1>1. \/ Find(line, <<":">>, 1) = 0
      \/ Find(line, <<":">>, 1) \in 1 .. Len(line)
  BY FindByte
<1>2. Find(line, <<":">>, 1) \in Nat /\ Find(line, <<":">>, 1) <= Len(line) + 1
  BY <1>1
<1> QED
  BY <1>2, AroundTexts, BlanksTexts, EntryTexts, NothingTexts DEF Field

\* The query is a dictionary of texts.
LEMMA QueryTexts ==
  ASSUME NEW text \in Seq(Bytes)
  PROVE  Texts(ParseQuery(text))
<1>1. PICK Rest : /\ Rest = [i \in 1 .. Len(text) + 1 |-> QueryFrom(text, Rest, i)]
                  /\ ParseQuery(text) = Rest[1]
  BY QueryLoop
<1> DEFINE N    == Len(text) + 1
           Good == {i \in 1 .. N : Texts(Rest[i])}
<1>2. N \in Nat /\ 1 \in 1 .. N
  OBVIOUS
<1>3. ASSUME NEW i \in 1 .. N, \A j \in i + 1 .. N : j \in Good PROVE i \in Good
  <2> DEFINE separator == Find(text, <<"&">>, i)
  <2>1. Rest[i] = QueryFrom(text, Rest, i)
    BY <1>1
  <2>2. separator = 0 \/ separator \in i .. Len(text)
    BY FindByte
  <2>3. CASE i > Len(text)
    BY <2>1, <2>3, NothingTexts DEF QueryFrom
  <2>4. CASE i <= Len(text) /\ separator = 0
    <3>1. SubSeq(text, i, Len(text)) \in Seq(Bytes)
      <4>1. Len(text) \in 0 .. Len(text) /\ i \in Nat \ {0}
        OBVIOUS
      <4> QED
        BY <4>1, Slice
    <3>2. QueryFrom(text, Rest, i) = Assign(SubSeq(text, i, Len(text)))
      BY <2>4 DEF QueryFrom
    <3> QED
      BY <2>1, <3>1, <3>2, AssignTexts
  <2>5. CASE i <= Len(text) /\ separator # 0
    <3>1. separator \in i .. Len(text)
      BY <2>2, <2>5
    <3> HIDE DEF separator
    <3>2. /\ separator - 1 \in 0 .. Len(text) /\ i \in Nat \ {0}
          /\ separator + 1 \in i + 1 .. N
      BY <3>1
    <3>3. SubSeq(text, i, separator - 1) \in Seq(Bytes)
      BY <3>2, Slice
    <3>4. QueryFrom(text, Rest, i)
            = Updated(Assign(SubSeq(text, i, separator - 1)), Rest[separator + 1])
      BY <2>5 DEF QueryFrom, separator
    <3>5. Texts(Rest[separator + 1])
      BY <1>3, <3>2
    <3> QED
      BY <2>1, <3>3, <3>4, <3>5, AssignTexts, UpdatedTexts
  <2> QED
    BY <2>3, <2>4, <2>5
<1> HIDE DEF N, Good
<1>4. \A i \in 1 .. N : i \in Good
  BY ONLY <1>2, <1>3, Downwards
<1>5. Texts(Rest[1])
  BY <1>2, <1>4 DEF Good
<1> QED
  BY <1>1, <1>5

\* The header fields are a dictionary of texts.
LEMMA FieldsTexts ==
  ASSUME NEW text \in Seq(Bytes)
  PROVE  Texts(ParseHeaderFields(text))
<1>1. PICK Rest : Reads(Rest, text) /\ ParseHeaderFields(text) = Rest[1]
  BY FieldsLoop
<1> DEFINE N    == Len(text) + 1
           Good == {i \in 1 .. N : Texts(Rest[i])}
<1>2. N \in Nat /\ 1 \in 1 .. N
  OBVIOUS
<1>3. ASSUME NEW i \in 1 .. N, \A j \in i + 1 .. N : j \in Good PROVE i \in Good
  <2> DEFINE line_end == Find(text, CRLF, i)
  <2>1. Rest[i] = FieldsFrom(text, Rest, i)
    BY <1>1 DEF Reads
  <2>2. line_end = 0 \/ line_end \in i .. Len(text) - 1
    BY FindBreak
  <2>3. CASE line_end \in {0, i}
    BY <2>1, <2>3, NothingTexts DEF FieldsFrom
  <2>4. CASE line_end \notin {0, i}
    <3>1. line_end \in i .. Len(text) - 1 /\ line_end # i
      BY <2>2, <2>4
    <3> HIDE DEF line_end
    <3>2. /\ line_end - 1 \in 0 .. Len(text) /\ i \in Nat \ {0}
          /\ line_end + 2 \in i + 1 .. N
      BY <3>1
    <3>3. SubSeq(text, i, line_end - 1) \in Seq(Bytes)
      BY <3>2, Slice
    <3>4. FieldsFrom(text, Rest, i)
            = Updated(Field(SubSeq(text, i, line_end - 1)), Rest[line_end + 2])
      BY <2>4 DEF FieldsFrom, line_end
    <3>5. Texts(Rest[line_end + 2])
      BY <1>3, <3>2
    <3> QED
      BY <2>1, <3>3, <3>4, <3>5, FieldTexts, UpdatedTexts
  <2> QED
    BY <2>3, <2>4
<1> HIDE DEF N, Good
<1>4. \A i \in 1 .. N : i \in Good
  BY ONLY <1>2, <1>3, Downwards
<1>5. Texts(Rest[1])
  BY <1>2, <1>4 DEF Good
<1> QED
  BY <1>1, <1>5

\* What a request line is read as.
RequestTexts(r) ==
  /\ r.method \in Methods \cup {"UNDEFINED"}
  /\ \A part \in {"path", "fragment", "protocol"} : r[part] \in Seq(Bytes)
  /\ Texts(r.query)

\* The parts of an address are texts.
LEMMA UriTexts ==
  ASSUME NEW uri \in Seq(Bytes)
  PROVE  /\ ParseUri(uri).path \in Seq(Bytes) /\ ParseUri(uri).fragment \in Seq(Bytes)
         /\ Texts(ParseUri(uri).query)
<1> DEFINE fragment_pos == Find(uri, <<"#">>, 1)
           whole        == IF fragment_pos = 0 THEN uri ELSE Before(uri, fragment_pos)
           query_pos    == Find(whole, <<"?">>, 1)
<1>1. fragment_pos \in Nat /\ fragment_pos <= Len(uri) + 1
  BY FindByte
<1>2. whole \in Seq(Bytes) /\ After(uri, fragment_pos) \in Seq(Bytes)
  BY <1>1, AroundTexts
<1>3. query_pos \in Nat /\ query_pos <= Len(whole) + 1
  BY <1>2, FindByte
<1>4. Before(whole, query_pos) \in Seq(Bytes) /\ Texts(ParseQuery(After(whole, query_pos)))
  BY <1>2, <1>3, AroundTexts, QueryTexts
<1>5. ParseUri(uri) = [path     |-> IF query_pos = 0 THEN whole ELSE Before(whole, query_pos),
                       query    |-> IF query_pos = 0 THEN Nothing
                                    ELSE ParseQuery(After(whole, query_pos)),
                       fragment |-> IF fragment_pos = 0 THEN Nothing
                                    ELSE After(uri, fragment_pos)]
  BY DEF ParseUri
<1> HIDE DEF fragment_pos, whole, query_pos
<1> QED
  BY <1>2, <1>4, <1>5, NothingTexts

\* So are the parts of a request line, whatever is missing in it.
LEMMA LineTexts ==
  ASSUME NEW line \in Seq(Bytes)
  PROVE  RequestTexts(ParseRequestLine(line))
<1> DEFINE method_end == Find(line, <<"SP">>, 1)
           uri_end    == Find(line, <<"SP">>, method_end + 1)
           method     == MethodFromString(Before(line, method_end))
           text       == SubSeq(line, method_end + 1, uri_end - 1)
<1>1. method_end = 0 \/ method_end \in 1 .. Len(line)
  BY FindByte
<1>2. method \in Methods \cup {"UNDEFINED"}
  BY DEF MethodFromString
<1>3. RequestTexts(Unparsed)
  BY NothingTexts DEF RequestTexts, Unparsed
<1>4. RequestTexts([Unparsed EXCEPT !.method = method])
  <2> HIDE DEF method
  <2> QED
    BY <1>2, NothingTexts DEF RequestTexts, Unparsed
<1>5. CASE method_end = 0 \/ uri_end = 0
  BY <1>3, <1>4, <1>5 DEF ParseRequestLine
<1>6. CASE method_end # 0 /\ uri_end # 0
  <2>1. method_end \in 1 .. Len(line) /\ method_end + 1 \in Nat \ {0}
    BY <1>1, <1>6
  <2>2. uri_end \in method_end + 1 .. Len(line)
    <3> HIDE DEF method_end
    <3> QED
      BY <1>6, <2>1, FindByte
  <2>3. ParseRequestLine(line)
          = [method |-> method, path |-> ParseUri(text).path,
             query |-> ParseUri(text).query, fragment |-> ParseUri(text).fragment,
             protocol |-> After(line, uri_end)]
    BY <1>6 DEF ParseRequestLine
  <2> HIDE DEF uri_end, method_end, method
  <2>4. text \in Seq(Bytes)
    <3>1. uri_end - 1 \in 0 .. Len(line)
      BY <2>1, <2>2
    <3> QED
      BY <2>1, <3>1, Slice
  <2>5. After(line, uri_end) \in Seq(Bytes)
    BY <2>1, <2>2, AroundTexts
  <2> HIDE DEF text
  <2> QED
    BY <1>2, <2>3, <2>4, <2>5, UriTexts DEF RequestTexts
<1> QED
  BY <1>5, <1>6

-----------------------------------------------------------------------------
(* The request line *)

\* After the last byte of a text, and further on, there is nothing.
LEMMA AfterEnd ==
  ASSUME NEW text \in Seq(Bytes), NEW i \in Nat, i >= Len(text)
  PROVE  After(text, i) = Nothing
<1>1. i + 1 \in Int /\ Len(text) \in Int /\ Len(text) < i + 1
  OBVIOUS
<1> QED
  BY <1>1, SubSeqEmpty DEF After, Nothing

\* Until returns the longest beginning that has none of the stops.
LEMMA UntilStops ==
  ASSUME NEW text \in Seq(Bytes), NEW stops
  PROVE  LET n == Len(Until(text, stops))
         IN  /\ n \in 0 .. Len(text)
             /\ Until(text, stops) = SubSeq(text, 1, n)
             /\ Until(text, stops) \in Seq(Bytes)
             /\ \A i \in 1 .. n : text[i] \notin stops
             /\ n < Len(text) => text[n + 1] \in stops
<1> DEFINE places == {i \in 1 .. Len(text) : text[i] \in stops} \cup {Len(text) + 1}
           least  == Min(places)
           n      == least - 1
<1>1. places \in SUBSET Nat /\ places # {}
  OBVIOUS
<1>2. least \in places /\ \A i \in places : least <= i
  BY <1>1, MinLeast
<1> HIDE DEF least
<1>3. n \in 0 .. Len(text)
  BY <1>2
<1>4. Until(text, stops) = SubSeq(text, 1, n)
  BY DEF Until, least
<1>5. /\ SubSeq(text, 1, n) \in Seq(Bytes) /\ Len(SubSeq(text, 1, n)) = n
  <2>1. 1 \in Nat \ {0}
    OBVIOUS
  <2> HIDE DEF n
  <2> QED
    BY <1>3, <2>1, Slice
<1>6. \A i \in 1 .. n : text[i] \notin stops
  <2> SUFFICES ASSUME NEW i \in 1 .. n, text[i] \in stops PROVE FALSE
    OBVIOUS
  <2>1. i \in places /\ ~(least <= i)
    BY <1>2, <1>3
  <2> QED
    BY <1>2, <2>1
<1>7. n < Len(text) => text[n + 1] \in stops
  BY <1>2
<1> QED
  BY <1>3, <1>4, <1>5, <1>6, <1>7

\* It is the only one.
LEMMA UntilIs ==
  ASSUME NEW text \in Seq(Bytes), NEW stops, NEW n \in 0 .. Len(text),
         \A i \in 1 .. n : text[i] \notin stops,
         n < Len(text) => text[n + 1] \in stops
  PROVE  Len(Until(text, stops)) = n /\ Until(text, stops) = SubSeq(text, 1, n)
<1> DEFINE m == Len(Until(text, stops))
<1>1. /\ m \in 0 .. Len(text) /\ Until(text, stops) = SubSeq(text, 1, m)
      /\ \A i \in 1 .. m : text[i] \notin stops
      /\ m < Len(text) => text[m + 1] \in stops
  BY UntilStops
<1> HIDE DEF m
<1>2. ~(m < n)
  BY <1>1
<1>3. ~(n < m)
  BY <1>1
<1>4. m = n
  BY <1>1, <1>2, <1>3
<1> QED
  BY <1>1, <1>4 DEF m

\* To cut before a byte that was found is to read until it.
LEMMA FindUntil ==
  ASSUME NEW text \in Seq(Bytes), NEW c
  PROVE  LET n     == Len(Until(text, {c}))
             place == Find(text, <<c>>, 1)
         IN  /\ place = IF n < Len(text) THEN n + 1 ELSE 0
             /\ Until(text, {c}) = IF place = 0 THEN text ELSE Before(text, place)
<1> DEFINE place == Find(text, <<c>>, 1)
           n     == Len(Until(text, {c}))
<1>1. \/ place = 0 /\ \A i \in 1 .. Len(text) : text[i] # c
      \/ /\ place \in 1 .. Len(text) /\ text[place] = c
         /\ \A i \in 1 .. place - 1 : text[i] # c
  BY FindByte
<1> HIDE DEF place, n
<1>2. CASE place = 0
  <2>1. Len(text) \in 0 .. Len(text) /\ \A i \in 1 .. Len(text) : text[i] \notin {c}
    BY <1>1, <1>2
  <2>2. n = Len(text) /\ Until(text, {c}) = SubSeq(text, 1, Len(text))
    BY <2>1, UntilIs DEF n
  <2>3. Until(text, {c}) = text /\ place = IF n < Len(text) THEN n + 1 ELSE 0
    <3>1. Until(text, {c}) = text
      BY <2>2, SubSeqFull
    <3>2. n \in Nat /\ ~(n < Len(text))
      BY <2>1, <2>2
    <3> QED
      BY <1>2, <3>1, <3>2
  <2> QED
    BY ONLY <1>2, <2>3 DEF place, n
<1>3. CASE place # 0
  <2>1. /\ place - 1 \in 0 .. Len(text) /\ \A i \in 1 .. place - 1 : text[i] \notin {c}
        /\ text[(place - 1) + 1] \in {c}
    BY <1>1, <1>3
  <2>2. n = place - 1 /\ Until(text, {c}) = SubSeq(text, 1, place - 1)
    BY <2>1, UntilIs DEF n
  <2>3. Until(text, {c}) = Before(text, place) /\ place = IF n < Len(text) THEN n + 1 ELSE 0
    <3>1. Until(text, {c}) = Before(text, place)
      BY <2>2 DEF Before
    <3>2. place \in Nat /\ n + 1 = place /\ n < Len(text)
      BY <1>1, <1>3, <2>1, <2>2
    <3> QED
      BY <3>1, <3>2
  <2> QED
    BY ONLY <1>3, <2>3 DEF place, n
<1> QED
  BY <1>2, <1>3

\* The parts of Dictionary: where the pairs begin, from position i on.
Starts(text, i) == {j \in 1 .. Len(text) : j >= i /\ (j = 1 \/ text[j - 1] = "&")}

Pair(text, i) == Until(SubSeq(text, i, Len(text)), {"&"})

Name(text, i) == Until(Pair(text, i), {"="})

Named(text, i, n) == {j \in Starts(text, i) : Name(text, j) = n}

\* The dictionary of the pairs from position i on.
DictionaryFrom(text, i) ==
  [n \in {Name(text, j) : j \in Starts(text, i)} |->
     After(Pair(text, Max(Named(text, i, n))), Len(n) + 1)]

\* From the first position on, it is the dictionary of the whole text.
LEMMA WholeDictionary ==
  ASSUME NEW text \in Seq(Bytes)
  PROVE  Dictionary(text) = DictionaryFrom(text, 1)
<1>1. Starts(text, 1) = {i \in 1 .. Len(text) : i = 1 \/ text[i - 1] = "&"}
  BY DEF Starts
<1> QED
  BY <1>1 DEF Dictionary, DictionaryFrom, Named, Name, Pair

\* A pair is assigned as the dictionary reads it.
LEMMA AssignedPair ==
  ASSUME NEW pair \in Seq(Bytes)
  PROVE  LET name == Until(pair, {"="})
         IN  Assign(pair) = Entry(name, After(pair, Len(name) + 1))
<1> DEFINE name   == Until(pair, {"="})
           equals == Find(pair, <<"=">>, 1)
<1>1. /\ equals = IF Len(name) < Len(pair) THEN Len(name) + 1 ELSE 0
      /\ name = IF equals = 0 THEN pair ELSE Before(pair, equals)
  BY FindUntil
<1>2. Len(name) \in 0 .. Len(pair)
  BY UntilStops
<1>3. Assign(pair) = IF equals = 0 THEN Entry(pair, Nothing)
                     ELSE Entry(Before(pair, equals), After(pair, equals))
  BY DEF Assign
<1> HIDE DEF name, equals
<1>4. CASE equals = 0
  <2>1. Len(name) + 1 >= Len(pair) /\ Len(name) + 1 \in Nat
    BY <1>1, <1>2, <1>4
  <2> QED
    BY <1>1, <1>3, <1>4, <2>1, AfterEnd DEF name
<1>5. CASE equals # 0
  BY <1>1, <1>2, <1>3, <1>5 DEF name
<1> QED
  BY <1>4, <1>5

\* The pair at a start, by the next separator, and the starts after it.
LEMMA NextPair ==
  ASSUME NEW text \in Seq(Bytes), NEW i \in 1 .. Len(text)
  PROVE  LET separator == Find(text, <<"&">>, i)
         IN  /\ separator = 0 => /\ Pair(text, i) = SubSeq(text, i, Len(text))
                                 /\ Starts(text, i + 1) = {}
             /\ separator # 0 => /\ separator \in i .. Len(text)
                                 /\ text[separator] = "&"
                                 /\ Pair(text, i) = SubSeq(text, i, separator - 1)
                                 /\ Starts(text, i + 1) = Starts(text, separator + 1)
<1> DEFINE separator == Find(text, <<"&">>, i)
           rest      == SubSeq(text, i, Len(text))
<1>1. \/ separator = 0 /\ \A k \in i .. Len(text) : text[k] # "&"
      \/ /\ separator \in i .. Len(text) /\ text[separator] = "&"
         /\ \A k \in i .. separator - 1 : text[k] # "&"
  BY FindByte
<1>2. /\ rest \in Seq(Bytes) /\ Len(rest) = Len(text) - i + 1
      /\ \A k \in 1 .. Len(text) - i + 1 : rest[k] = text[i + k - 1]
  <2>1. i \in Nat \ {0} /\ Len(text) \in 0 .. Len(text) /\ i <= Len(text)
    OBVIOUS
  <2> QED
    BY <2>1, Slice
<1> HIDE DEF rest, separator
<1>3. CASE separator = 0
  <2>1. \A k \in 1 .. Len(rest) : rest[k] \notin {"&"}
    BY <1>1, <1>2, <1>3
  <2>2. Until(rest, {"&"}) = SubSeq(rest, 1, Len(rest))
    <3> DEFINE n == Len(rest)
    <3>1. n \in 0 .. Len(rest) /\ (n < Len(rest) => rest[n + 1] \in {"&"})
      BY <1>2
    <3>2. rest \in Seq(Bytes) /\ \A k \in 1 .. n : rest[k] \notin {"&"}
      BY <1>2, <2>1
    <3> HIDE DEF n
    <3>3. Until(rest, {"&"}) = SubSeq(rest, 1, n)
      BY <3>1, <3>2, UntilIs
    <3> QED
      BY <3>3 DEF n
  <2>3. Pair(text, i) = rest
    BY <1>2, <2>2, SubSeqFull DEF Pair, rest
  <2>4. Starts(text, i + 1) = {}
    BY <1>1, <1>3 DEF Starts
  <2> QED
    BY <1>3, <2>3, <2>4 DEF rest, separator
<1>4. CASE separator # 0
  <2> DEFINE n == separator - i
  <2>1. n \in 0 .. Len(rest) /\ n + 1 \in 1 .. Len(rest) /\ i + (n + 1) - 1 = separator
    <3>1. i \in Nat /\ Len(text) \in Nat /\ separator \in i .. Len(text)
      BY <1>1, <1>4
    <3>2. Len(rest) = Len(text) - i + 1
      BY <1>2
    <3> QED
      BY ONLY <3>1, <3>2
  <2>2. ASSUME NEW k \in 1 .. n PROVE rest[k] \notin {"&"}
    <3>1. k \in 1 .. Len(text) - i + 1 /\ i + k - 1 \in i .. separator - 1
      BY <1>1, <1>4
    <3> QED
      BY <1>1, <1>2, <1>4, <3>1
  <2>3. rest[n + 1] \in {"&"}
    BY <1>1, <1>2, <1>4, <2>1
  <2> HIDE DEF n
  <2>4. Until(rest, {"&"}) = SubSeq(rest, 1, n)
    BY <1>2, <2>1, <2>2, <2>3, UntilIs
  <2>5. SubSeq(rest, 1, n) = SubSeq(text, i, separator - 1)
    <3>1. /\ SubSeq(rest, 1, n) \in Seq(Bytes) /\ Len(SubSeq(rest, 1, n)) = n
          /\ \A k \in 1 .. n : SubSeq(rest, 1, n)[k] = rest[k]
      <4>1. 1 \in Nat \ {0} /\ n - 1 + 1 = n /\ \A k \in 1 .. n : 1 + k - 1 = k
        BY <2>1
      <4> QED
        BY <1>2, <2>1, <4>1, Slice
    <3>2. /\ SubSeq(text, i, separator - 1) \in Seq(Bytes)
          /\ Len(SubSeq(text, i, separator - 1)) = n
          /\ \A k \in 1 .. n : SubSeq(text, i, separator - 1)[k] = text[i + k - 1]
      <4>1. /\ i \in Nat \ {0} /\ separator - 1 \in 0 .. Len(text)
            /\ (separator - 1) - i + 1 = n
            /\ (IF i <= separator - 1 THEN (separator - 1) - i + 1 ELSE 0) = n
        BY <1>1, <1>4 DEF n
      <4> QED
        BY <4>1, Slice
    <3>3. \A k \in 1 .. n : rest[k] = text[i + k - 1]
      <4>1. \A k \in 1 .. n : k \in 1 .. Len(text) - i + 1
        BY <1>2, <2>1
      <4> QED
        BY <1>2, <4>1
    <3> QED
      BY <3>1, <3>2, <3>3, SeqEqual
  <2>6. Starts(text, i + 1) = Starts(text, separator + 1)
    BY <1>1, <1>4 DEF Starts
  <2> QED
    BY <1>1, <1>4, <2>4, <2>5, <2>6 DEF rest, separator, Pair
<1> QED
  BY <1>3, <1>4

\* Where a pair begins, its name is given its value unless a later pair has it.
LEMMA OnePairMore ==
  ASSUME NEW text \in Seq(Bytes), NEW i, i \in Starts(text, i)
  PROVE  DictionaryFrom(text, i)
           = Updated(Assign(Pair(text, i)), DictionaryFrom(text, i + 1))
<1> DEFINE Names(k) == {Name(text, j) : j \in Starts(text, k)}
           value(j) == After(Pair(text, j), Len(Name(text, j)) + 1)
<1>1. i \in 1 .. Len(text) /\ Starts(text, i) = {i} \cup Starts(text, i + 1)
      /\ Starts(text, i) \subseteq 1 .. Len(text) /\ i \notin Starts(text, i + 1)
  BY DEF Starts
<1>2. Assign(Pair(text, i)) = Entry(Name(text, i), value(i))
  <2>1. SubSeq(text, i, Len(text)) \in Seq(Bytes)
    <3>1. i \in Nat \ {0} /\ Len(text) \in 0 .. Len(text)
      BY <1>1
    <3> QED
      BY <3>1, Slice
  <2>2. Pair(text, i) \in Seq(Bytes)
    BY <2>1, UntilStops DEF Pair
  <2> QED
    BY <2>2, AssignedPair DEF Name
<1>3. Names(i) = {Name(text, i)} \cup Names(i + 1)
  BY <1>1
<1>4. ASSUME NEW n \in Names(i + 1)
      PROVE  Max(Named(text, i, n)) = Max(Named(text, i + 1, n))
  <2>1. /\ Named(text, i + 1, n) \in SUBSET Nat /\ Named(text, i + 1, n) # {}
        /\ Len(text) \in Nat /\ \A m \in Named(text, i + 1, n) : m <= Len(text)
    BY <1>1 DEF Named
  <2> DEFINE k == Max(Named(text, i + 1, n))
  <2>2. k \in Named(text, i + 1, n) /\ \A m \in Named(text, i + 1, n) : m <= k
    BY <2>1, MaxGreatest
  <2> HIDE DEF k
  <2>3. k \in Named(text, i, n) /\ Named(text, i, n) \in SUBSET Nat
    BY <1>1, <2>2 DEF Named
  <2>4. k >= i + 1 /\ k \in Nat
    BY <1>1, <2>2 DEF Named, Starts
  <2>5. \A m \in Named(text, i, n) : m <= k
    <3> SUFFICES ASSUME NEW m \in Named(text, i, n) PROVE m <= k
      OBVIOUS
    <3>1. m = i \/ m \in Named(text, i + 1, n)
      BY <1>1 DEF Named
    <3> QED
      BY <1>1, <2>2, <2>4, <3>1
  <2> QED
    BY <2>3, <2>5, MaxIs DEF k
<1>5. ASSUME Name(text, i) \notin Names(i + 1)
      PROVE  Max(Named(text, i, Name(text, i))) = i
  <2>1. Named(text, i, Name(text, i)) = {i}
    BY <1>1, <1>5 DEF Named
  <2>2. {i} \in SUBSET Nat /\ i \in {i} /\ \A m \in {i} : m <= i
    BY <1>1
  <2> QED
    BY <2>1, <2>2, MaxIs
<1> DEFINE one   == Assign(Pair(text, i))
           later == DictionaryFrom(text, i + 1)
<1>6. /\ DOMAIN one = {Name(text, i)} /\ one[Name(text, i)] = value(i)
      /\ DOMAIN later = Names(i + 1)
      /\ \A n \in Names(i + 1) :
           later[n] = After(Pair(text, Max(Named(text, i + 1, n))), Len(n) + 1)
  BY <1>2 DEF Entry, DictionaryFrom
<1> HIDE DEF one, later
<1>7. Updated(one, later)
        = [n \in Names(i) |-> IF n \in Names(i + 1) THEN later[n] ELSE one[n]]
  BY <1>3, <1>6 DEF Updated
<1>8. ASSUME NEW n \in Names(i)
      PROVE  (IF n \in Names(i + 1) THEN later[n] ELSE one[n])
               = After(Pair(text, Max(Named(text, i, n))), Len(n) + 1)
  <2>1. CASE n \in Names(i + 1)
    BY <1>4, <1>6, <2>1
  <2>2. CASE n \notin Names(i + 1)
    <3>1. n = Name(text, i)
      BY <1>3, <2>2
    <3> QED
      BY <1>5, <1>6, <2>2, <3>1
  <2> QED
    BY <2>1, <2>2
<1>9. DictionaryFrom(text, i)
        = [n \in Names(i) |-> After(Pair(text, Max(Named(text, i, n))), Len(n) + 1)]
  BY DEF DictionaryFrom
<1> HIDE DEF Names
<1> QED
  BY <1>7, <1>8, <1>9 DEF one, later

\* What the loop of parse_query builds is the dictionary of the last values.
LEMMA QueryIsDictionary ==
  ASSUME NEW text \in Seq(Bytes)
  PROVE  ParseQuery(text) = Dictionary(text)
<1>1. PICK Rest : /\ Rest = [i \in 1 .. Len(text) + 1 |-> QueryFrom(text, Rest, i)]
                  /\ ParseQuery(text) = Rest[1]
  BY QueryLoop
<1> DEFINE N    == Len(text) + 1
           Good == {i \in 1 .. N : (i = 1 \/ text[i - 1] = "&")
                                     => Rest[i] = DictionaryFrom(text, i)}
<1>2. N \in Nat /\ 1 \in 1 .. N
  OBVIOUS
<1>3. \A i : Starts(text, i) = {} => DictionaryFrom(text, i) = Nothing
  BY DEF DictionaryFrom, Nothing
<1>4. ASSUME NEW i \in 1 .. N, \A j \in i + 1 .. N : j \in Good PROVE i \in Good
  <2> SUFFICES ASSUME i = 1 \/ text[i - 1] = "&"
               PROVE  Rest[i] = DictionaryFrom(text, i)
    OBVIOUS
  <2> DEFINE separator == Find(text, <<"&">>, i)
  <2>1. Rest[i] = QueryFrom(text, Rest, i)
    BY <1>1
  <2>2. CASE i > Len(text)
    <3>1. Starts(text, i) = {}
      BY <2>2 DEF Starts
    <3> QED
      BY <1>3, <2>1, <2>2, <3>1 DEF QueryFrom
  <2>3. CASE i <= Len(text)
    <3>1. i \in 1 .. Len(text) /\ i \in Starts(text, i)
      BY <2>3 DEF Starts
    <3>2. DictionaryFrom(text, i)
            = Updated(Assign(Pair(text, i)), DictionaryFrom(text, i + 1))
      BY <3>1, OnePairMore
    <3>3. /\ separator = 0 => /\ Pair(text, i) = SubSeq(text, i, Len(text))
                              /\ Starts(text, i + 1) = {}
          /\ separator # 0 => /\ separator \in i .. Len(text)
                              /\ text[separator] = "&"
                              /\ Pair(text, i) = SubSeq(text, i, separator - 1)
                              /\ Starts(text, i + 1) = Starts(text, separator + 1)
      BY <3>1, NextPair
    <3>4. CASE separator = 0
      <4>1. Rest[i] = Assign(Pair(text, i))
        <5>1. QueryFrom(text, Rest, i) = Assign(SubSeq(text, i, Len(text)))
          BY <2>3, <3>4 DEF QueryFrom
        <5> QED
          BY <2>1, <3>3, <3>4, <5>1
      <4>2. DictionaryFrom(text, i) = Updated(Assign(Pair(text, i)), Nothing)
        BY <1>3, <3>2, <3>3, <3>4
      <4>3. \E name, value : Assign(Pair(text, i)) = Entry(name, value)
        BY DEF Assign
      <4>4. \A name, value : Updated(Entry(name, value), Nothing) = Entry(name, value)
        BY DEF Updated, Entry, Nothing
      <4> QED
        BY <4>1, <4>2, <4>3, <4>4
    <3>5. CASE separator # 0
      <4>1. Rest[i] = Updated(Assign(Pair(text, i)), Rest[separator + 1])
        <5>1. QueryFrom(text, Rest, i)
                = Updated(Assign(SubSeq(text, i, separator - 1)), Rest[separator + 1])
          BY <2>3, <3>5 DEF QueryFrom
        <5> QED
          BY <2>1, <3>3, <3>5, <5>1
      <4>2. separator + 1 \in i + 1 .. N /\ (separator + 1) - 1 = separator
        BY <3>3, <3>5
      <4>3. Rest[separator + 1] = DictionaryFrom(text, separator + 1)
        <5> HIDE DEF separator
        <5>1. separator + 1 \in Good
          BY <1>4, <4>2
        <5> QED
          BY <3>3, <3>5, <4>2, <5>1
      <4>4. DictionaryFrom(text, separator + 1) = DictionaryFrom(text, i + 1)
        BY <3>3, <3>5 DEF DictionaryFrom, Named
      <4> QED
        BY <3>2, <4>1, <4>3, <4>4
    <3> QED
      BY <3>4, <3>5
  <2> QED
    BY <2>2, <2>3
<1> HIDE DEF N, Good
<1>5. \A i \in 1 .. N : i \in Good
  BY ONLY <1>2, <1>4, Downwards
<1>6. Rest[1] = DictionaryFrom(text, 1)
  BY <1>2, <1>5 DEF Good
<1> QED
  BY <1>1, <1>6, WholeDictionary

\* An empty query gives an empty dictionary.
LEMMA EmptyDictionary == Dictionary(Nothing) = Nothing
<1>1. {i \in 1 .. Len(Nothing) : i = 1 \/ Nothing[i - 1] = "&"} = {}
  BY DEF Nothing
<1> QED
  BY <1>1 DEF Dictionary, Nothing

\* parse_uri splits an address where the definition of UriUnderstood does.
LEMMA UriSplit ==
  ASSUME NEW uri \in Seq(Bytes)
  PROVE  LET main == Until(uri, {"#"})
             path == Until(uri, {"?", "#"})
         IN  /\ ParseUri(uri).path = path
             /\ ParseUri(uri).fragment = After(uri, Len(main) + 1)
             /\ ParseUri(uri).query = Dictionary(After(main, Len(path) + 1))
<1> DEFINE main         == Until(uri, {"#"})
           path         == Until(uri, {"?", "#"})
           m            == Len(main)
           p            == Len(path)
           fragment_pos == Find(uri, <<"#">>, 1)
           query_pos    == Find(main, <<"?">>, 1)
<1>1. /\ fragment_pos = IF m < Len(uri) THEN m + 1 ELSE 0
      /\ main = IF fragment_pos = 0 THEN uri ELSE Before(uri, fragment_pos)
  BY FindUntil
<1>2. /\ m \in 0 .. Len(uri) /\ main = SubSeq(uri, 1, m) /\ main \in Seq(Bytes)
      /\ \A i \in 1 .. m : uri[i] \notin {"#"}
      /\ m < Len(uri) => uri[m + 1] \in {"#"}
  BY UntilStops
<1>3. /\ p \in 0 .. Len(uri) /\ path = SubSeq(uri, 1, p) /\ path \in Seq(Bytes)
      /\ \A i \in 1 .. p : uri[i] \notin {"?", "#"}
      /\ p < Len(uri) => uri[p + 1] \in {"?", "#"}
  BY UntilStops
<1>4. ParseUri(uri)
        = [path     |-> IF query_pos = 0 THEN main ELSE Before(main, query_pos),
           query    |-> IF query_pos = 0 THEN Nothing ELSE ParseQuery(After(main, query_pos)),
           fragment |-> IF fragment_pos = 0 THEN Nothing ELSE After(uri, fragment_pos)]
  BY <1>1 DEF ParseUri
<1>5. After(uri, m + 1) = IF fragment_pos = 0 THEN Nothing ELSE After(uri, fragment_pos)
  <2> HIDE DEF m, fragment_pos
  <2>1. CASE m < Len(uri)
    BY <1>1, <1>2, <2>1
  <2>2. CASE ~(m < Len(uri))
    <3>1. m + 1 \in Nat /\ m + 1 >= Len(uri)
      BY <1>2, <2>2
    <3> QED
      BY <1>1, <2>2, <3>1, AfterEnd
  <2> QED
    BY <2>1, <2>2
<1>6. Until(main, {"?"}) = path
  <2> HIDE DEF main, path, m, p
  <2>1. p <= m
    <3> SUFFICES ASSUME m < p PROVE FALSE
      BY <1>2, <1>3
    <3>1. m < Len(uri) /\ m + 1 \in 1 .. p
      BY <1>2, <1>3
    <3> QED
      BY <1>2, <1>3, <3>1
  <2>2. /\ Len(main) = m /\ \A i \in 1 .. m : main[i] = uri[i]
    <3>1. 1 \in Nat \ {0} /\ m - 1 + 1 = m /\ \A i \in 1 .. m : 1 + i - 1 = i
      BY <1>2
    <3> QED
      BY <1>2, <3>1, Slice
  <2>3. p \in 0 .. Len(main) /\ \A i \in 1 .. p : main[i] \notin {"?"}
    BY <1>2, <1>3, <2>1, <2>2
  <2>4. p < Len(main) => main[p + 1] \in {"?"}
    <3> SUFFICES ASSUME p < Len(main) PROVE main[p + 1] = "?"
      OBVIOUS
    <3>1. p + 1 \in 1 .. m /\ p < Len(uri)
      BY <1>2, <1>3, <2>2
    <3> QED
      BY <1>2, <1>3, <2>2, <3>1
  <2>5. Until(main, {"?"}) = SubSeq(main, 1, p)
    <3>1. main \in Seq(Bytes)
      BY <1>2
    <3> QED
      BY ONLY <2>3, <2>4, <3>1, UntilIs
  <2>6. SubSeq(main, 1, p) = SubSeq(uri, 1, p)
    <3>1. 1 \in Nat \ {0} /\ p - 1 + 1 = p /\ \A i \in 1 .. p : 1 + i - 1 = i
      BY <1>3
    <3>2. /\ SubSeq(main, 1, p) \in Seq(Bytes) /\ Len(SubSeq(main, 1, p)) = p
          /\ \A i \in 1 .. p : SubSeq(main, 1, p)[i] = main[i]
      BY <1>2, <2>3, <3>1, Slice
    <3>3. /\ SubSeq(uri, 1, p) \in Seq(Bytes) /\ Len(SubSeq(uri, 1, p)) = p
          /\ \A i \in 1 .. p : SubSeq(uri, 1, p)[i] = uri[i]
      BY <1>3, <3>1, Slice
    <3>4. \A i \in 1 .. p : main[i] = uri[i]
      BY <1>2, <1>3, <2>1, <2>2
    <3> QED
      BY <3>2, <3>3, <3>4, SeqEqual
  <2> QED
    BY <1>3, <2>5, <2>6
<1>7. /\ query_pos = IF p < m THEN p + 1 ELSE 0
      /\ path = IF query_pos = 0 THEN main ELSE Before(main, query_pos)
  <2> HIDE DEF main, path
  <2> QED
    BY <1>2, <1>6, FindUntil
<1>8. (IF query_pos = 0 THEN Nothing ELSE ParseQuery(After(main, query_pos)))
        = Dictionary(After(main, p + 1))
  <2> HIDE DEF main, path, query_pos
  <2>1. p \in Nat /\ m = Len(main) /\ main \in Seq(Bytes) /\ m \in Nat
    BY <1>2, <1>3
  <2> HIDE DEF m, p
  <2>2. CASE p < m
    <3>1. query_pos = p + 1 /\ query_pos # 0
      BY <1>7, <2>1, <2>2
    <3>2. p + 1 \in Nat /\ p + 1 <= Len(main) + 1
      BY <2>1, <2>2
    <3>3. After(main, p + 1) \in Seq(Bytes)
      BY <2>1, <3>2, AroundTexts
    <3> QED
      BY <3>1, <3>3, QueryIsDictionary
  <2>3. CASE ~(p < m)
    <3>1. query_pos = 0 /\ p + 1 \in Nat /\ p + 1 >= Len(main)
      BY <1>7, <2>1, <2>3
    <3>2. After(main, p + 1) = Nothing
      BY <2>1, <3>1, AfterEnd
    <3> QED
      BY <3>1, <3>2, EmptyDictionary
  <2> QED
    BY <2>2, <2>3
<1> HIDE DEF main, path, m, p, fragment_pos, query_pos
<1>9. /\ ParseUri(uri).path = path
      /\ ParseUri(uri).fragment = After(uri, m + 1)
      /\ ParseUri(uri).query = Dictionary(After(main, p + 1))
  BY <1>4, <1>5, <1>7, <1>8
<1> QED
  BY <1>9 DEF main, path, m, p

\* A line with two spaces before its end is read as a method, the address between
\* them, and a protocol.
LEMMA LineSplit ==
  ASSUME NEW text \in Seq(Bytes), NEW line_end \in 1 .. Len(text), text[line_end] = "CR"
  PROVE  LET line   == Until(text, {"CR"})
             first  == Len(Until(line, {"SP"}))
             uri    == Until(After(line, first + 1), {"SP"})
             result == ParseRequestLine(Before(text, line_end))
         IN  first + Len(uri) + 1 < Len(line) =>
               /\ uri \in Seq(Bytes)
               /\ result.path = ParseUri(uri).path
               /\ result.fragment = ParseUri(uri).fragment
               /\ result.query = ParseUri(uri).query
<1> DEFINE line  == Until(text, {"CR"})
           n     == Len(line)
           first == Len(Until(line, {"SP"}))
           rest  == After(line, first + 1)
           uri   == Until(rest, {"SP"})
           size  == Len(uri)
           whole == Before(text, line_end)
<1> SUFFICES ASSUME first + size + 1 < n
             PROVE  /\ uri \in Seq(Bytes)
                    /\ ParseRequestLine(whole).path = ParseUri(uri).path
                    /\ ParseRequestLine(whole).fragment = ParseUri(uri).fragment
                    /\ ParseRequestLine(whole).query = ParseUri(uri).query
  OBVIOUS
<1>1. /\ n \in 0 .. Len(text) /\ line = SubSeq(text, 1, n) /\ line \in Seq(Bytes)
      /\ \A i \in 1 .. n : text[i] \notin {"CR"}
  BY UntilStops
<1> HIDE DEF line
<1>2. n < line_end
  BY <1>1
<1>3. \A i \in 1 .. n : line[i] = text[i]
  <2>1. 1 \in Nat \ {0} /\ n - 1 + 1 = n /\ \A i \in 1 .. n : 1 + i - 1 = i
    BY <1>1
  <2> QED
    BY <1>1, <2>1, Slice
<1>4. /\ whole \in Seq(Bytes) /\ Len(whole) = line_end - 1
      /\ \A i \in 1 .. line_end - 1 : whole[i] = text[i]
  <2>1. /\ 1 \in Nat \ {0} /\ line_end - 1 \in 0 .. Len(text)
        /\ (IF 1 <= line_end - 1 THEN (line_end - 1) - 1 + 1 ELSE 0) = line_end - 1
        /\ (line_end - 1) - 1 + 1 = line_end - 1
        /\ \A i \in 1 .. line_end - 1 : 1 + i - 1 = i
    OBVIOUS
  <2> QED
    BY <2>1, Slice DEF Before
<1> HIDE DEF whole
<1>5. /\ first \in 0 .. n /\ \A i \in 1 .. first : line[i] \notin {"SP"}
      /\ first < n => line[first + 1] \in {"SP"}
  BY <1>1, UntilStops
<1> HIDE DEF first
<1>6. /\ rest \in Seq(Bytes) /\ first < n
      /\ Len(rest) = n - (first + 1)
      /\ \A i \in 1 .. n - (first + 1) : rest[i] = line[first + 1 + i]
  <2>1. first < n
    <3>1. first + 1 \in Nat /\ first + 1 <= Len(line) + 1
      BY <1>1, <1>5
    <3>2. rest \in Seq(Bytes)
      BY <1>1, <3>1, AroundTexts
    <3>3. size \in Nat
      BY <3>2, UntilStops
    <3> HIDE DEF size, n
    <3> QED
      BY <1>1, <1>5, <3>3
  <2>2. /\ first + 2 \in Nat \ {0} /\ n \in 0 .. Len(line)
        /\ (IF first + 2 <= n THEN n - (first + 2) + 1 ELSE 0) = n - (first + 1)
        /\ n - (first + 2) + 1 = n - (first + 1) /\ first + 1 + 1 = first + 2
        /\ \A i \in 1 .. n - (first + 1) : first + 2 + i - 1 = first + 1 + i
    <3> HIDE DEF n
    <3>1. first \in Nat /\ n \in Nat /\ first < n
      BY <1>1, <1>5, <2>1
    <3>2. n = Len(line)
      BY DEF n
    <3> QED
      BY <3>1, <3>2
  <2>3. rest = SubSeq(line, first + 2, n)
    BY <2>2 DEF After
  <2> HIDE DEF n
  <2>4. /\ SubSeq(line, first + 2, n) \in Seq(Bytes)
        /\ Len(SubSeq(line, first + 2, n)) = IF first + 2 <= n THEN n - (first + 2) + 1 ELSE 0
        /\ \A i \in 1 .. n - (first + 2) + 1 :
             SubSeq(line, first + 2, n)[i] = line[first + 2 + i - 1]
    BY <1>1, <2>2, Slice
  <2> QED
    BY <2>1, <2>2, <2>3, <2>4
<1> HIDE DEF rest
<1>7. /\ size \in 0 .. Len(rest) /\ uri \in Seq(Bytes) /\ uri = SubSeq(rest, 1, size)
      /\ \A i \in 1 .. size : rest[i] \notin {"SP"}
      /\ size < Len(rest) => rest[size + 1] \in {"SP"}
  BY <1>6, UntilStops
<1> HIDE DEF uri, size, n
<1> DEFINE second == first + size + 2
<1>8. /\ first + 1 \in 1 .. n /\ second \in first + 2 .. n /\ n <= line_end - 1
      /\ size < Len(rest)
  BY <1>1, <1>2, <1>5, <1>6, <1>7
<1>9. \A i \in 1 .. n : whole[i] = line[i]
  BY <1>1, <1>3, <1>4, <1>8
<1>10. Find(whole, <<"SP">>, 1) = first + 1
  <2> DEFINE place == Find(whole, <<"SP">>, 1)
  <2>1. \/ place = 0 /\ \A i \in 1 .. Len(whole) : whole[i] # "SP"
        \/ /\ place \in 1 .. Len(whole) /\ whole[place] = "SP"
           /\ \A i \in 1 .. place - 1 : whole[i] # "SP"
    BY <1>4, FindByte
  <2> HIDE DEF place
  <2>2. whole[first + 1] = "SP" /\ first + 1 \in 1 .. Len(whole)
    BY <1>1, <1>4, <1>5, <1>6, <1>8, <1>9
  <2>3. \A i \in 1 .. first : whole[i] # "SP"
    BY <1>1, <1>5, <1>8, <1>9
  <2>4. place # 0
    BY <2>1, <2>2
  <2>5. ~(place < first + 1) /\ ~(first + 1 < place)
    <3>1. first \in Nat /\ Len(whole) \in Nat
      BY <1>4, <1>5
    <3> QED
      BY <2>1, <2>2, <2>3, <2>4, <3>1
  <2>6. place = first + 1
    BY <1>5, <2>1, <2>4, <2>5
  <2> QED
    BY <2>6 DEF place
<1>11. Find(whole, <<"SP">>, (first + 1) + 1) = second
  <2> DEFINE place == Find(whole, <<"SP">>, (first + 1) + 1)
  <2>0. (first + 1) + 1 = first + 2 /\ (first + 1) + 1 \in Nat \ {0}
    BY <1>5
  <2>1. \/ place = 0 /\ \A i \in first + 2 .. Len(whole) : whole[i] # "SP"
        \/ /\ place \in first + 2 .. Len(whole) /\ whole[place] = "SP"
           /\ \A i \in first + 2 .. place - 1 : whole[i] # "SP"
    BY <1>4, <2>0, FindByte
  <2> HIDE DEF place
  <2>2. whole[second] = "SP" /\ second \in first + 2 .. Len(whole)
    <3>1. rest[size + 1] = "SP" /\ size + 1 \in 1 .. n - (first + 1)
      BY <1>1, <1>6, <1>7, <1>8
    <3>2. rest[size + 1] = line[second] /\ second \in 1 .. n
      <4>1. first + 1 + (size + 1) = second
        BY <1>1, <1>5, <1>7
      <4> QED
        BY <1>6, <1>8, <3>1, <4>1
    <3>3. second \in 1 .. line_end - 1
      BY <1>1, <1>8, <3>2
    <3> QED
      BY <1>4, <1>8, <1>9, <3>1, <3>2, <3>3
  <2>3. ASSUME NEW i \in first + 2 .. second - 1 PROVE whole[i] # "SP"
    <3>1. i - (first + 1) \in 1 .. size /\ first + 1 + (i - (first + 1)) = i /\ i \in 1 .. n
          /\ i - (first + 1) \in 1 .. n - (first + 1)
      BY <1>1, <1>5, <1>7, <1>8
    <3> QED
      BY <1>6, <1>7, <1>9, <3>1
  <2> HIDE DEF second
  <2>4. place # 0
    BY <1>5, <2>1, <2>2
  <2>5. ~(place < second) /\ ~(second < place)
    BY <2>1, <2>2, <2>3, <2>4
  <2>6. place = second
    BY <1>5, <2>1, <2>2, <2>4, <2>5
  <2> QED
    BY <2>6 DEF place
<1>12. SubSeq(whole, (first + 1) + 1, second - 1) = uri
  <2>1. /\ (first + 1) + 1 \in Nat \ {0} /\ second - 1 \in 0 .. Len(whole)
        /\ (IF (first + 1) + 1 <= second - 1 THEN (second - 1) - ((first + 1) + 1) + 1 ELSE 0) = size
        /\ (second - 1) - ((first + 1) + 1) + 1 = size
        /\ \A i \in 1 .. size : /\ (first + 1) + 1 + i - 1 = first + 1 + i
                                /\ first + 1 + i \in 1 .. n
                                /\ i \in 1 .. n - (first + 1)
    BY <1>1, <1>4, <1>5, <1>7, <1>8
  <2> DEFINE cut == SubSeq(whole, (first + 1) + 1, second - 1)
  <2> HIDE DEF second
  <2>2. /\ cut \in Seq(Bytes) /\ Len(cut) = size
        /\ \A i \in 1 .. size : cut[i] = whole[first + 1 + i]
    <3>1. whole \in Seq(Bytes)
      BY <1>4
    <3>2. /\ cut \in Seq(Bytes)
          /\ Len(cut) = (IF (first + 1) + 1 <= second - 1
                            THEN (second - 1) - ((first + 1) + 1) + 1 ELSE 0)
          /\ \A i \in 1 .. (second - 1) - ((first + 1) + 1) + 1 :
               cut[i] = whole[(first + 1) + 1 + i - 1]
      BY ONLY <2>1, <3>1, Slice
    <3> HIDE DEF cut
    <3> QED
      BY <2>1, <3>2
  <2>3. Len(uri) = size /\ \A i \in 1 .. size : uri[i] = rest[i]
    <3>1. 1 \in Nat \ {0} /\ size - 1 + 1 = size /\ \A i \in 1 .. size : 1 + i - 1 = i
      BY <1>6, <1>7
    <3> QED
      BY <1>6, <1>7, <3>1, Slice DEF size
  <2>4. \A i \in 1 .. size : cut[i] = uri[i]
    <3> SUFFICES ASSUME NEW i \in 1 .. size PROVE cut[i] = uri[i]
      OBVIOUS
    <3>1. cut[i] = whole[first + 1 + i] /\ uri[i] = rest[i]
      BY <2>2, <2>3
    <3>2. whole[first + 1 + i] = line[first + 1 + i]
      BY <1>9, <2>1
    <3> QED
      BY <1>6, <2>1, <3>1, <3>2
  <2> QED
    BY <1>7, <2>2, <2>3, <2>4, SeqEqual
<1> HIDE DEF second
<1>13. first + 1 # 0 /\ second # 0
  BY <1>5, <1>8
<1>14. ParseRequestLine(whole)
         = [method   |-> MethodFromString(Before(whole, first + 1)),
            path     |-> ParseUri(uri).path, query |-> ParseUri(uri).query,
            fragment |-> ParseUri(uri).fragment, protocol |-> After(whole, second)]
  BY <1>10, <1>11, <1>12, <1>13 DEF ParseRequestLine
<1> QED
  BY <1>7, <1>14

-----------------------------------------------------------------------------
(* The length of the body *)

\* The length a body is given: none if the value is not one.
SizeOf(length) == IF BodySize(length) = {} THEN 0 ELSE Max(BodySize(length))

\* from_chars returns at most one number, and none that an int cannot hold.
LEMMA OneSize ==
  ASSUME NEW length
  PROVE  /\ \A n \in BodySize(length) : SizeOf(length) = n
         /\ SizeOf(length) \in Nat /\ SizeOf(length) <= IntMax
         /\ BodySize(Nothing) = {}
<1> DEFINE negative == length # Nothing /\ length[1] = "-"
           number   == IF negative THEN Tail(length) ELSE length
           Other    == {i \in 1 .. Len(number) : number[i] \notin Range(Digits)}
           digits   == IF Other = {} THEN number ELSE Before(number, Min(Other))
           value    == FoldLeft(LAMBDA n, c : 10 * n + DigitValue(c), 0, digits)
           signed   == IF negative THEN -value ELSE value
<1>1. ToInt(length) = IF digits = Nothing THEN {} ELSE {signed} \cap Ints
  BY DEF ToInt
<1> HIDE DEF digits, signed
<1>2. BodySize(length) = {} \/ \E n \in Nat : BodySize(length) = {n} /\ n <= IntMax
  BY <1>1, ParserAssumption DEF BodySize, Ints
<1>3. \A n \in Nat : Max({n}) = n
  BY DEF Max
<1>4. ToInt(Nothing) = {}
  <2>1. {i \in 1 .. Len(Nothing) : Nothing[i] \notin Range(Digits)} = {}
    BY DEF Nothing
  <2> QED
    BY <2>1 DEF ToInt
<1> QED
  BY <1>2, <1>3, <1>4, ParserAssumption DEF SizeOf, BodySize

\* A line begins at p.
LineStart(text, p) == p >= 3 /\ Break(text, p - 2)

\* The lines from p to the end that announce a length, and what one announces.
LengthLines(text, p, end) ==
  {i \in p .. end : /\ LineStart(text, i)
                    /\ text[i] = "Content-Length" /\ text[i + 1] = ":"}

ValueAt(text, i) ==
  WithoutLeadingBlanks(SubSeq(text, i + 2, Find(text, CRLF, i + 2) - 1))

\* AnnouncedLength is the size that the last of them announces.
LEMMA AnnouncedSize ==
  ASSUME NEW end \in Nat, end = Min(HeaderEnds(stream))
  PROVE  LET Lines == LengthLines(stream, 3, end)
         IN  AnnouncedLength = IF Lines = {} THEN 0 ELSE SizeOf(ValueAt(stream, Max(Lines)))
<1> DEFINE Lines == {i \in 3 .. Min(HeaderEnds(stream)) :
                       /\ SubSeq(stream, i - 2, i - 1) = CRLF
                       /\ SubSeq(stream, i, i + 1) = <<"Content-Length", ":">>}
<1>1. ASSUME NEW i \in 3 .. end
      PROVE  /\ SubSeq(stream, i - 2, i - 1) = CRLF <=> LineStart(stream, i)
             /\ SubSeq(stream, i, i + 1) = <<"Content-Length", ":">>
                  <=> stream[i] = "Content-Length" /\ stream[i + 1] = ":"
  <2>1. /\ i - 2 \in Int /\ i - 1 \in Int /\ (i - 2) + 1 = i - 1
        /\ i \in Int /\ i + 1 \in Int /\ i >= 3
    OBVIOUS
  <2>2. SubSeq(stream, i - 2, i - 1) = <<stream[i - 2], stream[i - 1]>>
    BY <2>1, PairAt, Zenon
  <2>3. SubSeq(stream, i, i + 1) = <<stream[i], stream[i + 1]>>
    BY <2>1, PairAt
  <2> QED
    BY <2>1, <2>2, <2>3 DEF LineStart, Break, CRLF
<1>2. Lines = LengthLines(stream, 3, end)
  BY <1>1 DEF LengthLines
<1>3. AnnouncedLength
        = LET start == Max(Lines) + 2
              value == SubSeq(stream, start, Find(stream, CRLF, start) - 1)
              sizes == ToInt(WithoutLeadingBlanks(value)) \cap Nat
          IN IF Lines = {} \/ sizes = {} THEN 0 ELSE Max(sizes)
  BY DEF AnnouncedLength
<1> HIDE DEF Lines
<1> QED
  BY <1>2, <1>3 DEF SizeOf, BodySize, ValueAt

\* Which field a line is, and its value.
LEMMA FieldOfLine ==
  ASSUME NEW line \in Seq(Bytes), NEW name, name # ":"
  PROVE  /\ <<name>> \in DOMAIN Field(line)
              <=> Len(line) >= 2 /\ line[1] = name /\ line[2] = ":"
         /\ <<name>> \in DOMAIN Field(line)
              => Field(line)[<<name>>] = WithoutLeadingBlanks(After(line, 2))
<1> DEFINE colon == Find(line, <<":">>, 1)
<1>1. \/ colon = 0 /\ \A i \in 1 .. Len(line) : line[i] # ":"
      \/ /\ colon \in 1 .. Len(line) /\ line[colon] = ":"
         /\ \A i \in 1 .. colon - 1 : line[i] # ":"
  BY FindByte
<1>2. Field(line) = IF colon = 0 THEN Nothing
                    ELSE Entry(Before(line, colon), WithoutLeadingBlanks(After(line, colon)))
  BY DEF Field
<1> HIDE DEF colon
<1>3. CASE colon = 0
  <2>1. DOMAIN Field(line) = {}
    BY <1>2, <1>3 DEF Nothing
  <2>2. ~(Len(line) >= 2 /\ line[2] = ":")
    BY <1>1, <1>3
  <2> QED
    BY <2>1, <2>2
<1>4. CASE colon # 0
  <2>1. /\ DOMAIN Field(line) = {Before(line, colon)}
        /\ Field(line)[Before(line, colon)] = WithoutLeadingBlanks(After(line, colon))
    BY <1>2, <1>4 DEF Entry
  <2>2. /\ Before(line, colon) \in Seq(Bytes) /\ Len(Before(line, colon)) = colon - 1
        /\ \A k \in 1 .. colon - 1 : Before(line, colon)[k] = line[k]
    <3>1. /\ 1 \in Nat \ {0} /\ colon - 1 \in 0 .. Len(line)
          /\ (IF 1 <= colon - 1 THEN (colon - 1) - 1 + 1 ELSE 0) = colon - 1
          /\ (colon - 1) - 1 + 1 = colon - 1 /\ \A k \in 1 .. colon - 1 : 1 + k - 1 = k
      BY <1>1, <1>4
    <3> QED
      BY <3>1, Slice DEF Before
  <2>3. Before(line, colon) = <<name>> <=> colon = 2 /\ line[1] = name
    <3>1. ASSUME Before(line, colon) = <<name>> PROVE colon = 2 /\ line[1] = name
      <4>1. Len(<<name>>) = 1 /\ <<name>>[1] = name
        OBVIOUS
      <4>2. colon - 1 = 1
        BY <2>2, <3>1, <4>1
      <4>3. colon = 2
        BY <1>1, <1>4, <4>2
      <4>4. 1 \in 1 .. colon - 1
        BY <4>3
      <4> QED
        BY <2>2, <3>1, <4>1, <4>3, <4>4
    <3>2. ASSUME colon = 2, line[1] = name PROVE Before(line, colon) = <<name>>
      <4>1. /\ Len(Before(line, colon)) = 1 /\ Before(line, colon)[1] = name
            /\ Before(line, colon) \in Seq(Bytes \cup {name})
        <5>1. colon - 1 = 1 /\ 1 \in 1 .. colon - 1
          BY <3>2
        <5> QED
          BY <2>2, <3>2, <5>1, SeqMonotonic
      <4>2. <<name>> \in Seq(Bytes \cup {name}) /\ Len(<<name>>) = 1 /\ <<name>>[1] = name
        OBVIOUS
      <4>3. \A k \in 1 .. 1 : Before(line, colon)[k] = <<name>>[k]
        BY <4>1, <4>2
      <4> QED
        BY <4>1, <4>2, <4>3, SeqEqual
    <3> QED
      BY <3>1, <3>2
  <2>4. colon = 2 /\ line[1] = name <=> Len(line) >= 2 /\ line[1] = name /\ line[2] = ":"
    <3>1. ASSUME Len(line) >= 2, line[1] = name, line[2] = ":" PROVE colon = 2
      <4>1. ~(colon > 2)
        BY <1>1, <1>4, <3>1
      <4>2. colon # 1
        BY <1>1, <1>4, <3>1
      <4> QED
        BY <1>1, <1>4, <4>1, <4>2
    <3>2. colon = 2 => Len(line) >= 2 /\ line[2] = ":"
      BY <1>1
    <3> QED
      BY <3>1, <3>2
  <2> QED
    BY <2>1, <2>3, <2>4
<1> QED
  BY <1>3, <1>4

\* A dictionary has the length that the last of these lines announces.
LastLength(fields, s, Lines) ==
  /\ <<"Content-Length">> \in DOMAIN fields <=> Lines # {}
  /\ Lines # {} => fields[<<"Content-Length">>] = ValueAt(s, Max(Lines))

\* What the loop of parse_header_fields says of a header line by line: text is the
\* header after its first line, and place its offset in the stream.
LEMMA LengthsFrom ==
  ASSUME NEW s \in Seq(Bytes), NEW end \in 4 .. Len(s),
         Break(s, end - 3), Break(s, end - 1),
         \A p \in 3 .. end - 1 : LineStart(s, p) /\ Break(s, p) => p = end - 1,
         NEW place \in 2 .. end - 2,
         NEW text \in Seq(Bytes), Len(text) = end - place,
         \A k \in 1 .. Len(text) : text[k] = s[k + place],
         NEW Rest, Reads(Rest, text)
  PROVE  \A i \in 1 .. Len(text) - 1 :
           LineStart(s, i + place) =>
             LastLength(Rest[i], s, LengthLines(s, i + place, end))
<1> DEFINE N     == Len(text) - 1
           name  == <<"Content-Length">>
           L(i)  == LengthLines(s, i + place, end)
           Good  == {i \in 1 .. N :
                       LineStart(s, i + place) =>
                         /\ name \in DOMAIN Rest[i] <=> L(i) # {}
                         /\ L(i) # {} => Rest[i][name] = ValueAt(s, Max(L(i)))}
<1>1. N \in Nat /\ end \in Nat /\ place \in Nat /\ Len(text) \in Nat /\ Len(s) \in Nat
      /\ N = end - place - 1 /\ end <= Len(s)
  OBVIOUS
<1>2. /\ s[end - 3] = "CR" /\ s[end - 2] = "LF" /\ s[end - 1] = "CR" /\ s[end] = "LF"
  <2>1. (end - 3) + 1 = end - 2 /\ (end - 1) + 1 = end
    OBVIOUS
  <2> QED
    BY <2>1 DEF Break
<1>3. ASSUME NEW k \in 1 .. N PROVE Break(text, k) <=> Break(s, k + place)
  <2>1. k \in 1 .. Len(text) /\ k + 1 \in 1 .. Len(text)
    BY <1>1
  <2>2. (k + 1) + place = (k + place) + 1
    BY ONLY k \in 1 .. N, <1>1
  <2> QED
    BY <2>1, <2>2 DEF Break
<1>4. ASSUME NEW i \in 1 .. N, \A j \in i + 1 .. N : j \in Good PROVE i \in Good
  <2> DEFINE p == i + place
             t == Find(text, CRLF, i)
             e == t + place
  <2> SUFFICES ASSUME LineStart(s, p)
               PROVE  /\ name \in DOMAIN Rest[i] <=> L(i) # {}
                      /\ L(i) # {} => Rest[i][name] = ValueAt(s, Max(L(i)))
    OBVIOUS
  <2>1. Rest[i] = FieldsFrom(text, Rest, i)
    <3>1. i \in 1 .. Len(text) + 1
      BY <1>1
    <3> QED
      BY <3>1 DEF Reads
  <2>2. \/ t = 0 /\ \A k \in i .. Len(text) - 1 : ~Break(text, k)
        \/ /\ t \in i .. Len(text) - 1 /\ Break(text, t)
           /\ \A k \in i .. t - 1 : ~Break(text, k)
    BY FindBreak
  <2>3. p \in 3 .. end - 1 /\ p \in Nat /\ p = i + place
    BY <1>1
  <2> HIDE DEF t, p
  \* There is a line end: the last one of the header.
  <2>4. t \in i .. N /\ Break(text, t) /\ \A k \in i .. t - 1 : ~Break(text, k)
    <3>1. Break(text, N)
      <4>1. N \in 1 .. N /\ N + place = end - 1
        BY <1>1
      <4> QED
        BY <1>3, <4>1
    <3>2. N \in i .. Len(text) - 1
      BY <1>1
    <3> QED
      BY <1>1, <2>2, <3>1, <3>2
  <2>5. /\ e \in p .. end - 1 /\ e \in Nat /\ e = t + place /\ Break(s, e)
        /\ \A k \in p .. e - 1 : ~Break(s, k)
    <3>1. e \in p .. end - 1 /\ e \in Nat
      BY <1>1, <2>3, <2>4
    <3>2. Break(s, e)
      BY <1>1, <1>3, <2>4
    <3>3. ASSUME NEW k \in p .. e - 1 PROVE ~Break(s, k)
      <4>1. k - place \in i .. t - 1 /\ k - place \in 1 .. N /\ (k - place) + place = k
        BY <1>1, <2>3, <2>4, <3>1
      <4> QED
        BY <1>3, <2>4, <4>1
    <3> QED
      BY <3>1, <3>2, <3>3
  <2> HIDE DEF e
  <2>6. /\ e \in Nat /\ p \in Nat /\ e >= p /\ e <= Len(s) - 1 /\ Len(s) \in Nat
    <3>1. e \in p .. end - 1 /\ e \in Nat /\ p \in Nat
      BY <2>3, <2>5, Zenon
    <3>2. end \in Nat /\ Len(s) \in Nat /\ end <= Len(s)
      BY <1>1
    <3> QED
      BY ONLY <3>1, <3>2
  <2>7. s[e] = "CR" /\ s[e + 1] = "LF" /\ s[p - 2] = "CR" /\ s[p - 1] = "LF"
    <3>1. (p - 2) + 1 = p - 1
      BY <2>3
    <3> QED
      BY <2>5, <3>1 DEF Break, LineStart
  <2>8. CASE t = i
    \* The empty line.
    <3>1. e = p /\ p = end - 1
      <4>1. e = p
        BY <2>3, <2>5, <2>8
      <4> QED
        BY <2>3, <2>5, <4>1
    <3>2. L(i) = {}
      <4> SUFFICES ASSUME NEW j \in L(i) PROVE FALSE
        OBVIOUS
      <4>1. j \in p .. end /\ s[j] = "Content-Length"
        BY DEF LengthLines, p
      <4>2. j = end - 1 \/ j = end
        BY <1>1, <3>1, <4>1
      <4> QED
        BY <1>2, <4>1, <4>2
    <3>3. Rest[i] = Nothing
      BY <2>1, <2>8 DEF FieldsFrom, t
    <3>4. DOMAIN Rest[i] = {}
      BY <3>3 DEF Nothing
    <3> QED
      BY <3>2, <3>4
  <2>9. CASE t # i
    <3> DEFINE line == SubSeq(text, i, t - 1)
               later == Rest[t + 2]
    <3>1. Rest[i] = Updated(Field(line), later)
      <4>1. t \notin {0, i}
        BY <2>4, <2>9
      <4> QED
        BY <2>1, <4>1 DEF FieldsFrom, t
    <3>2. e > p
      BY <2>3, <2>4, <2>5, <2>9
    \* The next line begins before the empty one, or is it.
    <3>3. e <= end - 3
      <4>1. p # end - 1
        <5> SUFFICES ASSUME p = end - 1 PROVE FALSE
          OBVIOUS
        <5> QED
          BY <2>5, <3>2
      <4>2. p # end - 2
        <5> SUFFICES ASSUME p = end - 2 PROVE FALSE
          OBVIOUS
        <5>1. p - 1 = end - 3
          BY <1>1
        <5> QED
          BY <1>2, <2>7, <5>1
      <4>3. end - 3 \in p .. end
        BY <1>1, <2>3, <4>1, <4>2
      <4>4. ~(end - 3 \in p .. e - 1)
        BY <2>5
      <4> QED
        BY <1>1, <2>5, <4>3, <4>4
    <3>4. t + 2 \in i + 1 .. N /\ (t + 2) + place = e + 2 /\ LineStart(s, e + 2)
      <4>1. t + 2 \in i + 1 .. N /\ (t + 2) + place = e + 2
        BY <1>1, <2>4, <2>5, <3>3
      <4>2. (e + 2) - 2 = e /\ e + 2 >= 3
        BY ONLY <2>3, <2>6
      <4> QED
        BY <2>5, <4>1, <4>2 DEF LineStart
    <3>5. /\ name \in DOMAIN later <=> L(t + 2) # {}
          /\ L(t + 2) # {} => later[name] = ValueAt(s, Max(L(t + 2)))
      <4>1. t + 2 \in Good
        BY <1>4, <3>4
      <4> QED
        BY <3>4, <4>1
    \* The lines that announce a length: perhaps this one, and the later ones.
    <3> DEFINE this == s[p] = "Content-Length" /\ s[p + 1] = ":"
    <3>6. /\ L(i) = (IF this THEN {p} ELSE {}) \cup L(t + 2)
          /\ \A j \in L(t + 2) : j > p
      <4>1. ASSUME NEW j \in L(i), j # p PROVE j \in L(t + 2)
        <5>1. /\ j \in p .. end /\ LineStart(s, j)
              /\ s[j] = "Content-Length" /\ s[j + 1] = ":"
          BY DEF LengthLines, p
        <5>2. j \in Nat /\ j >= 3 /\ Break(s, j - 2) /\ s[j - 2] = "CR"
          BY <2>3, <5>1 DEF LineStart, Break
        <5>3. j - 2 # p - 1
          BY <2>7, <5>2
        <5>4. ~(j - 2 \in p .. e - 1)
          BY <2>5, <5>2
        <5>5. j \in e + 2 .. end
          BY <1>1, <2>3, <2>5, <4>1, <5>1, <5>2, <5>3, <5>4
        <5> QED
          BY <3>4, <5>1, <5>5 DEF LengthLines
      <4>2. ASSUME NEW j \in L(t + 2) PROVE j \in L(i) /\ j > p
        <5>1. /\ j \in e + 2 .. end /\ LineStart(s, j)
              /\ s[j] = "Content-Length" /\ s[j + 1] = ":"
          BY <3>4 DEF LengthLines
        <5>2. j \in p .. end /\ j > p
          BY ONLY <1>1, <2>6, <5>1
        <5> QED
          BY <5>1, <5>2 DEF LengthLines, p
      <4>3. p \in L(i) <=> this
        BY <1>1, <2>3 DEF LengthLines, p
      <4> HIDE DEF L, this
      <4> QED
        BY <4>1, <4>2, <4>3
    <3>7. /\ line \in Seq(Bytes) /\ Len(line) = e - p
          /\ \A k \in 1 .. e - p : line[k] = s[p + k - 1]
      <4>1. /\ i \in Nat \ {0} /\ t - 1 \in 0 .. Len(text)
            /\ (IF i <= t - 1 THEN (t - 1) - i + 1 ELSE 0) = e - p
            /\ (t - 1) - i + 1 = e - p
            /\ \A k \in 1 .. e - p : /\ i + k - 1 \in 1 .. Len(text)
                                     /\ (i + k - 1) + place = p + k - 1
        BY <1>1, <2>3, <2>4, <2>5, <3>2
      <4>2. /\ line \in Seq(Bytes) /\ Len(line) = e - p
            /\ \A k \in 1 .. e - p : line[k] = text[i + k - 1]
        <5>1. text \in Seq(Bytes)
          OBVIOUS
        <5>2. /\ line \in Seq(Bytes)
              /\ Len(line) = (IF i <= t - 1 THEN (t - 1) - i + 1 ELSE 0)
              /\ \A k \in 1 .. (t - 1) - i + 1 : line[k] = text[i + k - 1]
          BY ONLY <4>1, <5>1, Slice
        <5> HIDE DEF line
        <5> QED
          BY ONLY <4>1, <5>2
      <4> QED
        BY <4>1, <4>2
    <3> HIDE DEF line, later
    <3>8. /\ name \in DOMAIN Field(line) <=> this
          /\ this => Field(line)[name] = ValueAt(s, p)
      <4>1. /\ name \in DOMAIN Field(line)
                 <=> Len(line) >= 2 /\ line[1] = "Content-Length" /\ line[2] = ":"
            /\ name \in DOMAIN Field(line)
                 => Field(line)[name] = WithoutLeadingBlanks(After(line, 2))
        <5>1. "Content-Length" # ":"
          OBVIOUS
        <5> QED
          BY <3>7, <5>1, FieldOfLine
      <4>2. this => e - p >= 2
        <5> SUFFICES ASSUME this PROVE e - p >= 2
          OBVIOUS
        <5>1. e # p + 1
          BY <2>7
        <5> QED
          BY ONLY <2>6, <3>2, <5>1
      <4>3. e - p >= 2 => line[1] = s[p] /\ line[2] = s[p + 1]
        <5>1. p + 1 - 1 = p /\ p + 2 - 1 = p + 1
          BY <2>3
        <5>2. e - p >= 2 => 1 \in 1 .. e - p /\ 2 \in 1 .. e - p
          BY ONLY <2>6
        <5> QED
          BY <3>7, <5>1, <5>2
      <4>4. ASSUME this PROVE After(line, 2) = SubSeq(s, p + 2, Find(s, CRLF, p + 2) - 1)
        <5> DEFINE f == Find(s, CRLF, p + 2)
        <5>1. \/ f = 0 /\ \A k \in p + 2 .. Len(s) - 1 : ~Break(s, k)
              \/ /\ f \in p + 2 .. Len(s) - 1 /\ Break(s, f)
                 /\ \A k \in p + 2 .. f - 1 : ~Break(s, k)
          <6>1. p + 2 \in Nat \ {0}
            BY <2>3
          <6> QED
            BY <6>1, FindBreak
        <5> HIDE DEF f
        <5>2. e \in Nat /\ p \in Nat /\ e >= p + 2 /\ e <= Len(s) - 1 /\ Len(s) \in Nat
          <6>1. e - p >= 2
            BY <4>2, <4>4
          <6> QED
            BY ONLY <2>6, <6>1
        <5>3. e \in p + 2 .. Len(s) - 1 /\ \A k \in p + 2 .. e - 1 : ~Break(s, k)
          <6>1. e \in p + 2 .. Len(s) - 1 /\ \A k \in p + 2 .. e - 1 : k \in p .. e - 1
            BY ONLY <5>2
          <6> QED
            BY <2>5, <6>1
        <5>4. f # 0
          BY <2>3, <2>5, <5>1, <5>3
        <5>5. ~(f < e) /\ ~(e < f)
          BY <1>1, <2>3, <2>5, <5>1, <5>3, <5>4
        <5>6. f = e
          BY <1>1, <2>3, <2>5, <5>1, <5>3, <5>4, <5>5
        <5> DEFINE value == SubSeq(s, p + 2, e - 1)
                   n     == e - p - 2
        <5>7. /\ value \in Seq(Bytes) /\ Len(value) = n
              /\ \A k \in 1 .. n : value[k] = s[p + 2 + k - 1]
          <6>1. /\ p + 2 \in Nat \ {0} /\ e - 1 \in 0 .. Len(s) /\ e - 1 >= (p + 2) - 1
                /\ (e - 1) - (p + 2) + 1 = n
            BY ONLY <5>2
          <6> HIDE DEF n
          <6> QED
            BY <6>1, SliceSize
        <5>8. /\ After(line, 2) \in Seq(Bytes) /\ Len(After(line, 2)) = n
              /\ \A k \in 1 .. n : After(line, 2)[k] = line[3 + k - 1]
          <6>1. /\ 3 \in Nat \ {0} /\ Len(line) \in 0 .. Len(line) /\ 2 + 1 = 3
                /\ Len(line) >= 3 - 1 /\ Len(line) - 3 + 1 = n
            <7>1. Len(line) = e - p
              BY <3>7
            <7> QED
              BY ONLY <5>2, <7>1
          <6> HIDE DEF n
          <6>2. After(line, 2) = SubSeq(line, 3, Len(line))
            BY <6>1 DEF After
          <6>3. /\ SubSeq(line, 3, Len(line)) \in Seq(Bytes)
                /\ Len(SubSeq(line, 3, Len(line))) = Len(line) - 3 + 1
                /\ \A k \in 1 .. Len(line) - 3 + 1 :
                     SubSeq(line, 3, Len(line))[k] = line[3 + k - 1]
            <7>1. line \in Seq(Bytes)
              BY <3>7
            <7> QED
              BY ONLY <6>1, <7>1, SliceSize
          <6> QED
            BY ONLY <6>1, <6>2, <6>3
        <5>9. ASSUME NEW k \in 1 .. n PROVE After(line, 2)[k] = value[k]
          <6>1. 3 + k - 1 \in 1 .. e - p /\ p + (3 + k - 1) - 1 = p + 2 + k - 1
            BY ONLY <5>2, k \in 1 .. n
          <6>2. value[k] = s[p + 2 + k - 1] /\ After(line, 2)[k] = line[3 + k - 1]
            BY <5>7, <5>8
          <6> HIDE DEF value
          <6> QED
            BY <3>7, <6>1, <6>2
        <5> HIDE DEF value, n
        <5>10. After(line, 2) = value
          BY <5>7, <5>8, <5>9, SeqEqual
        <5> QED
          BY <5>6, <5>10 DEF value, f
      <4>5. /\ e - p >= 2 /\ line[1] = "Content-Length" /\ line[2] = ":" => this
            /\ this => e - p >= 2 /\ line[1] = "Content-Length" /\ line[2] = ":"
        BY <4>2, <4>3
      <4> HIDE DEF this
      <4> QED
        BY <3>7, <4>1, <4>4, <4>5 DEF ValueAt
    <3> HIDE DEF this, L
    <3>9. /\ DOMAIN Rest[i] = DOMAIN Field(line) \cup DOMAIN later
          /\ \A x \in DOMAIN Field(line) \cup DOMAIN later :
               Rest[i][x] = IF x \in DOMAIN later THEN later[x] ELSE Field(line)[x]
      BY <3>1 DEF Updated
    <3>10. name \in DOMAIN Rest[i] <=> L(i) # {}
      BY <3>5, <3>6, <3>8, <3>9
    <3>11. CASE L(t + 2) # {}
      <4>1. L(t + 2) \in SUBSET Nat /\ \A j \in L(t + 2) : j <= end
        <5>1. L(t + 2) \subseteq e + 2 .. end
          BY <3>4 DEF L, LengthLines
        <5>2. \A j \in e + 2 .. end : j \in Nat /\ j <= end
          BY ONLY <1>1, <2>6
        <5> QED
          BY ONLY <5>1, <5>2
      <4> DEFINE k == Max(L(t + 2))
      <4>2. k \in L(t + 2) /\ \A j \in L(t + 2) : j <= k
        BY <1>1, <3>11, <4>1, MaxGreatest
      <4> HIDE DEF k
      <4>3. L(i) \in SUBSET Nat /\ k \in L(i) /\ \A j \in L(i) : j <= k
        <5>1. L(i) \in SUBSET Nat /\ k \in L(i)
          BY <2>3, <3>6, <4>1, <4>2
        <5>2. k > p /\ k \in Nat
          BY <3>6, <4>1, <4>2
        <5>3. \A j \in L(i) : j = p \/ j \in L(t + 2)
          BY <3>6
        <5> QED
          BY <2>3, <4>2, <5>1, <5>2, <5>3
      <4>4. Max(L(i)) = k
        BY <4>3, MaxIs
      <4>5. Rest[i][name] = later[name]
        BY <3>5, <3>9, <3>11
      <4> QED
        BY <3>5, <3>10, <3>11, <4>4, <4>5 DEF k
    <3>12. CASE L(t + 2) = {}
      <4>1. L(i) # {} => this /\ L(i) = {p}
        BY <3>6, <3>12
      <4>2. Max({p}) = p
        <5>1. {p} \in SUBSET Nat /\ p \in {p} /\ \A j \in {p} : j <= p
          BY <2>3
        <5> QED
          BY <5>1, MaxIs
      <4>3. this => Rest[i][name] = Field(line)[name]
        BY <3>5, <3>8, <3>9, <3>12
      <4> QED
        BY <3>8, <3>10, <4>1, <4>2, <4>3
    <3> QED
      BY <3>11, <3>12
  <2> QED
    BY <2>8, <2>9
<1> HIDE DEF N, Good
<1>5. \A i \in 1 .. N : i \in Good
  BY ONLY <1>1, <1>4, Downwards
<1> QED
  BY <1>5 DEF N, Good, LastLength

-----------------------------------------------------------------------------
(* The buffers *)

Buffers ==
  /\ stream \in Seq(Bytes)
  /\ consumed \in 0 .. Len(stream)
  /\ header \in Seq(Bytes)
  /\ body \in Seq(Bytes)
  /\ header_complete \in BOOLEAN

Split ==
  /\ header \o body = Received
  /\ ~header_complete => body = <<>> /\ HeaderEnds(header) = {}
  /\ header_complete => /\ Len(header) \in HeaderEnds(Received)
                        /\ \A n \in HeaderEnds(Received) : Len(header) <= n

\* What is received grows by the chunk.
LEMMA ReceivedGrows ==
  ASSUME Buffers, NEW n \in 1 .. Len(stream) - consumed, Receive(n)
  PROVE  /\ SubSeq(stream, consumed + 1, consumed + n) \in Seq(Bytes)
         /\ Received' = Received \o SubSeq(stream, consumed + 1, consumed + n)
         /\ Received \in Seq(Bytes)
         /\ stream' \in Seq(Bytes) /\ consumed' \in 0 .. Len(stream')
<1>1. /\ stream \in Seq(Bytes) /\ Len(stream) \in Nat /\ consumed \in 0 .. Len(stream)
      /\ n \in Nat /\ consumed + n \in consumed .. Len(stream)
  BY DEF Buffers
<1>2. stream' = stream /\ consumed' = consumed + n
  BY DEF Receive
<1>3. SubSeq(stream, 1, consumed) \o SubSeq(stream, consumed + 1, consumed + n)
        = SubSeq(stream, 1, consumed + n)
  BY <1>1, ConcatAdjacentSubSeq
<1>4. Received' = Received \o SubSeq(stream, consumed + 1, consumed + n)
  BY <1>2, <1>3 DEF Received
<1>5. \A i \in 1 .. consumed + n : stream[i] \in Bytes
  BY <1>1
<1>6. /\ SubSeq(stream, consumed + 1, consumed + n) \in Seq(Bytes)
      /\ SubSeq(stream, 1, consumed) \in Seq(Bytes)
  BY <1>1, <1>5
<1> QED
  BY <1>1, <1>2, <1>4, <1>6 DEF Received

\* Every chunk keeps the split.
LEMMA SplitStep == Buffers /\ Split /\ [Next]_vars => Buffers' /\ Split'
<1> SUFFICES ASSUME Buffers, Split, [Next]_vars PROVE Buffers' /\ Split'
  OBVIOUS
<1>1. ASSUME NEW n \in 1 .. Len(stream) - consumed, Receive(n) PROVE Buffers' /\ Split'
  <2> DEFINE chunk == SubSeq(stream, consumed + 1, consumed + n)
             received == header \o chunk
             location == Find(received, Delimiter, SearchStart)
  <2>1. /\ chunk \in Seq(Bytes) /\ Received' = Received \o chunk /\ Received \in Seq(Bytes)
        /\ stream' \in Seq(Bytes) /\ consumed' \in 0 .. Len(stream')
    BY <1>1, ReceivedGrows
  <2>2. ParseHeaderPart(chunk) \/ ParseHeaderEnd(chunk) \/ ParseBody(chunk)
    BY <1>1 DEF Receive
  <2> HIDE DEF chunk
  <2>3. /\ header \in Seq(Bytes) /\ body \in Seq(Bytes) /\ header_complete \in BOOLEAN
        /\ received \in Seq(Bytes)
    BY <2>1, ConcatProperties DEF Buffers
  <2>4. ASSUME ~header_complete
        PROVE  /\ Received' = received
               /\ HeaderEnds(header) = {}
    <3>1. body = <<>> /\ HeaderEnds(header) = {} /\ header \o body = Received
      BY <2>4 DEF Split
    <3>2. Received = header
      BY <2>3, <3>1, ConcatEmptySeq
    <3> QED
      BY <2>1, <3>1, <3>2
  <2>5. CASE ParseHeaderPart(chunk)
    <3>1. /\ ~header_complete /\ location = 0
          /\ header' = received /\ body' = body /\ header_complete' = header_complete
      BY <2>5 DEF ParseHeaderPart, line_vars
    <3>2. HeaderEnds(received) = {}
      BY <2>1, <2>3, <2>4, <3>1, FindsFirstEnd
    <3>3. body' = <<>> /\ header' \o body' = header'
      <4>1. body' = <<>>
        BY <3>1 DEF Split
      <4> QED
        BY <2>3, <3>1, <4>1, ConcatEmptySeq
    <3>4. HeaderEnds(header)' = {}
      BY <3>1, <3>2 DEF HeaderEnds
    <3>5. (header \o body)' = Received'
      BY <2>4, <3>1, <3>3
    <3> QED
      BY <2>1, <2>3, <3>1, <3>3, <3>4, <3>5 DEF Buffers, Split
  <2>6. CASE ParseHeaderEnd(chunk)
    <3> DEFINE head == SubSeq(received, 1, location + 3)
    <3>1. /\ ~header_complete /\ location # 0 /\ header_complete' = TRUE
          /\ header' = SubSeq(received, 1, location + Len(Delimiter) - 1)
          /\ body' = After(received, Len(header'))
      BY <2>6 DEF ParseHeaderEnd
    <3>2. /\ location \in Nat /\ location + 3 \in HeaderEnds(received)
          /\ \A e \in HeaderEnds(received) : location + 3 <= e
      BY <2>1, <2>3, <2>4, <3>1, FindsFirstEnd
    <3> HIDE DEF location
    <3>3. location + 3 \in 4 .. Len(received) /\ Len(received) \in Nat
      BY <2>3, <3>2, DelimiterLength DEF HeaderEnds
    <3>4. header' = head
      <4>1. location + 4 - 1 = location + 3
        BY <3>2
      <4> QED
        BY <3>1, <4>1, DelimiterLength
    <3>5. \A i \in 1 .. Len(received) : received[i] \in Bytes
      BY <2>3
    <3>6. head \in Seq(Bytes) /\ Len(head) = location + 3
      BY <3>2, <3>3, <3>5, SubSeqProperties
    <3>7. body' = SubSeq(received, location + 3 + 1, Len(received))
      BY <3>1, <3>4, <3>6 DEF After
    <3>8. body' \in Seq(Bytes)
      BY <3>2, <3>3, <3>5, <3>7, SubSeqProperties
    <3>9. header' \o body' = received
      <4>1. /\ 1 \in 1 .. Len(received) + 1 /\ location + 3 \in 1 - 1 .. Len(received)
            /\ Len(received) \in location + 3 .. Len(received)
        BY <3>2, <3>3
      <4>2. head \o SubSeq(received, location + 3 + 1, Len(received))
              = SubSeq(received, 1, Len(received))
        BY <2>3, <4>1, ConcatAdjacentSubSeq
      <4> QED
        BY <2>3, <3>4, <3>7, <4>2, SubSeqFull
    <3>10. HeaderEnds(Received)' = HeaderEnds(received)
      BY <2>4, <3>1 DEF HeaderEnds
    <3>11. Len(header)' = location + 3
      BY <3>4, <3>6
    <3>12. Split'
      BY <2>4, <3>1, <3>2, <3>9, <3>10, <3>11 DEF Split
    <3> QED
      BY <2>1, <3>1, <3>4, <3>6, <3>8, <3>12 DEF Buffers
  <2>7. CASE ParseBody(chunk)
    <3>1. /\ header_complete /\ header_complete' = header_complete
          /\ header' = header /\ body' = body \o chunk
      BY <2>7 DEF ParseBody, line_vars
    <3>2. body' \in Seq(Bytes)
      BY <2>1, <2>3, <3>1, ConcatProperties
    <3>3. header' \o body' = Received'
      <4>1. (header \o body) \o chunk = header \o (body \o chunk)
        <5>1. header \in Seq(Bytes) /\ body \in Seq(Bytes) /\ chunk \in Seq(Bytes)
          BY <2>1, <2>3
        <5> QED
          BY ONLY <5>1, BytesAssociate, Zenon
      <4> QED
        BY <2>1, <3>1, <4>1 DEF Split
    <3>4. Len(header) \in HeaderEnds(Received) /\ \A e \in HeaderEnds(Received) : Len(header) <= e
      BY <3>1 DEF Split
    <3>5. Len(header) \in 1 .. Len(Received) /\ Len(Received) \in Nat
      BY <2>1, <3>4, DelimiterLength DEF HeaderEnds
    <3>6. HeaderEnds(Received)' = HeaderEnds(Received \o chunk)
      BY <2>1 DEF HeaderEnds
    <3>7. Len(header) \in HeaderEnds(Received \o chunk)
      BY <2>1, <3>4, <3>5, EndsInPrefix
    <3>8. ASSUME NEW e \in HeaderEnds(Received \o chunk) PROVE Len(header) <= e
      <4>1. e \in Nat /\ e >= 1
        <5>1. Len(Received \o chunk) \in Nat
          BY <2>1, ConcatProperties
        <5> QED
          BY <5>1, DelimiterLength DEF HeaderEnds
      <4>2. CASE e <= Len(Received)
        <5>1. e \in 1 .. Len(Received)
          BY <3>5, <4>1, <4>2
        <5>2. e \in HeaderEnds(Received)
          BY <2>1, <5>1, EndsInPrefix
        <5> QED
          BY <3>4, <5>2
      <4> QED
        BY <3>5, <4>1, <4>2
    <3>9. Split'
      BY <3>1, <3>3, <3>6, <3>7, <3>8 DEF Split
    <3> QED
      BY <2>1, <2>3, <3>1, <3>2, <3>9 DEF Buffers
  <2> QED
    BY <2>2, <2>5, <2>6, <2>7
<1>2. CASE UNCHANGED vars
  <2>1. UNCHANGED <<stream, consumed, header, body, header_complete>>
    BY <1>2 DEF vars, line_vars
  <2>2. UNCHANGED Received
    BY <2>1 DEF Received
  <2> QED
    BY <2>1, <2>2 DEF Buffers, Split, HeaderEnds
<1> QED
  BY <1>1, <1>2 DEF Next

\* The header ends with the only delimiter in it, and so has a first line.
LEMMA HeaderEnd ==
  ASSUME Buffers, Split, header_complete
  PROVE  LET n == Len(header)
         IN  /\ n \in 4 .. consumed
             /\ \A i \in 1 .. n : header[i] = stream[i]
             /\ Break(stream, n - 3) /\ Break(stream, n - 1)
             /\ n \in HeaderEnds(stream) /\ \A m \in HeaderEnds(stream) : n <= m
             /\ consumed = n + Len(body)
<1> DEFINE n == Len(header)
<1>1. /\ stream \in Seq(Bytes) /\ consumed \in 0 .. Len(stream) /\ Len(stream) \in Nat
      /\ header \in Seq(Bytes) /\ body \in Seq(Bytes)
  BY DEF Buffers
<1>2. /\ Received \in Seq(Bytes) /\ Len(Received) = consumed
      /\ \A i \in 1 .. consumed : Received[i] = stream[i]
  <2>1. /\ 1 \in Nat \ {0} /\ (IF 1 <= consumed THEN consumed - 1 + 1 ELSE 0) = consumed
        /\ consumed - 1 + 1 = consumed /\ \A i \in 1 .. consumed : 1 + i - 1 = i
    BY <1>1
  <2> QED
    BY <1>1, <2>1, Slice DEF Received
<1>3. /\ header \o body = Received /\ n \in HeaderEnds(Received)
      /\ \A m \in HeaderEnds(Received) : n <= m
  BY DEF Split
<1>4. consumed = n + Len(body) /\ \A i \in 1 .. n : header[i] = stream[i]
  <2>1. Len(header \o body) = n + Len(body)
        /\ \A i \in 1 .. n : (header \o body)[i] = header[i]
    BY <1>1, ConcatProperties
  <2>2. consumed = n + Len(body) /\ Len(body) \in Nat /\ n \in Nat
    BY <1>1, <1>2, <1>3, <2>1
  <2> QED
    BY <1>2, <1>3, <2>1, <2>2
<1>5. \A m \in 4 .. consumed : m \in HeaderEnds(Received) <=> m \in HeaderEnds(stream)
  <2> SUFFICES ASSUME NEW m \in 4 .. consumed
               PROVE  m \in HeaderEnds(Received) <=> m \in HeaderEnds(stream)
    OBVIOUS
  <2>1. m - 4 + 1 = m - 3 /\ m \in 4 .. Len(stream)
    BY <1>1
  <2>2. SubSeq(Received, m - 3, m) = Delimiter
          <=> Break(Received, m - 3) /\ Break(Received, m - 1)
    BY <1>2, DelimiterBreaks
  <2>3. SubSeq(stream, m - 3, m) = Delimiter
          <=> Break(stream, m - 3) /\ Break(stream, m - 1)
    BY <1>1, <2>1, DelimiterBreaks
  <2>4. /\ Received[m - 3] = stream[m - 3] /\ Received[(m - 3) + 1] = stream[(m - 3) + 1]
        /\ Received[m - 1] = stream[m - 1] /\ Received[(m - 1) + 1] = stream[(m - 1) + 1]
    BY <1>1, <1>2
  <2> QED
    BY <1>1, <1>2, <2>1, <2>2, <2>3, <2>4, DelimiterLength DEF HeaderEnds, Break
<1>6. n \in 4 .. consumed
  BY <1>1, <1>2, <1>3, DelimiterLength DEF HeaderEnds
<1> HIDE DEF n
<1>7. n \in HeaderEnds(stream)
  BY <1>3, <1>5, <1>6
<1>8. ASSUME NEW m \in HeaderEnds(stream) PROVE n <= m
  <2>1. m \in Nat /\ m >= 4
    BY <1>1, DelimiterLength DEF HeaderEnds
  <2>2. CASE m <= consumed
    BY <1>1, <1>3, <1>5, <2>1, <2>2
  <2> QED
    BY <1>1, <1>6, <2>1, <2>2
<1>9. Break(stream, n - 3) /\ Break(stream, n - 1)
  <2>1. n \in 4 .. Len(stream) /\ n - 4 + 1 = n - 3
    BY <1>1, <1>6
  <2>2. SubSeq(stream, n - 3, n) = Delimiter
    BY <1>7, <2>1, DelimiterLength DEF HeaderEnds
  <2> QED
    BY <1>1, <2>1, <2>2, DelimiterBreaks
<1> QED
  BY <1>4, <1>6, <1>7, <1>8, <1>9 DEF n

-----------------------------------------------------------------------------
(* What has been read *)

\* A complete header has been read as the functions of this module read it, and
\* the answer of parse compares the body with the length.
Interpreted ==
  /\ stream \in Streams
  /\ ~header_complete => /\ request = Unparsed /\ headers = Nothing
                         /\ chunked_transfer = FALSE /\ expected_body_size = 0
                         /\ parsed = FALSE
  /\ header_complete =>
       LET line_end == Find(header, CRLF, 1)
           length   == GetHeader(headers, "Content-Length")
       IN /\ request = ParseRequestLine(Before(header, line_end))
          /\ headers = ParseHeaderFields(After(header, line_end + 1))
          /\ expected_body_size = SizeOf(length)
          /\ ~chunked_transfer => (parsed <=> Len(body) >= expected_body_size)
  /\ chunked_transfer \in BOOLEAN
  /\ parsed \in BOOLEAN

\* Whether the body has ended is a truth value, of which a length decides.
LEMMA EndsOrNot ==
  ASSUME NEW text, NEW size
  PROVE  /\ BodyEnds(text, size, TRUE) \in BOOLEAN
         /\ BodyEnds(text, size, FALSE) \in BOOLEAN
         /\ BodyEnds(text, size, FALSE) <=> Len(text) >= size
<1>1. BodyEnds(text, size, TRUE) \in BOOLEAN
  BY Zenon DEF BodyEnds, IsSuffix, IsPrefix
<1>2. BodyEnds(text, size, FALSE) = (Len(text) >= size)
  BY Zenon DEF BodyEnds
<1>3. (Len(text) >= size) \in BOOLEAN
  OBVIOUS
<1> QED
  BY <1>1, <1>2, <1>3, Zenon

\* Every chunk keeps it.
LEMMA InterpretedStep ==
  Buffers /\ Split /\ Interpreted /\ [Next]_vars => Interpreted'
<1> SUFFICES ASSUME Buffers, Split, Interpreted, [Next]_vars PROVE Interpreted'
  OBVIOUS
<1>0. Buffers'
  BY SplitStep
<1>1. ASSUME NEW n \in 1 .. Len(stream) - consumed, Receive(n) PROVE Interpreted'
  <2> DEFINE chunk == SubSeq(stream, consumed + 1, consumed + n)
  <2>1. stream' = stream /\ stream' \in Streams
    BY <1>1 DEF Receive, Interpreted
  <2>2. ParseHeaderPart(chunk) \/ ParseHeaderEnd(chunk) \/ ParseBody(chunk)
    BY <1>1 DEF Receive
  <2> HIDE DEF chunk
  <2>3. CASE ParseHeaderPart(chunk)
    <3>1. /\ ~header_complete /\ header_complete' = header_complete /\ parsed' = FALSE
          /\ UNCHANGED line_vars
      BY <2>3 DEF ParseHeaderPart, line_vars
    <3>2. /\ request' = request /\ headers' = headers
          /\ chunked_transfer' = chunked_transfer
          /\ expected_body_size' = expected_body_size
      BY <3>1 DEF line_vars
    <3> QED
      BY <2>1, <3>1, <3>2 DEF Interpreted
  <2>4. CASE ParseHeaderEnd(chunk)
    <3> DEFINE length  == GetHeader(headers', "Content-Length")
               chunked == GetHeader(headers', "Transfer-Encoding") = <<"chunked">>
    <3>1. /\ ~header_complete /\ header_complete' = TRUE
          /\ request' = ParseRequestLine(Before(header', Find(header', CRLF, 1)))
          /\ headers' = ParseHeaderFields(After(header', Find(header', CRLF, 1) + 1))
          /\ \/ /\ length # Nothing
                /\ expected_body_size' \in BodySize(length)
                /\ UNCHANGED chunked_transfer
                /\ parsed' = BodyEnds(body', expected_body_size', FALSE)
             \/ /\ length # Nothing
                /\ BodySize(length) = {}
                /\ UNCHANGED <<expected_body_size, chunked_transfer>>
                /\ parsed' = TRUE
             \/ /\ length = Nothing
                /\ chunked_transfer' = chunked
                /\ UNCHANGED expected_body_size
                /\ parsed' = (chunked => BodyEnds(body', 0, TRUE))
      BY <2>4 DEF ParseHeaderEnd
    <3>2. chunked_transfer = FALSE /\ expected_body_size = 0
      BY <3>1 DEF Interpreted
    <3>3. Len(body') \in Nat
      BY <1>0 DEF Buffers
    <3> HIDE DEF length, chunked
    <3>4. /\ expected_body_size' = SizeOf(length)
          /\ ~chunked_transfer' => (parsed' <=> Len(body') >= expected_body_size')
          /\ chunked_transfer' \in BOOLEAN /\ parsed' \in BOOLEAN
      <4>1. CASE /\ expected_body_size' \in BodySize(length)
                 /\ UNCHANGED chunked_transfer
                 /\ parsed' = BodyEnds(body', expected_body_size', FALSE)
        <5>1. expected_body_size' = SizeOf(length)
          BY <4>1, OneSize
        <5>2. parsed' \in BOOLEAN /\ (parsed' <=> Len(body') >= expected_body_size')
          BY <4>1, EndsOrNot
        <5> QED
          BY <3>2, <4>1, <5>1, <5>2
      <4>2. CASE /\ BodySize(length) = {}
                 /\ UNCHANGED <<expected_body_size, chunked_transfer>>
                 /\ parsed' = TRUE
        <5>1. SizeOf(length) = 0 /\ Len(body') >= 0
          BY <3>3, <4>2 DEF SizeOf
        <5> QED
          BY <3>2, <4>2, <5>1
      <4>3. CASE /\ length = Nothing
                 /\ chunked_transfer' = chunked
                 /\ UNCHANGED expected_body_size
                 /\ parsed' = (chunked => BodyEnds(body', 0, TRUE))
        <5>1. expected_body_size' = 0 /\ SizeOf(length) = 0
          BY <3>2, <4>3, OneSize DEF SizeOf
        <5>2. chunked \in BOOLEAN
          BY DEF chunked
        <5>3. CASE chunked
          BY <3>3, <4>3, <5>1, <5>2, <5>3, EndsOrNot
        <5>4. CASE ~chunked
          <6>1. parsed' = TRUE
            BY <4>3, <5>4, Zenon
          <6>2. Len(body') >= 0
            BY <3>3
          <6> QED
            BY <4>3, <5>1, <5>2, <6>1, <6>2
        <5> QED
          BY <5>3, <5>4
      <4> QED
        BY <3>1, <4>1, <4>2, <4>3
    <3> QED
      BY <2>1, <3>1, <3>4 DEF Interpreted, length
  <2>5. CASE ParseBody(chunk)
    <3>1. /\ header_complete /\ header' = header /\ UNCHANGED line_vars
          /\ parsed' = BodyEnds(body', expected_body_size, chunked_transfer)
      BY <2>5 DEF ParseBody
    <3>2. /\ request' = request /\ headers' = headers /\ header_complete' = header_complete
          /\ chunked_transfer' = chunked_transfer
          /\ expected_body_size' = expected_body_size
      BY <3>1 DEF line_vars
    <3>3. /\ parsed' \in BOOLEAN
          /\ ~chunked_transfer => (parsed' <=> Len(body') >= expected_body_size)
      <4>1. chunked_transfer \in BOOLEAN
        BY DEF Interpreted
      <4> QED
        BY <3>1, <4>1, EndsOrNot
    <3> QED
      BY <2>1, <3>1, <3>2, <3>3 DEF Interpreted
  <2> QED
    BY <2>2, <2>3, <2>4, <2>5
<1>2. CASE UNCHANGED vars
  BY <1>2 DEF vars, line_vars, Interpreted
<1> QED
  BY <1>1, <1>2 DEF Next

\* A header is a text, and so is every part of it that is cut out.
LEMMA InterpretedTexts == Buffers /\ Interpreted => TypeOK
<1> SUFFICES ASSUME Buffers, Interpreted PROVE TypeOK
  OBVIOUS
<1> DEFINE line_end == Find(header, CRLF, 1)
<1>1. header \in Seq(Bytes)
  BY DEF Buffers
<1>2. line_end \in Nat /\ line_end <= Len(header) + 1 /\ line_end + 1 \in Nat
      /\ line_end + 1 <= Len(header) + 1
  BY <1>1, FindBreak
<1>3. Before(header, line_end) \in Seq(Bytes) /\ After(header, line_end + 1) \in Seq(Bytes)
  <2> HIDE DEF line_end
  <2> QED
    BY <1>1, <1>2, AroundTexts
<1>4. RequestTexts(request) /\ Texts(headers)
  <2>1. CASE header_complete
    <3> HIDE DEF line_end
    <3>1. /\ request = ParseRequestLine(Before(header, line_end))
          /\ headers = ParseHeaderFields(After(header, line_end + 1))
      BY <2>1 DEF Interpreted, line_end
    <3> QED
      BY <1>3, <3>1, LineTexts, FieldsTexts
  <2>2. CASE ~header_complete
    BY <2>2, NothingTexts DEF Interpreted, RequestTexts, Unparsed
  <2> QED
    BY <2>1, <2>2
<1>5. expected_body_size \in Nat
  BY OneSize DEF Interpreted, Buffers
<1>6. \A dictionary \in {request.query, headers} : Texts(dictionary)
  BY <1>4 DEF RequestTexts
<1> QED
  BY <1>4, <1>5, <1>6 DEF TypeOK, Buffers, Interpreted, RequestTexts, Texts

\* A new parser.
LEMMA InitParser == Init => Buffers /\ Split /\ Interpreted
<1> SUFFICES ASSUME Init PROVE Buffers /\ Split /\ Interpreted
  OBVIOUS
<1>1. stream \in Seq(Bytes) /\ Len(stream) \in Nat
  BY ParserAssumption DEF Init
<1>2. /\ consumed = 0 /\ header = <<>> /\ body = <<>> /\ header_complete = FALSE
  BY DEF Init, Nothing
<1>3. <<>> \in Seq(Bytes) /\ Len(<<>>) = 0 /\ <<>> \o <<>> = <<>>
  BY EmptySeq, ConcatEmptySeq
<1>4. Received = <<>>
  BY <1>2, SubSeqEmpty DEF Received
<1>5. HeaderEnds(header) = {}
  BY <1>2, <1>3, DelimiterLength DEF HeaderEnds
<1>6. Buffers
  <2>1. header_complete \in BOOLEAN
    BY <1>2, Zenon
  <2>2. consumed \in 0 .. Len(stream) /\ header \in Seq(Bytes) /\ body \in Seq(Bytes)
    BY <1>1, <1>2, <1>3
  <2> QED
    BY <1>1, <2>1, <2>2 DEF Buffers
<1>7. header \o body = Received
  BY <1>2, <1>3, <1>4
<1>8. Split
  BY <1>2, <1>5, <1>7 DEF Split
<1>9. Interpreted
  BY DEF Init, Interpreted
<1> QED
  BY <1>6, <1>8, <1>9

-----------------------------------------------------------------------------
(* The theorems *)

\* However the input is cut, header and body are split where the first delimiter
\* ends, and no byte is lost or doubled.
THEOREM SplitSafety == Spec => []SplitAtHeaderEnd
<1>1. Buffers /\ Split => SplitAtHeaderEnd
  <2> SUFFICES ASSUME Buffers, Split PROVE SplitAtHeaderEnd
    OBVIOUS
  <2>1. CASE ~header_complete
    <3>1. Received = header /\ HeaderEnds(header) = {}
      BY <2>1, ConcatEmptySeq DEF Buffers, Split
    <3> QED
      BY <2>1, <3>1 DEF Buffers, Split, SplitAtHeaderEnd
  <2>2. CASE header_complete
    <3>1. /\ header \o body = Received /\ Len(header) \in HeaderEnds(Received)
          /\ \A n \in HeaderEnds(Received) : Len(header) <= n
      BY <2>2 DEF Split
    <3>2. HeaderEnds(Received) \in SUBSET Nat
      BY DelimiterLength DEF HeaderEnds
    <3>3. /\ Min(HeaderEnds(Received)) \in HeaderEnds(Received)
          /\ Min(HeaderEnds(Received)) <= Len(header)
      BY <3>1, <3>2, MinLeast
    <3>4. Len(header) = Min(HeaderEnds(Received))
      BY <3>1, <3>2, <3>3
    <3> QED
      BY <2>2, <3>1, <3>4 DEF Buffers, SplitAtHeaderEnd
  <2> QED
    BY <2>1, <2>2 DEF Buffers
<1> QED
  BY <1>1, InitParser, SplitStep, PTL DEF Spec

\* What the parser and its request hold has its type, and a length is never
\* negative.
THEOREM TypeSafety == Spec => []TypeOK
BY InitParser, SplitStep, InterpretedStep, InterpretedTexts, PTL DEF Spec

\* The length a complete header gave the body is the announced one.
LEMMA HeaderLength ==
  ASSUME Buffers, Split, Interpreted, header_complete
  PROVE  expected_body_size = AnnouncedLength
<1> DEFINE end      == Len(header)
           line_end == Find(header, CRLF, 1)
           place    == line_end + 1
           text     == After(header, place)
           first    == LengthLines(stream, 1 + place, end)
           Lines    == LengthLines(stream, 3, end)
           length   == GetHeader(headers, "Content-Length")
<1>1. /\ stream \in Seq(Bytes) /\ header \in Seq(Bytes) /\ Len(stream) \in Nat
      /\ consumed \in 0 .. Len(stream)
  BY DEF Buffers
<1>2. /\ end \in 4 .. consumed /\ Break(stream, end - 3) /\ Break(stream, end - 1)
      /\ \A i \in 1 .. end : header[i] = stream[i]
      /\ end \in HeaderEnds(stream) /\ \A m \in HeaderEnds(stream) : end <= m
  BY HeaderEnd
<1>3. /\ headers = ParseHeaderFields(text)
      /\ expected_body_size = SizeOf(length)
  BY DEF Interpreted
<1>4. \/ line_end = 0 /\ \A i \in 1 .. end - 1 : ~Break(header, i)
      \/ /\ line_end \in 1 .. end - 1 /\ Break(header, line_end)
         /\ \A i \in 1 .. line_end - 1 : ~Break(header, i)
  BY <1>1, FindBreak
<1> HIDE DEF end, line_end
<1>5. end \in Nat /\ end >= 4 /\ end <= Len(stream) /\ end \in 4 .. Len(stream)
  BY <1>1, <1>2
<1>6. \A i \in 1 .. end - 1 : Break(header, i) <=> Break(stream, i)
  <2> SUFFICES ASSUME NEW i \in 1 .. end - 1
               PROVE  Break(header, i) <=> Break(stream, i)
    OBVIOUS
  <2>1. i \in 1 .. end /\ i + 1 \in 1 .. end
    BY <1>5
  <2> QED
    BY <1>2, <2>1 DEF Break
<1>7. line_end \in 1 .. end - 3 /\ Break(stream, line_end)
      /\ \A i \in 1 .. line_end - 1 : ~Break(stream, i)
  <2>1. Break(header, end - 3) /\ end - 3 \in 1 .. end - 1
    <3>1. end - 3 \in 1 .. end - 1
      BY <1>5
    <3> QED
      BY <1>2, <1>6, <3>1
  <2>2. line_end \in 1 .. end - 1 /\ ~(end - 3 < line_end)
    BY <1>4, <1>5, <2>1
  <2>3. line_end \in 1 .. end - 3
    BY <1>5, <2>2
  <2>4. \A i \in 1 .. line_end - 1 : i \in 1 .. end - 1
    BY <1>5, <2>3
  <2> QED
    BY <1>4, <1>6, <2>2, <2>3, <2>4
<1>8. line_end \in Nat /\ place \in 2 .. end - 2 /\ 1 + place = line_end + 2 /\ place \in Nat
  BY <1>5, <1>7
<1>9. /\ text \in Seq(Bytes) /\ Len(text) = end - place
      /\ \A k \in 1 .. Len(text) : text[k] = stream[k + place]
  <2>1. /\ place + 1 \in Nat \ {0} /\ end \in 0 .. Len(header) /\ end >= (place + 1) - 1
        /\ end - (place + 1) + 1 = end - place
    <3>1. end = Len(header)
      BY DEF end
    <3> QED
      BY <1>5, <1>8, <3>1
  <2>2. text = SubSeq(header, place + 1, end)
    BY DEF After, end
  <2>3. /\ SubSeq(header, place + 1, end) \in Seq(Bytes)
        /\ Len(SubSeq(header, place + 1, end)) = end - (place + 1) + 1
        /\ \A k \in 1 .. end - (place + 1) + 1 :
             SubSeq(header, place + 1, end)[k] = header[(place + 1) + k - 1]
    BY <1>1, <2>1, SliceSize
  <2>4. \A k \in 1 .. end - place : (place + 1) + k - 1 = k + place /\ k + place \in 1 .. end
    BY <1>5, <1>8
  <2> HIDE DEF text, place
  <2>5. ASSUME NEW k \in 1 .. end - place PROVE text[k] = stream[k + place]
    BY <1>2, <2>1, <2>2, <2>3, <2>4
  <2> QED
    BY <2>1, <2>2, <2>3, <2>5
<1>10. \A p \in 3 .. end - 1 : LineStart(stream, p) /\ Break(stream, p) => p = end - 1
  <2> SUFFICES ASSUME NEW p \in 3 .. end - 1, LineStart(stream, p), Break(stream, p)
               PROVE  p = end - 1
    OBVIOUS
  <2>1. /\ p + 1 \in 4 .. Len(stream) /\ (p + 1) - 3 = p - 2 /\ (p + 1) - 1 = p
        /\ (p + 1) - 4 + 1 = (p + 1) - 3
    BY <1>5
  <2>2. SubSeq(stream, (p + 1) - 3, p + 1) = Delimiter
    <3>1. Break(stream, (p + 1) - 3) /\ Break(stream, (p + 1) - 1)
      BY <2>1 DEF LineStart
    <3>2. p + 1 \in 4 .. Len(stream)
      BY <2>1
    <3> QED
      BY ONLY <1>1, <3>1, <3>2, DelimiterBreaks
  <2>3. p + 1 \in HeaderEnds(stream)
    BY <2>1, <2>2, DelimiterLength DEF HeaderEnds
  <2>4. end <= p + 1
    BY <1>2, <2>3
  <2> QED
    BY <1>5, <2>4
<1>11. PICK Rest : Reads(Rest, text) /\ ParseHeaderFields(text) = Rest[1]
  BY <1>9, FieldsLoop
<1> HIDE DEF text, place
<1>12. /\ <<"Content-Length">> \in DOMAIN headers <=> first # {}
       /\ first # {} => headers[<<"Content-Length">>] = ValueAt(stream, Max(first))
  <2>1. \A i \in 1 .. Len(text) - 1 :
          LineStart(stream, i + place) =>
            LastLength(Rest[i], stream, LengthLines(stream, i + place, end))
    <3>1. Reads(Rest, text)
      BY <1>11
    <3>2. Break(stream, end - 3) /\ Break(stream, end - 1)
      BY <1>2
    <3>3. stream \in Seq(Bytes) /\ end \in 4 .. Len(stream) /\ place \in 2 .. end - 2
      BY <1>1, <1>5, <1>8
    <3> HIDE DEF first, Lines, length
    <3> QED
      BY ONLY <1>9, <1>10, <3>1, <3>2, <3>3, LengthsFrom
  <2>2. 1 \in 1 .. Len(text) - 1
    BY <1>5, <1>8, <1>9
  <2>3. LineStart(stream, 1 + place)
    <3>1. (1 + place) - 2 = line_end /\ 1 + place >= 3
      BY <1>7, <1>8
    <3> QED
      BY <1>7, <3>1 DEF LineStart
  <2> HIDE DEF first
  <2>4. LastLength(Rest[1], stream, first)
    BY <2>1, <2>2, <2>3 DEF first
  <2> QED
    BY <1>3, <1>11, <2>4 DEF LastLength
<1>13. first = Lines
  <2>1. ASSUME NEW i \in Lines PROVE i \in first
    <3>1. i \in 3 .. end /\ LineStart(stream, i)
      BY DEF LengthLines
    <3>2. Break(stream, i - 2) /\ i - 2 \in Nat /\ i - 2 >= 1 /\ i \in Nat
      BY <1>5, <3>1 DEF LineStart
    <3>3. ~(i - 2 < line_end)
      BY <1>7, <1>8, <3>2
    <3>4. i \in 1 + place .. end
      BY <1>5, <1>8, <3>1, <3>2, <3>3
    <3> QED
      BY <3>4 DEF LengthLines
  <2>2. ASSUME NEW i \in first PROVE i \in Lines
    <3>1. i \in 1 + place .. end
      BY DEF LengthLines
    <3>2. i \in 3 .. end
      BY <1>5, <1>7, <1>8, <3>1
    <3> QED
      BY <3>2 DEF LengthLines
  <2> HIDE DEF first, Lines
  <2> QED
    BY <2>1, <2>2
<1>14. end = Min(HeaderEnds(stream))
  <2>1. HeaderEnds(stream) \in SUBSET Nat /\ HeaderEnds(stream) # {}
    <3>1. HeaderEnds(stream) \in SUBSET Nat
      BY <1>1, DelimiterLength DEF HeaderEnds
    <3> QED
      BY <1>2, <3>1
  <2>2. /\ Min(HeaderEnds(stream)) \in HeaderEnds(stream)
        /\ \A m \in HeaderEnds(stream) : Min(HeaderEnds(stream)) <= m
    BY <2>1, MinLeast
  <2>3. /\ Min(HeaderEnds(stream)) \in Nat /\ Min(HeaderEnds(stream)) <= end
        /\ end <= Min(HeaderEnds(stream))
    BY <1>2, <2>1, <2>2
  <2> QED
    BY <1>5, <2>3
<1>15. AnnouncedLength = IF Lines = {} THEN 0 ELSE SizeOf(ValueAt(stream, Max(Lines)))
  BY <1>5, <1>14, AnnouncedSize
<1> HIDE DEF first, Lines
<1>16. length = IF Lines = {} THEN Nothing ELSE ValueAt(stream, Max(Lines))
  BY <1>12, <1>13 DEF GetHeader
<1>17. SizeOf(Nothing) = 0
  BY OneSize DEF SizeOf
<1> QED
  BY <1>3, <1>15, <1>16, <1>17

\* What parse answers is right.
LEMMA InterpretedMessage == Buffers /\ Split /\ Interpreted => MessageRecognised
<1> SUFFICES ASSUME Buffers, Split, Interpreted, ~chunked_transfer, HeaderEnds(stream) # {}
             PROVE  parsed = (consumed >= Min(HeaderEnds(stream)) + AnnouncedLength)
  BY DEF MessageRecognised
<1> DEFINE end == Min(HeaderEnds(stream))
<1>1. /\ stream \in Seq(Bytes) /\ Len(stream) \in Nat /\ consumed \in 0 .. Len(stream)
      /\ header \in Seq(Bytes) /\ body \in Seq(Bytes) /\ parsed \in BOOLEAN
  BY DEF Buffers, Interpreted
<1>2. HeaderEnds(stream) \in SUBSET Nat
  BY <1>1, DelimiterLength DEF HeaderEnds
<1>3. end \in HeaderEnds(stream) /\ \A m \in HeaderEnds(stream) : end <= m
  BY <1>2, MinLeast
<1>4. end \in Nat /\ end >= 4 /\ end <= Len(stream)
  BY <1>1, <1>3, DelimiterLength DEF HeaderEnds
<1> HIDE DEF end
<1>5. AnnouncedLength \in Nat
  <2>1. AnnouncedLength
          = IF LengthLines(stream, 3, end) = {} THEN 0
            ELSE SizeOf(ValueAt(stream, Max(LengthLines(stream, 3, end))))
    BY <1>4, AnnouncedSize DEF end
  <2> QED
    BY <2>1, OneSize
<1>6. parsed <=> consumed >= end + AnnouncedLength
  <2>1. CASE ~header_complete
    <3>1. ~parsed /\ HeaderEnds(header) = {} /\ body = <<>> /\ header \o body = Received
      BY <2>1 DEF Interpreted, Split
    <3>2. Received = header
      BY <1>1, <3>1, ConcatEmptySeq
    <3>3. ~(consumed >= end)
      <4> SUFFICES ASSUME consumed >= end PROVE FALSE
        OBVIOUS
      <4> DEFINE rest == SubSeq(stream, consumed + 1, Len(stream))
      <4>1. Received \o rest = stream
        <5>1. /\ 1 \in 1 .. Len(stream) + 1 /\ consumed \in 1 - 1 .. Len(stream)
              /\ Len(stream) \in consumed .. Len(stream)
          BY <1>1
        <5>2. Received \o rest = SubSeq(stream, 1, Len(stream))
          BY <1>1, <5>1, ConcatAdjacentSubSeq DEF Received
        <5> QED
          BY <1>1, <5>2, SubSeqFull
      <4>2. rest \in Seq(Bytes)
        <5>1. consumed + 1 \in Nat \ {0} /\ Len(stream) \in 0 .. Len(stream)
          BY <1>1
        <5> QED
          BY <1>1, <5>1, Slice
      <4>3. Received \in Seq(Bytes) /\ Len(Received) = consumed
        <5>1. /\ 1 \in Nat \ {0} /\ consumed >= 1 - 1 /\ consumed - 1 + 1 = consumed
          BY <1>1
        <5> QED
          BY <1>1, <5>1, SliceSize DEF Received
      <4>4. end \in 1 .. Len(Received)
        BY <1>1, <1>4, <4>3
      <4> HIDE DEF rest
      <4>5. end \in HeaderEnds(Received)
        BY <1>3, <4>1, <4>2, <4>3, <4>4, EndsInPrefix
      <4> QED
        BY <3>1, <3>2, <4>5
    <3> QED
      BY <1>1, <1>4, <1>5, <3>1, <3>3
  <2>2. CASE header_complete
    <3>1. parsed <=> Len(body) >= expected_body_size
      BY <2>2 DEF Interpreted
    <3>2. expected_body_size = AnnouncedLength
      BY <2>2, HeaderLength
    <3>3. /\ Len(header) \in HeaderEnds(stream)
          /\ \A m \in HeaderEnds(stream) : Len(header) <= m
          /\ consumed = Len(header) + Len(body)
      BY <2>2, HeaderEnd
    <3>4. Len(header) = end /\ Len(body) \in Nat
      <4>1. Len(header) \in Nat /\ Len(header) <= end /\ end <= Len(header)
        BY <1>1, <1>3, <3>3
      <4> QED
        BY <1>1, <1>4, <4>1
    <3> QED
      BY <1>4, <1>5, <3>1, <3>2, <3>3, <3>4
  <2> QED
    BY <2>1, <2>2
<1>7. (consumed >= end + AnnouncedLength) \in BOOLEAN
  BY <1>1, <1>4, <1>5
<1> DEFINE late == consumed >= end + AnnouncedLength
<1>8. late \in BOOLEAN /\ parsed \in BOOLEAN /\ (parsed <=> late)
  BY <1>1, <1>6, <1>7
<1> HIDE DEF late
<1>9. parsed = late
  BY ONLY <1>8, Zenon
<1> QED
  BY <1>9 DEF late, end

\* parse returns true with the chunk that brings the last byte of a message whose
\* length is announced, never sooner or later, however the message is cut.
THEOREM MessageSafety == Spec => []MessageRecognised
BY InitParser, SplitStep, InterpretedStep, InterpretedMessage, PTL DEF Spec

\* The address of a complete header is the one of its first line.
LEMMA InterpretedUri == Buffers /\ Split /\ Interpreted => UriUnderstood
<1> SUFFICES ASSUME Buffers, Split, Interpreted, header_complete PROVE UriUnderstood
  BY DEF UriUnderstood
<1> DEFINE line_end == Find(header, CRLF, 1)
           line     == Until(header, {"CR"})
           first    == Len(Until(line, {"SP"}))
           uri      == Until(After(line, first + 1), {"SP"})
<1>1. header \in Seq(Bytes)
  BY DEF Buffers
<1>2. CASE line_end # 0
  <2>1. line_end \in 1 .. Len(header) - 1 /\ header[line_end] = "CR"
    BY <1>1, <1>2, FindBreak DEF Break
  <2>2. request = ParseRequestLine(Before(header, line_end))
    BY DEF Interpreted
  <2> HIDE DEF line_end
  <2>3. line_end \in 1 .. Len(header)
    BY <1>1, <2>1
  <2>4. first + Len(uri) + 1 < Len(line) =>
          /\ uri \in Seq(Bytes)
          /\ request.path = ParseUri(uri).path
          /\ request.fragment = ParseUri(uri).fragment
          /\ request.query = ParseUri(uri).query
    BY <1>1, <2>1, <2>2, <2>3, LineSplit
  <2>5. ASSUME first + Len(uri) + 1 < Len(line)
        PROVE  /\ request.path = Until(uri, {"?", "#"})
               /\ request.fragment = After(uri, Len(Until(uri, {"#"})) + 1)
               /\ request.query = Dictionary(After(Until(uri, {"#"}),
                                                   Len(Until(uri, {"?", "#"})) + 1))
    <3> HIDE DEF line, first, uri
    <3> QED
      BY <2>4, <2>5, UriSplit
  <2> QED
    BY <2>5 DEF UriUnderstood
<1>3. CASE line_end = 0
  <2>1. \A i \in 1 .. Len(header) - 1 : ~Break(header, i)
    BY <1>1, <1>3, FindBreak
  <2> DEFINE n == Len(header)
  <2>2. n \in Nat /\ n >= 4 /\ (\A i \in 1 .. n : header[i] = stream[i]) /\ Break(stream, n - 1)
    BY HeaderEnd DEF Buffers
  <2>3. Break(header, n - 1)
    <3> HIDE DEF n
    <3>1. n - 1 \in 1 .. n /\ (n - 1) + 1 \in 1 .. n
      BY <2>2
    <3> QED
      BY <2>2, <3>1 DEF Break
  <2> QED
    BY <2>1, <2>2, <2>3
<1> QED
  BY <1>2, <1>3

\* A handler is told the path, query and fragment that the address of the request
\* line has.
THEOREM UriSafety == Spec => []UriUnderstood
BY InitParser, SplitStep, InterpretedStep, InterpretedUri, PTL DEF Spec

=============================================================================
