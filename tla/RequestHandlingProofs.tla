----------------------- MODULE RequestHandlingProofs ------------------------
(***************************************************************************)
(* Proofs about RequestHandling, for any paths, routes, files and bytes:   *)
(* what the search among the routes finds, in which order a header is      *)
(* written, and that what the server answers by itself is well formed.     *)
(***************************************************************************)
EXTENDS RequestHandling, SequenceTheorems, WellFoundedInduction, TLAPS

\* Among natural numbers there is a least one.
LEMMA LeastExists ==
  ASSUME NEW S \in SUBSET Nat, S # {}
  PROVE  \E n \in S : \A m \in S : n <= m
<1>1. PICK n \in S : \A m \in S : <<m, n>> \notin OpToRel(<, Nat)
  BY NatLessThanWellFounded, WFMin, Zenon
<1>2. \A m \in S : ~(m < n)
  BY <1>1 DEF OpToRel
<1> QED
  BY <1>2

-----------------------------------------------------------------------------
(* The search among the routes *)

\* std::less is total: the first place where two keys differ, or the end of
\* the shorter one, decides.
LEMMA LessTotal ==
  ASSUME NEW s \in Seq(Nat), NEW t \in Seq(Nat), s # t
  PROVE  Less(s, t) \/ Less(t, s)
<1> DEFINE Differ == {i \in Nat : /\ i >= 1
                                  /\ \/ i > Len(s) \/ i > Len(t)
                                     \/ s[i] # t[i]}
<1>1. Len(s) \in Nat /\ Len(t) \in Nat
  OBVIOUS
<1>2. Len(s) + 1 \in Differ
  BY <1>1
<1>3. PICK i \in Differ : \A j \in Differ : i <= j
  BY <1>2, LeastExists
<1>4. i \in Nat /\ i >= 1 /\ \A j \in 1 .. i - 1 : j <= Len(s) /\ j <= Len(t) /\ s[j] = t[j]
  BY <1>1, <1>3
<1> DEFINE n == i - 1
<1>5. n \in Nat /\ n <= Len(s) /\ n <= Len(t) /\ i = n + 1
  BY <1>1, <1>4
<1>6. SubSeq(s, 1, n) = SubSeq(t, 1, n)
  <2> DEFINE a == SubSeq(s, 1, n)
             b == SubSeq(t, 1, n)
  <2>1. /\ a \in Seq(Nat) /\ b \in Seq(Nat) /\ Len(a) = n /\ Len(b) = n
        /\ \A j \in 1 .. n : a[j] = s[j] /\ b[j] = t[j]
    BY <1>1, <1>5, SMTT(60)
  <2> HIDE DEF a, b
  <2>2. a = b
    <3>1. \A j \in 1 .. Len(a) : a[j] = b[j]
      BY <1>4, <2>1
    <3> QED
      BY <2>1, <3>1, SeqEqual
  <2> QED
    BY <2>2 DEF a, b
<1> HIDE DEF n
<1>7. CASE n = Len(s) /\ n < Len(t)
  BY <1>1, <1>5, <1>6, <1>7, SMTT(60) DEF Less
<1>8. CASE n = Len(t) /\ n < Len(s)
  <2>1. /\ n \in 0 .. Len(t) /\ n < Len(s)
        /\ SubSeq(t, 1, n) = SubSeq(s, 1, n) /\ n = Len(t)
    BY <1>1, <1>5, <1>6, <1>8
  <2>2. Less(t, s)
    BY <2>1, Zenon DEF Less
  <2> QED
    BY <2>2
<1>9. CASE n = Len(s) /\ n = Len(t)
  <2>1. \A j \in 1 .. Len(s) : s[j] = t[j]
    BY <1>4, <1>5, <1>9 DEF n
  <2> QED
    BY <1>1, <1>9, <2>1, SeqEqual
<1>10. CASE n < Len(s) /\ n < Len(t)
  <2>1. s[n + 1] # t[n + 1] /\ s[n + 1] \in Nat /\ t[n + 1] \in Nat
    BY <1>1, <1>3, <1>5, <1>10
  <2>2. CASE s[n + 1] < t[n + 1]
    BY <1>1, <1>5, <1>6, <1>10, <2>2 DEF Less
  <2>3. CASE t[n + 1] < s[n + 1]
    BY <1>1, <1>5, <1>6, <1>10, <2>3 DEF Less
  <2> QED
    BY <2>1, <2>2, <2>3
<1> QED
  BY <1>1, <1>5, <1>7, <1>8, <1>9, <1>10

\* A prefix is never above what it begins.
LEMMA PrefixNotAbove ==
  ASSUME NEW s \in Seq(Nat), NEW t \in Seq(Nat), IsPrefix(s, t)
  PROVE  ~Less(t, s)
<1> SUFFICES ASSUME NEW n \in 0 .. Len(t), n < Len(s),
                    n = Len(t) \/ t[n + 1] < s[n + 1]
             PROVE  FALSE
  BY DEF Less
<1>1. /\ Len(s) \in Nat /\ Len(t) \in Nat /\ Len(s) <= Len(t)
      /\ SubSeq(s, 1, Len(s)) = SubSeq(t, 1, Len(s))
  BY DEF IsPrefix
<1>2. n + 1 \in 1 .. Len(s) /\ t[n + 1] < s[n + 1]
  BY <1>1
<1>3. s[n + 1] = t[n + 1]
  BY <1>1, <1>2
<1>4. s[n + 1] \in Nat
  BY <1>2
<1> QED
  BY <1>2, <1>3, <1>4

\* A prefix of a path has the characters of the path.
LEMMA PrefixElements ==
  ASSUME NEW s \in Seq(Nat), NEW path \in Seq(Nat), IsPrefix(s, path)
  PROVE  \A j \in 1 .. Len(s) : s[j] = path[j]
<1>1. /\ Len(s) \in Nat /\ Len(path) \in Nat /\ Len(s) <= Len(path)
      /\ SubSeq(s, 1, Len(s)) = SubSeq(path, 1, Len(s))
  BY DEF IsPrefix
<1> DEFINE first == SubSeq(path, 1, Len(s))
<1>2. s = first
  BY <1>1, SubSeqFull
<1>3. \A j \in 1 .. Len(path) : path[j] \in Nat
  OBVIOUS
<1>4. \A j \in 1 .. Len(s) - 1 + 1 : first[j] = path[1 + j - 1]
  BY <1>1, <1>3, SubSeqProperties
<1> HIDE DEF first
<1>5. \A j \in 1 .. Len(s) : j \in 1 .. Len(s) - 1 + 1 /\ 1 + j - 1 = j
  BY <1>1
<1>6. \A j \in 1 .. Len(s) : first[j] = path[j]
  BY ONLY <1>4, <1>5
<1> QED
  BY ONLY <1>2, <1>6

\* Of two prefixes of one path the shorter is below the longer.
LEMMA ShorterPrefixBelow ==
  ASSUME NEW s \in Seq(Nat), NEW t \in Seq(Nat), NEW path \in Seq(Nat),
         IsPrefix(s, path), IsPrefix(t, path), Len(s) < Len(t)
  PROVE  Less(s, t)
<1>1. /\ Len(s) \in Nat /\ Len(t) \in Nat /\ Len(path) \in Nat
      /\ Len(s) <= Len(path) /\ Len(t) <= Len(path)
      /\ SubSeq(s, 1, Len(s)) = SubSeq(path, 1, Len(s))
      /\ SubSeq(t, 1, Len(t)) = SubSeq(path, 1, Len(t))
  BY DEF IsPrefix
<1>2. \A j \in 1 .. Len(s) : s[j] = t[j]
  <2>1. \A j \in 1 .. Len(s) : s[j] = path[j]
    BY PrefixElements
  <2>2. \A j \in 1 .. Len(t) : t[j] = path[j]
    BY PrefixElements
  <2>3. \A j \in 1 .. Len(s) : j \in 1 .. Len(t)
    BY <1>1
  <2> QED
    BY ONLY <2>1, <2>2, <2>3
<1> DEFINE a == SubSeq(t, 1, Len(s))
<1>3. a \in Seq(Nat) /\ Len(a) = Len(s) /\ \A j \in 1 .. Len(s) : a[j] = t[j]
  <2>1. \A j \in 1 .. Len(s) : t[j] \in Nat
    BY <1>1, SMTT(60)
  <2>2. /\ a \in Seq(Nat)
        /\ Len(a) = IF 1 <= Len(s) THEN Len(s) - 1 + 1 ELSE 0
        /\ \A j \in 1 .. Len(s) - 1 + 1 : a[j] = t[1 + j - 1]
    BY <1>1, <2>1, SubSeqProperties, SMTT(60)
  <2> QED
    BY <1>1, <2>2
<1> HIDE DEF a
<1>4. a = s
  <2>1. \A j \in 1 .. Len(a) : a[j] = s[j]
    BY <1>2, <1>3
  <2> QED
    BY <1>3, <2>1, SeqEqual
<1>5. SubSeq(s, 1, Len(s)) = SubSeq(t, 1, Len(s))
  BY <1>4, SubSeqFull DEF a
<1> QED
  BY <1>1, <1>5, SMTT(60) DEF Less

\* A prefix of a path that is as long is the path.
LEMMA FullPrefix ==
  ASSUME NEW s \in Seq(Nat), NEW t \in Seq(Nat), IsPrefix(s, t), Len(s) = Len(t)
  PROVE  s = t
BY SubSeqFull DEF IsPrefix

\* Looking at the one key before upper_bound is enough to find a path that is
\* registered, and to never prefer a shorter match, for any keys and any order
\* of the characters.
THEOREM LookupFindsLongest ==
  ASSUME NEW keys \in SUBSET Seq(Nat), NEW path \in Seq(Nat)
  PROVE  /\ path \in keys => Lookup(keys, path) = {path}
         /\ \A key \in Lookup(keys, path) :
              /\ key = path \/ path[Len(key) + 1] = Slash \/ key[Len(key)] = Slash
              /\ \A other \in keys : Matches(other, path) => Len(other) <= Len(key)
<1>1. ASSUME path \in keys PROVE Lookup(keys, path) = {path}
  <2>1. IsPrefix(path, path) /\ ~Less(path, path)
    <3>1. IsPrefix(path, path)
      BY DEF IsPrefix
    <3> QED
      BY <3>1, PrefixNotAbove
  <2>2. path \in Lookup(keys, path)
    BY <1>1, <2>1 DEF Lookup, NotAbove, Matches
  <2>3. ASSUME NEW k \in Lookup(keys, path) PROVE k = path
    <3>1. k \in keys /\ ~Less(path, k) /\ ~Less(k, path)
      BY <1>1, <2>1 DEF Lookup, NotAbove
    <3> QED
      BY <3>1, LessTotal
  <2> QED
    BY <2>2, <2>3
<1>2. ASSUME NEW key \in Lookup(keys, path)
      PROVE  /\ key = path \/ path[Len(key) + 1] = Slash \/ key[Len(key)] = Slash
             /\ \A other \in keys : Matches(other, path) => Len(other) <= Len(key)
  <2>1. /\ key \in keys /\ Matches(key, path)
        /\ \A other \in NotAbove(keys, path) : ~Less(key, other)
    BY DEF Lookup, NotAbove
  <2>2. key \in Seq(Nat) /\ IsPrefix(key, path)
    BY <2>1 DEF Matches
  <2>3. ASSUME NEW other \in keys, Matches(other, path) PROVE Len(other) <= Len(key)
    <3>1. other \in Seq(Nat) /\ IsPrefix(other, path) /\ Len(other) \in Nat /\ Len(key) \in Nat
      BY <2>2, <2>3 DEF Matches
    <3>2. ~Less(key, other)
      BY <2>1, <3>1, PrefixNotAbove DEF NotAbove
    <3>3. ~(Len(key) < Len(other))
      BY <2>2, <3>1, <3>2, ShorterPrefixBelow
    <3> QED
      BY <3>1, <3>3
  <2>4. key = path \/ path[Len(key) + 1] = Slash \/ key[Len(key)] = Slash
    BY <2>1, <2>2, FullPrefix DEF Matches
  <2> QED
    BY <2>3, <2>4
<1> QED
  BY <1>1, <1>2

-----------------------------------------------------------------------------
(* The serializer *)

Chars == Bytes \cup {Message[1], Unread}

Responses ==
  [status : {0} \cup 100 .. 599, header : Seq(Parts), announced : SUBSET Nat,
   body : Seq(Chars), status_serialized : BOOLEAN, header_serialized : BOOLEAN]

\* What the flags of a serializer say of the header it has written.
Ordered(s) ==
  /\ InOrder(s)
  /\ s.status_serialized => Len(s.header) >= 2
  /\ s.header_serialized => s.status_serialized /\ Len(s.header) >= 3
  /\ s.status_serialized /\ ~s.header_serialized => Len(s.header) = 2

\* A header whose status is still to be written begins with its version.
Begun(s) == ~s.status_serialized => Len(s.header) = 1

\* The constructor begins a header, whatever the response held.
LEMMA RestartOrdered ==
  ASSUME NEW response_before
  PROVE  /\ Restart(response_before) \in Responses
         /\ Ordered(Restart(response_before)) /\ Begun(Restart(response_before))
<1>1. <<"version">> \in Seq(Parts) /\ <<>> \in Seq(Chars)
  BY DEF Parts
<1> QED
  BY <1>1 DEF Restart, Responses, Ordered, InOrder, Begun

\* One more part at the end of a header.
LEMMA AppendPart ==
  ASSUME NEW header \in Seq(Parts), NEW part \in Parts
  PROVE  /\ Append(header, part) \in Seq(Parts)
         /\ Len(Append(header, part)) = Len(header) + 1
         /\ \A i \in 1 .. Len(header) + 1 :
              Append(header, part)[i] = IF i <= Len(header) THEN header[i] ELSE part
OBVIOUS

\* What each call leaves in the fields.
LEMMA StatusFields ==
  ASSUME NEW s \in Responses, NEW code
  PROVE  /\ Status(s, code).status = code
         /\ Status(s, code).header = Append(s.header, "status")
         /\ Status(s, code).announced = s.announced
         /\ Status(s, code).body = s.body
         /\ Status(s, code).status_serialized = TRUE
         /\ Status(s, code).header_serialized = s.header_serialized
<1>1. Status(s, code).status = code
  BY DEF Status, Responses
<1>2. Status(s, code).header = Append(s.header, "status")
  BY DEF Status, Responses
<1>3. Status(s, code).announced = s.announced
  BY DEF Status, Responses
<1>4. Status(s, code).body = s.body
  BY DEF Status, Responses
<1>5. Status(s, code).status_serialized = TRUE
  BY DEF Status, Responses
<1>6. Status(s, code).header_serialized = s.header_serialized
  BY DEF Status, Responses
<1> QED
  BY <1>1, <1>2, <1>3, <1>4, <1>5, <1>6

\* header announces a length or leaves the one announced before.
LEMMA HeaderFields ==
  ASSUME NEW s \in Responses, NEW announced
  PROVE  /\ Header(s, announced).status = s.status
         /\ Header(s, announced).header = Append(s.header, "field")
         /\ Header(s, announced).announced = IF announced = {} THEN s.announced ELSE announced
         /\ Header(s, announced).body = s.body
         /\ Header(s, announced).status_serialized = s.status_serialized
         /\ Header(s, announced).header_serialized = TRUE
<1>1. Header(s, announced).status = s.status
  BY DEF Header, Responses
<1>2. Header(s, announced).header = Append(s.header, "field")
  BY DEF Header, Responses
<1>3. Header(s, announced).announced = IF announced = {} THEN s.announced ELSE announced
  BY DEF Header, Responses
<1>4. Header(s, announced).body = s.body
  BY DEF Header, Responses
<1>5. Header(s, announced).status_serialized = s.status_serialized
  BY DEF Header, Responses
<1>6. Header(s, announced).header_serialized = TRUE
  BY DEF Header, Responses
<1> QED
  BY <1>1, <1>2, <1>3, <1>4, <1>5, <1>6

\* end_header touches the header only.
LEMMA EndHeaderFields ==
  ASSUME NEW s \in Responses
  PROVE  /\ EndHeader(s).status = s.status
         /\ EndHeader(s).header = Append(s.header, "end")
         /\ EndHeader(s).announced = s.announced
         /\ EndHeader(s).body = s.body
         /\ EndHeader(s).status_serialized = s.status_serialized
         /\ EndHeader(s).header_serialized = s.header_serialized
<1>1. EndHeader(s).status = s.status
  BY DEF EndHeader, Responses
<1>2. EndHeader(s).header = Append(s.header, "end")
  BY DEF EndHeader, Responses
<1>3. EndHeader(s).announced = s.announced
  BY DEF EndHeader, Responses
<1>4. EndHeader(s).body = s.body
  BY DEF EndHeader, Responses
<1>5. EndHeader(s).status_serialized = s.status_serialized
  BY DEF EndHeader, Responses
<1>6. EndHeader(s).header_serialized = s.header_serialized
  BY DEF EndHeader, Responses
<1> QED
  BY <1>1, <1>2, <1>3, <1>4, <1>5, <1>6

\* body touches the body only.
LEMMA BodyFields ==
  ASSUME NEW s \in Responses, NEW content
  PROVE  /\ Body(s, content).status = s.status
         /\ Body(s, content).header = s.header
         /\ Body(s, content).announced = s.announced
         /\ Body(s, content).body = s.body \o content
         /\ Body(s, content).status_serialized = s.status_serialized
         /\ Body(s, content).header_serialized = s.header_serialized
<1>1. Body(s, content).status = s.status
  BY DEF Body, Responses
<1>2. Body(s, content).header = s.header
  BY DEF Body, Responses
<1>3. Body(s, content).announced = s.announced
  BY DEF Body, Responses
<1>4. Body(s, content).body = s.body \o content
  BY DEF Body, Responses
<1>5. Body(s, content).status_serialized = s.status_serialized
  BY DEF Body, Responses
<1>6. Body(s, content).header_serialized = s.header_serialized
  BY DEF Body, Responses
<1> QED
  BY <1>1, <1>2, <1>3, <1>4, <1>5, <1>6

\* status, where it is allowed.
LEMMA StatusOrdered ==
  ASSUME NEW s \in Responses, Ordered(s), Begun(s), NEW code, CanStatus(s, code)
  PROVE  /\ Status(s, code) \in Responses
         /\ Ordered(Status(s, code)) /\ Begun(Status(s, code))
<1> DEFINE header == Append(s.header, "status")
           t == Status(s, code)
<1>1. /\ s.header \in Seq(Parts) /\ Len(s.header) = 1 /\ "status" \in Parts
      /\ code \in 100 .. 599 /\ ~s.header_serialized
  BY DEF Responses, CanStatus, Begun, Parts
<1>2. /\ header \in Seq(Parts) /\ Len(header) = 2
      /\ header[1] = s.header[1] /\ header[2] = "status"
  <2>1. /\ header \in Seq(Parts) /\ Len(header) = Len(s.header) + 1
        /\ \A i \in 1 .. Len(s.header) + 1 :
             header[i] = IF i <= Len(s.header) THEN s.header[i] ELSE "status"
    BY <1>1, AppendPart
  <2> HIDE DEF header
  <2> QED
    BY <1>1, <2>1
<1>3. t \in Responses
  <2>1. header \in Seq(Parts) /\ code \in {0} \cup 100 .. 599
    BY <1>1, <1>2
  <2> QED
    BY <2>1, ZenonT(60) DEF Responses, Status, header
<1>4. /\ t.header = header /\ t.status_serialized /\ ~t.header_serialized
  BY <1>1, StatusFields DEF header
<1> HIDE DEF t, header
<1>5. s.header[1] = "version"
  BY <1>1 DEF Ordered, InOrder
<1>6. InOrder(t)
  <2> SUFFICES ASSUME NEW i \in 1 .. 2
               PROVE  /\ header[i] = "version" <=> i = 1
                      /\ header[i] = "status" <=> i = 2
                      /\ i = 3 => header[i] = "field"
    BY <1>2, <1>4 DEF InOrder
  <2>1. i = 1 \/ i = 2
    OBVIOUS
  <2> QED
    BY <1>2, <1>5, <2>1
<1>7. Ordered(t) /\ Begun(t)
  <2>1. Len(t.header) = 2
    BY <1>2, <1>4
  <2>2. Begun(t)
    BY <1>4 DEF Begun
  <2>3. t.status_serialized => Len(t.header) >= 2
    BY <2>1
  <2>4. t.header_serialized => t.status_serialized /\ Len(t.header) >= 3
    BY <1>4
  <2> QED
    BY <1>6, <2>1, <2>2, <2>3, <2>4 DEF Ordered
<1> QED
  BY <1>3, <1>7 DEF t

\* header, where it is allowed.
LEMMA HeaderOrdered ==
  ASSUME NEW s \in Responses, Ordered(s), CanHeader(s), NEW announced \in SUBSET Nat
  PROVE  /\ Header(s, announced) \in Responses
         /\ Ordered(Header(s, announced)) /\ Begun(Header(s, announced))
<1> DEFINE header == Append(s.header, "field")
           t == Header(s, announced)
           n == Len(s.header)
<1>1. /\ s.header \in Seq(Parts) /\ n \in Nat /\ n >= 2
      /\ "field" \in Parts
  BY DEF Responses, CanHeader, Ordered, Parts
<1>2. /\ header \in Seq(Parts) /\ Len(header) = n + 1
      /\ \A i \in 1 .. n + 1 : header[i] = IF i <= n THEN s.header[i] ELSE "field"
  BY <1>1, AppendPart
<1>3. t \in Responses
  <2> DEFINE length == IF announced = {} THEN s.announced ELSE announced
  <2>1. header \in Seq(Parts) /\ length \in SUBSET Nat
    BY <1>2 DEF Responses
  <2>2. t = [s EXCEPT !.header = header, !.header_serialized = TRUE, !.announced = length]
    BY DEF Header
  <2> HIDE DEF length, header, t
  <2> DEFINE longer == [s EXCEPT !.header = header]
             announcing == [longer EXCEPT !.announced = length]
  <2>3. longer \in Responses
    BY <2>1, ZenonT(60) DEF Responses
  <2> HIDE DEF longer
  <2>4. announcing \in Responses
    BY <2>1, <2>3, ZenonT(60) DEF Responses
  <2>5. t = [announcing EXCEPT !.header_serialized = TRUE]
    BY <2>2 DEF announcing, longer
  <2> HIDE DEF announcing
  <2> QED
    BY <2>4, <2>5, ZenonT(60) DEF Responses
<1>4. t.header = header /\ t.status_serialized /\ t.header_serialized
  BY HeaderFields DEF CanHeader, header
<1> HIDE DEF t, n, header
<1>5. InOrder(t)
  <2>1. \A i \in 1 .. n : /\ s.header[i] = "version" <=> i = 1
                          /\ s.header[i] = "status" <=> i = 2
                          /\ i = 3 => s.header[i] = "field"
    BY DEF Ordered, InOrder, n
  <2> QED
    BY <1>1, <1>2, <1>4, <2>1 DEF InOrder
<1>6. Ordered(t) /\ Begun(t)
  BY <1>1, <1>2, <1>4, <1>5 DEF Ordered, Begun
<1> QED
  BY <1>3, <1>6 DEF t

\* end_header, where it is allowed.
LEMMA EndHeaderOrdered ==
  ASSUME NEW s \in Responses, Ordered(s), CanEndHeader(s)
  PROVE  /\ EndHeader(s) \in Responses
         /\ Ordered(EndHeader(s)) /\ Begun(EndHeader(s))
<1> DEFINE header == Append(s.header, "end")
           t == EndHeader(s)
           n == Len(s.header)
<1>1. /\ s.header \in Seq(Parts) /\ n \in Nat /\ n >= 3
      /\ "end" \in Parts
  BY DEF Responses, CanEndHeader, Ordered, Parts
<1>2. /\ header \in Seq(Parts) /\ Len(header) = n + 1
      /\ \A i \in 1 .. n + 1 : header[i] = IF i <= n THEN s.header[i] ELSE "end"
  BY <1>1, AppendPart
<1>3. t \in Responses
  BY <1>2 DEF Responses, EndHeader, header
<1>4. t.header = header /\ t.status_serialized /\ t.header_serialized
  BY EndHeaderFields DEF CanEndHeader, header
<1> HIDE DEF t, n, header
<1>5. InOrder(t)
  <2>1. \A i \in 1 .. n : /\ s.header[i] = "version" <=> i = 1
                          /\ s.header[i] = "status" <=> i = 2
                          /\ i = 3 => s.header[i] = "field"
    BY DEF Ordered, InOrder, n
  <2> QED
    BY <1>1, <1>2, <1>4, <2>1 DEF InOrder
<1>6. Ordered(t) /\ Begun(t)
  BY <1>1, <1>2, <1>4, <1>5 DEF Ordered, Begun
<1> QED
  BY <1>3, <1>6 DEF t

\* body, which is allowed at any time.
LEMMA BodyOrdered ==
  ASSUME NEW s \in Responses, Ordered(s), Begun(s), NEW content \in Seq(Chars)
  PROVE  /\ Body(s, content) \in Responses
         /\ Ordered(Body(s, content)) /\ Begun(Body(s, content))
<1>1. s.body \o content \in Seq(Chars)
  BY DEF Responses
<1>2. /\ Body(s, content) \in Responses
      /\ Body(s, content).header = s.header
      /\ Body(s, content).status_serialized = s.status_serialized
      /\ Body(s, content).header_serialized = s.header_serialized
  BY <1>1, ZenonT(60) DEF Responses, Body
<1> QED
  BY <1>2 DEF Ordered, InOrder, Begun

\* A header with its status and n fields.
Shape(header, n) ==
  /\ header \in Seq(Parts) /\ Len(header) = n + 2
  /\ header[1] = "version" /\ header[2] = "status"
  /\ \A i \in 3 .. n + 2 : header[i] = "field"

\* The status gives a header without fields.
LEMMA StatusShape ==
  ASSUME NEW header \in Seq(Parts), Len(header) = 1, header[1] = "version"
  PROVE  Shape(Append(header, "status"), 0)
<1> DEFINE longer == Append(header, "status")
<1>1. /\ longer \in Seq(Parts) /\ Len(longer) = Len(header) + 1
      /\ \A i \in 1 .. Len(header) + 1 :
           longer[i] = IF i <= Len(header) THEN header[i] ELSE "status"
  <2>1. "status" \in Parts
    BY DEF Parts
  <2> QED
    BY <2>1, AppendPart
<1> HIDE DEF longer
<1>2. 1 \in 1 .. 2 /\ 2 \in 1 .. 2
  OBVIOUS
<1>3. longer[1] = "version" /\ longer[2] = "status"
  BY <1>1, <1>2
<1> QED
  BY <1>1, <1>3 DEF Shape, longer

\* One more field gives a header with one more.
LEMMA FieldShape ==
  ASSUME NEW header, NEW n \in Nat, Shape(header, n)
  PROVE  Shape(Append(header, "field"), n + 1)
<1> DEFINE longer == Append(header, "field")
<1>1. header \in Seq(Parts) /\ Len(header) = n + 2 /\ "field" \in Parts
  BY DEF Shape, Parts
<1>2. /\ longer \in Seq(Parts) /\ Len(longer) = n + 3
      /\ \A i \in 1 .. n + 3 : longer[i] = IF i <= n + 2 THEN header[i] ELSE "field"
  <2>1. /\ longer \in Seq(Parts) /\ Len(longer) = Len(header) + 1
        /\ \A i \in 1 .. Len(header) + 1 :
             longer[i] = IF i <= Len(header) THEN header[i] ELSE "field"
    BY <1>1, AppendPart
  <2> HIDE DEF longer
  <2>2. Len(header) + 1 = n + 3
    BY <1>1
  <2> QED
    BY <1>1, <2>1, <2>2
<1> HIDE DEF longer
<1>3. longer[1] = "version" /\ longer[2] = "status"
  BY <1>2 DEF Shape
<1>4. \A i \in 3 .. (n + 1) + 2 : longer[i] = "field"
  BY <1>2 DEF Shape
<1> QED
  BY <1>2, <1>3, <1>4 DEF Shape, longer

\* The end after n fields gives a complete header.
LEMMA EndShape ==
  ASSUME NEW header, NEW n \in Nat, Shape(header, n)
  PROVE  Append(header, "end") =
           <<"version", "status">> \o [i \in 1 .. n |-> "field"] \o <<"end">>
<1> DEFINE longer == Append(header, "end")
           first == <<"version", "status">>
           fields == [i \in 1 .. n |-> "field"]
           last == <<"end">>
<1>1. /\ header \in Seq(Parts) /\ Len(header) = n + 2
      /\ {"version", "status", "field", "end"} \subseteq Parts
  BY DEF Shape, Parts
<1>2. /\ longer \in Seq(Parts) /\ Len(longer) = n + 3
      /\ \A i \in 1 .. n + 3 : longer[i] = IF i <= n + 2 THEN header[i] ELSE "end"
  <2>1. /\ longer \in Seq(Parts) /\ Len(longer) = Len(header) + 1
        /\ \A i \in 1 .. Len(header) + 1 :
             longer[i] = IF i <= Len(header) THEN header[i] ELSE "end"
    BY <1>1, AppendPart
  <2> HIDE DEF longer
  <2>2. Len(header) + 1 = n + 3
    BY <1>1
  <2> QED
    BY <1>1, <2>1, <2>2
<1>3. /\ first \in Seq(Parts) /\ Len(first) = 2 /\ first[1] = "version" /\ first[2] = "status"
      /\ last \in Seq(Parts) /\ Len(last) = 1 /\ last[1] = "end"
  BY <1>1
<1>4. /\ fields \in Seq(Parts) /\ Len(fields) = n
      /\ \A i \in 1 .. n : fields[i] = "field"
  BY <1>1
<1> HIDE DEF longer, first, fields, last
<1>5. /\ first \o fields \in Seq(Parts) /\ Len(first \o fields) = 2 + n
      /\ \A i \in 1 .. 2 + n :
           (first \o fields)[i] = IF i <= 2 THEN first[i] ELSE fields[i - 2]
  <2>1. /\ first \o fields \in Seq(Parts) /\ Len(first \o fields) = Len(first) + Len(fields)
        /\ \A i \in 1 .. Len(first) + Len(fields) :
             (first \o fields)[i] = IF i <= Len(first) THEN first[i] ELSE fields[i - Len(first)]
    BY <1>3, <1>4, ConcatProperties, ZenonT(60)
  <2> QED
    BY <1>3, <1>4, <2>1
<1> DEFINE front == first \o fields
<1> HIDE DEF front
<1> DEFINE whole == front \o last
<1>6. /\ whole \in Seq(Parts) /\ Len(whole) = n + 3
      /\ \A i \in 1 .. n + 3 :
           whole[i] = IF i <= n + 2 THEN front[i] ELSE last[i - (n + 2)]
  <2>1. front \in Seq(Parts) /\ Len(front) = n + 2
    BY <1>5 DEF front
  <2>2. /\ whole \in Seq(Parts) /\ Len(whole) = Len(front) + Len(last)
        /\ \A i \in 1 .. Len(front) + Len(last) :
             whole[i] = IF i <= Len(front) THEN front[i] ELSE last[i - Len(front)]
    BY <1>3, <2>1, ConcatProperties
  <2>3. Len(front) + Len(last) = n + 3
    BY <1>3, <2>1
  <2> HIDE DEF whole
  <2> QED
    BY <2>1, <2>2, <2>3
<1> HIDE DEF whole
<1>7. \A i \in 1 .. n + 3 : longer[i] = whole[i]
  <2> TAKE i \in 1 .. n + 3
  <2>1. CASE i = 1 \/ i = 2
    <3>1. longer[i] = header[i] /\ whole[i] = front[i]
      BY <1>2, <1>6, <2>1
    <3>2. front[i] = first[i]
      BY <1>5, <2>1 DEF front
    <3> QED
      BY <1>3, <2>1, <3>1, <3>2 DEF Shape
  <2>2. CASE i \in 3 .. n + 2
    <3>1. longer[i] = "field"
      BY <1>2, <2>2 DEF Shape
    <3>2. i - 2 \in 1 .. n
      BY <2>2
    <3>3. whole[i] = front[i] /\ front[i] = fields[i - 2]
      BY <1>5, <1>6, <2>2 DEF front
    <3> QED
      BY <1>4, <3>1, <3>2, <3>3
  <2>3. CASE i = n + 3
    <3>1. longer[i] = "end"
      BY <1>2, <2>3
    <3>2. whole[i] = last[1]
      BY <1>6, <2>3
    <3> QED
      BY <1>3, <3>1, <3>2
  <2> QED
    BY <2>1, <2>2, <2>3
<1>8. longer = whole
  BY <1>2, <1>6, <1>7, SeqEqual
<1> QED
  BY <1>8 DEF longer, whole, front, first, fields, last

\* What an answer of the server is.
Completed(answer, code, content) ==
  /\ answer \in Responses
  /\ Ordered(answer)
  /\ Begun(answer)
  /\ WellFormed(answer)
  /\ answer.status = code
  /\ answer.body = content

\* The chain of calls every answer of the server is made of is allowed, call by
\* call, and leaves a complete response that announces its own length.
THEOREM CompleteWellFormed ==
  ASSUME NEW response_before, NEW code \in 100 .. 599, NEW content \in Seq(Chars)
  PROVE  Completed(Complete(response_before, code, content), code, content)
<1> DEFINE begun == Restart(response_before)
           status == Status(begun, code)
           type == Header(status, {})
           length == Header(type, {Len(content)})
           fields == Header(length, {})
           ended == EndHeader(fields)
           answer == Body(ended, content)
<1>1. Len(content) \in Nat /\ {} \in SUBSET Nat /\ {Len(content)} \in SUBSET Nat
  OBVIOUS
<1>2. /\ begun \in Responses /\ Ordered(begun) /\ Begun(begun) /\ CanStatus(begun, code)
      /\ begun.body = <<>>
      /\ begun.header \in Seq(Parts) /\ Len(begun.header) = 1 /\ begun.header[1] = "version"
  <2>1. CanStatus(begun, code) /\ begun.body = <<>> /\ begun.header = <<"version">>
    BY DEF CanStatus, Restart
  <2>2. begun \in Responses /\ Ordered(begun) /\ Begun(begun)
    BY RestartOrdered
  <2> HIDE DEF begun
  <2>3. begun.header \in Seq(Parts)
    BY <2>2 DEF Responses
  <2> QED
    BY <2>1, <2>2, <2>3
<1> HIDE DEF begun
<1>3. /\ status \in Responses /\ Ordered(status) /\ CanHeader(status)
      /\ status.status = code /\ status.body = <<>> /\ Shape(status.header, 0)
  <2>1. status \in Responses /\ Ordered(status)
    BY <1>2, StatusOrdered
  <2>2. CanHeader(status)
    BY <1>2, StatusFields DEF CanHeader
  <2>3. status.status = code
    BY <1>2, StatusFields
  <2>4. status.body = <<>>
    BY <1>2, StatusFields
  <2>5. status.header = Append(begun.header, "status")
    BY <1>2, StatusFields
  <2>6. Shape(status.header, 0)
    BY <1>2, <2>5, StatusShape
  <2> QED
    BY <2>1, <2>2, <2>3, <2>4, <2>6
<1> HIDE DEF status
<1>4. /\ type \in Responses /\ Ordered(type) /\ CanHeader(type)
      /\ type.status = code /\ type.body = <<>> /\ Shape(type.header, 1)
  <2>1. type \in Responses /\ Ordered(type)
    BY <1>1, <1>3, HeaderOrdered
  <2>2. CanHeader(type)
    BY <1>3, HeaderFields DEF CanHeader
  <2>3. type.status = code /\ type.body = <<>>
    BY <1>3, HeaderFields
  <2>4. type.header = Append(status.header, "field")
    BY <1>3, HeaderFields
  <2>5. Shape(type.header, 1)
    <3>1. 0 \in Nat /\ 0 + 1 = 1
      OBVIOUS
    <3>2. Shape(type.header, 0 + 1)
      BY <1>3, <2>4, <3>1, FieldShape, Zenon
    <3> QED
      BY <3>1, <3>2
  <2> QED
    BY <2>1, <2>2, <2>3, <2>5
<1> HIDE DEF type
<1>5. /\ length \in Responses /\ Ordered(length) /\ CanHeader(length)
      /\ length.status = code /\ length.body = <<>> /\ Shape(length.header, 2)
      /\ length.announced = {Len(content)}
  <2>1. length \in Responses /\ Ordered(length)
    BY <1>1, <1>4, HeaderOrdered
  <2>2. CanHeader(length)
    BY <1>4, HeaderFields DEF CanHeader
  <2>3. length.status = code /\ length.body = <<>>
    BY <1>4, HeaderFields, ZenonT(60)
  <2>4. length.header = Append(type.header, "field")
    BY <1>4, HeaderFields
  <2>5. Shape(length.header, 2)
    <3>1. 1 \in Nat /\ 1 + 1 = 2
      OBVIOUS
    <3>2. Shape(length.header, 1 + 1)
      BY <1>4, <2>4, <3>1, FieldShape, Zenon
    <3> QED
      BY <3>1, <3>2
  <2>6. length.announced = {Len(content)}
    BY <1>4, HeaderFields, ZenonT(60)
  <2> QED
    BY <2>1, <2>2, <2>3, <2>5, <2>6
<1> HIDE DEF length
<1>6. /\ fields \in Responses /\ Ordered(fields) /\ CanEndHeader(fields)
      /\ fields.status = code /\ fields.body = <<>> /\ Shape(fields.header, 3)
      /\ fields.announced = {Len(content)}
  <2>1. fields \in Responses /\ Ordered(fields)
    BY <1>1, <1>5, HeaderOrdered
  <2>2. CanEndHeader(fields)
    BY <1>5, HeaderFields, ZenonT(60) DEF CanHeader, CanEndHeader
  <2>3. fields.status = code /\ fields.body = <<>>
    BY <1>5, HeaderFields
  <2>4. fields.header = Append(length.header, "field")
    BY <1>5, HeaderFields
  <2>5. Shape(fields.header, 3)
    <3>1. 2 \in Nat /\ 2 + 1 = 3
      OBVIOUS
    <3>2. Shape(fields.header, 2 + 1)
      BY <1>5, <2>4, <3>1, FieldShape, ZenonT(60)
    <3> QED
      BY <3>1, <3>2
  <2>6. fields.announced = {Len(content)}
    BY <1>5, HeaderFields
  <2> QED
    BY <2>1, <2>2, <2>3, <2>5, <2>6
<1> HIDE DEF fields
<1>7. /\ ended \in Responses /\ Ordered(ended) /\ Begun(ended)
      /\ ended.status = code /\ ended.body = <<>> /\ ended.announced = {Len(content)}
      /\ ended.header = Append(fields.header, "end")
  <2>1. ended \in Responses /\ Ordered(ended) /\ Begun(ended)
    BY <1>6, EndHeaderOrdered
  <2>2. ended.status = code /\ ended.body = <<>>
    BY <1>6, EndHeaderFields
  <2>3. ended.announced = {Len(content)}
    BY <1>6, EndHeaderFields
  <2>4. ended.header = Append(fields.header, "end")
    BY <1>6, EndHeaderFields
  <2> QED
    BY <2>1, <2>2, <2>3, <2>4
<1> HIDE DEF ended
<1>8. /\ answer \in Responses /\ Ordered(answer) /\ Begun(answer)
      /\ answer.status = code /\ answer.body = content /\ answer.announced = {Len(content)}
      /\ answer.header = ended.header
  <2>1. answer \in Responses /\ Ordered(answer) /\ Begun(answer)
    BY <1>7, BodyOrdered
  <2>2. answer.status = code
    BY <1>7, BodyFields, ZenonT(60)
  <2>3. answer.announced = {Len(content)}
    BY <1>7, BodyFields
  <2>4. answer.header = ended.header
    BY <1>7, BodyFields, ZenonT(60)
  <2>5. answer.body = ended.body \o content
    BY <1>7, BodyFields, ZenonT(60)
  <2>6. answer.body = content
    BY <1>7, <2>5, ConcatEmptySeq
  <2> QED
    BY <2>1, <2>2, <2>3, <2>4, <2>6
<1>9. answer = Complete(response_before, code, content)
  BY DEF Complete, ended, fields, length, type, status, begun
<1> HIDE DEF answer
<1>10. WellFormed(answer)
  <2>1. answer.header = <<"version", "status">> \o [i \in 1 .. 3 |-> "field"] \o <<"end">>
    BY <1>6, <1>7, <1>8, EndShape
  <2>2. 3 \in 1 .. Len(answer.header)
    <3>1. fields.header \in Seq(Parts) /\ Len(fields.header) = 5 /\ "end" \in Parts
      BY <1>6 DEF Shape, Parts
    <3>2. Len(Append(fields.header, "end")) = Len(fields.header) + 1
      BY <3>1, AppendPart
    <3>3. Len(answer.header) = 6
      BY <1>7, <1>8, <3>1, <3>2
    <3> QED
      BY <3>3
  <2>3. answer.announced = {Len(answer.body)}
    BY <1>8
  <2> QED
    BY <2>1, <2>2, <2>3, Zenon DEF WellFormed
<1>11. Completed(answer, code, content)
  BY <1>8, <1>10 DEF Completed
<1> QED
  BY <1>9, <1>11

-----------------------------------------------------------------------------
(* Routes and files *)

Types ==
  /\ endpoints \in [Methods -> SUBSET Paths]
  /\ nodes \in [Files -> Nodes \cup {NoNode}]
  /\ contents \in [Nodes -> Contents]
  /\ phase \in {"waiting", "endpoint", "created", "sized", "answered", "failed"}
  /\ state \in States
  /\ file_path \in Files \cup {Outside}
  /\ reader \in Nodes \cup {NoNode}
  /\ content_length \in 0 .. MaxSize
  /\ calls \in 0 .. MaxCalls
  /\ author \in {"nobody", "server", "static", "error", "script", "exception"}

\* A handler looks at a file of the server, and reads from a reader that is open.
FileInv ==
  /\ phase \in {"created", "sized"} => file_path \in Files
  /\ phase = "created" /\ state = "READING_FILE" => reader \in Nodes
  /\ phase = "sized" => reader \in Nodes

\* A content is a text of at most MaxSize bytes.
LEMMA ContentsType ==
  ASSUME NEW content \in Contents
  PROVE  content \in Seq(Bytes) /\ Len(content) \in 0 .. MaxSize
<1>1. PICK n \in 0 .. MaxSize : content \in [1 .. n -> Bytes]
  BY DEF Contents
<1>2. n \in Nat
  BY HandlingAssumption
<1> QED
  BY <1>1, <1>2

\* A file is inside the base directory where StaticFile finds it.
LEMMA StaticFileType ==
  ASSUME NEW method, NEW path \in Paths, StaticFile(method, path)
  PROVE  FileOf[IF path = <<>> THEN Index ELSE path] \in Files
<1> DEFINE requested == IF path = <<>> THEN Index ELSE path
<1>1. requested \in Paths
  BY HandlingAssumption
<1>2. FileOf[requested] # Outside
  BY DEF StaticFile
<1> HIDE DEF requested
<1>3. FileOf[requested] \in Files
  BY <1>1, <1>2, HandlingAssumption
<1> QED
  BY <1>3 DEF requested

\* One more route, on either side of the start of the server.
LEMMA RouteType ==
  ASSUME Types, NEW route \in Routes,
         endpoints' = [endpoints EXCEPT ![route[1]] = @ \cup {route[2]}]
  PROVE  endpoints' \in [Methods -> SUBSET Paths]
<1>1. route[1] \in Methods /\ route[2] \in Paths
  BY HandlingAssumption
<1> QED
  BY <1>1 DEF Types

\* Every step keeps the types, and the file a handler has.
LEMMA TypesStep == Types /\ FileInv /\ [Next]_vars => Types' /\ FileInv'
<1> SUFFICES ASSUME Types, FileInv, [Next]_vars PROVE Types' /\ FileInv'
  OBVIOUS
<1> USE DEF States
<1>1. ASSUME NEW m \in Methods, NEW p \in Paths, ToEndpoint(m, p)
      PROVE  Types' /\ FileInv'
  BY <1>1 DEF ToEndpoint, Types, FileInv, handler_vars, file_vars
<1>2. ASSUME NEW m \in Methods, NEW p \in Paths, ToFile(m, p)
      PROVE  Types' /\ FileInv'
  <2> DEFINE file == FileOf[IF p = <<>> THEN Index ELSE p]
  <2>1. file \in Files
    BY <1>2, StaticFileType DEF ToFile
  <2>2. /\ phase' = "created" /\ file_path' = file
        /\ state' \in States
        /\ \/ reader' = reader /\ state' # "READING_FILE"
           \/ reader' = nodes[file] /\ nodes[file] # NoNode
        /\ UNCHANGED <<endpoints, nodes, contents, content_length, calls, author>>
    BY <1>2 DEF ToFile, file_vars
  <2> HIDE DEF file
  <2>3. nodes[file] \in Nodes \cup {NoNode}
    BY <2>1 DEF Types
  <2> QED
    BY <2>1, <2>2, <2>3 DEF Types, FileInv
<1>3. ASSUME NEW m \in Methods, NEW p \in Paths, ToNobody(m, p)
      PROVE  Types' /\ FileInv'
  BY <1>3 DEF ToNobody, Answered, Types, FileInv, handler_vars, file_vars
<1>4. CASE ProcessError
  BY <1>4 DEF ProcessError, Answered, Types, FileInv, file_vars
<1>5. CASE ProcessSize
  <2>1. /\ phase = "created" /\ state = "READING_FILE" /\ file_path \in Files /\ reader \in Nodes
        /\ UNCHANGED <<endpoints, nodes, contents, state, file_path, reader, calls, author>>
    BY <1>5 DEF ProcessSize, FileInv, file_vars
  <2>2. CASE /\ nodes[file_path] # NoNode
             /\ content_length' = Len(contents[nodes[file_path]])
             /\ phase' = "sized"
    <3>1. contents[nodes[file_path]] \in Contents
      BY <2>1, <2>2 DEF Types
    <3>2. content_length' \in 0 .. MaxSize
      BY <2>2, <3>1, ContentsType
    <3> QED
      BY <2>1, <2>2, <3>2 DEF Types, FileInv
  <2>3. CASE phase' = "failed" /\ UNCHANGED content_length
    BY <2>1, <2>3 DEF Types, FileInv
  <2> QED
    BY <1>5, <2>2, <2>3 DEF ProcessSize
<1>6. CASE ProcessRead
  BY <1>6 DEF ProcessRead, Answered, Types, FileInv, file_vars
<1>7. CASE ProcessShort
  BY <1>7 DEF ProcessShort, Types, FileInv, file_vars
<1>8. ASSUME NEW written, Call(written) PROVE Types' /\ FileInv'
  <2>1. calls + 1 \in 0 .. MaxCalls
    BY <1>8, HandlingAssumption DEF Call, Types
  <2> QED
    BY <1>8, <2>1 DEF Call, Types, FileInv, handler_vars, file_vars
<1>9. ASSUME NEW r \in Routes, ScriptRoute(r) \/ LoadRoute(r) PROVE Types' /\ FileInv'
  <2>1. endpoints' \in [Methods -> SUBSET Paths]
    BY <1>9, RouteType DEF ScriptRoute, LoadRoute
  <2> QED
    BY <1>9, <2>1 DEF ScriptRoute, LoadRoute, Types, FileInv, handler_vars, file_vars
<1>10. CASE ScriptReturns \/ ScriptFails \/ ScriptThrows
  BY <1>10
  DEF ScriptReturns, ScriptFails, ScriptThrows, Answered, Types, FileInv, handler_vars, file_vars
<1>11. ASSUME NEW n \in Nodes, NEW c \in Contents, Write(n, c) PROVE Types' /\ FileInv'
  BY <1>11 DEF Write, Types, FileInv, handler_vars
<1>12. ASSUME NEW f \in Files, NEW n \in Nodes \cup {NoNode}, Replace(f, n)
       PROVE  Types' /\ FileInv'
  BY <1>12 DEF Replace, Types, FileInv, handler_vars
<1>13. CASE UNCHANGED vars
  BY <1>13 DEF vars, Types, FileInv, handler_vars, file_vars
<1> QED
  BY <1>1, <1>2, <1>3, <1>4, <1>5, <1>6, <1>7, <1>8, <1>9, <1>10, <1>11, <1>12, <1>13
  DEF Next, Serve, Process, Script, Others, ScriptStatus, ScriptHeader, ScriptEndHeader, ScriptBody

-----------------------------------------------------------------------------
(* The response *)

NothingUnread(body) == \A i \in 1 .. Len(body) : body[i] # Unread

ResponseInv ==
  /\ response \in Responses
  /\ Ordered(response)
  /\ phase = "endpoint" => Begun(response)
  /\ NothingUnread(response.body)
  /\ AnswersWellFormed

\* A response the server completes with a text that was read.
LEMMA CompleteStep ==
  ASSUME NEW code \in 100 .. 599, NEW content \in Seq(Chars), NothingUnread(content),
         response' = Complete(response, code, content), phase' = "answered"
  PROVE  ResponseInv'
<1> DEFINE answer == Complete(response, code, content)
<1>1. Completed(answer, code, content)
  BY CompleteWellFormed
<1> HIDE DEF answer
<1>2. /\ answer \in Responses /\ Ordered(answer) /\ Begun(answer) /\ WellFormed(answer)
      /\ answer.body = content
  BY <1>1 DEF Completed
<1>3. NothingUnread(answer.body)
  BY <1>2
<1>4. response' = answer
  BY DEF answer
<1> QED
  BY <1>2, <1>3, <1>4 DEF ResponseInv, AnswersWellFormed

\* The text of an error was not left by a reader.
LEMMA MessageRead == Message \in Seq(Chars) /\ NothingUnread(Message)
<1>1. Message[1] \in Chars /\ Len(Message) = 1 /\ Message[1] = "message" /\ Unread = "unread"
  BY DEF Chars, Message, Unread
<1>2. Message \in Seq(Chars)
  BY <1>1 DEF Message
<1> QED
  BY <1>1, <1>2 DEF NothingUnread

\* What is padded to a size that was read holds nothing else.
LEMMA PaddedRead ==
  ASSUME NEW content \in Contents, NEW size \in Nat, Len(content) >= size
  PROVE  Padded(content, size) \in Seq(Chars) /\ NothingUnread(Padded(content, size))
<1> DEFINE padded == Padded(content, size)
<1>1. content \in Seq(Bytes) /\ Len(content) \in Nat
  BY ContentsType, HandlingAssumption
<1>2. \A i \in 1 .. size : content[i] \in Bytes /\ i <= Len(content)
  BY <1>1
<1>3. padded = [i \in 1 .. size |-> content[i]]
  BY <1>2 DEF Padded
<1>4. padded \in Seq(Bytes) /\ Len(padded) = size /\ \A i \in 1 .. size : padded[i] \in Bytes
  BY <1>2, <1>3
<1> HIDE DEF padded
<1>5. padded \in Seq(Chars)
  BY <1>4, SeqMonotonic DEF Chars
<1>6. NothingUnread(padded)
  BY <1>4, HandlingAssumption DEF NothingUnread
<1> QED
  BY <1>5, <1>6 DEF padded

\* Every step keeps the response in order.
LEMMA ResponseStep == Types /\ FileInv /\ ResponseInv /\ [Next]_vars => ResponseInv'
<1> SUFFICES ASSUME Types, FileInv, ResponseInv, [Next]_vars PROVE ResponseInv'
  OBVIOUS
<1>r. /\ response \in Responses /\ Ordered(response) /\ (phase = "endpoint" => Begun(response))
      /\ NothingUnread(response.body)
  BY DEF ResponseInv
<1>1. ASSUME NEW m \in Methods, NEW p \in Paths, ToEndpoint(m, p) PROVE ResponseInv'
  <2>1. response' = Restart(response) /\ phase' = "endpoint"
    BY <1>1 DEF ToEndpoint
  <2> DEFINE restarted == Restart(response)
  <2>2. restarted \in Responses /\ Ordered(restarted) /\ Begun(restarted)
    BY RestartOrdered
  <2>3. restarted.body = <<>>
    BY DEF Restart
  <2>4. NothingUnread(restarted.body)
    BY <2>3 DEF NothingUnread
  <2> HIDE DEF restarted
  <2> QED
    BY <2>1, <2>2, <2>4 DEF ResponseInv, AnswersWellFormed, restarted
<1>2. ASSUME UNCHANGED response, phase' # "answered", phase' # "endpoint" PROVE ResponseInv'
  BY <1>2, <1>r DEF ResponseInv, AnswersWellFormed
<1>3. ASSUME NEW m \in Methods, NEW p \in Paths, ToFile(m, p) PROVE ResponseInv'
  BY <1>2, <1>3 DEF ToFile
<1>4. ASSUME NEW m \in Methods, NEW p \in Paths, ToNobody(m, p) PROVE ResponseInv'
  <2>1. 404 \in 100 .. 599
    OBVIOUS
  <2> QED
    BY <1>4, <2>1, MessageRead, CompleteStep DEF ToNobody, Answered
<1>5. CASE ProcessError
  <2>1. 404 \in 100 .. 599 /\ 500 \in 100 .. 599
    OBVIOUS
  <2> QED
    BY <1>5, <2>1, MessageRead, CompleteStep DEF ProcessError, Answered
<1>6. CASE ProcessSize \/ ProcessShort
  BY <1>2, <1>6 DEF ProcessSize, ProcessShort
<1>7. CASE ProcessRead
  <2>1. contents[reader] \in Contents /\ content_length \in Nat
        /\ Len(contents[reader]) >= content_length
    BY <1>7, HandlingAssumption DEF ProcessRead, EnoughToRead, Types, FileInv
  <2>2. 200 \in 100 .. 599
    OBVIOUS
  <2> DEFINE text == Padded(contents[reader], content_length)
  <2>3. text \in Seq(Chars) /\ NothingUnread(text)
    BY <2>1, PaddedRead
  <2> HIDE DEF text
  <2>4. response' = Complete(response, 200, text) /\ phase' = "answered"
    BY <1>7 DEF ProcessRead, Answered, text
  <2> QED
    BY <2>2, <2>3, <2>4, CompleteStep
<1>8. ASSUME NEW written, Call(written), written \in Responses, Ordered(written), Begun(written),
             NothingUnread(written.body)
      PROVE  ResponseInv'
  BY <1>8 DEF Call, ResponseInv, AnswersWellFormed
<1>9. ASSUME NEW code \in Statuses, ScriptStatus(code) PROVE ResponseInv'
  <2> DEFINE written == Status(response, code)
  <2>1. CanStatus(response, code) /\ phase = "endpoint" /\ Call(written)
    BY <1>9 DEF ScriptStatus, Call
  <2>2. written \in Responses /\ Ordered(written) /\ Begun(written)
    BY <1>r, <2>1, StatusOrdered
  <2>3. written.body = response.body
    BY <1>r, StatusFields
  <2> HIDE DEF written
  <2> QED
    BY <1>r, <1>8, <2>1, <2>2, <2>3
<1>10. ASSUME NEW announced \in {{}, {0}, {1}}, ScriptHeader(announced) PROVE ResponseInv'
  <2> DEFINE written == Header(response, announced)
  <2>1. CanHeader(response) /\ phase = "endpoint" /\ Call(written) /\ announced \in SUBSET Nat
    BY <1>10 DEF ScriptHeader, Call
  <2>2. written \in Responses /\ Ordered(written) /\ Begun(written)
    BY <1>r, <2>1, HeaderOrdered
  <2>3. written.body = response.body
    BY <1>r, HeaderFields
  <2> HIDE DEF written
  <2> QED
    BY <1>r, <1>8, <2>1, <2>2, <2>3
<1>11. CASE ScriptEndHeader
  <2> DEFINE written == EndHeader(response)
  <2>1. CanEndHeader(response) /\ phase = "endpoint" /\ Call(written)
    BY <1>11 DEF ScriptEndHeader, Call
  <2>2. written \in Responses /\ Ordered(written) /\ Begun(written)
    BY <1>r, <2>1, EndHeaderOrdered
  <2>3. written.body = response.body
    BY <1>r, EndHeaderFields
  <2> HIDE DEF written
  <2> QED
    BY <1>r, <1>8, <2>1, <2>2, <2>3
<1>12. ASSUME NEW byte \in Bytes, ScriptBody(byte) PROVE ResponseInv'
  <2> DEFINE written == Body(response, <<byte>>)
  <2>1. phase = "endpoint" /\ Call(written)
    BY <1>12 DEF ScriptBody, Call
  <2>2. <<byte>> \in Seq(Chars) /\ Len(<<byte>>) = 1 /\ byte # Unread
    BY HandlingAssumption DEF Chars
  <2>3. written \in Responses /\ Ordered(written) /\ Begun(written)
    BY <1>r, <2>1, <2>2, BodyOrdered
  <2>4. written.body = response.body \o <<byte>>
    BY <1>r, BodyFields
  <2>5. NothingUnread(written.body)
    <3>1. response.body \in Seq(Chars)
      BY <1>r DEF Responses
    <3> DEFINE body == response.body
    <3> HIDE DEF written, body
    <3>2. /\ Len(body \o <<byte>>) = Len(body) + 1
          /\ \A i \in 1 .. Len(body) + 1 :
               (body \o <<byte>>)[i] = IF i <= Len(body) THEN body[i] ELSE <<byte>>[i - Len(body)]
      BY <2>2, <3>1, ConcatProperties DEF body
    <3>3. \A i \in 1 .. Len(body) + 1 : (body \o <<byte>>)[i] # Unread
      BY <1>r, <2>2, <3>1, <3>2 DEF NothingUnread, body
    <3> QED
      BY <2>4, <3>2, <3>3 DEF NothingUnread, body
  <2> HIDE DEF written
  <2> QED
    BY <1>8, <2>1, <2>3, <2>5
<1>13. ASSUME NEW r \in Routes, ScriptRoute(r) \/ LoadRoute(r) PROVE ResponseInv'
  BY <1>13, <1>r DEF ScriptRoute, LoadRoute, ResponseInv, AnswersWellFormed
<1>14. CASE ScriptReturns \/ ScriptThrows
  BY <1>14, <1>r DEF ScriptReturns, ScriptThrows, Answered, ResponseInv, AnswersWellFormed
<1>15. CASE ScriptFails
  <2>1. 500 \in 100 .. 599
    OBVIOUS
  <2> QED
    BY <1>15, <2>1, MessageRead, CompleteStep DEF ScriptFails, Answered
<1>16. ASSUME UNCHANGED <<phase, response, author>> PROVE ResponseInv'
  BY <1>16 DEF ResponseInv, AnswersWellFormed
<1>17. ASSUME NEW n \in Nodes, NEW c \in Contents, Write(n, c) PROVE ResponseInv'
  BY <1>16, <1>17 DEF Write
<1>18. ASSUME NEW f \in Files, NEW n \in Nodes \cup {NoNode}, Replace(f, n) PROVE ResponseInv'
  BY <1>16, <1>18 DEF Replace
<1>19. CASE UNCHANGED vars
  BY <1>16, <1>19 DEF vars
<1> QED
  BY <1>1, <1>3, <1>4, <1>5, <1>6, <1>7, <1>9, <1>10, <1>11, <1>12, <1>13, <1>14, <1>15, <1>17,
     <1>18, <1>19
  DEF Next, Serve, Process, Script, Others

-----------------------------------------------------------------------------
(* The theorems *)

\* The three parts of the invariant hold in every state.
LEMMA Invariance == Spec => [](Types /\ FileInv /\ ResponseInv)
<1>1. Init => Types /\ FileInv
  <2>1. <<>> \in Contents
    <3>1. <<>> \in [1 .. 0 -> Bytes] /\ 0 \in 0 .. MaxSize
      BY HandlingAssumption
    <3> QED
      BY <3>1 DEF Contents
  <2>2. 0 \in 0 .. MaxSize /\ 0 \in 0 .. MaxCalls
    BY HandlingAssumption
  <2> QED
    BY <2>1, <2>2 DEF Init, Types, FileInv, States
<1>2. Init => ResponseInv
  <2>1. <<>> \in Seq(Parts) /\ <<>> \in Seq(Chars)
    OBVIOUS
  <2>2. /\ Unserialized \in Responses /\ Unserialized.header = <<>> /\ Unserialized.body = <<>>
        /\ ~Unserialized.status_serialized /\ ~Unserialized.header_serialized
    BY <2>1 DEF Unserialized, Responses
  <2>3. Ordered(Unserialized) /\ NothingUnread(Unserialized.body)
    BY <2>2 DEF Ordered, InOrder, NothingUnread
  <2> QED
    BY <2>2, <2>3 DEF Init, ResponseInv, AnswersWellFormed
<1> QED
  BY <1>1, <1>2, TypesStep, ResponseStep, PTL DEF Spec

\* Every variable keeps its type; no status but a valid one is written.
THEOREM TypeCorrect == Spec => []TypeOK
<1>1. Types /\ ResponseInv => TypeOK
  BY DEF Types, ResponseInv, Responses, Chars, TypeOK
<1> QED
  BY <1>1, Invariance, PTL

\* In every state, whatever routes the script has registered, the search finds
\* the longest match and no shorter one.
THEOREM RouteSafety == Spec => []LongestRouteFound
<1>1. Types => LongestRouteFound
  <2> SUFFICES ASSUME Types, NEW method \in Methods, NEW path \in Paths
               PROVE  LET found == Lookup(endpoints[method], path) IN
                      /\ path \in endpoints[method] => found = {path}
                      /\ \A key \in found :
                           /\ key = path \/ path[Len(key) + 1] = Slash \/ key[Len(key)] = Slash
                           /\ \A other \in endpoints[method] :
                                Matches(other, path) => Len(other) <= Len(key)
    BY DEF LongestRouteFound
  <2>1. endpoints[method] \in SUBSET Seq(Nat) /\ path \in Seq(Nat)
    BY HandlingAssumption DEF Types
  <2> QED
    BY <2>1, LookupFindsLongest, Zenon
<1> QED
  BY <1>1, Invariance, PTL

\* No order of calls puts a status twice, a field before it or the end before a
\* field.
THEOREM SerializerSafety == Spec => []SerializerOrder
<1>1. ResponseInv => SerializerOrder
  BY DEF ResponseInv, Ordered, SerializerOrder
<1> QED
  BY <1>1, Invariance, PTL

\* What the server answers itself is complete and announces its own length.
THEOREM AnswerSafety == Spec => []AnswersWellFormed
<1>1. ResponseInv => AnswersWellFormed
  BY DEF ResponseInv
<1> QED
  BY <1>1, Invariance, PTL

\* Nothing is sent that was not read from the file, whatever other programs do
\* to it between the opening, the look at its size and the reading.
THEOREM ReadSafety == Spec => []SentAsRead
<1>1. ResponseInv => SentAsRead
  BY DEF ResponseInv, NothingUnread, SentAsRead
<1> QED
  BY <1>1, Invariance, PTL

=============================================================================
