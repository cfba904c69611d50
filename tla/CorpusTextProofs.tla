-------------------------- MODULE CorpusTextProofs --------------------------
(***************************************************************************)
(* Proofs about CorpusText, for every source file, form, edition, context  *)
(* length and match limit.                                                 *)
(***************************************************************************)
EXTENDS CorpusText, FiniteSetTheorems, SequenceTheorems, TLAPS

-----------------------------------------------------------------------------
(* Texts.                                                                  *)

Chars(t) == {t[i] : i \in DOMAIN t}

\* t is a sequence, of whatever it holds.
IsText(t) == t \in Seq(Chars(t))

LEMMA TextLen ==
    ASSUME NEW t, IsText(t)
    PROVE  Len(t) \in Nat /\ DOMAIN t = 1..Len(t)
BY LenProperties DEF IsText

LEMMA TextOfSymbols ==
    ASSUME NEW S, NEW t \in Seq(S)
    PROVE  IsText(t)
<1>1. /\ Len(t) \in Nat
      /\ t \in [1..Len(t) -> S]
      /\ DOMAIN t = 1..Len(t)
  BY LenProperties
<1>2. t \in [1..Len(t) -> Chars(t)]
  BY <1>1 DEF Chars
<1> QED BY <1>1, <1>2, SeqDef DEF IsText

\* A function on 1..n is a text.
LEMMA TextOfFunction ==
    ASSUME NEW n \in Nat, NEW t, t = [i \in 1..n |-> t[i]]
    PROVE  IsText(t)
<1>1. DOMAIN t = 1..n
  OBVIOUS
<1>2. t \in [1..n -> Chars(t)]
  BY <1>1 DEF Chars
<1> QED BY <1>2, SeqDef DEF IsText

LEMMA KeepIsText ==
    ASSUME NEW t, IsText(t), NEW S
    PROVE  IsText(Keep(t, S))
<1> DEFINE kept == {i \in DOMAIN t : t[i] \in S}
           Rank(i) == Cardinality({k \in kept : k <= i})
           n == Cardinality(kept)
<1>1. Len(t) \in Nat /\ DOMAIN t = 1..Len(t)
  BY TextLen
<1>2. IsFiniteSet(1..Len(t)) /\ kept \subseteq 1..Len(t)
  BY <1>1, FS_Interval
<1>3. n \in Nat
  BY <1>2, FS_Subset, FS_CardinalityType
<1>4. Keep(t, S) = [m \in 1..n |-> t[CHOOSE i \in kept : Rank(i) = m]]
  BY DEF Keep
<1> HIDE DEF kept, Rank, n
<1>5. Keep(t, S) = [m \in 1..n |-> Keep(t, S)[m]]
  BY <1>4
<1> QED BY <1>3, <1>5, TextOfFunction

LEMMA MappedIsText ==
    ASSUME NEW t, IsText(t), NEW u, u = [i \in DOMAIN t |-> u[i]]
    PROVE  IsText(u)
BY TextLen, TextOfFunction

\* Ingestion turns a source into a text.
LEMMA StripIsText ==
    ASSUME NEW t, IsText(t)
    PROVE  IsText(Strip(t))
<1>1. ASSUME NEW u, IsText(u), NEW m PROVE IsText(StripMarker(u, m))
  <2> DEFINE v == [i \in DOMAIN u |->
                     IF u[i] = m /\ {CharAt(u, i - 1), CharAt(u, i + 1)} \cap Alphanumeric = {}
                     THEN Substitute(u, i) ELSE u[i]]
  <2>1. v = [i \in DOMAIN u |-> v[i]]
    OBVIOUS
  <2>2. StripMarker(u, m) = Keep(v, Symbols)
    BY DEF StripMarker
  <2> HIDE DEF v
  <2>3. IsText(v)
    BY <1>1, <2>1, MappedIsText
  <2> QED BY <2>2, <2>3, KeepIsText
<1>2. IsText(Unweave(t))
  <2>1. Unweave(t) = [i \in DOMAIN t |-> Unweave(t)[i]]
    BY DEF Unweave
  <2> QED BY <2>1, MappedIsText
<1> QED BY <1>1, <1>2 DEF Strip

-----------------------------------------------------------------------------
(* The scan.                                                               *)

\* No word is open at n: every letter before is followed by an end.
Quiet(t, n) ==
    \A i \in 1..n : t[i] \in Letters => \E k \in i+1..n : ~InText(t, k)

\* A word that begins at a is open at n.
OpenAt(t, a, n) ==
    /\ a \in 0..n-1
    /\ t[a + 1] \in Letters
    /\ \A i \in a+1..n : InText(t, i)
    /\ Quiet(t, a)

\* The words whose end the scan has passed when it stands at n.
Closed(t, n) == {w \in Words(t) : w[2] < n}

LEMMA LetterIsNoMark == Letters \cap Marks = {}
BY DEF Letters, Marks

\* A letter opens a word or belongs to the open one.
LEMMA ScanLetter ==
    ASSUME NEW t, Len(t) \in Nat, NEW n \in 0..Len(t)-1, t[n + 1] \in Letters
    PROVE  /\ Closed(t, n + 1) = Closed(t, n)
           /\ Quiet(t, n) => OpenAt(t, n, n + 1)
           /\ \A a : OpenAt(t, a, n) => OpenAt(t, a, n + 1)
<1>1. InText(t, n + 1)
  BY DEF InText
<1>2. \A w \in Words(t) : w[2] # n
  BY <1>1 DEF Words
<1>3. \A w \in Words(t) : w[2] \in Nat
  BY DEF Words
<1>4. Closed(t, n + 1) = Closed(t, n)
  BY <1>2, <1>3 DEF Closed
<1>5. Quiet(t, n) => OpenAt(t, n, n + 1)
  BY <1>1 DEF OpenAt
<1>6. ASSUME NEW a, OpenAt(t, a, n) PROVE OpenAt(t, a, n + 1)
  BY <1>1, <1>6 DEF OpenAt
<1> QED BY <1>4, <1>5, <1>6

\* A mark belongs to the open word, and to none where none is open.
LEMMA ScanMark ==
    ASSUME NEW t, Len(t) \in Nat, NEW n \in 0..Len(t)-1, t[n + 1] \in Marks
    PROVE  /\ Closed(t, n + 1) = Closed(t, n)
           /\ Quiet(t, n) => Quiet(t, n + 1)
           /\ \A a : OpenAt(t, a, n) => OpenAt(t, a, n + 1)
<1>1. InText(t, n + 1) /\ t[n + 1] \notin Letters
  BY LetterIsNoMark DEF InText
<1>2. \A w \in Words(t) : w[2] # n
  BY <1>1 DEF Words
<1>3. \A w \in Words(t) : w[2] \in Nat
  BY DEF Words
<1>4. Closed(t, n + 1) = Closed(t, n)
  BY <1>2, <1>3 DEF Closed
<1>5. ASSUME Quiet(t, n) PROVE Quiet(t, n + 1)
  <2> SUFFICES ASSUME NEW i \in 1..n+1, t[i] \in Letters
               PROVE  \E k \in i+1..n+1 : ~InText(t, k)
    BY DEF Quiet
  <2>1. i \in 1..n
    BY <1>1
  <2>2. PICK k \in i+1..n : ~InText(t, k)
    BY <1>5, <2>1 DEF Quiet
  <2> QED BY <2>1, <2>2
<1>6. ASSUME NEW a, OpenAt(t, a, n) PROVE OpenAt(t, a, n + 1)
  BY <1>1, <1>6 DEF OpenAt
<1> QED BY <1>4, <1>5, <1>6

\* No word ends at n where none is open, and only the open one where one is.
LEMMA WordsEndingAt ==
    ASSUME NEW t, Len(t) \in Nat, NEW n \in 0..Len(t)
    PROVE  /\ Quiet(t, n) => \A w \in Words(t) : w[2] # n
           /\ \A a : OpenAt(t, a, n) => \A w \in Words(t) : w[2] = n => w = <<a, n>>
<1>1. ASSUME NEW w \in Words(t), w[2] = n
      PROVE  /\ w[1] \in 0..n-1
             /\ w = <<w[1], n>>
             /\ t[w[1] + 1] \in Letters
             /\ \A i \in w[1]+1..n : InText(t, i)
             /\ Quiet(t, w[1])
  BY <1>1 DEF Words, Quiet
<1>2. ASSUME Quiet(t, n), NEW w \in Words(t), w[2] = n PROVE FALSE
  <2>1. w[1] + 1 \in 1..n
    BY <1>1, <1>2
  <2>2. PICK k \in (w[1] + 1)+1..n : ~InText(t, k)
    BY <1>1, <1>2, <2>1 DEF Quiet
  <2> QED BY <1>1, <1>2, <2>2
<1>3. ASSUME NEW a, OpenAt(t, a, n), NEW w \in Words(t), w[2] = n
      PROVE  w = <<a, n>>
  <2> DEFINE b == w[1]
  <2>1. /\ b \in 0..n-1 /\ w = <<b, n>> /\ t[b + 1] \in Letters
        /\ \A i \in b+1..n : InText(t, i)
        /\ Quiet(t, b)
    BY <1>1, <1>3
  <2>2. /\ a \in 0..n-1 /\ t[a + 1] \in Letters
        /\ \A i \in a+1..n : InText(t, i)
        /\ Quiet(t, a)
    BY <1>3 DEF OpenAt
  <2> HIDE DEF b
  <2>3. ASSUME b < a PROVE FALSE
    <3>1. b + 1 \in 1..a
      BY <2>1, <2>2, <2>3
    <3>2. PICK k \in (b + 1)+1..a : ~InText(t, k)
      BY <2>1, <2>2, <3>1 DEF Quiet
    <3> QED BY <2>1, <2>2, <3>2
  <2>4. ASSUME a < b PROVE FALSE
    <3>1. a + 1 \in 1..b
      BY <2>1, <2>2, <2>4
    <3>2. PICK k \in (a + 1)+1..b : ~InText(t, k)
      BY <2>1, <2>2, <3>1 DEF Quiet
    <3> QED BY <2>1, <2>2, <3>2
  <2> QED BY <2>1, <2>2, <2>3, <2>4
<1> QED BY <1>2, <1>3

\* What ends at n is a word, and the words before it end before it begins.
LEMMA OpenEnds ==
    ASSUME NEW t, Len(t) \in Nat, NEW n \in 0..Len(t), NEW a, OpenAt(t, a, n),
           n < Len(t) => ~InText(t, n + 1)
    PROVE  /\ <<a, n>> \in Words(t)
           /\ \A w \in Closed(t, n) : w[2] < a
<1>1. <<a, n>> \in Words(t)
  BY DEF OpenAt, Words, Quiet
<1>2. ASSUME NEW w \in Closed(t, n) PROVE w[2] < a
  <2>1. w[2] \in Nat /\ w[2] < n /\ ~InText(t, w[2] + 1)
    BY DEF Closed, Words
  <2>2. w[2] + 1 \notin a+1..n
    BY <2>1 DEF OpenAt
  <2> QED BY <2>1, <2>2 DEF OpenAt
<1> QED BY <1>1, <1>2

\* Whatever ends a word leaves none open.
LEMMA ScanOther ==
    ASSUME NEW t, NEW n \in Nat, ~InText(t, n + 1)
    PROVE  Quiet(t, n + 1)
<1> SUFFICES ASSUME NEW i \in 1..n+1, t[i] \in Letters
             PROVE  \E k \in i+1..n+1 : ~InText(t, k)
  BY DEF Quiet
<1>1. i # n + 1
  BY DEF InText
<1> QED BY <1>1

Pairs == Nat \X Nat
Found(s) == {s[i] : i \in DOMAIN s}
Ordered(s) == \A i, k \in DOMAIN s : i < k => s[i][2] < s[k][1]

\* A token is appended after tokens that all end before it begins.
LEMMA AppendToken ==
    ASSUME NEW s \in Seq(Pairs), NEW a \in Nat, NEW b \in Nat,
           Ordered(s), \A w \in Found(s) : w[2] < a
    PROVE  LET r == Append(s, <<a, b>>) IN
           /\ r \in Seq(Pairs)
           /\ Found(r) = Found(s) \cup {<<a, b>>}
           /\ Ordered(r)
<1> DEFINE e == <<a, b>>
           r == Append(s, e)
           n == Len(s)
<1>1. e \in Pairs
  BY DEF Pairs
<1>2. n \in Nat /\ DOMAIN s = 1..n
  BY LenProperties
<1>3. r \in Seq(Pairs) /\ Len(r) = n + 1 /\ r[n + 1] = e /\ \A i \in 1..n : r[i] = s[i]
  BY <1>1, AppendProperties
<1>4. DOMAIN r = 1..(n + 1)
  BY <1>3, LenProperties
<1>5. e[1] = a
  OBVIOUS
<1> HIDE DEF e, r, n
<1>6. Found(r) = Found(s) \cup {e}
  <2>1. ASSUME NEW w \in Found(r) PROVE w \in Found(s) \cup {e}
    <3>1. PICK i \in 1..(n + 1) : w = r[i]
      BY <1>4 DEF Found
    <3>2. i = n + 1 \/ i \in 1..n
      BY <1>2
    <3> QED BY <1>2, <1>3, <3>1, <3>2 DEF Found
  <2>2. ASSUME NEW w \in Found(s) \cup {e} PROVE w \in Found(r)
    <3>1. CASE w = e
      BY <1>2, <1>3, <1>4, <3>1 DEF Found
    <3>2. CASE w # e
      <4>1. PICK i \in 1..n : w = s[i]
        BY <1>2, <3>2 DEF Found
      <4>2. w = r[i] /\ i \in 1..(n + 1)
        BY <1>2, <1>3, <4>1
      <4> QED BY <1>4, <4>2 DEF Found
    <3> QED BY <3>1, <3>2
  <2> QED BY <2>1, <2>2
<1>7. ASSUME NEW i \in 1..(n + 1), NEW k \in 1..(n + 1), i < k
      PROVE  r[i][2] < r[k][1]
  <2>1. i \in 1..n /\ r[i] = s[i]
    BY <1>2, <1>3, <1>7
  <2>2. CASE k = n + 1
    <3>1. s[i] \in Found(s)
      BY <1>2, <2>1 DEF Found
    <3> QED BY <1>3, <1>5, <2>1, <2>2, <3>1
  <2>3. CASE k \in 1..n
    BY <1>2, <1>3, <1>7, <2>1, <2>3 DEF Ordered
  <2> QED BY <1>2, <2>2, <2>3
<1> QED BY <1>3, <1>4, <1>6, <1>7 DEF Ordered, e, r

\* The loop invariant: the tokens are the closed words, in order, and start is
\* where the open word begins.
Scanned ==
    /\ index \in 0..Len(text)
    /\ tokens \in Seq(Pairs)
    /\ Ordered(tokens)
    /\ Found(tokens) = Closed(text, index)
    /\ \/ start = None /\ Quiet(text, index)
       \/ OpenAt(text, start, index)

ScanInv ==
    /\ IsText(text)
    /\ stage = "ingest" => index = 0 /\ start = None /\ tokens = <<>>
    /\ stage = "scan" => Scanned
    /\ stage \notin {"ingest", "scan"} =>
          tokens \in Seq(Pairs) /\ Ordered(tokens) /\ Found(tokens) = Words(text)
    /\ source \in Sources

\* A token that the scan closes keeps the tokens the words that are closed.
LEMMA ScanCloses ==
    ASSUME IsText(text), Scanned, start # None,
           index < Len(text) => ~InText(text, index + 1)
    PROVE  LET r == Append(tokens, <<start, index>>) IN
           /\ r \in Seq(Pairs)
           /\ Ordered(r)
           /\ Found(r) = {w \in Words(text) : w[2] < index + 1}
<1>1. Len(text) \in Nat /\ index \in 0..Len(text)
  BY TextLen DEF Scanned
<1>2. OpenAt(text, start, index) /\ start \in Nat /\ index \in Nat
  BY <1>1 DEF Scanned, OpenAt
<1>3. /\ <<start, index>> \in Words(text)
      /\ \A w \in Closed(text, index) : w[2] < start
  BY <1>1, <1>2, OpenEnds
<1>4. \A w \in Words(text) : w[2] = index => w = <<start, index>>
  BY <1>1, <1>2, WordsEndingAt
<1>5. \A w \in Words(text) : w[2] \in Nat
  BY DEF Words
<1>6. Closed(text, index) \cup {<<start, index>>} = {w \in Words(text) : w[2] < index + 1}
  <2>1. \A w \in Words(text) : w[2] < index + 1 <=> w[2] < index \/ w[2] = index
    BY <1>2, <1>5
  <2>2. <<start, index>>[2] = index
    OBVIOUS
  <2> QED BY <1>3, <1>4, <2>1, <2>2 DEF Closed
<1> QED BY <1>2, <1>3, <1>6, AppendToken DEF Scanned

LEMMA InitScanInv == Init => ScanInv
<1> SUFFICES ASSUME Init PROVE ScanInv
  OBVIOUS
<1>1. <<>> \in Seq(Symbols)
  OBVIOUS
<1> QED BY <1>1, TextOfSymbols DEF Init, ScanInv

LEMMA NextScanInv == ScanInv /\ [Next]_vars => ScanInv'
<1> SUFFICES ASSUME ScanInv, [Next]_vars PROVE ScanInv'
  OBVIOUS
<1>1. Len(text) \in Nat
  BY TextLen DEF ScanInv
<1>2. CASE Ingest
  <2>1. IsText(source)
    BY SourcesAssumption, TextOfSymbols DEF ScanInv
  <2>2. IsText(text') /\ Len(text') \in Nat
    BY <1>2, <2>1, StripIsText, TextLen DEF Ingest
  <2>3. index' = 0 /\ start' = None /\ tokens' = <<>>
    BY <1>2 DEF Ingest, scan, ScanInv
  <2>4. Found(<<>>) = {} /\ Ordered(<<>>) /\ <<>> \in Seq(Pairs)
    BY DEF Found, Ordered
  <2>5. Closed(text', 0) = {} /\ Quiet(text', 0)
    BY DEF Closed, Words, Quiet
  <2>6. Scanned'
    BY <2>2, <2>3, <2>4, <2>5 DEF Scanned
  <2> QED BY <1>2, <2>2, <2>6 DEF Ingest, ScanInv
<1>3. CASE Scan
  <2>1. /\ Scanned /\ stage = "scan" /\ index < Len(text) /\ index \in 0..Len(text)-1
        /\ stage' = stage /\ text' = text /\ source' = source /\ index' = index + 1
        /\ index + 1 \in 0..Len(text)
    BY <1>1, <1>3 DEF Scan, ScanInv, Scanned
  <2>2. None \notin Nat
    BY DEF None
  <2>3. \A a, n : OpenAt(text, a, n) => a \in Nat /\ a # None
    BY <2>2 DEF OpenAt
  <2>4. CASE /\ text[index + 1] \in Letters
             /\ start' = IF start = None THEN index ELSE start
             /\ UNCHANGED tokens
    <3>1. Closed(text, index + 1) = Closed(text, index)
      BY <1>1, <2>1, <2>4, ScanLetter
    <3>2. OpenAt(text, start', index + 1)
      BY <1>1, <2>1, <2>3, <2>4, ScanLetter DEF Scanned
    <3> QED BY <2>1, <2>4, <3>1, <3>2 DEF Scanned, ScanInv
  <2>5. CASE text[index + 1] \in Marks /\ UNCHANGED <<start, tokens>>
    <3>1. Closed(text, index + 1) = Closed(text, index)
      BY <1>1, <2>1, <2>5, ScanMark
    <3>2. \/ start = None /\ Quiet(text, index + 1)
          \/ OpenAt(text, start, index + 1)
      BY <1>1, <2>1, <2>5, ScanMark DEF Scanned
    <3> QED BY <2>1, <2>5, <3>1, <3>2 DEF Scanned, ScanInv
  <2>6. CASE /\ text[index + 1] \notin Letters \cup Marks
             /\ start' = None
             /\ tokens' = IF start = None THEN tokens ELSE Append(tokens, <<start, index>>)
    <3>1. ~InText(text, index + 1)
      BY <2>6 DEF InText
    <3>2. Quiet(text, index + 1)
      BY <2>1, <3>1, ScanOther
    <3>3. CASE start = None
      <4>0. Quiet(text, index) /\ index \in Nat /\ index \in 0..Len(text)
        BY <1>1, <2>1, <2>3, <3>3 DEF Scanned
      <4>1. \A w \in Words(text) : w[2] # index
        BY <1>1, <4>0, WordsEndingAt
      <4>2. \A w \in Words(text) : w[2] \in Nat
        BY <1>1 DEF Words
      <4>3. Closed(text, index + 1) = Closed(text, index)
        <5>1. \A w \in Words(text) : w[2] < index + 1 <=> w[2] < index
          BY <4>0, <4>1, <4>2
        <5> QED BY <5>1 DEF Closed
      <4> QED BY <2>1, <2>6, <3>2, <3>3, <4>3 DEF Scanned, ScanInv
    <3>4. CASE start # None
      <4>1. /\ tokens' \in Seq(Pairs)
            /\ Ordered(tokens')
            /\ Found(tokens') = Closed(text, index + 1)
        BY <2>1, <2>6, <3>1, <3>4, ScanCloses DEF Closed, ScanInv
      <4> QED BY <2>1, <2>6, <3>2, <4>1 DEF Scanned, ScanInv
    <3> QED BY <3>3, <3>4
  <2> QED BY <1>3, <2>4, <2>5, <2>6 DEF Scan
<1>4. CASE ScanEnd
  <2>1. /\ Scanned /\ index = Len(text) /\ stage' = "indexed"
        /\ text' = text /\ source' = source
        /\ tokens' = IF start = None THEN tokens ELSE Append(tokens, <<start, index>>)
    BY <1>4 DEF ScanEnd, ScanInv
  <2>2. \A w \in Words(text) : w[2] \in 0..index
    BY <2>1 DEF Words
  <2>3. Found(tokens') = Words(text) /\ tokens' \in Seq(Pairs) /\ Ordered(tokens')
    <3>1. CASE start = None
      <4>1. Quiet(text, index)
        BY <3>1, <1>1, <2>1 DEF Scanned, OpenAt, None
      <4>2. \A w \in Words(text) : w[2] # index
        BY <1>1, <2>1, <4>1, WordsEndingAt
      <4>3. Closed(text, index) = Words(text)
        BY <1>1, <2>1, <2>2, <4>2 DEF Closed
      <4> QED BY <2>1, <3>1, <4>3 DEF Scanned
    <3>2. CASE start # None
      <4>1. {w \in Words(text) : w[2] < index + 1} = Words(text)
        BY <1>1, <2>1, <2>2
      <4>2. IsText(text) /\ Scanned /\ ~(index < Len(text))
        BY <1>1, <2>1 DEF ScanInv
      <4>3. LET r == Append(tokens, <<start, index>>) IN
            /\ r \in Seq(Pairs)
            /\ Ordered(r)
            /\ Found(r) = {w \in Words(text) : w[2] < index + 1}
        BY <3>2, <4>2, ScanCloses
      <4> QED BY <2>1, <3>2, <4>1, <4>3
    <3> QED BY <3>1, <3>2
  <2> QED BY <2>1, <2>3 DEF ScanInv
<1>5. ASSUME NEW f \in Forms, Search(f) PROVE ScanInv'
  BY <1>5 DEF Search, scan, ScanInv
<1>6. ASSUME NEW t \in Editions, Replace(t) PROVE ScanInv'
  BY <1>6 DEF Replace, scan, ScanInv
<1>7. ASSUME NEW h \in hits, ReadDocument(h) \/ VerifySpan(h) PROVE ScanInv'
  BY <1>7 DEF ReadDocument, VerifySpan, scan, ScanInv
<1>9. CASE Issue
  BY <1>9 DEF Issue, scan, ScanInv
<1>8. CASE UNCHANGED vars
  BY <1>8 DEF vars, scan, ScanInv, Scanned
<1> QED BY <1>2, <1>3, <1>4, <1>5, <1>6, <1>7, <1>8, <1>9 DEF Next

LEMMA ScanInvariant == Spec => []ScanInv
BY InitScanInv, NextScanInv, PTL DEF Spec

\* The tokenizer finds the words of every text that ingestion can make, each
\* once and in order.
THEOREM TokensCorrect == Spec => []TokensAreWords
<1>1. ScanInv => TokensAreWords
  BY DEF ScanInv, TokensAreWords, Found, Ordered
<1> QED BY <1>1, ScanInvariant, PTL

-----------------------------------------------------------------------------
(* Quotations.                                                             *)

\* A slice inside a text.
LEMMA SliceProperties ==
    ASSUME NEW t, IsText(t), NEW a \in Nat, NEW b \in Nat, a <= b, b <= Len(t)
    PROVE  /\ Slice(t, a, b) = SubSeq(t, a + 1, b)
           /\ Len(Slice(t, a, b)) = b - a
<1>1. Len(t) \in Nat /\ DOMAIN t = 1..Len(t)
  BY TextLen
<1>2. Slice(t, a, b) = SubSeq(t, a + 1, b)
  BY <1>1 DEF Slice
<1>3. \A i \in a+1..b : t[i] \in Chars(t)
  BY <1>1 DEF Chars
<1>4. Len(SubSeq(t, a + 1, b)) = IF a + 1 <= b THEN b - (a + 1) + 1 ELSE 0
  BY <1>3, SubSeqProperties
<1> QED BY <1>2, <1>4

LEMMA SlicesJoin ==
    ASSUME NEW t, IsText(t), NEW a \in Nat, NEW b \in Nat, NEW c \in Nat,
           a <= b, b <= c, c <= Len(t)
    PROVE  Slice(t, a, b) \o Slice(t, b, c) = Slice(t, a, c)
<1>1. Len(t) \in Nat
  BY TextLen
<1>2. /\ Slice(t, a, b) = SubSeq(t, a + 1, b)
      /\ Slice(t, b, c) = SubSeq(t, b + 1, c)
      /\ Slice(t, a, c) = SubSeq(t, a + 1, c)
  <2>1. b <= Len(t) /\ a <= c
    BY <1>1
  <2> QED BY <2>1, SliceProperties
<1>3. /\ a + 1 \in 1..Len(t)+1
      /\ b \in (a + 1)-1..Len(t)
      /\ c \in b..Len(t)
  BY <1>1
<1> QED BY <1>2, <1>3, ConcatAdjacentSubSeq DEF IsText

\* The context of a match lies in the text around it.
LEMMA ContextProperties ==
    ASSUME NEW t, IsText(t), NEW a \in Nat, NEW b \in Nat, a <= b, b <= Len(t)
    PROVE  /\ ContextStart(a) \in Nat /\ ContextStart(a) <= a
           /\ ContextEnd(t, b) \in Nat /\ b <= ContextEnd(t, b) /\ ContextEnd(t, b) <= Len(t)
           /\ \/ a - ContextStart(a) = ContextChars
              \/ ContextStart(a) = 0 /\ a - ContextStart(a) < ContextChars
           /\ \/ ContextEnd(t, b) - b = ContextChars
              \/ ContextEnd(t, b) = Len(t) /\ ContextEnd(t, b) - b < ContextChars
BY TextLen, ContextAssumption DEF ContextStart, ContextEnd

\* A hit of the search quotes the text that was searched, and the gate sees it.
LEMMA HitQuotes ==
    ASSUME IsText(text), NEW i \in DOMAIN tokens, tokens \in Seq(Pairs),
           Found(tokens) = Words(text)
    PROVE  /\ Quotes(Hit(text, i), text)
           /\ QuoteStands(Hit(text, i), text, text)
           /\ Hit(text, i).raw_text_sha256 = text
<1> DEFINE a == tokens[i][1]
           b == tokens[i][2]
           h == Hit(text, i)
<1>1. a \in Nat /\ b \in Nat /\ a <= b /\ b <= Len(text)
  BY TextLen DEF Found, Words
<1>2. /\ h.raw_start = a /\ h.raw_end = b
      /\ h.raw_form = Slice(text, a, b) /\ h.match = Slice(text, a, b)
      /\ h.context_start = ContextStart(a) /\ h.context_end = ContextEnd(text, b)
      /\ h.prefix = Slice(text, ContextStart(a), a)
      /\ h.suffix = Slice(text, b, ContextEnd(text, b))
      /\ h.raw_text_sha256 = text
  BY DEF Hit
<1> HIDE DEF a, b, h
<1> DEFINE c == ContextStart(a)
           d == ContextEnd(text, b)
<1>3. /\ c \in Nat /\ c <= a /\ d \in Nat /\ b <= d /\ d <= Len(text)
      /\ a - c = ContextChars \/ (c = 0 /\ a - c < ContextChars)
      /\ d - b = ContextChars \/ (d = Len(text) /\ d - b < ContextChars)
  BY <1>1, ContextProperties
<1> HIDE DEF c, d
<1>4. Len(text) \in Nat
  BY TextLen
<1>5. /\ Slice(text, a, b) = SubSeq(text, a + 1, b) /\ Len(Slice(text, a, b)) = b - a
      /\ Slice(text, c, a) = SubSeq(text, c + 1, a) /\ Len(Slice(text, c, a)) = a - c
      /\ Slice(text, b, d) = SubSeq(text, b + 1, d) /\ Len(Slice(text, b, d)) = d - b
  <2>1. a <= Len(text)
    BY <1>1, <1>4
  <2> QED BY <1>1, <1>3, <2>1, SliceProperties
<1>6. (Slice(text, c, a) \o Slice(text, a, b)) \o Slice(text, b, d) = Slice(text, c, d)
  <2>1. Slice(text, c, a) \o Slice(text, a, b) = Slice(text, c, b)
    BY <1>1, <1>3, SlicesJoin
  <2>2. c <= b
    BY <1>1, <1>3
  <2>3. Slice(text, c, b) \o Slice(text, b, d) = Slice(text, c, d)
    BY <1>1, <1>3, <2>2, SlicesJoin
  <2> QED BY <2>1, <2>3
<1>7. Quotes(h, text)
  BY <1>1, <1>2, <1>3, <1>5 DEF Quotes, c, d
<1>8. QuoteStands(h, text, text)
  <2>1. c + Len(h.prefix) = a /\ b + Len(h.suffix) = d
    <3>1. Len(h.prefix) = a - c /\ Len(h.suffix) = d - b
      BY <1>2, <1>5 DEF c, d
    <3> QED BY <3>1, <1>1, <1>3
  <2>2. h.prefix \o h.match \o h.suffix = Slice(text, c, d)
    BY <1>2, <1>6 DEF c, d
  <2>3. h.context_start = c /\ h.context_end = d
    BY <1>2 DEF c, d
  <2> QED BY <1>2, <2>1, <2>2, <2>3 DEF QuoteStands, ContextStands
<1> QED BY <1>2, <1>7, <1>8 DEF h

\* Every hit quotes the searched text, with which it stands; as long as the
\* file is the one searched, so is everything that the gate has read.
QuoteInv ==
    /\ stage \in {"searched", "issued", "rejected"} =>
          \A h \in hits : /\ Quotes(h, text)
                          /\ QuoteStands(h, text, text)
                          /\ h.raw_text_sha256 = text
    /\ stage \in {"ingest", "scan", "indexed"} => documents = <<>> /\ spans = <<>>
    /\ DOMAIN spans \subseteq DOMAIN documents
    /\ served = text => /\ \A h \in DOMAIN documents : documents[h] = text
                       /\ \A h \in DOMAIN spans : spans[h] = text
    /\ stage = "issued" => \A h \in hits : QuoteStands(h, documents[h], spans[h])
    /\ stage = "rejected" => \E h \in hits : /\ h \in DOMAIN spans
                                            /\ ~QuoteStands(h, documents[h], spans[h])

LEMMA NextQuoteInv == ScanInv /\ QuoteInv /\ [Next]_vars => QuoteInv'
<1> SUFFICES ASSUME ScanInv, QuoteInv, [Next]_vars PROVE QuoteInv'
  OBVIOUS
<1>1. CASE Ingest \/ Scan \/ ScanEnd
  BY <1>1 DEF Ingest, Scan, ScanEnd, gate, QuoteInv
<1>2. ASSUME NEW f \in Forms, Search(f) PROVE QuoteInv'
  <2>1. /\ stage = "indexed" /\ stage' = "searched" /\ text' = text
        /\ hits' = {Hit(text, i) : i \in Returned(f)}
    BY <1>2 DEF Search
  <2>2. Returned(f) \subseteq DOMAIN tokens
    BY DEF Returned, Matching
  <2>3. IsText(text) /\ tokens \in Seq(Pairs) /\ Found(tokens) = Words(text)
    BY <2>1 DEF ScanInv
  <2>4. \A h \in hits' : /\ Quotes(h, text)
                         /\ QuoteStands(h, text, text)
                         /\ h.raw_text_sha256 = text
    BY <2>1, <2>2, <2>3, HitQuotes
  <2>5. documents' = <<>> /\ spans' = <<>>
    BY <1>2 DEF Search, QuoteInv
  <2> QED BY <2>1, <2>4, <2>5 DEF QuoteInv
<1>3. ASSUME NEW t \in Editions, Replace(t) PROVE QuoteInv'
  BY <1>3 DEF Replace, QuoteInv
<1>4. ASSUME NEW h \in hits, ReadDocument(h) \/ VerifySpan(h) PROVE QuoteInv'
  BY <1>4 DEF ReadDocument, VerifySpan, QuoteInv
<1>5. CASE Issue
  BY <1>5 DEF Issue, gate, QuoteInv
<1>6. CASE UNCHANGED vars
  BY <1>6 DEF vars, gate, QuoteInv
<1> QED BY <1>1, <1>2, <1>3, <1>4, <1>5, <1>6 DEF Next

\* The gate issues no quotation that is not in every document it read, for any
\* hit, and rejects none of an index that was not replaced.
THEOREM GateCorrect == Spec => []GateIsExact
<1>1. Init => QuoteInv
  BY DEF Init, QuoteInv
<1>2. QuoteInv => GateIsExact
  <2> SUFFICES ASSUME QuoteInv PROVE GateIsExact
    OBVIOUS
  <2>1. ASSUME stage = "issued", NEW h \in hits, NEW k \in hits PROVE Quotes(h, documents[k])
    <3>1. Quotes(h, text) /\ k.raw_text_sha256 = text
      BY <2>1 DEF QuoteInv
    <3>2. QuoteStands(k, documents[k], spans[k])
      BY <2>1 DEF QuoteInv
    <3>3. documents[k] = text
      BY <3>1, <3>2 DEF QuoteStands
    <3> QED BY <3>1, <3>3
  <2>2. ASSUME stage = "rejected" PROVE served # text
    <3>1. PICK h \in hits : h \in DOMAIN spans /\ ~QuoteStands(h, documents[h], spans[h])
      BY <2>2 DEF QuoteInv
    <3>2. QuoteStands(h, text, text)
      BY <2>2 DEF QuoteInv
    <3>3. served = text => documents[h] = text /\ spans[h] = text
      BY <3>1 DEF QuoteInv
    <3> QED BY <3>1, <3>2, <3>3
  <2> QED BY <2>1, <2>2 DEF GateIsExact
<1> QED BY <1>1, <1>2, NextQuoteInv, ScanInvariant, PTL DEF Spec

-----------------------------------------------------------------------------
(* Spellings.                                                              *)

\* No rule about suffixes or the article ever keeps a hamza seat from being
\* written plainly: normalization.py:74-92 protects plain alefs, and no pronoun
\* holds a seat, while only seats are rewritten.
THEOREM EverySeatIsLexical ==
    ASSUME NEW t, IsText(t)
    PROVE  LexicalSeats(t) = {i \in DOMAIN t : t[i] = "seat"}
<1>1. Len(t) \in Nat /\ DOMAIN t = 1..Len(t)
  BY TextLen
<1>2. \A s \in Pronouns : /\ Len(s) \in 1..3
                          /\ DOMAIN s = 1..Len(s)
                          /\ \A k \in DOMAIN s : s[k] # "seat"
  BY DEF Pronouns
<1>3. /\ StemLen(t) \in 0..Len(t)
      /\ \A i \in DOMAIN t : i > StemLen(t) => t[i] # "seat"
  <2>1. CASE \E s \in Pronouns : Suffixed(t, s)
    <3> DEFINE s == CHOOSE s \in Pronouns : Suffixed(t, s)
    <3>1. s \in Pronouns /\ Suffixed(t, s) /\ StemLen(t) = Len(t) - Len(s)
      BY <2>1 DEF StemLen
    <3> HIDE DEF s
    <3>2. Len(s) \in 1..3 /\ DOMAIN s = 1..Len(s) /\ \A k \in DOMAIN s : s[k] # "seat"
      BY <1>2, <3>1
    <3>3. /\ Len(s) <= Len(t)
          /\ \A k \in DOMAIN s : t[Len(t) - Len(s) + k] = s[k]
      BY <3>1 DEF Suffixed, EndsWith
    <3>4. ASSUME NEW i \in DOMAIN t, i > StemLen(t) PROVE t[i] # "seat"
      <4>1. i - (Len(t) - Len(s)) \in 1..Len(s)
        BY <1>1, <3>1, <3>2, <3>4
      <4>2. Len(t) - Len(s) + (i - (Len(t) - Len(s))) = i
        BY <1>1, <3>2
      <4> QED BY <3>2, <3>3, <4>1, <4>2
    <3> QED BY <1>1, <3>1, <3>2, <3>3, <3>4
  <2>2. CASE ~\E s \in Pronouns : Suffixed(t, s)
    BY <1>1, <2>2 DEF StemLen
  <2> QED BY <2>1, <2>2
<1>4. ASSUME NEW i \in SuffixAlefs(t) PROVE t[i] # "seat"
  <2> DEFINE n == StemLen(t)
             stem == SubSeq(t, 1, n)
  <2>1. \/ i > n
        \/ t[i] = "alef"
        \/ /\ i = n - 1 /\ n > 2
           /\ EndsWith(stem, <<"alef", "teh">>) \/ EndsWith(stem, <<"alef", "noon">>)
    BY DEF SuffixAlefs
  <2>2. i \in DOMAIN t
    BY DEF SuffixAlefs
  <2>3. ASSUME i = n - 1, n > 2,
               EndsWith(stem, <<"alef", "teh">>) \/ EndsWith(stem, <<"alef", "noon">>)
        PROVE  t[i] = "alef"
    <3>1. n \in Nat /\ n <= Len(t)
      BY <1>1, <1>3
    <3>2. \A k \in 1..n : t[k] \in Chars(t)
      BY <1>1, <3>1 DEF Chars
    <3> HIDE DEF n
    <3>3. Len(SubSeq(t, 1, n)) = n /\ \A k \in 1..n : SubSeq(t, 1, n)[k] = t[k]
      <4>1. /\ Len(SubSeq(t, 1, n)) = IF 1 <= n THEN n - 1 + 1 ELSE 0
            /\ \A k \in 1..(n - 1 + 1) : SubSeq(t, 1, n)[k] = t[1 + k - 1]
        BY <3>1, <3>2, SubSeqProperties
      <4> QED BY <3>1, <2>3, <4>1
    <3>4. stem[n - 2 + 1] = "alef"
      <4>1. /\ Len(<<"alef", "teh">>) = 2 /\ Len(<<"alef", "noon">>) = 2
            /\ 1 \in DOMAIN <<"alef", "teh">> /\ 1 \in DOMAIN <<"alef", "noon">>
            /\ <<"alef", "teh">>[1] = "alef" /\ <<"alef", "noon">>[1] = "alef"
        OBVIOUS
      <4> QED BY <2>3, <3>3, <4>1 DEF EndsWith
    <3> QED BY <2>3, <3>1, <3>3, <3>4
  <2> QED BY <1>3, <2>1, <2>2, <2>3
<1>5. \A i : IsArticleAlef(t, i) => t[i] = "alef"
  BY DEF IsArticleAlef
<1> QED BY <1>4, <1>5 DEF LexicalSeats

LEMMA SameText ==
    ASSUME NEW t, IsText(t), NEW u, IsText(u), Len(t) = Len(u),
           \A i \in 1..Len(t) : t[i] = u[i]
    PROVE  t = u
<1> DEFINE S == Chars(t) \cup Chars(u)
<1>1. t \in Seq(S) /\ u \in Seq(S)
  BY SeqMonotonic DEF IsText
<1> HIDE DEF S
<1> QED BY <1>1, SeqEqual

-----------------------------------------------------------------------------
(* Keep: what it returns is t without the positions outside S, in order.   *)

Kept(t, S) == {i \in DOMAIN t : t[i] \in S}

\* How many of the first i positions of t are kept: where i comes to stand.
Place(t, S, i) == Cardinality({k \in Kept(t, S) : k <= i})

LEMMA KeptUpTo ==
    ASSUME NEW t, IsText(t), NEW S, NEW i
    PROVE  /\ IsFiniteSet({k \in Kept(t, S) : k <= i})
           /\ Place(t, S, i) \in Nat
<1>1. Len(t) \in Nat /\ DOMAIN t = 1..Len(t)
  BY TextLen
<1>2. IsFiniteSet(1..Len(t)) /\ {k \in Kept(t, S) : k <= i} \in SUBSET (1..Len(t))
  BY <1>1, FS_Interval DEF Kept
<1> QED BY <1>2, FS_Subset, FS_CardinalityType DEF Place

\* A stretch that is kept whole moves as a whole.
LEMMA PlaceOfStretch ==
    ASSUME NEW t, IsText(t), NEW S, NEW a \in 0..Len(t), NEW b \in a..Len(t),
           \A i \in a+1..b : t[i] \in S
    PROVE  Place(t, S, b) = Place(t, S, a) + (b - a)
<1> DEFINE A == {k \in Kept(t, S) : k <= a}
           B == {k \in Kept(t, S) : k <= b}
<1>1. Len(t) \in Nat /\ DOMAIN t = 1..Len(t) /\ a \in Nat /\ b \in Nat /\ a <= b
  BY TextLen
<1>2. B = A \cup (a+1..b) /\ A \cap (a+1..b) = {}
  BY <1>1 DEF Kept
<1>3. IsFiniteSet(a+1..b) /\ Cardinality(a+1..b) = b - a
  <2>1. /\ IsFiniteSet(a+1..b)
        /\ Cardinality(a+1..b) = IF a + 1 > b THEN 0 ELSE b - (a + 1) + 1
    BY <1>1, FS_Interval
  <2> QED BY <1>1, <2>1
<1>4. IsFiniteSet(A) /\ Cardinality(A) \in Nat
  BY KeptUpTo DEF Place
<1> HIDE DEF A, B
<1>5. Cardinality(B) = Cardinality(A) + Cardinality(a+1..b) - Cardinality(A \cap (a+1..b))
  BY <1>2, <1>3, <1>4, FS_Union
<1>6. Cardinality(A \cap (a+1..b)) = 0
  BY <1>2, FS_EmptySet
<1>7. Cardinality(B) = Cardinality(A) + (b - a)
  BY <1>1, <1>3, <1>4, <1>5, <1>6
<1> QED BY <1>7 DEF A, B, Place

LEMMA PlaceOfNone ==
    ASSUME NEW t, IsText(t), NEW S, NEW a \in 0..Len(t), NEW b \in a..Len(t),
           \A i \in a+1..b : t[i] \notin S
    PROVE  Place(t, S, b) = Place(t, S, a)
<1>1. Len(t) \in Nat /\ DOMAIN t = 1..Len(t) /\ a \in Nat /\ b \in Nat /\ a <= b
  BY TextLen
<1>2. {k \in Kept(t, S) : k <= b} = {k \in Kept(t, S) : k <= a}
  BY <1>1 DEF Kept
<1> QED BY <1>2 DEF Place

LEMMA PlaceMonotone ==
    ASSUME NEW t, IsText(t), NEW S, NEW a \in 0..Len(t), NEW b \in a..Len(t)
    PROVE  /\ Place(t, S, a) <= Place(t, S, b)
           /\ a < b /\ t[b] \in S => Place(t, S, a) < Place(t, S, b)
<1> DEFINE A == {k \in Kept(t, S) : k <= a}
           B == {k \in Kept(t, S) : k <= b}
<1>1. Len(t) \in Nat /\ DOMAIN t = 1..Len(t) /\ a \in Nat /\ b \in Nat /\ a <= b
  BY TextLen
<1>2. IsFiniteSet(A) /\ IsFiniteSet(B) /\ Cardinality(A) \in Nat /\ Cardinality(B) \in Nat
  BY KeptUpTo DEF Place
<1>3. A \in SUBSET B
  BY <1>1 DEF Kept
<1>4. ASSUME a < b, t[b] \in S PROVE b \in B /\ b \notin A
  BY <1>1, <1>4 DEF Kept
<1> HIDE DEF A, B
<1>5. Cardinality(A) <= Cardinality(B) /\ (Cardinality(B) = Cardinality(A) => B = A)
  BY <1>2, <1>3, FS_Subset
<1> QED BY <1>2, <1>4, <1>5 DEF Place, A, B

\* Different kept positions come to stand at different places.
LEMMA PlaceInjective ==
    ASSUME NEW t, IsText(t), NEW S, NEW a \in Kept(t, S), NEW b \in Kept(t, S),
           Place(t, S, a) = Place(t, S, b)
    PROVE  a = b
<1>1. Len(t) \in Nat /\ a \in 1..Len(t) /\ b \in 1..Len(t) /\ t[a] \in S /\ t[b] \in S
  BY TextLen DEF Kept
<1>2. Place(t, S, a) \in Nat /\ Place(t, S, b) \in Nat
  BY KeptUpTo
<1>3. CASE a < b
  BY <1>1, <1>2, <1>3, PlaceMonotone
<1>4. CASE b < a
  BY <1>1, <1>2, <1>4, PlaceMonotone
<1> QED BY <1>1, <1>3, <1>4

\* Every place is taken.
LEMMA KeepProperties ==
    ASSUME NEW t, IsText(t), NEW S
    PROVE  /\ IsText(Keep(t, S))
           /\ Len(Keep(t, S)) = Place(t, S, Len(t))
           /\ Place(t, S, 0) = 0
           /\ \A i \in Kept(t, S) : /\ Place(t, S, i) \in 1..Len(Keep(t, S))
                                    /\ Keep(t, S)[Place(t, S, i)] = t[i]
           /\ \A n \in 1..Len(Keep(t, S)) : \E i \in Kept(t, S) : Place(t, S, i) = n
<1> DEFINE K == Kept(t, S)
           N == Cardinality(K)
           R == [i \in K |-> Place(t, S, i)]
<1>1. Len(t) \in Nat /\ DOMAIN t = 1..Len(t) /\ K \in SUBSET (1..Len(t))
  BY TextLen DEF Kept
<1>2. IsFiniteSet(K) /\ N \in Nat
  <2>1. IsFiniteSet(1..Len(t))
    BY <1>1, FS_Interval
  <2> HIDE DEF K
  <2>2. IsFiniteSet(K)
    BY <1>1, <2>1, FS_Subset
  <2> QED BY <2>2, FS_CardinalityType
<1>3. {k \in K : k <= Len(t)} = K /\ {k \in K : k <= 0} = {}
  BY <1>1
<1>4. Place(t, S, Len(t)) = N /\ Place(t, S, 0) = 0
  BY <1>3, FS_EmptySet DEF Place
<1>5. ASSUME NEW i \in K PROVE Place(t, S, i) \in 1..N
  <2>1. i \in 1..Len(t) /\ t[i] \in S
    BY <1>1 DEF Kept
  <2>2. Place(t, S, 0) < Place(t, S, i) /\ Place(t, S, i) <= Place(t, S, Len(t))
    BY <1>1, <2>1, PlaceMonotone
  <2>3. Place(t, S, i) \in Nat
    BY KeptUpTo
  <2> HIDE DEF K, N
  <2> QED BY <1>2, <1>4, <2>2, <2>3
<1>6. \A n \in 1..N : \E i \in K : Place(t, S, i) = n
  <2>1. R \in Injection(K, 1..N)
    <3>1. R \in [K -> 1..N]
      BY <1>5
    <3>2. \A a, b \in K : R[a] = R[b] => a = b
      BY PlaceInjective
    <3> QED BY <3>1, <3>2 DEF Injection, IsInjective
  <2>2. IsFiniteSet(1..N) /\ Cardinality(1..N) = N
    BY <1>2, FS_Interval
  <2> HIDE DEF R, N, K
  <2>3. R \in Surjection(K, 1..N)
    BY <2>1, <2>2, FS_Injection DEF N
  <2> QED BY <2>3 DEF R, Surjection
<1>7. Keep(t, S) = [n \in 1..N |-> t[CHOOSE i \in K : Place(t, S, i) = n]]
  BY DEF Keep, Kept, Place
<1>8. IsText(Keep(t, S)) /\ DOMAIN Keep(t, S) = 1..N
  <2> HIDE DEF K, N
  <2> QED BY <1>7, KeepIsText
<1>9. Len(Keep(t, S)) = N
  BY <1>2, <1>8, TextLen
<1>10. ASSUME NEW i \in K PROVE Keep(t, S)[Place(t, S, i)] = t[i]
  <2> DEFINE c == CHOOSE k \in K : Place(t, S, k) = Place(t, S, i)
  <2>1. c \in K /\ Place(t, S, c) = Place(t, S, i)
    OBVIOUS
  <2> HIDE DEF c
  <2>2. c = i
    BY <2>1, PlaceInjective
  <2>3. Keep(t, S)[Place(t, S, i)] = t[c]
    <3> HIDE DEF K, N
    <3> QED BY <1>5, <1>7 DEF c
  <2> QED BY <2>2, <2>3
<1> QED BY <1>4, <1>5, <1>6, <1>8, <1>9, <1>10

\* What is kept whole is not changed, and nothing else is kept.
LEMMA KeepAll ==
    ASSUME NEW t, IsText(t), NEW S, \A i \in DOMAIN t : t[i] \in S
    PROVE  Keep(t, S) = t
<1>1. Len(t) \in Nat /\ DOMAIN t = 1..Len(t)
  BY TextLen
<1>2. ASSUME NEW i \in 0..Len(t) PROVE Place(t, S, i) = i
  <2>1. 0 \in 0..Len(t) /\ i \in 0..Len(t) /\ \A k \in 0+1..i : t[k] \in S
    BY <1>1
  <2>2. Place(t, S, i) = Place(t, S, 0) + (i - 0)
    BY <2>1, PlaceOfStretch
  <2> QED BY <1>1, <2>2, KeepProperties
<1>3. IsText(Keep(t, S)) /\ Len(Keep(t, S)) = Len(t)
  BY <1>1, <1>2, KeepProperties
<1>4. \A i \in 1..Len(t) : Keep(t, S)[i] = t[i]
  <2> SUFFICES ASSUME NEW i \in 1..Len(t) PROVE Keep(t, S)[i] = t[i]
    OBVIOUS
  <2>1. i \in Kept(t, S) /\ Place(t, S, i) = i
    BY <1>1, <1>2 DEF Kept
  <2> QED BY <2>1, KeepProperties
<1> QED BY <1>3, <1>4, SameText

LEMMA KeepHolds ==
    ASSUME NEW t, IsText(t), NEW S
    PROVE  \A n \in DOMAIN Keep(t, S) : Keep(t, S)[n] \in S
<1>1. DOMAIN Keep(t, S) = 1..Len(Keep(t, S))
  BY KeepProperties, TextLen
<1> QED BY <1>1, KeepProperties DEF Kept

LEMMA KeepInSeq ==
    ASSUME NEW t, IsText(t), NEW S
    PROVE  Keep(t, S) \in Seq(S)
<1> DEFINE u == Keep(t, S)
<1>1. IsText(u) /\ Len(u) \in Nat /\ DOMAIN u = 1..Len(u)
  BY KeepProperties, TextLen
<1>2. \A n \in DOMAIN u : u[n] \in S
  BY KeepHolds
<1> HIDE DEF u
<1>3. u \in [1..Len(u) -> Chars(u)]
  BY <1>1, LenProperties DEF IsText
<1>4. u \in [1..Len(u) -> S]
  BY <1>1, <1>2, <1>3
<1>5. u \in Seq(S)
  BY <1>1, <1>4, SeqDef
<1> QED BY <1>5 DEF u

-----------------------------------------------------------------------------
(* Words that survive a change of the text.                                *)

\* The words of t with their numbers.
Numbered(t) ==
    {<<Cardinality({v \in Words(t) : v[1] < w[1]}), Slice(t, w[1], w[2])>> : w \in Words(t)}

LEMMA WordProperties ==
    ASSUME NEW t, IsText(t), NEW w \in Words(t)
    PROVE  /\ w[1] \in 0..Len(t)-1 /\ w[2] \in 1..Len(t) /\ w[1] < w[2]
           /\ w = <<w[1], w[2]>>
           /\ t[w[1] + 1] \in Letters
           /\ \A i \in w[1]+1..w[2] : InText(t, i)
           /\ w[2] < Len(t) => ~InText(t, w[2] + 1)
           /\ Quiet(t, w[1])
BY TextLen DEF Words, Quiet

LEMMA WordsFinite ==
    ASSUME NEW t, IsText(t)
    PROVE  IsFiniteSet(Words(t))
<1>1. IsFiniteSet(0..Len(t))
  BY TextLen, FS_Interval
<1>2. IsFiniteSet((0..Len(t)) \X (0..Len(t)))
  BY <1>1, FS_Product
<1> QED BY <1>2, FS_Subset DEF Words

\* Equal stretches are equal slices.
LEMMA SameSlice ==
    ASSUME NEW t, IsText(t), NEW u, IsText(u),
           NEW a \in 0..Len(t), NEW b \in a..Len(t),
           NEW c \in 0..Len(u), NEW d \in c..Len(u), d - c = b - a,
           \A k \in 1..b-a : u[c + k] = t[a + k]
    PROVE  Slice(u, c, d) = Slice(t, a, b)
<1>1. /\ Len(t) \in Nat /\ Len(u) \in Nat
      /\ a \in Nat /\ b \in Nat /\ a <= b /\ b <= Len(t)
      /\ c \in Nat /\ d \in Nat /\ c <= d /\ d <= Len(u)
      /\ DOMAIN t = 1..Len(t) /\ DOMAIN u = 1..Len(u)
  BY TextLen
<1>2. /\ Slice(t, a, b) = SubSeq(t, a + 1, b) /\ Slice(u, c, d) = SubSeq(u, c + 1, d)
      /\ Len(Slice(t, a, b)) = b - a /\ Len(Slice(u, c, d)) = b - a
  BY <1>1, SliceProperties
<1>3. /\ \A k \in 1..b-a : SubSeq(t, a + 1, b)[k] = t[a + k]
      /\ SubSeq(t, a + 1, b) \in Seq(Chars(t))
  <2>1. \A i \in a+1..b : t[i] \in Chars(t)
    BY <1>1 DEF Chars
  <2>2. /\ SubSeq(t, a + 1, b) \in Seq(Chars(t))
        /\ \A k \in 1..b - (a + 1) + 1 : SubSeq(t, a + 1, b)[k] = t[(a + 1) + k - 1]
    BY <1>1, <2>1, SubSeqProperties
  <2>3. \A k \in 1..b-a : k \in 1..b - (a + 1) + 1 /\ (a + 1) + k - 1 = a + k
    BY <1>1
  <2> QED BY <2>2, <2>3
<1>4. /\ \A k \in 1..d-c : SubSeq(u, c + 1, d)[k] = u[c + k]
      /\ SubSeq(u, c + 1, d) \in Seq(Chars(u))
  <2>1. \A i \in c+1..d : u[i] \in Chars(u)
    BY <1>1 DEF Chars
  <2>2. /\ SubSeq(u, c + 1, d) \in Seq(Chars(u))
        /\ \A k \in 1..d - (c + 1) + 1 : SubSeq(u, c + 1, d)[k] = u[(c + 1) + k - 1]
    BY <1>1, <2>1, SubSeqProperties
  <2>3. \A k \in 1..d-c : k \in 1..d - (c + 1) + 1 /\ (c + 1) + k - 1 = c + k
    BY <1>1
  <2> QED BY <2>2, <2>3
<1>5. IsText(SubSeq(t, a + 1, b)) /\ IsText(SubSeq(u, c + 1, d))
  BY <1>3, <1>4, TextOfSymbols
<1> DEFINE x == SubSeq(t, a + 1, b)
           y == SubSeq(u, c + 1, d)
<1>6. Len(x) = b - a /\ Len(y) = b - a
  BY <1>2
<1>7. \A k \in 1..b-a : x[k] = t[a + k] /\ y[k] = u[c + k]
  BY <1>3, <1>4
<1>8. IsText(x) /\ IsText(y)
  BY <1>5
<1> HIDE DEF x, y
<1>9. x = y
  <2>1. \A k \in 1..Len(x) : x[k] = y[k]
    BY <1>6, <1>7
  <2>2. Len(x) = Len(y)
    BY <1>6
  <2> QED BY <1>8, <2>1, <2>2, SameText
<1> QED BY <1>2, <1>9 DEF x, y

\* Where no letter or mark is touched, the words stay where they are.
LEMMA WordsUntouched ==
    ASSUME NEW t, IsText(t), NEW u, IsText(u), Len(u) = Len(t),
           \A i \in 1..Len(t) : u[i] = t[i] \/ (~InText(t, i) /\ ~InText(u, i))
    PROVE  Numbered(u) = Numbered(t)
<1>1. Len(t) \in Nat
  BY TextLen
<1>2. \A i \in 1..Len(t) : /\ InText(u, i) <=> InText(t, i)
                           /\ u[i] \in Letters <=> t[i] \in Letters
  BY DEF InText
<1>3. Words(u) = Words(t)
  <2>1. ASSUME NEW w \in Words(t) PROVE w \in Words(u)
    <3>1. w[1] \in 0..Len(t)-1 /\ w[2] \in 1..Len(t) /\ w \in (0..Len(u)) \X (0..Len(u))
      BY <1>1, <2>1 DEF Words
    <3> QED BY <1>1, <1>2, <3>1, <2>1 DEF Words
  <2>2. ASSUME NEW w \in Words(u) PROVE w \in Words(t)
    <3>1. w[1] \in 0..Len(t)-1 /\ w[2] \in 1..Len(t) /\ w \in (0..Len(t)) \X (0..Len(t))
      BY <1>1, <2>2 DEF Words
    <3> QED BY <1>1, <1>2, <3>1, <2>2 DEF Words
  <2> QED BY <2>1, <2>2
<1>4. ASSUME NEW w \in Words(t) PROVE Slice(u, w[1], w[2]) = Slice(t, w[1], w[2])
  <2> DEFINE a == w[1]
             b == w[2]
  <2>1. a \in 0..Len(t) /\ b \in a..Len(t) /\ \A i \in a+1..b : InText(t, i)
    BY <1>1, <1>4, WordProperties
  <2> HIDE DEF a, b
  <2>2. \A k \in 1..b-a : u[a + k] = t[a + k]
    <3> SUFFICES ASSUME NEW k \in 1..b-a PROVE u[a + k] = t[a + k]
      OBVIOUS
    <3>1. a + k \in a+1..b /\ a + k \in 1..Len(t)
      BY <1>1, <2>1
    <3> QED BY <2>1, <3>1
  <2>3. a \in 0..Len(u) /\ b \in a..Len(u) /\ b - a = b - a
    BY <2>1
  <2>4. Slice(u, a, b) = Slice(t, a, b)
    BY <2>1, <2>2, <2>3, SameSlice
  <2> QED BY <2>4 DEF a, b
<1> QED BY <1>3, <1>4 DEF Numbered

\* k is no place that could join two words when something beside it goes.
Apart(t, S, k) == k \in 1..Len(t) => t[k] \in S /\ ~InText(t, k)

\* Only such positions are dropped from t as lie beside the end of a word.
DropsApart(t, S) ==
    /\ Letters \cup Marks \subseteq S
    /\ \A i \in 1..Len(t) : t[i] \notin S => Apart(t, S, i - 1) \/ Apart(t, S, i + 1)

\* Where the word w comes to stand.
Moved(t, S, w) == <<Place(t, S, w[1]), Place(t, S, w[2])>>

LEMMA PlaceRange ==
    ASSUME NEW t, IsText(t), NEW S, NEW a \in 0..Len(t)
    PROVE  Place(t, S, a) \in 0..Len(Keep(t, S))
<1>1. Len(t) \in Nat /\ Len(t) \in a..Len(t)
  BY TextLen
<1>2. Place(t, S, a) <= Place(t, S, Len(t)) /\ Place(t, S, a) \in Nat
  BY <1>1, PlaceMonotone, KeptUpTo
<1> QED BY <1>2, KeepProperties, KeptUpTo

\* A stretch of letters and marks keeps its characters.
LEMMA StretchMoves ==
    ASSUME NEW t, IsText(t), NEW S, NEW a \in 0..Len(t), NEW b \in a..Len(t),
           \A i \in a+1..b : t[i] \in S
    PROVE  /\ Place(t, S, b) - Place(t, S, a) = b - a
           /\ \A k \in 1..b-a : Keep(t, S)[Place(t, S, a) + k] = t[a + k]
<1>1. Len(t) \in Nat /\ DOMAIN t = 1..Len(t) /\ Place(t, S, a) \in Nat
  BY TextLen, KeptUpTo
<1>2. Place(t, S, b) = Place(t, S, a) + (b - a)
  BY PlaceOfStretch
<1>3. ASSUME NEW k \in 1..b-a PROVE Keep(t, S)[Place(t, S, a) + k] = t[a + k]
  <2>1. a + k \in a..Len(t) /\ a + k \in a+1..b /\ \A i \in a+1..a+k : t[i] \in S
    BY <1>1
  <2>2. Place(t, S, a + k) = Place(t, S, a) + ((a + k) - a)
    BY <2>1, PlaceOfStretch
  <2>3. Place(t, S, a + k) = Place(t, S, a) + k
    BY <1>1, <2>2
  <2>4. a + k \in Kept(t, S)
    BY <1>1, <2>1 DEF Kept
  <2> QED BY <2>3, <2>4, KeepProperties
<1> QED BY <1>1, <1>2, <1>3

\* What ends a word before a is kept before a.
LEMMA QuietMoves ==
    ASSUME NEW t, IsText(t), NEW S, DropsApart(t, S),
           NEW a \in 0..Len(t)-1, t[a + 1] \in Letters
    PROVE  Quiet(t, a) <=> Quiet(Keep(t, S), Place(t, S, a))
<1> DEFINE u == Keep(t, S)
           P(i) == Place(t, S, i)
<1>1. /\ Len(t) \in Nat /\ DOMAIN t = 1..Len(t) /\ a \in Nat /\ a + 1 \in 1..Len(t)
      /\ Len(u) \in Nat /\ P(a) \in 0..Len(u)
  <2>1. Len(t) \in Nat /\ DOMAIN t = 1..Len(t) /\ a \in 0..Len(t)
    BY TextLen
  <2>2. IsText(u)
    BY KeepProperties
  <2> QED BY <2>1, <2>2, TextLen, PlaceRange
<1>2. ASSUME NEW i \in 1..Len(t), t[i] \in Letters PROVE i \in Kept(t, S)
  BY <1>1, <1>2 DEF Kept, DropsApart
<1>3. ASSUME Quiet(t, a), NEW n \in 1..P(a), u[n] \in Letters
      PROVE  \E k \in n+1..P(a) : ~InText(u, k)
  <2>1. n \in 1..Len(u)
    BY <1>1
  <2>2. PICK i \in Kept(t, S) : P(i) = n
    BY <2>1, KeepProperties
  <2>3. i \in 1..Len(t) /\ t[i] \in S /\ u[n] = t[i]
    BY <1>1, <2>2, KeepProperties DEF Kept
  <2>4. i <= a
    <3>1. ASSUME a < i PROVE FALSE
      <4>1. P(a) < P(i)
        BY <1>1, <2>3, <3>1, PlaceMonotone
      <4> QED BY <1>1, <2>2, <4>1
    <3> QED BY <1>1, <2>3, <3>1
  <2>5. PICK k \in i+1..a : ~InText(t, k)
    BY <1>3, <2>3, <2>4, <1>1 DEF Quiet
  <2>6. \E m \in i+1..a : m \in Kept(t, S) /\ ~InText(t, m)
    <3>1. CASE t[k] \in S
      BY <1>1, <2>3, <2>5, <3>1 DEF Kept
    <3>2. CASE t[k] \notin S
      <4>1. k \in 1..Len(t)
        BY <1>1, <2>3, <2>5
      <4>2. Apart(t, S, k - 1) \/ Apart(t, S, k + 1)
        BY <3>2, <4>1 DEF DropsApart
      <4>3. InText(t, i) /\ InText(t, a + 1)
        BY <1>3, <2>3 DEF InText
      <4>4. k - 1 \in 1..Len(t) /\ k + 1 \in 1..Len(t)
        BY <1>1, <2>3, <2>5
      <4>5. CASE Apart(t, S, k - 1)
        <5>1. t[k - 1] \in S /\ ~InText(t, k - 1)
          BY <4>4, <4>5 DEF Apart
        <5>2. k - 1 # i
          BY <4>3, <5>1
        <5>3. k - 1 \in i+1..a
          BY <1>1, <2>3, <2>5, <5>2
        <5> QED BY <1>1, <4>4, <5>1, <5>3 DEF Kept
      <4>6. CASE Apart(t, S, k + 1)
        <5>1. t[k + 1] \in S /\ ~InText(t, k + 1)
          BY <4>4, <4>6 DEF Apart
        <5>2. k + 1 # a + 1
          BY <4>3, <5>1
        <5>3. k + 1 \in i+1..a
          BY <1>1, <2>3, <2>5, <5>2
        <5> QED BY <1>1, <4>4, <5>1, <5>3 DEF Kept
      <4> QED BY <4>2, <4>5, <4>6
    <3> QED BY <3>1, <3>2
  <2>7. PICK m \in i+1..a : m \in Kept(t, S) /\ ~InText(t, m)
    BY <2>6
  <2>8. P(m) \in n+1..P(a) /\ u[P(m)] = t[m]
    <3>1. m \in i..Len(t) /\ m \in 0..Len(t) /\ a \in m..Len(t) /\ i \in 0..Len(t) /\ t[m] \in S /\ i < m
      BY <1>1, <2>3, <2>7 DEF Kept
    <3>2. P(i) < P(m) /\ P(m) <= P(a)
      BY <3>1, PlaceMonotone
    <3>3. P(i) \in Nat /\ P(m) \in Nat
      BY KeptUpTo
    <3>4. u[P(m)] = t[m]
      BY <2>7, KeepProperties
    <3> HIDE DEF P, u
    <3> QED BY <1>1, <2>2, <3>2, <3>3, <3>4
  <2> QED BY <2>7, <2>8 DEF InText
<1>4. ASSUME Quiet(u, P(a)), NEW i \in 1..a, t[i] \in Letters
      PROVE  \E k \in i+1..a : ~InText(t, k)
  <2>1. i \in 1..Len(t) /\ i \in Kept(t, S) /\ t[i] \in S
    BY <1>1, <1>2, <1>4 DEF Kept
  <2>2. P(i) \in 1..P(a) /\ u[P(i)] = t[i]
    <3>1. a \in i..Len(t) /\ i \in 0..Len(t)
      BY <1>1, <2>1
    <3>2. P(i) <= P(a) /\ P(i) \in 1..Len(u) /\ u[P(i)] = t[i]
      BY <2>1, <3>1, PlaceMonotone, KeepProperties
    <3> HIDE DEF P, u
    <3> QED BY <1>1, <3>2
  <2>3. PICK n \in P(i)+1..P(a) : ~InText(u, n)
    BY <1>4, <2>2 DEF Quiet
  <2>4. n \in 1..Len(u)
    <3> HIDE DEF P, u
    <3> QED BY <1>1, <2>2, <2>3
  <2>5. PICK k \in Kept(t, S) : P(k) = n
    BY <2>4, KeepProperties
  <2>6. k \in 1..Len(t) /\ t[k] \in S /\ u[n] = t[k]
    BY <1>1, <2>5, KeepProperties DEF Kept
  <2>7. k \in i+1..a
    <3>1. ASSUME k <= i PROVE FALSE
      <4>1. k \in 0..Len(t) /\ i \in k..Len(t)
        BY <1>1, <2>1, <2>6, <3>1
      <4>2. P(k) <= P(i)
        BY <4>1, PlaceMonotone
      <4> HIDE DEF P
      <4> QED BY <1>1, <2>2, <2>3, <2>5, <4>2
    <3>2. ASSUME a < k PROVE FALSE
      <4>1. P(a) < P(k)
        BY <1>1, <2>6, <3>2, PlaceMonotone
      <4> HIDE DEF P
      <4> QED BY <1>1, <2>2, <2>3, <2>5, <4>1
    <3> QED BY <1>1, <2>1, <2>6, <3>1, <3>2
  <2> QED BY <2>3, <2>6, <2>7 DEF InText
<1> QED BY <1>3, <1>4 DEF Quiet

\* A word keeps its characters and stays a word.
LEMMA WordMoves ==
    ASSUME NEW t, IsText(t), NEW S, DropsApart(t, S), NEW w \in Words(t)
    PROVE  LET u == Keep(t, S)
               m == Moved(t, S, w)
           IN  m \in Words(u) /\ Slice(u, m[1], m[2]) = Slice(t, w[1], w[2])
<1> DEFINE u == Keep(t, S)
           a == w[1]
           b == w[2]
           c == Place(t, S, a)
           d == Place(t, S, b)
<1>1. /\ Len(t) \in Nat /\ DOMAIN t = 1..Len(t) /\ IsText(u) /\ Len(u) \in Nat
  BY TextLen, KeepProperties
<1>2. /\ a \in 0..Len(t)-1 /\ b \in 1..Len(t) /\ a < b
      /\ t[a + 1] \in Letters
      /\ \A i \in a+1..b : InText(t, i)
      /\ b < Len(t) => ~InText(t, b + 1)
      /\ Quiet(t, a)
  BY WordProperties
<1> HIDE DEF a, b
<1>3. \A i \in a+1..b : t[i] \in S
  BY <1>2 DEF InText, DropsApart
<1>4. /\ d - c = b - a
      /\ \A k \in 1..b-a : u[c + k] = t[a + k]
  <2>1. a \in 0..Len(t) /\ b \in a..Len(t)
    BY <1>1, <1>2
  <2> QED BY <1>3, <2>1, StretchMoves
<1>5. c \in 0..Len(u) /\ d \in 0..Len(u)
  <2>1. a \in 0..Len(t) /\ b \in 0..Len(t)
    BY <1>1, <1>2
  <2> QED BY <2>1, PlaceRange
<1>6. Quiet(u, c)
  BY <1>2, QuietMoves
<1>7. d < Len(u) => ~InText(u, d + 1)
  <2> SUFFICES ASSUME d < Len(u), InText(u, d + 1) PROVE FALSE
    OBVIOUS
  <2>1. d + 1 \in 1..Len(u)
    BY <1>1, <1>5
  <2>2. PICK i \in Kept(t, S) : Place(t, S, i) = d + 1
    BY <2>1, KeepProperties
  <2>3. i \in 1..Len(t) /\ t[i] \in S /\ InText(t, i)
    BY <1>1, <2>2, KeepProperties DEF Kept, InText
  <2>4. b < i
    <3>1. ASSUME i <= b PROVE FALSE
      <4>1. i \in 0..Len(t) /\ b \in i..Len(t)
        BY <1>1, <1>2, <2>3, <3>1
      <4>2. Place(t, S, i) <= d
        BY <4>1, PlaceMonotone
      <4> QED BY <1>1, <1>5, <2>2, <4>2
    <3> QED BY <1>2, <2>3, <3>1
  <2>5. b < Len(t) /\ ~InText(t, b + 1) /\ i # b + 1 /\ b + 1 \in 1..Len(t) /\ b + 1 < i
    BY <1>1, <1>2, <2>3, <2>4
  <2>6. \E k \in b+1..i-1 : k \in Kept(t, S)
    <3>1. CASE t[b + 1] \in S
      BY <1>1, <2>5, <3>1 DEF Kept
    <3>2. CASE t[b + 1] \notin S
      <4>1. Apart(t, S, (b + 1) - 1) \/ Apart(t, S, (b + 1) + 1)
        BY <2>5, <3>2 DEF DropsApart
      <4>2. (b + 1) - 1 = b /\ b \in 1..Len(t) /\ InText(t, b)
        BY <1>2
      <4>3. Apart(t, S, b + 2)
        <5>1. ~Apart(t, S, b)
          BY <4>2 DEF Apart
        <5>2. (b + 1) + 1 = b + 2
          BY <1>2
        <5> QED BY <4>1, <4>2, <5>1, <5>2
      <4>4. b + 2 \in 1..Len(t) /\ b + 2 <= i
        BY <1>1, <1>2, <2>3, <2>5
      <4>5. t[b + 2] \in S /\ ~InText(t, b + 2)
        BY <4>3, <4>4 DEF Apart
      <4>6. b + 2 \in b+1..i-1
        <5>1. b + 2 # i
          BY <2>3, <4>5
        <5> QED BY <1>1, <1>2, <2>3, <2>5, <4>4, <5>1
      <4> QED BY <1>1, <4>4, <4>5, <4>6 DEF Kept
    <3> QED BY <3>1, <3>2
  <2>7. PICK k \in b+1..i-1 : k \in Kept(t, S)
    BY <2>6
  <2>8. d < Place(t, S, k) /\ Place(t, S, k) < Place(t, S, i)
    <3>1. /\ b \in 0..Len(t) /\ k \in b..Len(t) /\ b < k /\ t[k] \in S
          /\ k \in 0..Len(t) /\ i \in k..Len(t) /\ k < i /\ t[i] \in S
      BY <1>1, <1>2, <2>3, <2>7 DEF Kept
    <3> QED BY <3>1, PlaceMonotone
  <2>9. Place(t, S, k) \in Nat
    BY KeptUpTo
  <2> QED BY <1>1, <1>5, <2>2, <2>8, <2>9
<1>8. <<c, d>> \in Words(u)
  <2> HIDE DEF c, d, u
  <2>1. c < d /\ c \in Nat /\ d \in Nat /\ a \in Nat /\ b \in Nat /\ b - a \in Nat
    BY <1>1, <1>2, <1>4, <1>5
  <2>2. u[c + 1] \in Letters
    <3>1. 1 \in 1..b-a
      BY <1>2, <2>1
    <3> QED BY <1>2, <1>4, <3>1
  <2>3. \A i \in c+1..d : InText(u, i)
    <3> SUFFICES ASSUME NEW i \in c+1..d PROVE InText(u, i)
      OBVIOUS
    <3>1. i - c \in 1..b-a /\ c + (i - c) = i /\ a + (i - c) \in a+1..b
      BY <1>4, <2>1
    <3> QED BY <1>2, <1>4, <3>1 DEF InText
  <2> QED BY <1>5, <1>6, <1>7, <2>1, <2>2, <2>3 DEF Words, Quiet
<1>9. Slice(u, c, d) = Slice(t, a, b)
  <2> HIDE DEF c, d, u
  <2>1. /\ a \in 0..Len(t) /\ b \in a..Len(t)
        /\ c \in 0..Len(u) /\ d \in c..Len(u)
    BY <1>1, <1>2, <1>4, <1>5
  <2>2. IsText(t) /\ IsText(u) /\ d - c = b - a
    BY <1>1, <1>4
  <2>3. \A k \in 1..b-a : u[c + k] = t[a + k]
    BY <1>4
  <2> QED BY <2>1, <2>2, <2>3, SameSlice, ZenonT(60)
<1> QED BY <1>8, <1>9 DEF Moved, a, b

\* Every word of what is kept was a word before.
LEMMA WordComesFrom ==
    ASSUME NEW t, IsText(t), NEW S, DropsApart(t, S), NEW m \in Words(Keep(t, S))
    PROVE  \E w \in Words(t) : Moved(t, S, w) = m
<1> DEFINE u == Keep(t, S)
           c == m[1]
           d == m[2]
<1>1. Len(t) \in Nat /\ DOMAIN t = 1..Len(t) /\ IsText(u) /\ Len(u) \in Nat
  BY TextLen, KeepProperties
<1>2. /\ c \in 0..Len(u)-1 /\ d \in 1..Len(u) /\ c < d /\ m = <<c, d>>
      /\ u[c + 1] \in Letters
      /\ \A n \in c+1..d : InText(u, n)
      /\ d < Len(u) => ~InText(u, d + 1)
      /\ Quiet(u, c)
  BY <1>1, WordProperties
<1>3. c + 1 \in 1..Len(u) /\ c \in Nat /\ d \in Nat
  BY <1>1, <1>2
<1> HIDE DEF c, d
<1>4. PICK x \in Kept(t, S) : Place(t, S, x) = c + 1
  BY <1>3, KeepProperties
<1>5. PICK b \in Kept(t, S) : Place(t, S, b) = d
  BY <1>2, KeepProperties
<1> DEFINE a == x - 1
<1>6. /\ x \in 1..Len(t) /\ b \in 1..Len(t) /\ t[x] \in S /\ t[b] \in S
      /\ t[x] = u[c + 1] /\ t[b] = u[d]
      /\ a \in 0..Len(t)-1 /\ a + 1 = x /\ a \in Nat
  BY <1>1, <1>4, <1>5, KeepProperties DEF Kept
<1>7. x <= b
  <2>1. ASSUME b < x PROVE FALSE
    <3>1. b \in 0..Len(t) /\ x \in b..Len(t)
      BY <1>1, <1>6, <2>1
    <3>2. Place(t, S, b) < Place(t, S, x)
      BY <1>6, <2>1, <3>1, PlaceMonotone
    <3> QED BY <1>2, <1>3, <1>4, <1>5, <3>2
  <2> QED BY <1>6, <2>1
<1>8. Place(t, S, a) = c
  <2>1. /\ a \in 0..Len(t) /\ x \in a..Len(t)
        /\ \A i \in a+1..x : t[i] \in S
    BY <1>1, <1>6
  <2>2. Place(t, S, x) = Place(t, S, a) + (x - a)
    BY <2>1, PlaceOfStretch
  <2>3. Place(t, S, a) \in Nat
    BY KeptUpTo
  <2>4. x - a = 1
    BY <1>6
  <2> QED BY <1>3, <1>4, <2>2, <2>3, <2>4
\* A kept position between x and b stands inside the word.
<1>9. ASSUME NEW i \in x..b, t[i] \in S PROVE InText(t, i)
  <2>1. /\ i \in 1..Len(t) /\ i \in Kept(t, S) /\ i \in 0..Len(t) /\ x \in 0..Len(t)
        /\ i \in x..Len(t) /\ b \in i..Len(t)
    BY <1>1, <1>6, <1>9 DEF Kept
  <2>2. Place(t, S, x) <= Place(t, S, i) /\ Place(t, S, i) <= Place(t, S, b)
    BY <2>1, PlaceMonotone
  <2>3. Place(t, S, i) \in c+1..d
    <3>1. Place(t, S, i) \in Nat
      BY KeptUpTo
    <3> QED BY <1>3, <1>4, <1>5, <2>2, <3>1
  <2>4. u[Place(t, S, i)] = t[i]
    BY <2>1, KeepProperties
  <2> HIDE DEF u
  <2> QED BY <1>2, <2>3, <2>4 DEF InText
\* Nothing between them was dropped: it would lie beside the end of a word.
<1>10. ASSUME NEW i \in x..b PROVE t[i] \in S
  <2> SUFFICES ASSUME t[i] \notin S PROVE FALSE
    OBVIOUS
  <2>1. i \in 1..Len(t) /\ i # x /\ i # b
    BY <1>1, <1>6
  <2>2. /\ i - 1 \in x..b /\ i + 1 \in x..b
        /\ i - 1 \in 1..Len(t) /\ i + 1 \in 1..Len(t)
    BY <1>1, <1>6, <1>7, <2>1
  <2>3. Apart(t, S, i - 1) \/ Apart(t, S, i + 1)
    BY <2>1 DEF DropsApart
  <2>4. CASE Apart(t, S, i - 1)
    BY <1>9, <2>2, <2>4 DEF Apart
  <2>5. CASE Apart(t, S, i + 1)
    BY <1>9, <2>2, <2>5 DEF Apart
  <2> QED BY <2>3, <2>4, <2>5
<1>11. b < Len(t) => ~InText(t, b + 1)
  <2> SUFFICES ASSUME b < Len(t), InText(t, b + 1) PROVE FALSE
    OBVIOUS
  <2>1. b \in 0..Len(t) /\ b + 1 \in b..Len(t) /\ b + 1 \in 1..Len(t)
    BY <1>1, <1>6
  <2>2. t[b + 1] \in S
    BY DEF InText, DropsApart
  <2>3. b + 1 \in Kept(t, S) /\ \A i \in b+1..b+1 : t[i] \in S
    BY <1>1, <1>6, <2>1, <2>2 DEF Kept
  <2>4. Place(t, S, b + 1) = Place(t, S, b) + ((b + 1) - b)
    BY <2>1, <2>3, PlaceOfStretch
  <2>5. Place(t, S, b + 1) = d + 1
    <3>1. (b + 1) - b = 1
      BY <1>6
    <3> QED BY <1>5, <2>4, <3>1
  <2>6. d + 1 \in 1..Len(u) /\ u[d + 1] = t[b + 1]
    BY <2>3, <2>5, KeepProperties
  <2> HIDE DEF u
  <2>7. d < Len(u)
    BY <1>1, <1>3, <2>6
  <2> QED BY <1>2, <2>6, <2>7 DEF InText
<1>12. Quiet(t, a)
  <2>1. t[a + 1] \in Letters
    BY <1>2, <1>6
  <2>2. Quiet(t, a) <=> Quiet(u, Place(t, S, a))
    BY <1>6, <2>1, QuietMoves
  <2> QED BY <1>2, <1>8, <2>2
<1>13. <<a, b>> \in Words(t)
  <2>1. \A i \in a+1..b : InText(t, i)
    BY <1>6, <1>9, <1>10
  <2>2. a \in 0..Len(t) /\ b \in 0..Len(t) /\ a < b
    BY <1>1, <1>6, <1>7
  <2>3. t[a + 1] \in Letters
    BY <1>2, <1>6
  <2> HIDE DEF a
  <2> QED BY <1>11, <1>12, <2>1, <2>2, <2>3 DEF Words, Quiet
<1>14. Moved(t, S, <<a, b>>) = m
  BY <1>2, <1>5, <1>8 DEF Moved
<1> QED BY <1>13, <1>14

\* Words stay in their order.
LEMMA MovedInOrder ==
    ASSUME NEW t, IsText(t), NEW S, DropsApart(t, S), NEW v \in Words(t), NEW w \in Words(t)
    PROVE  /\ v[1] < w[1] <=> Moved(t, S, v)[1] < Moved(t, S, w)[1]
           /\ Moved(t, S, v) = Moved(t, S, w) => v = w
<1>1. Len(t) \in Nat
  BY TextLen
<1>2. ASSUME NEW x \in Words(t), NEW y \in Words(t)
      PROVE  /\ x[1] \in 0..Len(t)-1 /\ x[2] \in 1..Len(t) /\ x = <<x[1], x[2]>>
             /\ t[x[1] + 1] \in S /\ t[x[2]] \in S /\ x[2] \in Kept(t, S)
             /\ Place(t, S, x[1]) \in Nat
             /\ x[1] < y[1] => Place(t, S, x[1]) < Place(t, S, y[1])
  <2>1. /\ x[1] \in 0..Len(t)-1 /\ x[2] \in 1..Len(t) /\ x[1] < x[2] /\ x = <<x[1], x[2]>>
        /\ y[1] \in 0..Len(t)-1
        /\ t[x[1] + 1] \in Letters /\ \A i \in x[1]+1..x[2] : InText(t, i)
    BY WordProperties
  <2>2. x[2] \in x[1]+1..x[2]
    BY <1>1, <2>1
  <2>3. t[x[1] + 1] \in S /\ t[x[2]] \in S /\ x[2] \in Kept(t, S)
    BY <2>1, <2>2, TextLen DEF InText, DropsApart, Kept
  <2>4. Place(t, S, x[1]) \in Nat /\ Place(t, S, y[1]) \in Nat /\ Place(t, S, x[1] + 1) \in Nat
    BY KeptUpTo
  <2>5. ASSUME x[1] < y[1] PROVE Place(t, S, x[1]) < Place(t, S, y[1])
    <3> DEFINE a == x[1]
               b == y[1]
    <3>1. a \in 0..Len(t)-1 /\ b \in 0..Len(t)-1 /\ a < b /\ t[a + 1] \in S
      BY <2>1, <2>3, <2>5
    <3>2. Place(t, S, a) \in Nat /\ Place(t, S, a + 1) \in Nat /\ Place(t, S, b) \in Nat
      BY <2>4
    <3> HIDE DEF a, b
    <3>3. a \in 0..Len(t) /\ a + 1 \in a..Len(t) /\ a + 1 \in 0..Len(t) /\ b \in a+1..Len(t) /\ a < a + 1
      BY <1>1, <3>1
    <3>4. Place(t, S, a) < Place(t, S, a + 1) /\ Place(t, S, a + 1) <= Place(t, S, b)
      BY <3>1, <3>3, PlaceMonotone
    <3>5. Place(t, S, a) < Place(t, S, b)
      BY <3>2, <3>4
    <3> QED BY <3>5 DEF a, b
  <2> QED BY <2>1, <2>3, <2>4, <2>5
<1>3. /\ Moved(t, S, v)[1] = Place(t, S, v[1]) /\ Moved(t, S, v)[2] = Place(t, S, v[2])
      /\ Moved(t, S, w)[1] = Place(t, S, w[1]) /\ Moved(t, S, w)[2] = Place(t, S, w[2])
  BY DEF Moved
<1>4. v[1] < w[1] <=> Moved(t, S, v)[1] < Moved(t, S, w)[1]
  <2>1. v[1] \in Nat /\ w[1] \in Nat
    BY <1>1, <1>2
  <2>2. CASE v[1] < w[1]
    BY <1>2, <1>3, <2>2
  <2>3. CASE w[1] < v[1]
    <3>1. Place(t, S, w[1]) < Place(t, S, v[1]) /\ Place(t, S, w[1]) \in Nat /\ Place(t, S, v[1]) \in Nat
      BY <1>2, <2>3
    <3> QED BY <1>3, <2>1, <2>3, <3>1
  <2>4. CASE v[1] = w[1]
    <3>1. Place(t, S, w[1]) \in Nat
      BY <1>2
    <3> QED BY <1>3, <2>1, <2>4, <3>1
  <2> QED BY <2>1, <2>2, <2>3, <2>4
<1>5. ASSUME Moved(t, S, v) = Moved(t, S, w) PROVE v = w
  <2>1. v[2] = w[2]
    BY <1>2, <1>3, <1>5, PlaceInjective
  <2>2. v[1] \in Nat /\ w[1] \in Nat /\ Place(t, S, v[1]) \in Nat /\ Place(t, S, v[1]) = Place(t, S, w[1])
    BY <1>1, <1>2, <1>3, <1>5
  <2>3. ~(v[1] < w[1]) /\ ~(w[1] < v[1])
    BY <1>2, <2>2
  <2>4. v[1] = w[1]
    BY <2>2, <2>3
  <2>5. v = <<v[1], v[2]>> /\ w = <<w[1], w[2]>>
    BY <1>2
  <2> QED BY <2>1, <2>4, <2>5
<1> QED BY <1>4, <1>5

\* Dropping what lies beside the end of a word changes neither a word nor its
\* number.
LEMMA KeepNumbered ==
    ASSUME NEW t, IsText(t), NEW S, DropsApart(t, S)
    PROVE  Numbered(Keep(t, S)) = Numbered(t)
<1> DEFINE u == Keep(t, S)
           Before(s, w) == {v \in Words(s) : v[1] < w[1]}
           M == [w \in Words(t) |-> Moved(t, S, w)]
<1>1. \A w \in Words(t) : M[w] \in Words(u) /\ Slice(u, M[w][1], M[w][2]) = Slice(t, w[1], w[2])
  BY WordMoves
<1>2. \A m \in Words(u) : \E w \in Words(t) : M[w] = m
  BY WordComesFrom
<1>3. \A v, x \in Words(t) : v[1] < x[1] <=> M[v][1] < M[x][1]
  BY MovedInOrder
<1>4. \A v, x \in Words(t) : M[v] = M[x] => v = x
  BY MovedInOrder
<1>5. IsFiniteSet(Words(t))
  BY WordsFinite
<1> HIDE DEF u, M
<1>6. ASSUME NEW w \in Words(t) PROVE Cardinality(Before(u, M[w])) = Cardinality(Before(t, w))
  <2> DEFINE X == Before(t, w)
             Y == Before(u, M[w])
             F == [v \in X |-> M[v]]
  <2>1. /\ \A v : v \in X <=> v \in Words(t) /\ v[1] < w[1]
        /\ \A m : m \in Y <=> m \in Words(u) /\ m[1] < M[w][1]
    OBVIOUS
  <2>2. X \in SUBSET Words(t)
    OBVIOUS
  <2>3. F = [v \in X |-> M[v]]
    OBVIOUS
  <2> HIDE DEF X, Y, F
  <2>4. \A v \in X : v \in Words(t) /\ F[v] = M[v] /\ M[v] \in Y
    BY <1>1, <1>3, <2>1, <2>3
  <2>5. F \in [X -> Y]
    BY <2>3, <2>4
  <2>6. \A v, x \in X : F[v] = F[x] => v = x
    BY <1>4, <2>2, <2>4
  <2>7. ASSUME NEW m \in Y PROVE \E v \in X : F[v] = m
    <3>1. PICK v \in Words(t) : M[v] = m
      BY <1>2, <2>1
    <3>2. v \in X
      BY <1>3, <2>1, <3>1
    <3> QED BY <2>4, <3>1, <3>2
  <2>8. F \in Bijection(X, Y)
    BY <2>5, <2>6, <2>7 DEF Bijection, Injection, Surjection, IsInjective
  <2>9. IsFiniteSet(X)
    BY <1>5, <2>2, FS_Subset
  <2>10. ExistsBijection(X, Y)
    BY <2>8 DEF ExistsBijection
  <2>11. Cardinality(Y) = Cardinality(X)
    BY <2>9, <2>10, FS_Bijection
  <2> QED BY <2>11 DEF X, Y
<1>7. /\ Numbered(t) = {<<Cardinality(Before(t, w)), Slice(t, w[1], w[2])>> : w \in Words(t)}
      /\ Numbered(u) = {<<Cardinality(Before(u, m)), Slice(u, m[1], m[2])>> : m \in Words(u)}
  BY DEF Numbered
<1> HIDE DEF Before
<1>8. ASSUME NEW e \in Numbered(t) PROVE e \in Numbered(u)
  <2>1. PICK w \in Words(t) : e = <<Cardinality(Before(t, w)), Slice(t, w[1], w[2])>>
    BY <1>7, <1>8
  <2>2. e = <<Cardinality(Before(u, M[w])), Slice(u, M[w][1], M[w][2])>> /\ M[w] \in Words(u)
    BY <1>1, <1>6, <2>1
  <2> QED BY <1>7, <2>2
<1>9. ASSUME NEW e \in Numbered(u) PROVE e \in Numbered(t)
  <2>1. PICK m \in Words(u) : e = <<Cardinality(Before(u, m)), Slice(u, m[1], m[2])>>
    BY <1>7, <1>9
  <2>2. PICK w \in Words(t) : M[w] = m
    BY <1>2
  <2>3. e = <<Cardinality(Before(t, w)), Slice(t, w[1], w[2])>>
    BY <1>1, <1>6, <2>1, <2>2
  <2> QED BY <1>7, <2>3
<1>10. Numbered(u) = Numbered(t)
  BY <1>8, <1>9
<1> QED BY <1>10 DEF u

-----------------------------------------------------------------------------
(* Ingestion and words.                                                    *)

\* t without its controls m, before what is gone is left out.
Substituted(t, m) ==
    [i \in DOMAIN t |->
        IF t[i] = m /\ {CharAt(t, i - 1), CharAt(t, i + 1)} \cap Alphanumeric = {}
        THEN Substitute(t, i) ELSE t[i]]

\* No control m touches a mark.
CleanOf(t, m) ==
    \A i \in DOMAIN t : t[i] = m => CharAt(t, i - 1) \notin Marks /\ CharAt(t, i + 1) \notin Marks

LEMMA SubstitutedProperties ==
    ASSUME NEW t \in Seq(Symbols), NEW m \in Markers
    PROVE  LET v == Substituted(t, m) IN
           /\ IsText(t) /\ IsText(v) /\ Len(v) = Len(t) /\ Len(t) \in Nat
           /\ DOMAIN t = 1..Len(t)
           /\ StripMarker(t, m) = Keep(v, Symbols)
           /\ \A i \in 1..Len(t) :
                 \/ v[i] = t[i]
                 \/ t[i] = m /\ v[i] = "space"
                 \/ /\ t[i] = m /\ v[i] = "gone"
                    /\ CharAt(t, i - 1) \notin Alphanumeric /\ CharAt(t, i + 1) \notin Alphanumeric
                    /\ CharAt(t, i - 1) \notin Alpha \/ CharAt(t, i + 1) \notin Alpha
<1> DEFINE v == Substituted(t, m)
<1>1. IsText(t) /\ Len(t) \in Nat /\ DOMAIN t = 1..Len(t)
  BY TextOfSymbols, TextLen
<1>2. v = [i \in DOMAIN t |-> v[i]] /\ DOMAIN v = DOMAIN t
  BY DEF Substituted
<1>3. IsText(v)
  <2> HIDE DEF v
  <2> QED BY <1>1, <1>2, MappedIsText
<1>4. Len(v) = Len(t)
  <2> HIDE DEF v
  <2>1. Len(v) \in Nat /\ 1..Len(v) = 1..Len(t)
    BY <1>1, <1>2, <1>3, TextLen
  <2> QED BY <1>1, <2>1
<1>5. StripMarker(t, m) = Keep(v, Symbols)
  BY DEF StripMarker, Substituted
<1>6. ASSUME NEW i \in 1..Len(t)
      PROVE  \/ v[i] = t[i]
             \/ t[i] = m /\ v[i] = "space"
             \/ /\ t[i] = m /\ v[i] = "gone"
                /\ CharAt(t, i - 1) \notin Alphanumeric /\ CharAt(t, i + 1) \notin Alphanumeric
                /\ CharAt(t, i - 1) \notin Alpha \/ CharAt(t, i + 1) \notin Alpha
  <2>1. v[i] = IF t[i] = m /\ {CharAt(t, i - 1), CharAt(t, i + 1)} \cap Alphanumeric = {}
               THEN Substitute(t, i) ELSE t[i]
    BY <1>1 DEF Substituted
  <2> QED BY <2>1 DEF Substitute
<1> QED BY <1>1, <1>3, <1>4, <1>5, <1>6

LEMMA StripMarkerNumbered ==
    ASSUME NEW t \in Seq(Symbols), NEW m \in Markers, CleanOf(t, m)
    PROVE  /\ StripMarker(t, m) \in Seq(Symbols)
           /\ Numbered(StripMarker(t, m)) = Numbered(t)
<1> DEFINE v == Substituted(t, m)
<1>1. /\ IsText(t) /\ IsText(v) /\ Len(v) = Len(t) /\ Len(t) \in Nat
      /\ DOMAIN t = 1..Len(t)
      /\ StripMarker(t, m) = Keep(v, Symbols)
      /\ \A i \in 1..Len(t) :
            \/ v[i] = t[i]
            \/ t[i] = m /\ v[i] = "space"
            \/ /\ t[i] = m /\ v[i] = "gone"
               /\ CharAt(t, i - 1) \notin Alphanumeric /\ CharAt(t, i + 1) \notin Alphanumeric
               /\ CharAt(t, i - 1) \notin Alpha \/ CharAt(t, i + 1) \notin Alpha
  BY SubstitutedProperties
<1> HIDE DEF v
<1>2. /\ m \notin Letters \cup Marks
      /\ {"space", "gone"} \cap (Letters \cup Marks) = {}
      /\ m \in Alphanumeric /\ "space" \in Symbols
      /\ Letters \cup Marks \subseteq Symbols
      /\ Letters \subseteq Alpha
  BY DEF Letters, Marks, Markers, Alphanumeric, Symbols, Alpha
<1>3. \A i \in 1..Len(t) : t[i] \in Symbols
  BY ElementOfSeq
<1>4. Numbered(v) = Numbered(t)
  <2>1. \A i \in 1..Len(t) : v[i] = t[i] \/ (~InText(t, i) /\ ~InText(v, i))
    BY <1>1, <1>2 DEF InText
  <2> QED BY <1>1, <2>1, WordsUntouched
<1>5. DropsApart(v, Symbols)
  <2>1. ASSUME NEW i \in 1..Len(v), v[i] \notin Symbols
        PROVE  Apart(v, Symbols, i - 1) \/ Apart(v, Symbols, i + 1)
    <3>1. /\ i \in 1..Len(t)
          /\ CharAt(t, i - 1) \notin Alphanumeric /\ CharAt(t, i + 1) \notin Alphanumeric
          /\ CharAt(t, i - 1) \notin Alpha \/ CharAt(t, i + 1) \notin Alpha
          /\ CharAt(t, i - 1) \notin Marks /\ CharAt(t, i + 1) \notin Marks
      BY <1>1, <1>2, <1>3, <2>1 DEF CleanOf
    <3>2. ASSUME NEW k \in {i - 1, i + 1}, CharAt(t, k) \notin Alpha
          PROVE  Apart(v, Symbols, k)
      <4> SUFFICES ASSUME k \in 1..Len(t) PROVE v[k] \in Symbols /\ ~InText(v, k)
        BY <1>1 DEF Apart
      <4>1. CharAt(t, k) = t[k]
        BY <1>1 DEF CharAt
      <4>2. t[k] \in Symbols /\ t[k] \notin Letters /\ t[k] \notin Marks /\ t[k] # m
        BY <1>2, <1>3, <3>1, <3>2, <4>1
      <4>3. v[k] = t[k]
        BY <1>1, <4>2
      <4> QED BY <4>2, <4>3 DEF InText
    <3> QED BY <3>1, <3>2
  <2> QED BY <1>2, <2>1 DEF DropsApart
<1>6. Numbered(Keep(v, Symbols)) = Numbered(v)
  BY <1>1, <1>5, KeepNumbered
<1>7. Keep(v, Symbols) \in Seq(Symbols)
  BY <1>1, KeepInSeq
<1> QED BY <1>1, <1>4, <1>6, <1>7

\* Removing page markers puts no milestone beside a mark.
LEMMA StripPageClean ==
    ASSUME NEW t \in Seq(Symbols), CleanOf(t, "milestone")
    PROVE  CleanOf(StripMarker(t, "page"), "milestone")
<1> DEFINE v == Substituted(t, "page")
           u == Keep(v, Symbols)
           P(i) == Place(v, Symbols, i)
<1>0. "page" \in Markers
  BY DEF Markers
<1>1. /\ IsText(t) /\ IsText(v) /\ Len(v) = Len(t) /\ Len(t) \in Nat
      /\ DOMAIN t = 1..Len(t)
      /\ StripMarker(t, "page") = u
      /\ \A i \in 1..Len(t) :
            \/ v[i] = t[i]
            \/ t[i] = "page" /\ v[i] = "space"
            \/ /\ t[i] = "page" /\ v[i] = "gone"
               /\ CharAt(t, i - 1) \notin Alphanumeric /\ CharAt(t, i + 1) \notin Alphanumeric
               /\ CharAt(t, i - 1) \notin Alpha \/ CharAt(t, i + 1) \notin Alpha
  BY <1>0, SubstitutedProperties
<1> HIDE DEF v
<1>2. IsText(u) /\ Len(u) \in Nat /\ DOMAIN u = 1..Len(u)
  BY <1>1, KeepProperties, TextLen
<1>3. \A i \in 1..Len(t) : t[i] \in Symbols
  BY ElementOfSeq
<1>4. /\ "space" \in Symbols /\ "space" \notin Marks /\ "gone" \notin Symbols /\ "end" \notin Marks
      /\ "milestone" \in Alphanumeric
  BY DEF Symbols, Marks, Markers, Alphanumeric, Letters
<1>5. ASSUME NEW n \in 1..Len(u), u[n] = "milestone"
      PROVE  CharAt(u, n - 1) \notin Marks /\ CharAt(u, n + 1) \notin Marks
  <2>1. PICK i \in Kept(v, Symbols) : P(i) = n
    BY <1>1, KeepProperties
  <2>2. i \in 1..Len(t) /\ v[i] = "milestone" /\ v[i] \in Symbols
    BY <1>1, <1>5, <2>1, KeepProperties, TextLen DEF Kept
  <2>3. t[i] = "milestone"
    BY <1>1, <2>2
  <2>4. CharAt(t, i - 1) \notin Marks /\ CharAt(t, i + 1) \notin Marks
    BY <1>1, <2>2, <2>3 DEF CleanOf
  \* The neighbours of the milestone are kept and no marks.
  <2>5. ASSUME NEW k \in {i - 1, i + 1}, k \in 1..Len(t)
        PROVE  v[k] \in Symbols /\ v[k] \notin Marks
    <3>1. CharAt(t, k) = t[k] /\ CharAt(t, i) = t[i]
      BY <1>1, <2>2, <2>5 DEF CharAt
    <3>2. t[k] \notin Marks
      BY <2>4, <3>1
    <3>3. k - 1 = i \/ k + 1 = i
      BY <2>2
    <3>4. ~(CharAt(t, k - 1) \notin Alphanumeric /\ CharAt(t, k + 1) \notin Alphanumeric)
      BY <1>4, <2>3, <3>1, <3>3
    <3> QED BY <1>1, <1>3, <1>4, <2>5, <3>2, <3>4
  <2>6. CharAt(u, n - 1) \notin Marks
    <3>1. CASE i = 1
      <4>1. /\ 0 \in 0..Len(v) /\ 1 \in 0..Len(v)
            /\ \A k \in 0+1..1 : v[k] \in Symbols
        BY <1>1, <2>2, <3>1
      <4>2. P(1) = P(0) + (1 - 0) /\ P(0) = 0
        BY <1>1, <4>1, PlaceOfStretch, KeepProperties
      <4>3. n - 1 \notin DOMAIN u
        BY <1>2, <2>1, <3>1, <4>2
      <4> QED BY <1>4, <4>3 DEF CharAt
    <3>2. CASE i # 1
      <4>1. i - 1 \in 1..Len(t)
        BY <1>1, <2>2, <3>2
      <4>2. v[i - 1] \in Symbols /\ v[i - 1] \notin Marks
        BY <2>5, <4>1
      <4>3. /\ i - 1 \in 0..Len(v) /\ i \in i-1..Len(v)
            /\ \A k \in (i-1)+1..i : v[k] \in Symbols
        BY <1>1, <2>2, <4>1
      <4>4. P(i) = P(i - 1) + (i - (i - 1)) /\ P(i - 1) \in Nat
        BY <1>1, <4>3, PlaceOfStretch, KeptUpTo
      <4>5. P(i - 1) = n - 1
        BY <2>1, <2>2, <4>4
      <4>6. i - 1 \in Kept(v, Symbols)
        BY <1>1, <4>1, <4>2, TextLen DEF Kept
      <4>7. u[n - 1] = v[i - 1]
        BY <1>1, <4>5, <4>6, KeepProperties
      <4> QED BY <1>4, <4>2, <4>7 DEF CharAt
    <3> QED BY <3>1, <3>2
  <2>7. CharAt(u, n + 1) \notin Marks
    <3>1. CASE i = Len(t)
      <4>1. Len(u) = n
        BY <1>1, <2>1, <3>1, KeepProperties
      <4>2. n + 1 \notin DOMAIN u
        BY <1>2, <4>1
      <4> QED BY <1>4, <4>2 DEF CharAt
    <3>2. CASE i # Len(t)
      <4>1. i + 1 \in 1..Len(t)
        BY <1>1, <2>2, <3>2
      <4>2. v[i + 1] \in Symbols /\ v[i + 1] \notin Marks
        BY <2>5, <4>1
      <4>3. /\ i \in 0..Len(v) /\ i + 1 \in i..Len(v)
            /\ \A k \in i+1..i+1 : v[k] \in Symbols
        BY <1>1, <2>2, <4>1, <4>2
      <4>4. P(i + 1) = P(i) + ((i + 1) - i) /\ (i + 1) - i = 1
        BY <1>1, <2>2, <4>3, PlaceOfStretch
      <4>5. P(i + 1) = n + 1
        BY <2>1, <4>4
      <4>6. i + 1 \in Kept(v, Symbols)
        BY <1>1, <4>1, <4>2, TextLen DEF Kept
      <4>7. u[n + 1] = v[i + 1]
        BY <1>1, <4>5, <4>6, KeepProperties
      <4> QED BY <1>4, <4>2, <4>7 DEF CharAt
    <3> QED BY <3>1, <3>2
  <2> QED BY <2>6, <2>7
<1>6. CleanOf(u, "milestone")
  BY <1>2, <1>5 DEF CleanOf
<1> QED BY <1>1, <1>6

LEMMA UnweaveNumbered ==
    ASSUME NEW t \in Seq(Symbols), Clean(t)
    PROVE  LET u == Unweave(t) IN
           /\ u \in Seq(Symbols)
           /\ Numbered(u) = Numbered(t)
           /\ CleanOf(u, "page") /\ CleanOf(u, "milestone")
<1> DEFINE u == Unweave(t)
<1>1. IsText(t) /\ Len(t) \in Nat /\ DOMAIN t = 1..Len(t)
  BY TextOfSymbols, TextLen
<1>2. /\ DOMAIN u = 1..Len(t)
      /\ \A i \in 1..Len(t) : u[i] = t[i] \/ (t[i] = "weave" /\ u[i] = "space")
      /\ u = [i \in DOMAIN t |-> u[i]]
  BY <1>1 DEF Unweave
<1>3. \A i \in 1..Len(t) : t[i] \in Symbols
  BY ElementOfSeq
<1>4. /\ "space" \in Symbols
      /\ {"space", "weave"} \cap (Letters \cup Marks) = {}
      /\ {"space", "weave"} \cap Markers = {}
      /\ "page" \in Markers /\ "milestone" \in Markers
  BY DEF Symbols, Letters, Marks, Markers
<1> HIDE DEF u
<1>5. u \in [1..Len(t) -> Symbols]
  BY <1>1, <1>2, <1>3, <1>4
<1>6. u \in Seq(Symbols)
  BY <1>1, <1>5, SeqDef
<1>7. IsText(u) /\ Len(u) = Len(t)
  <2>1. IsText(u) /\ Len(u) \in Nat /\ DOMAIN u = 1..Len(u)
    BY <1>6, TextOfSymbols, TextLen
  <2> QED BY <1>1, <1>2, <2>1
<1>8. Numbered(u) = Numbered(t)
  <2>1. \A i \in 1..Len(t) : u[i] = t[i] \/ (~InText(t, i) /\ ~InText(u, i))
    BY <1>2, <1>4 DEF InText
  <2> QED BY <1>1, <1>7, <2>1, WordsUntouched
<1>9. ASSUME NEW m \in Markers PROVE CleanOf(u, m)
  <2> SUFFICES ASSUME NEW i \in 1..Len(t), u[i] = m
               PROVE  CharAt(u, i - 1) \notin Marks /\ CharAt(u, i + 1) \notin Marks
    BY <1>2 DEF CleanOf
  <2>1. t[i] \in Markers
    BY <1>2, <1>4
  <2>2. CharAt(t, i - 1) \notin Marks /\ CharAt(t, i + 1) \notin Marks
    BY <1>1, <2>1 DEF Clean
  <2>3. \A k : CharAt(u, k) \in Marks => CharAt(t, k) \in Marks
    BY <1>1, <1>2, <1>4 DEF CharAt
  <2> QED BY <2>2, <2>3
<1> QED BY <1>4, <1>6, <1>8, <1>9 DEF u

\* Stripping the controls of a clean source changes neither a word nor its
\* number.
LEMMA StripNumbered ==
    ASSUME NEW t \in Seq(Symbols), Clean(t)
    PROVE  Numbered(Strip(t)) = Numbered(t)
<1> DEFINE u == Unweave(t)
           v == StripMarker(u, "page")
<1>0. "page" \in Markers /\ "milestone" \in Markers
  BY DEF Markers
<1>1. u \in Seq(Symbols) /\ Numbered(u) = Numbered(t) /\ CleanOf(u, "page") /\ CleanOf(u, "milestone")
  BY UnweaveNumbered
<1> HIDE DEF u
<1>2. v \in Seq(Symbols) /\ Numbered(v) = Numbered(u)
  BY <1>0, <1>1, StripMarkerNumbered
<1>3. CleanOf(v, "milestone")
  BY <1>1, StripPageClean
<1> HIDE DEF v
<1>4. Numbered(StripMarker(v, "milestone")) = Numbered(v)
  BY <1>0, <1>2, <1>3, StripMarkerNumbered
<1> QED BY <1>1, <1>2, <1>4 DEF Strip, u, v

-----------------------------------------------------------------------------
(* Spellings and keys.                                                     *)

\* A set of positions that is not empty has a first and a last one.
LEMMA FirstAndLast ==
    ASSUME NEW t, IsText(t), NEW S, Kept(t, S) # {}
    PROVE  /\ \E i \in Kept(t, S) : \A k \in Kept(t, S) : i <= k
           /\ \E i \in Kept(t, S) : \A k \in Kept(t, S) : i >= k
<1> DEFINE N == Len(Keep(t, S))
<1>1. Len(t) \in Nat /\ \A k \in Kept(t, S) : k \in 1..Len(t) /\ t[k] \in S
  BY TextLen DEF Kept
<1>2. \A k \in Kept(t, S) : Place(t, S, k) \in 1..N
  BY KeepProperties
<1>3. N \in Nat
  BY KeepProperties, TextLen
<1>4. 1 \in 1..N /\ N \in 1..N
  BY <1>2, <1>3
<1>5. PICK i \in Kept(t, S) : Place(t, S, i) = 1
  BY <1>4, KeepProperties
<1>6. PICK j \in Kept(t, S) : Place(t, S, j) = N
  BY <1>4, KeepProperties
<1> HIDE DEF N
<1>7. ASSUME NEW x \in Kept(t, S), NEW y \in Kept(t, S), x < y
      PROVE  Place(t, S, x) < Place(t, S, y)
  <2>1. x \in 0..Len(t) /\ y \in x..Len(t) /\ t[y] \in S
    BY <1>1, <1>7
  <2> QED BY <1>7, <2>1, PlaceMonotone
<1>8. ASSUME NEW k \in Kept(t, S) PROVE i <= k /\ j >= k
  <2>1. ASSUME k < i PROVE FALSE
    BY <1>2, <1>3, <1>5, <1>7, <2>1
  <2>2. ASSUME j < k PROVE FALSE
    BY <1>2, <1>3, <1>6, <1>7, <2>2
  <2> QED BY <1>1, <2>1, <2>2
<1> QED BY <1>8

LEMMA StrippedIsText ==
    ASSUME NEW t, IsText(t)
    PROVE  IsText(Stripped(t))
<1> DEFINE ink == {i \in DOMAIN t : t[i] # "space"}
           a == CHOOSE i \in ink : \A k \in ink : i <= k
           b == CHOOSE i \in ink : \A k \in ink : i >= k
<1>1. Len(t) \in Nat /\ DOMAIN t = 1..Len(t)
  BY TextLen
<1>2. ink = Kept(t, Chars(t) \ {"space"})
  BY DEF Kept, Chars
<1>3. CASE ink = {}
  <2>1. Stripped(t) = <<>> /\ <<>> \in Seq(Symbols)
    BY <1>3 DEF Stripped
  <2> QED BY <2>1, TextOfSymbols
<1>4. CASE ink # {}
  <2>1. /\ \E i \in ink : \A k \in ink : i <= k
        /\ \E i \in ink : \A k \in ink : i >= k
    BY <1>2, <1>4, FirstAndLast
  <2>2. a \in ink /\ b \in ink
    BY <2>1
  <2>3. a \in 1..Len(t) /\ b \in 1..Len(t)
    BY <1>1, <2>2
  <2>4. Stripped(t) = SubSeq(t, a, b)
    BY <1>4 DEF Stripped
  <2> HIDE DEF a, b
  <2>5. a \in Int /\ b \in Int /\ \A i \in a..b : t[i] \in Chars(t)
    BY <1>1, <2>3 DEF Chars
  <2>6. SubSeq(t, a, b) \in Seq(Chars(t))
    BY <2>5, SubSeqProperties
  <2> QED BY <2>4, <2>6, TextOfSymbols
<1> QED BY <1>3, <1>4

LEMMA NFCIsText ==
    ASSUME NEW t, IsText(t)
    PROVE  IsText(NFC(t))
<1> DEFINE v == [i \in DOMAIN t |->
                   CASE \E j \in DOMAIN t : Composes(t, i, j) -> "seat"
                     [] \E j \in DOMAIN t : Composes(t, j, i) -> "gone"
                     [] OTHER -> t[i]]
<1>1. NFC(t) = Keep(v, Symbols)
  BY DEF NFC
<1>2. v = [i \in DOMAIN t |-> v[i]]
  OBVIOUS
<1> HIDE DEF v
<1> QED BY <1>1, <1>2, MappedIsText, KeepIsText

\* The symbols of a normal form.
Plain == Symbols \ (Marks \cup {"tatweel"})

\* A normal form is its own.
LEMMA NormalizePlain ==
    ASSUME NEW t \in Seq(Plain)
    PROVE  Normalize(t) = t
<1>1. IsText(t) /\ DOMAIN t = 1..Len(t) /\ \A i \in DOMAIN t : t[i] \in Plain
  BY TextOfSymbols, TextLen, ElementOfSeq
<1>2. "hamza" \notin Plain /\ Plain \subseteq Symbols
  BY DEF Plain, Marks
<1>3. \A i, j \in DOMAIN t : ~Composes(t, i, j)
  BY <1>1, <1>2 DEF Composes
<1>4. [i \in DOMAIN t |->
         CASE \E j \in DOMAIN t : Composes(t, i, j) -> "seat"
           [] \E j \in DOMAIN t : Composes(t, j, i) -> "gone"
           [] OTHER -> t[i]] = [i \in DOMAIN t |-> t[i]]
  BY <1>3
<1>5. [i \in DOMAIN t |-> t[i]] = t
  <2>1. t \in [1..Len(t) -> Plain]
    BY LenProperties
  <2> QED BY <2>1
<1>6. NFC(t) = Keep(t, Symbols)
  BY <1>4, <1>5 DEF NFC
<1>7. NFC(t) = t
  BY <1>1, <1>2, <1>6, KeepAll
<1>8. Keep(t, Plain) = t
  BY <1>1, KeepAll
<1> QED BY <1>7, <1>8 DEF Normalize, Plain

\* The keys of a search are the documented spellings, in normal form.
LEMMA KeysAreSpellings ==
    ASSUME NEW f \in Seq(Symbols)
    PROVE  Keys(f) = Spellings(f)
<1> DEFINE d == Display(Cleaned(f))
           n == Normalize(d)
           seats == {i \in DOMAIN n : n[i] = "seat"}
           plain == [i \in DOMAIN n |->
                       IF i \in seats /\ \A k \in seats : i <= k THEN "alef" ELSE n[i]]
           final(t) == [i \in DOMAIN t |->
                          IF i = Len(t) /\ t[i] = "maqsura" THEN "yeh" ELSE t[i]]
<1>1. n \in Seq(Plain)
  <2>1. IsText(Cleaned(f))
    BY TextOfSymbols, StrippedIsText, NFCIsText DEF Cleaned
  <2>2. IsText(d)
    BY <2>1, NFCIsText, KeepIsText DEF Display
  <2> HIDE DEF d
  <2>3. n = Keep(NFC(d), Plain)
    BY DEF Normalize, Plain
  <2> QED BY <2>2, <2>3, NFCIsText, KeepInSeq
<1>2. Spellings(f) = {n, plain, final(n), final(plain)}
  BY DEF Spellings
<1>3. Keys(f) = {Normalize(v) : v \in {d} \cup WithFinalYeh(Bases(n))}
  BY DEF Keys, ExpandOrthographicVariants
<1> HIDE DEF d, n
<1>4. /\ IsText(n) /\ Len(n) \in Nat /\ DOMAIN n = 1..Len(n)
      /\ n \in [1..Len(n) -> Plain]
      /\ n = [i \in DOMAIN n |-> n[i]]
  <2>1. n \in [1..Len(n) -> Plain] /\ IsText(n) /\ Len(n) \in Nat /\ DOMAIN n = 1..Len(n)
    BY <1>1, LenProperties, TextOfSymbols
  <2> QED BY <2>1
<1>5. "alef" \in Plain /\ "yeh" \in Plain
  BY DEF Plain, Symbols, Letters, Marks
<1>6. LexicalSeats(n) = seats
  BY <1>4, EverySeatIsLexical
<1>7. /\ Bases(n) = {n, plain}
      /\ plain \in [1..Len(n) -> Plain]
  <2>1. plain \in [1..Len(n) -> Plain]
    BY <1>4, <1>5
  <2>2. CASE seats = {}
    <3>1. plain = n
      BY <1>4, <2>2
    <3>2. Bases(n) = {n}
      BY <1>6, <2>2 DEF Bases
    <3> QED BY <2>1, <3>1, <3>2
  <2>3. CASE seats # {}
    <3>1. seats = Kept(n, {"seat"})
      BY DEF Kept
    <3>2. PICK i \in seats : \A k \in seats : i <= k
      BY <1>4, <2>3, <3>1, FirstAndLast
    <3>3. \A k \in seats : (\A x \in seats : k <= x) => k = i
      BY <1>4, <3>2
    <3>4. {k \in LexicalSeats(n) : \A x \in LexicalSeats(n) : k <= x} = {i}
      BY <1>6, <3>2, <3>3
    <3>5. Bases(n) = {n, [n EXCEPT ![i] = "alef"]}
      BY <3>4 DEF Bases
    <3>6. plain = [n EXCEPT ![i] = "alef"]
      BY <1>4, <3>2, <3>3
    <3> QED BY <2>1, <3>5, <3>6
  <2> QED BY <2>2, <2>3
<1> HIDE DEF plain, seats
<1>8. ASSUME NEW t \in [1..Len(n) -> Plain]
      PROVE  /\ t \in Seq(Plain) /\ final(t) \in Seq(Plain)
             /\ EndsWith(t, <<"maqsura">>) => final(t) = [t EXCEPT ![Len(t)] = "yeh"]
             /\ ~EndsWith(t, <<"maqsura">>) => final(t) = t
  <2>1. t \in Seq(Plain)
    BY <1>4, SeqDef
  <2>2. Len(t) \in Nat /\ DOMAIN t = 1..Len(t) /\ t \in [1..Len(t) -> Plain]
    BY <2>1, LenProperties
  <2>3. EndsWith(t, <<"maqsura">>) <=> 1 <= Len(t) /\ t[Len(t)] = "maqsura"
    <3>1. Len(<<"maqsura">>) = 1 /\ DOMAIN <<"maqsura">> = {1} /\ <<"maqsura">>[1] = "maqsura"
      OBVIOUS
    <3>2. Len(t) - 1 + 1 = Len(t)
      BY <2>2
    <3> QED BY <3>1, <3>2 DEF EndsWith
  <2>4. final(t) \in [1..Len(t) -> Plain]
    BY <1>5, <2>2
  <2>5. final(t) \in Seq(Plain)
    BY <2>2, <2>4, SeqDef
  <2>6. EndsWith(t, <<"maqsura">>) => final(t) = [t EXCEPT ![Len(t)] = "yeh"]
    BY <2>2, <2>3
  <2>7. ~EndsWith(t, <<"maqsura">>) => final(t) = t
    BY <2>2, <2>3
  <2> HIDE DEF final
  <2> QED BY <2>1, <2>5, <2>6, <2>7
<1> HIDE DEF final
<1>9. WithFinalYeh(Bases(n)) = {n, plain, final(n), final(plain)}
  <2>1. WithFinalYeh(Bases(n)) =
           {n, plain} \cup {[t EXCEPT ![Len(t)] = "yeh"] :
                              t \in {t \in {n, plain} : EndsWith(t, <<"maqsura">>)}}
    BY <1>7 DEF WithFinalYeh
  <2>2. \A t \in {n, plain} : t \in [1..Len(n) -> Plain]
    BY <1>4, <1>7
  <2> QED BY <1>8, <2>1, <2>2
<1>10. \A v \in {n, plain, final(n), final(plain)} : Normalize(v) = v
  BY <1>4, <1>7, <1>8, NormalizePlain
<1>11. Normalize(d) = n
  BY DEF n
<1>12. Keys(f) = {n, plain, final(n), final(plain)}
  BY <1>3, <1>9, <1>10, <1>11
<1> QED BY <1>2, <1>12

-----------------------------------------------------------------------------
(* The search.                                                             *)

\* The n-th token is the n-th word.
LEMMA TokensAreNumbered ==
    ASSUME IsText(text), tokens \in Seq(Pairs), Ordered(tokens), Found(tokens) = Words(text),
           NEW i \in DOMAIN tokens
    PROVE  /\ tokens[i] \in Words(text)
           /\ Cardinality({v \in Words(text) : v[1] < tokens[i][1]}) = i - 1
<1> DEFINE X == {v \in Words(text) : v[1] < tokens[i][1]}
           F == [k \in 1..i-1 |-> tokens[k]]
<1>1. Len(tokens) \in Nat /\ DOMAIN tokens = 1..Len(tokens) /\ i \in 1..Len(tokens)
  BY LenProperties
<1>2. \A k \in DOMAIN tokens : /\ tokens[k] \in Words(text)
                               /\ tokens[k][1] \in Nat /\ tokens[k][2] \in Nat
                               /\ tokens[k][1] < tokens[k][2]
  <2>1. \A k \in DOMAIN tokens : tokens[k] \in Words(text)
    BY DEF Found
  <2> QED BY <2>1, TextLen, WordProperties
<1>3. \A k, m \in DOMAIN tokens : k < m => tokens[k][1] < tokens[m][1]
  <2> SUFFICES ASSUME NEW k \in DOMAIN tokens, NEW m \in DOMAIN tokens, k < m
               PROVE  tokens[k][1] < tokens[m][1]
    OBVIOUS
  <2>1. tokens[k][2] < tokens[m][1]
    BY DEF Ordered
  <2> QED BY <1>2, <2>1
<1>4. \A v : v \in X <=> v \in Words(text) /\ v[1] < tokens[i][1]
  OBVIOUS
<1>5. \A k \in 1..i-1 : k \in DOMAIN tokens /\ F[k] = tokens[k] /\ tokens[k] \in X
  <2> SUFFICES ASSUME NEW k \in 1..i-1 PROVE k \in DOMAIN tokens /\ tokens[k] \in X
    OBVIOUS
  <2>1. k \in DOMAIN tokens /\ k < i
    BY <1>1
  <2>2. tokens[k] \in Words(text) /\ tokens[k][1] < tokens[i][1]
    BY <1>2, <1>3, <2>1
  <2> HIDE DEF X
  <2> QED BY <1>4, <2>1, <2>2
<1>6. DOMAIN F = 1..i-1 /\ F = [k \in 1..i-1 |-> F[k]]
  OBVIOUS
<1> HIDE DEF X, F
<1>7. F \in [1..i-1 -> X]
  BY <1>5, <1>6
<1>8. ASSUME NEW k \in 1..i-1, NEW m \in 1..i-1, F[k] = F[m] PROVE k = m
  <2>1. tokens[k] = tokens[m] /\ k \in DOMAIN tokens /\ m \in DOMAIN tokens
    BY <1>5, <1>8
  <2>2. ~(k < m) /\ ~(m < k)
    BY <1>2, <1>3, <2>1
  <2> QED BY <1>1, <2>2
<1>9. ASSUME NEW v \in X PROVE \E k \in 1..i-1 : F[k] = v
  <2>1. v \in Words(text) /\ v[1] < tokens[i][1]
    BY <1>4
  <2>2. PICK k \in DOMAIN tokens : v = tokens[k]
    BY <2>1 DEF Found
  <2>3. ~(i < k) /\ k # i
    BY <1>2, <1>3, <2>1, <2>2
  <2>4. k \in 1..i-1
    BY <1>1, <2>3
  <2> QED BY <1>5, <2>2, <2>4
<1>10. F \in Bijection(1..i-1, X)
  BY <1>7, <1>8, <1>9 DEF Bijection, Injection, Surjection, IsInjective
<1>11. ExistsBijection(1..i-1, X) /\ i - 1 \in Nat
  BY <1>1, <1>10 DEF ExistsBijection
<1>12. Cardinality(X) = i - 1
  BY <1>11, FS_CountingElements
<1> QED BY <1>2, <1>12 DEF X

\* What a search that found everything below the limit returned.
SearchInv ==
    /\ stage # "ingest" => text = Strip(source)
    /\ stage = "searched" =>
          /\ form \in Forms
          /\ hits = {Hit(text, i) : i \in Returned(form)}
          /\ truncated = (Cardinality(Matching(form)) > MaxHits)

LEMMA NextSearchInv == SearchInv /\ [Next]_vars => SearchInv'
<1> SUFFICES ASSUME SearchInv, [Next]_vars PROVE SearchInv'
  OBVIOUS
<1>1. CASE Ingest
  BY <1>1 DEF Ingest, SearchInv
<1>2. CASE Scan \/ ScanEnd
  BY <1>2 DEF Scan, ScanEnd, SearchInv
<1>3. ASSUME NEW f \in Forms, Search(f) PROVE SearchInv'
  <2>1. /\ stage = "indexed" /\ stage' = "searched" /\ text' = text /\ source' = source
        /\ tokens' = tokens /\ form' = f
        /\ hits' = {Hit(text, i) : i \in Returned(f)}
        /\ truncated' = (Cardinality(Matching(f)) > MaxHits)
    BY <1>3 DEF Search, scan
  <2>2. Matching(form)' = Matching(f)
    BY <2>1 DEF Matching
  <2>3. Returned(form)' = Returned(f)
    BY <2>2 DEF Returned
  <2>4. \A i : Hit(text, i)' = Hit(text, i)
    BY <2>1 DEF Hit
  <2>5. {Hit(text, i) : i \in Returned(form)}' = {Hit(text, i) : i \in Returned(f)}
    BY <2>1, <2>3 DEF Hit
  <2> QED BY <2>1, <2>2, <2>5 DEF SearchInv
<1>4. ASSUME UNCHANGED <<text, tokens, form, hits, truncated, source, stage>> PROVE SearchInv'
  <2>1. /\ text' = text /\ tokens' = tokens /\ form' = form /\ hits' = hits
        /\ truncated' = truncated /\ source' = source /\ stage' = stage
    BY <1>4
  <2>2. Matching(form)' = Matching(form)
    BY <2>1 DEF Matching
  <2>3. Returned(form)' = Returned(form)
    BY <2>2 DEF Returned
  <2>4. {Hit(text, i) : i \in Returned(form)}' = {Hit(text, i) : i \in Returned(form)}
    BY <2>1, <2>3 DEF Hit
  <2> QED BY <2>1, <2>2, <2>4 DEF SearchInv
<1>5. ASSUME NEW t \in Editions, Replace(t) PROVE SearchInv'
  BY <1>4, <1>5 DEF Replace, scan
<1>6. CASE Issue
  BY <1>6 DEF Issue, SearchInv
<1>8. ASSUME NEW h \in hits, ReadDocument(h) \/ VerifySpan(h) PROVE SearchInv'
  BY <1>4, <1>8 DEF ReadDocument, VerifySpan, scan
<1>7. CASE UNCHANGED vars
  BY <1>4, <1>7 DEF vars, scan
<1> QED BY <1>1, <1>2, <1>3, <1>5, <1>6, <1>7, <1>8 DEF Next

\* Below the limit every matching posting is returned.
LEMMA ReturnedAll ==
    ASSUME tokens \in Seq(Pairs), NEW f, ~(Cardinality(Matching(f)) > MaxHits)
    PROVE  Returned(f) = Matching(f)
<1>1. Len(tokens) \in Nat /\ DOMAIN tokens = 1..Len(tokens)
  BY LenProperties
<1>2. Matching(f) \in SUBSET (1..Len(tokens)) /\ IsFiniteSet(1..Len(tokens))
  BY <1>1, FS_Interval DEF Matching
<1>3. IsFiniteSet(Matching(f)) /\ Cardinality(Matching(f)) \in Nat
  <2>1. IsFiniteSet(Matching(f))
    BY <1>2, FS_Subset
  <2> QED BY <2>1, FS_CardinalityType
<1>4. ASSUME NEW i \in Matching(f)
      PROVE  Cardinality({k \in Matching(f) : k < i}) < MaxHits
  <2> DEFINE B == {k \in Matching(f) : k < i}
  <2>1. B \in SUBSET Matching(f) /\ i \notin B
    BY <1>2
  <2> HIDE DEF B
  <2>2. IsFiniteSet(B) /\ Cardinality(B) <= Cardinality(Matching(f))
        /\ Cardinality(B) # Cardinality(Matching(f))
    BY <1>3, <1>4, <2>1, FS_Subset
  <2>3. Cardinality(B) \in Nat
    BY <2>2, FS_CardinalityType
  <2>4. Cardinality(B) < MaxHits
    BY <1>3, <2>2, <2>3, ContextAssumption
  <2> QED BY <2>4 DEF B
<1> QED BY <1>4 DEF Returned

\* Ingestion, scan, normalisation, expansion and search together find, of
\* every source file in which no control touches a mark, exactly the words
\* that are written in a spelling of the form, and number them as the file
\* has them.
THEOREM SearchCorrect == Spec => []FindsEveryWord
<1>1. Init => SearchInv
  BY DEF Init, SearchInv
<1>2. ScanInv /\ SearchInv => FindsEveryWord
  <2> SUFFICES ASSUME ScanInv, SearchInv, stage = "searched", ~truncated, Clean(source)
               PROVE  {<<h.token_index, h.raw_form>> : h \in hits} =
                        {<<Cardinality({v \in Words(source) : v[1] < w[1]}),
                           Slice(source, w[1], w[2])>> :
                           w \in {w \in Words(source) :
                                    Normalize(Slice(source, w[1], w[2])) \in Spellings(form)}}
    BY DEF FindsEveryWord
  <2> DEFINE Finds == {<<h.token_index, h.raw_form>> : h \in hits}
             Number(t, w) == Cardinality({v \in Words(t) : v[1] < w[1]})
             Spelt(t, w) == Normalize(Slice(t, w[1], w[2])) \in Spellings(form)
  <2>1. /\ IsText(text) /\ tokens \in Seq(Pairs) /\ Ordered(tokens)
        /\ Found(tokens) = Words(text) /\ source \in Seq(Symbols)
        /\ text = Strip(source) /\ form \in Seq(Symbols)
        /\ hits = {Hit(text, i) : i \in Returned(form)}
        /\ ~(Cardinality(Matching(form)) > MaxHits)
    BY SourcesAssumption, FormsAssumption DEF ScanInv, SearchInv
  <2>2. Returned(form) = Matching(form) /\ Keys(form) = Spellings(form)
    BY <2>1, ReturnedAll, KeysAreSpellings
  <2>3. Numbered(text) = Numbered(source)
    BY <2>1, StripNumbered
  <2>4. \A i : Hit(text, i).token_index = i - 1
               /\ Hit(text, i).raw_form = Slice(text, tokens[i][1], tokens[i][2])
    BY DEF Hit
  <2>5. Finds = {<<i - 1, Slice(text, tokens[i][1], tokens[i][2])>> : i \in Matching(form)}
    <3>1. \A e : e \in Finds <=> \E i \in Matching(form) :
                    e = <<Hit(text, i).token_index, Hit(text, i).raw_form>>
      BY <2>1, <2>2
    <3> HIDE DEF Finds
    <3> QED BY <2>4, <3>1
  <2>6. \A i \in DOMAIN tokens : tokens[i] \in Words(text) /\ Number(text, tokens[i]) = i - 1
    BY <2>1, TokensAreNumbered
  <2>7. \A i : i \in Matching(form) <=> i \in DOMAIN tokens /\ Spelt(text, tokens[i])
    BY <2>2 DEF Matching
  <2>8. ASSUME NEW e
        PROVE  e \in Finds <=> e \in Numbered(text) /\ Normalize(e[2]) \in Spellings(form)
    <3>1. ASSUME e \in Finds PROVE e \in Numbered(text) /\ Normalize(e[2]) \in Spellings(form)
      <4>1. PICK i \in Matching(form) : e = <<i - 1, Slice(text, tokens[i][1], tokens[i][2])>>
        BY <2>5, <3>1
      <4>2. /\ tokens[i] \in Words(text) /\ Number(text, tokens[i]) = i - 1
            /\ Spelt(text, tokens[i])
        BY <2>6, <2>7, <4>1
      <4>3. e = <<Number(text, tokens[i]), Slice(text, tokens[i][1], tokens[i][2])>>
        BY <4>1, <4>2
      <4>4. e \in Numbered(text)
        BY <4>2, <4>3 DEF Numbered
      <4> QED BY <4>2, <4>3, <4>4
    <3>2. ASSUME e \in Numbered(text), Normalize(e[2]) \in Spellings(form) PROVE e \in Finds
      <4>1. PICK w \in Words(text) : e = <<Number(text, w), Slice(text, w[1], w[2])>>
        BY <3>2 DEF Numbered
      <4>2. PICK i \in DOMAIN tokens : w = tokens[i]
        BY <2>1 DEF Found
      <4>3. i \in Matching(form)
        BY <2>7, <3>2, <4>1, <4>2
      <4>4. e = <<i - 1, Slice(text, tokens[i][1], tokens[i][2])>>
        BY <2>6, <4>1, <4>2
      <4> QED BY <2>5, <4>3, <4>4
    <3> QED BY <3>1, <3>2
  <2>9. \A e : e \in Numbered(source) /\ Normalize(e[2]) \in Spellings(form)
               <=> e \in {<<Number(source, w), Slice(source, w[1], w[2])>> :
                            w \in {w \in Words(source) : Spelt(source, w)}}
    <3>1. \A w : <<Number(source, w), Slice(source, w[1], w[2])>>[2] = Slice(source, w[1], w[2])
      OBVIOUS
    <3>2. \A e : e \in Numbered(source) <=>
                  \E w \in Words(source) : e = <<Number(source, w), Slice(source, w[1], w[2])>>
      BY DEF Numbered
    <3> HIDE DEF Number
    <3> QED BY <3>1, <3>2
  <2> HIDE DEF Finds
  <2>10. Finds = {<<Number(source, w), Slice(source, w[1], w[2])>> :
                    w \in {w \in Words(source) : Spelt(source, w)}}
    BY <2>3, <2>8, <2>9
  <2> QED BY <2>10 DEF Finds
<1> QED BY <1>1, <1>2, NextSearchInv, ScanInvariant, PTL DEF Spec
=============================================================================
