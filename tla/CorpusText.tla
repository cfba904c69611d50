----------------------------- MODULE CorpusText -----------------------------
(***************************************************************************)
(* The way of one text from its source file to an issued quotation: the    *)
(* OpenITI adapter (ingestion.py), the tokenizer, normalisation and        *)
(* spellings (normalization.py), the search of the postings (index.py) and *)
(* the quotation checks of the gate (gate.py).                             *)
(*                                                                         *)
(*   source   the file: a sequence of symbols                              *)
(*   text     what ingestion made of it, documents.raw_text                *)
(*   index, start, tokens   the scan of tokenize_with_offsets              *)
(*   form     the form that is searched for                                *)
(*   hits     what search() returned, truncated whether it cut off rows    *)
(*   served   the text behind the path when the gate opens it              *)
(*   documents, spans   the texts it found there, for each hit it came to: *)
(*                      with get_document and with verify_raw_span         *)
(*                                                                         *)
(* A symbol is a class of code points that the functions treat alike, or   *)
(* one structural control.  "break" is a newline with the control that may *)
(* open the next line; "weave" is %~%; "mark" is a vowel sign, which does  *)
(* not keep a combining hamza from its alef; "lit" and "proclitic" are     *)
(* letters no rule is about.  Offsets are the code's: from 0, end          *)
(* exclusive.  A hash is the text itself.                                  *)
(***************************************************************************)
EXTENDS Integers, Sequences, FiniteSets

CONSTANTS
    Sources,       \* texts a source file may hold
    Forms,         \* forms that may be searched for
    Editions,      \* texts of an index file that may replace the one searched
    ContextChars,  \* characters of context on each side of a match (110)
    MaxHits        \* MAX_MATCHES

Letters == {"alef", "seat", "lam", "heh", "kaf", "meem", "noon", "teh", "yeh",
            "maqsura", "proclitic", "lit", "tatweel"}
Marks == {"mark", "hamza"}
Markers == {"page", "milestone"}
Symbols == Letters \cup Marks \cup Markers \cup {"latin", "space", "break", "weave"}

ASSUME SourcesAssumption == Sources \subseteq Seq(Symbols)
ASSUME FormsAssumption == Forms \subseteq Seq(Symbols)
ASSUME EditionsAssumption == Editions \subseteq Seq(Symbols)
ASSUME ContextAssumption == ContextChars \in Nat /\ MaxHits \in Nat \ {0}

VARIABLES source, stage, text, index, start, tokens, form, hits, truncated, served,
          documents, spans

scan == <<index, start, tokens>>
gate == <<served, documents, spans>>
vars == <<source, stage, text, scan, form, hits, truncated, gate>>

None == -1

\* Python's t[a:b] for a, b >= 0.
Slice(t, a, b) == SubSeq(t, a + 1, IF b < Len(t) THEN b ELSE Len(t))

\* What t holds of S, in the order of t.
Keep(t, S) ==
    LET kept == {i \in DOMAIN t : t[i] \in S}
        Rank(i) == Cardinality({k \in kept : k <= i})
    IN  [n \in 1..Cardinality(kept) |-> t[CHOOSE i \in kept : Rank(i) = n]]

-----------------------------------------------------------------------------
(* Ingestion.                                                              *)

Alpha == Letters \cup {"latin"}
Alphanumeric == Markers \cup {"latin"}

CharAt(t, i) == IF i \in DOMAIN t THEN t[i] ELSE "end"

\* Mutant: the control always vanishes, whatever it stands between.
SubstituteNothing(t, i) == "gone"

\* What replaces the control at i: words it separates stay apart.
Substitute(t, i) ==
    IF CharAt(t, i - 1) \in Alpha /\ CharAt(t, i + 1) \in Alpha THEN "space" ELSE "gone"

\* pattern.sub(): a control that touches a Latin letter or digit is no control.
StripMarker(t, marker) ==
    Keep([i \in DOMAIN t |->
            IF t[i] = marker /\ {CharAt(t, i - 1), CharAt(t, i + 1)} \cap Alphanumeric = {}
            THEN Substitute(t, i) ELSE t[i]],
         Symbols)

Unweave(t) == [i \in DOMAIN t |-> IF t[i] = "weave" THEN "space" ELSE t[i]]

Strip(t) == StripMarker(StripMarker(Unweave(t), "page"), "milestone")

-----------------------------------------------------------------------------
(* Normalisation and spellings.                                            *)

\* i carries an alef and j the combining hamza that NFC composes with it.
Composes(t, i, j) ==
    i < j /\ t[i] = "alef" /\ t[j] = "hamza" /\ \A k \in i+1..j-1 : t[k] = "mark"

NFC(t) ==
    Keep([i \in DOMAIN t |->
            CASE \E j \in DOMAIN t : Composes(t, i, j) -> "seat"
              [] \E j \in DOMAIN t : Composes(t, j, i) -> "gone"
              [] OTHER -> t[i]],
         Symbols)

Normalize(t) == Keep(NFC(t), Symbols \ (Marks \cup {"tatweel"}))

Pronouns == {<<"heh", "meem", "alef">>, <<"kaf", "meem", "alef">>, <<"heh", "meem">>,
             <<"heh", "noon">>, <<"kaf", "meem">>, <<"kaf", "noon">>, <<"heh", "alef">>,
             <<"noon", "alef">>, <<"heh">>, <<"kaf">>, <<"yeh">>}

EndsWith(t, s) ==
    Len(s) <= Len(t) /\ \A k \in DOMAIN s : t[Len(t) - Len(s) + k] = s[k]

\* The pronoun that form ends with, when a stem is left before it.
Suffixed(t, s) == EndsWith(t, s) /\ Len(t) > Len(s) + 1

StemLen(t) ==
    IF \E s \in Pronouns : Suffixed(t, s)
    THEN Len(t) - Len(CHOOSE s \in Pronouns : Suffixed(t, s))
    ELSE Len(t)

\* Positions, from 1, of alefs that belong to a suffix.
SuffixAlefs(t) ==
    LET n == StemLen(t)
        stem == SubSeq(t, 1, n)
    IN  {i \in DOMAIN t :
            \/ i > n /\ t[i] \in {"alef", "seat"}
            \/ i = n /\ n < Len(t) /\ t[i] = "alef"
            \/ i = n - 1 /\ n > 2 /\ (EndsWith(stem, <<"alef", "teh">>) \/ EndsWith(stem, <<"alef", "noon">>))
            \/ i = Len(t) /\ t[i] = "alef"}

IsArticleAlef(t, i) ==
    /\ i < Len(t) /\ t[i] = "alef" /\ t[i+1] = "lam"
    /\ i <= 3 /\ \A k \in 1..i-1 : t[k] \in {"proclitic", "kaf", "lam"}

LexicalSeats(t) ==
    {i \in DOMAIN t : t[i] = "seat" /\ i \notin SuffixAlefs(t) /\ ~IsArticleAlef(t, i)}

\* The form, and the form with its first lexical hamza seat written plainly.
Bases(t) ==
    {t} \cup {[t EXCEPT ![i] = "alef"] :
                i \in {i \in LexicalSeats(t) : \A k \in LexicalSeats(t) : i <= k}}

WithFinalYeh(T) ==
    T \cup {[t EXCEPT ![Len(t)] = "yeh"] : t \in {t \in T : EndsWith(t, <<"maqsura">>)}}

Display(t) == Keep(NFC(t), Symbols \ {"tatweel"})

ExpandOrthographicVariants(t) ==
    {Display(t)} \cup WithFinalYeh(Bases(Normalize(Display(t))))

\* raw.strip() and what validate_variants() then refuses.
Stripped(t) ==
    LET ink == {i \in DOMAIN t : t[i] # "space"}
    IN  IF ink = {} THEN <<>>
        ELSE SubSeq(t, CHOOSE i \in ink : \A k \in ink : i <= k,
                       CHOOSE i \in ink : \A k \in ink : i >= k)

ValidVariant(t) ==
    /\ \A i \in DOMAIN t : t[i] \in Letters \cup Marks
    /\ Cardinality({i \in DOMAIN t : t[i] \in Letters}) >= 2

Cleaned(t) == NFC(Stripped(t))

\* _variants_via_tools raises for a spelling whose normal form is empty, and
\* retrieve() validates every spelling again: of tatweel alone, or of one
\* letter and tatweel, nothing is left to search for.
Searchable(t) ==
    /\ ValidVariant(Cleaned(t))
    /\ \A v \in ExpandOrthographicVariants(Cleaned(t)) :
          Normalize(v) # <<>> /\ ValidVariant(Cleaned(v))

Keys(t) == {Normalize(v) : v \in ExpandOrthographicVariants(Cleaned(t))}

-----------------------------------------------------------------------------
(* Search and gate.                                                        *)

ContextStart(a) == IF a > ContextChars THEN a - ContextChars ELSE 0
ContextEnd(t, b) == IF b + ContextChars < Len(t) THEN b + ContextChars ELSE Len(t)

Hit(t, i) ==
    LET a == tokens[i][1]
        b == tokens[i][2]
    IN  [token_index |-> i - 1, raw_start |-> a, raw_end |-> b,
         raw_form |-> Slice(t, a, b), match |-> Slice(t, a, b),
         context_start |-> ContextStart(a), context_end |-> ContextEnd(t, b),
         prefix |-> Slice(t, ContextStart(a), a), suffix |-> Slice(t, b, ContextEnd(t, b)),
         raw_text_sha256 |-> t]

\* The postings of form, in the order of the query.
Matching(f) == {i \in DOMAIN tokens : Normalize(Slice(text, tokens[i][1], tokens[i][2])) \in Keys(f)}

\* LIMIT: the rows that fewer than MaxHits others precede.
Returned(f) == {i \in Matching(f) : Cardinality({k \in Matching(f) : k < i}) < MaxHits}

\* What inspect() compares of the characters of a hit: with the document t that
\* it names, and with the text u that verify_raw_span finds when it opens the
\* index again.  Mutant of QuoteStands: the hash is not compared.
ContextStands(h, t, u) ==
    /\ Slice(u, h.raw_start, h.raw_end) = h.raw_form
    /\ h.match = h.raw_form
    /\ h.prefix \o h.match \o h.suffix = Slice(t, h.context_start, h.context_end)
    /\ h.context_start + Len(h.prefix) = h.raw_start
    /\ h.raw_end + Len(h.suffix) = h.context_end

QuoteStands(h, t, u) == ContextStands(h, t, u) /\ h.raw_text_sha256 = t

-----------------------------------------------------------------------------
Init ==
    /\ source \in Sources
    /\ stage = "ingest" /\ text = <<>>
    /\ index = 0 /\ start = None /\ tokens = <<>>
    /\ form = <<>> /\ hits = {} /\ truncated = FALSE
    /\ served = <<>> /\ documents = <<>> /\ spans = <<>>

\* An empty document is refused.
Ingest ==
    /\ stage = "ingest"
    /\ \E i \in DOMAIN Strip(source) : Strip(source)[i] \notin {"space", "break"}
    /\ stage' = "scan" /\ text' = Strip(source)
    /\ UNCHANGED <<source, scan, form, hits, truncated, gate>>

\* Mutant: a mark ends a word as a space does.
ScanMarkEnds ==
    /\ stage = "scan" /\ index < Len(text)
    /\ index' = index + 1
    /\ IF text[index + 1] \in Letters
       THEN start' = (IF start = None THEN index ELSE start) /\ UNCHANGED tokens
       ELSE /\ start' = None
            /\ tokens' = IF start = None THEN tokens ELSE Append(tokens, <<start, index>>)
    /\ UNCHANGED <<source, stage, text, form, hits, truncated, gate>>

\* One turn of the loop of tokenize_with_offsets.
Scan ==
    /\ stage = "scan" /\ index < Len(text)
    /\ index' = index + 1
    /\ \/ /\ text[index + 1] \in Letters
          /\ start' = IF start = None THEN index ELSE start
          /\ UNCHANGED tokens
       \/ /\ text[index + 1] \in Marks
          /\ UNCHANGED <<start, tokens>>
       \/ /\ text[index + 1] \notin Letters \cup Marks
          /\ start' = None
          /\ tokens' = IF start = None THEN tokens ELSE Append(tokens, <<start, index>>)
    /\ UNCHANGED <<source, stage, text, form, hits, truncated, gate>>

\* The word that runs to the end of the text.
ScanEnd ==
    /\ stage = "scan" /\ index = Len(text)
    /\ stage' = "indexed"
    /\ start' = None
    /\ tokens' = IF start = None THEN tokens ELSE Append(tokens, <<start, index>>)
    /\ UNCHANGED <<source, text, index, form, hits, truncated, gate>>

Search(f) ==
    /\ stage = "indexed"
    /\ Searchable(f)
    /\ stage' = "searched"
    /\ form' = f
    /\ hits' = {Hit(text, i) : i \in Returned(f)}
    /\ truncated' = (Cardinality(Matching(f)) > MaxHits)
    /\ served' = text
    /\ UNCHANGED <<source, text, scan, documents, spans>>

\* Another index of the same release is moved over the path: CorpusIndex
\* opens it for every query.
Replace(t) ==
    /\ stage = "searched" /\ served = text
    /\ served' = t
    /\ UNCHANGED <<source, stage, text, scan, form, hits, truncated, documents, spans>>

\* The gate comes to h after the hits before it, and opens the path twice.
ReadDocument(h) ==
    /\ stage = "searched" /\ h \notin DOMAIN documents
    /\ \A k \in hits : k.token_index < h.token_index => k \in DOMAIN spans
    /\ documents' = [k \in DOMAIN documents \cup {h} |-> IF k = h THEN served ELSE documents[k]]
    /\ UNCHANGED <<source, stage, text, scan, form, hits, truncated, served, spans>>

VerifySpan(h) ==
    /\ stage = "searched" /\ h \in DOMAIN documents \ DOMAIN spans
    /\ spans' = [k \in DOMAIN spans \cup {h} |-> IF k = h THEN served ELSE spans[k]]
    /\ UNCHANGED <<source, stage, text, scan, form, hits, truncated, served, documents>>

\* issue(): the errors of all hits together.
Issue ==
    /\ stage = "searched" /\ DOMAIN spans = hits
    /\ stage' = IF \A h \in hits : QuoteStands(h, documents[h], spans[h])
                THEN "issued" ELSE "rejected"
    /\ UNCHANGED <<source, text, scan, form, hits, truncated, gate>>

Next ==
    \/ Ingest \/ Scan \/ ScanEnd
    \/ \E f \in Forms : Search(f)
    \/ \E t \in Editions : Replace(t)
    \/ \E h \in hits : ReadDocument(h) \/ VerifySpan(h)
    \/ Issue

Spec == Init /\ [][Next]_vars

-----------------------------------------------------------------------------
(* Properties.                                                             *)

InText(t, i) == t[i] \in Letters \cup Marks

\* The words of t: the stretches of letters and marks, each from its first
\* letter to its end.
Words(t) ==
    {w \in (0..Len(t)) \X (0..Len(t)) :
        /\ w[1] < w[2]
        /\ t[w[1] + 1] \in Letters
        /\ \A i \in w[1]+1..w[2] : InText(t, i)
        /\ w[2] < Len(t) => ~InText(t, w[2] + 1)
        /\ \A i \in 1..w[1] : t[i] \in Letters => \E k \in i+1..w[1] : ~InText(t, k)}

\* The postings are the words of the stored text, in its order and without
\* overlap: no word is split, merged, dropped or cut by a mark or tatweel.
TokensAreWords ==
    stage \notin {"ingest", "scan"} =>
        /\ {tokens[i] : i \in DOMAIN tokens} = Words(text)
        /\ \A i, k \in DOMAIN tokens : i < k => tokens[i][2] < tokens[k][1]

\* No control touches a mark.
Clean(t) ==
    \A i \in DOMAIN t :
        t[i] \in Markers => {CharAt(t, i - 1), CharAt(t, i + 1)} \cap Marks = {}

\* The spellings documented for f: as written, without its first hamza
\* seat, and either with a final ya for a final maqsura.
Spellings(f) ==
    LET n == Normalize(Display(Cleaned(f)))
        seats == {i \in DOMAIN n : n[i] = "seat"}
        plain == [i \in DOMAIN n |->
                    IF i \in seats /\ \A k \in seats : i <= k THEN "alef" ELSE n[i]]
        final(t) == [i \in DOMAIN t |->
                    IF i = Len(t) /\ t[i] = "maqsura" THEN "yeh" ELSE t[i]]
    IN  {n, plain, final(n), final(plain)}

\* A search that is not cut off finds every word of the source file, and only
\* words of it, that is written in a spelling documented for the form,
\* vowelled or not, and numbers them as the source has them: stripping,
\* scanning, normalising and expanding lose, join and invent nothing.  Words
\* are only joined where a control touches a mark (README, section 5).
FindsEveryWord ==
    stage = "searched" /\ ~truncated /\ Clean(source) =>
        {<<h.token_index, h.raw_form>> : h \in hits} =
            {<<Cardinality({v \in Words(source) : v[1] < w[1]}), Slice(source, w[1], w[2])>> :
                w \in {w \in Words(source) :
                            Normalize(Slice(source, w[1], w[2])) \in Spellings(form)}}

\* h quotes t: the match and as much context on each side as the limit and
\* the ends of t leave.
Quotes(h, t) ==
    /\ h.raw_end <= Len(t)
    /\ h.match = SubSeq(t, h.raw_start + 1, h.raw_end)
    /\ h.prefix = SubSeq(t, h.context_start + 1, h.raw_start)
    /\ h.suffix = SubSeq(t, h.raw_end + 1, h.context_end)
    /\ Len(h.prefix) = ContextChars \/ (h.context_start = 0 /\ Len(h.prefix) < ContextChars)
    /\ Len(h.suffix) = ContextChars \/ (h.context_end = Len(t) /\ Len(h.suffix) < ContextChars)

\* Every quotation issued is one of each document that the gate read, for
\* this hit or for another: although the file may be replaced after the search
\* or between two hits, a dossier never mixes quotations of two texts.  And
\* the gate turns nothing down unless the file was replaced.
GateIsExact ==
    /\ stage = "issued" => \A h, k \in hits : Quotes(h, documents[k])
    /\ stage = "rejected" => served # text
=============================================================================
