------------------------ MODULE ClaimWorkflowProofs ------------------------
(***************************************************************************)
(* What an issued dossier means, for every corpus, every answer of the     *)
(* models and every limit.                                                 *)
(***************************************************************************)
EXTENDS ClaimWorkflow, FiniteSetTheorems, WellFoundedInduction, TLAPS

\* A search that is not truncated returns every matching posting.
LEMMA SearchIsComplete ==
    ASSUME NEW surfaces, NEW limit \in Nat, corpus \in Corpora,
           ~Search(surfaces, limit).truncated
    PROVE  Search(surfaces, limit).hits = Matching(surfaces)
<1> DEFINE found == Matching(surfaces)
<1>1. IsFiniteSet(found) /\ found \subseteq Nat
  <2>1. IsFiniteSet(DOMAIN corpus) /\ DOMAIN corpus \subseteq Nat
    BY CorporaAssumption
  <2>2. found \subseteq DOMAIN corpus
    BY DEF Matching
  <2> QED BY <2>1, <2>2, FS_Subset
<1>2. Cardinality(found) \in Nat /\ Cardinality(found) <= limit
  <2>1. ~(Cardinality(found) > limit)
    BY DEF Search
  <2> QED BY <1>1, <2>1, FS_CardinalityType
<1>3. \A p \in found : Cardinality({q \in found : q < p}) < limit
  <2> SUFFICES ASSUME NEW p \in found
               PROVE  Cardinality({q \in found : q < p}) < limit
    OBVIOUS
  <2>1. {q \in found : q < p} \subseteq found \ {p}
    BY <1>1
  <2>2. IsFiniteSet(found \ {p}) /\ Cardinality(found \ {p}) = Cardinality(found) - 1
    BY <1>1, FS_RemoveElement
  <2>3. /\ Cardinality({q \in found : q < p}) \in Nat
        /\ Cardinality({q \in found : q < p}) <= Cardinality(found \ {p})
    BY <2>1, <2>2, FS_Subset, FS_CardinalityType
  <2> QED BY <1>2, <2>2, <2>3
<1>4. FirstOf(found, limit) = found
  BY <1>3 DEF FirstOf
<1> QED BY <1>4 DEF Search

\* Spellings and matches of a union are those of its parts.
LEMMA Unions ==
    ASSUME NEW A, NEW B
    PROVE  /\ AllSpellings(Cleaned(A \cup B)) =
                AllSpellings(Cleaned(A)) \cup AllSpellings(Cleaned(B))
           /\ Matching(A \cup B) = Matching(A) \cup Matching(B)
BY DEF AllSpellings, Cleaned, Matching

\* The first expansion declares the spellings of the claim's form and of all
\* the morphologist's, whatever labels it gives them.
LEMMA ExpandSurfaces ==
    ASSUME NEW form, NEW others \in Seq(Words)
    PROVE  Surfaces(Expand(form, others)) =
             AllSpellings(Cleaned({form} \cup Elements(others)))
<1> DEFINE list == FormList(form, others)
<1>1. /\ Len(list) = Len(others) + 1
      /\ Len(others) \in Nat
      /\ \A i \in 1..Len(list) :
            list[i] = Clean(IF i = 1 THEN form ELSE others[i - 1])
  <2>1. Len(others) \in Nat
    OBVIOUS
  <2> QED BY <2>1 DEF FormList
<1> HIDE DEF list
<1>2. Elements(list) = Cleaned({form} \cup Elements(others))
  <2>1. ASSUME NEW i \in 1..Len(list)
        PROVE  list[i] \in Cleaned({form} \cup Elements(others))
    <3>1. CASE i = 1
      BY <1>1, <3>1 DEF Cleaned
    <3>2. CASE i # 1
      <4>1. i - 1 \in 1..Len(others) /\ list[i] = Clean(others[i - 1])
        BY <1>1, <3>2
      <4> QED BY <4>1 DEF Cleaned, Elements
    <3> QED BY <3>1, <3>2
  <2>2. Clean(form) \in Elements(list)
    <3>1. 1 \in 1..Len(list) /\ list[1] = Clean(form)
      BY <1>1
    <3> QED BY <3>1 DEF Elements
  <2>3. ASSUME NEW k \in 1..Len(others)
        PROVE  Clean(others[k]) \in Elements(list)
    <3>1. k + 1 \in 1..Len(list) /\ list[k + 1] = Clean(others[k])
      BY <1>1
    <3> QED BY <3>1 DEF Elements
  <2> QED BY <2>1, <2>2, <2>3 DEF Elements, Cleaned
<1>3. Surfaces(Expand(form, others)) = AllSpellings(Elements(list))
  <2> DEFINE entry(s) == [surface_form |-> s, source |-> Source(list, form, s)]
             all == AllSpellings(Elements(list))
  <2>1. Expand(form, others) = {entry(s) : s \in all}
    BY DEF Expand, list
  <2>2. \A s : entry(s).surface_form = s
    OBVIOUS
  <2> HIDE DEF entry, all
  <2>3. Surfaces({entry(s) : s \in all}) = all
    BY <2>2 DEF Surfaces
  <2> QED BY <2>1, <2>3 DEF all
<1> QED BY <1>2, <1>3

-----------------------------------------------------------------------------
(* The inductive invariant.  Before the audit the trace is the first pass  *)
(* over exactly the spellings of the claim and the morphologist's forms;   *)
(* after it, an untruncated trace has all occurrences of everything that   *)
(* was proposed, which is what the coverage flag is to promise.            *)

BeforeAudit ==
    /\ stage \in {"claimed", "retrieved", "classified"} => audit = NoAudit
    /\ stage \in {"retrieved", "classified"} =>
          /\ passes = <<Search(Surfaces(variants), MaxMatches)>>
          /\ hits = passes[1].hits
          /\ Surfaces(variants) = AllSpellings(Cleaned({claim} \cup Elements(morphology)))

Traced == ~AnyTruncated => Matching(AllSpellings(Cleaned(EveryProposal))) \subseteq hits

AfterAudit == stage \in {"audited", "issued", "rejected"} => Traced

Assembled ==
    Issued => /\ assessment \in [hits -> Decisions]
              /\ dossier = Assemble(Judged(assessment))

WInv == corpus \in Corpora /\ BeforeAudit /\ AfterAudit /\ Assembled

LEMMA InitInv == WInit => WInv
BY DEF WInit, WInv, BeforeAudit, AfterAudit, Assembled, Issued

\* The first pass searches all spellings of what the morphologist returned.
LEMMA RetrieveInitialInv == WInv /\ RetrieveInitial => WInv'
<1> SUFFICES ASSUME WInv, RetrieveInitial PROVE WInv'
  OBVIOUS
<1>1. corpus' \in Corpora /\ audit' = NoAudit
  BY DEF WInv, BeforeAudit, RetrieveInitial
<1>2. CASE ~Expandable({claim} \cup Elements(morphology'))
  <2>1. stage' = "raised"
    BY <1>2 DEF RetrieveInitial
  <2> QED BY <1>1, <2>1 DEF WInv, BeforeAudit, AfterAudit, Assembled, Issued
<1>3. CASE Expandable({claim} \cup Elements(morphology'))
  <2>1. /\ stage' = "retrieved"
        /\ variants' = Expand(claim, morphology')
        /\ passes' = <<Search(Surfaces(variants'), MaxMatches)>>
        /\ hits' = passes'[1].hits
        /\ claim' = claim /\ corpus' = corpus
    BY <1>3 DEF RetrieveInitial
  <2>2. passes' = <<Search(Surfaces(variants), MaxMatches)>>'
    BY <2>1 DEF Search, Matching
  <2>3. morphology' \in Seq(Words)
    BY WordsAssumption DEF RetrieveInitial
  <2>4. Surfaces(variants') = AllSpellings(Cleaned({claim'} \cup Elements(morphology')))
    BY <2>1, <2>3, ExpandSurfaces
  <2> QED BY <1>1, <2>1, <2>2, <2>4 DEF WInv, BeforeAudit, AfterAudit, Assembled, Issued
<1> QED BY <1>2, <1>3

\* The second pass adds the spellings that only the audit brought up.
LEMMA ApplyAuditInv == WInv /\ ApplyAudit => WInv'
<1> SUFFICES ASSUME WInv, ApplyAudit PROVE WInv'
  OBVIOUS
<1> DEFINE kept == {v.surface_form : v \in {u \in variants : u.source = "morphologist"}}
           forms == {claim} \cup Proposed' \cup kept
           old == Surfaces(variants)
           declared == AllSpellings(Cleaned(forms))
           new == declared \ old
           pass == Search(new, Remaining(hits))
           first == {claim} \cup Elements(morphology)
<1>1. /\ corpus \in Corpora
      /\ corpus' = corpus /\ claim' = claim /\ morphology' = morphology
      /\ passes = <<Search(old, MaxMatches)>> /\ hits = passes[1].hits
      /\ old = AllSpellings(Cleaned(first))
  BY DEF WInv, BeforeAudit, ApplyAudit
<1>2. CASE ~(Valid(Proposed') /\ Expandable(forms))
  <2>1. stage' = "raised"
    BY <1>2 DEF ApplyAudit
  <2> QED BY <1>1, <2>1 DEF WInv, BeforeAudit, AfterAudit, Assembled, Issued
<1>3. CASE Valid(Proposed') /\ Expandable(forms)
  <2>1. /\ stage' = "audited"
        /\ new = {} => passes' = passes /\ hits' = hits
        /\ new # {} => passes' = Append(passes, pass) /\ hits' = hits \cup pass.hits
    BY <1>3 DEF ApplyAudit, MergeHits
  <2>2. AllSpellings(Cleaned(EveryProposal')) \subseteq old \cup new
    <3>1. EveryProposal' = first \cup Proposed'
      BY <1>1 DEF EveryProposal
    <3>2. AllSpellings(Cleaned(Proposed')) \subseteq declared
      BY DEF AllSpellings, Cleaned
    <3> HIDE DEF old, first
    <3>3. AllSpellings(Cleaned(EveryProposal')) =
            AllSpellings(Cleaned(first)) \cup AllSpellings(Cleaned(Proposed'))
      <4>1. AllSpellings(Cleaned(first \cup Proposed')) =
              AllSpellings(Cleaned(first)) \cup AllSpellings(Cleaned(Proposed'))
        BY Unions
      <4> QED BY <3>1, <4>1
    <3> QED BY <1>1, <3>2, <3>3
  <2>3. ASSUME ~AnyTruncated'
        PROVE  Matching(old) \cup Matching(new) \subseteq hits'
    <3> DEFINE firstPass == Search(old, MaxMatches)
    <3>0. /\ 1 \in 1..Len(passes') /\ passes'[1] = firstPass
          /\ new # {} => 2 \in 1..Len(passes') /\ passes'[2] = pass
      <4> HIDE DEF firstPass, pass, new
      <4>1. passes = <<firstPass>>
        BY <1>1 DEF firstPass
      <4> QED BY <2>1, <4>1
    <3>1. ~Search(old, MaxMatches).truncated
      <4> QED BY <2>3, <3>0 DEF AnyTruncated
    <3>2. hits = Matching(old)
      BY <1>1, <3>1, SearchIsComplete, LimitsAssumption
    <3>3. CASE new = {}
      BY <2>1, <3>2, <3>3 DEF Matching
    <3>4. CASE new # {}
      <4>1. ~pass.truncated
        BY <2>3, <3>0, <3>4 DEF AnyTruncated
      <4>2. Remaining(hits) \in Nat
        <5>1. IsFiniteSet(hits)
          <6>1. hits \subseteq DOMAIN corpus
            BY <3>2 DEF Matching
          <6> QED BY <1>1, <6>1, CorporaAssumption, FS_Subset
        <5> QED BY <5>1, FS_CardinalityType, LimitsAssumption DEF Remaining
      <4>3. pass.hits = Matching(new)
        BY <1>1, <4>1, <4>2, SearchIsComplete
      <4> QED BY <2>1, <3>2, <3>4, <4>3
    <3> QED BY <3>3, <3>4
  <2>4. Traced'
    <3>1. Matching(AllSpellings(Cleaned(EveryProposal)))' \subseteq Matching(old) \cup Matching(new)
      BY <1>1, <2>2 DEF Matching
    <3> QED BY <2>3, <3>1 DEF Traced
  <2> QED BY <1>1, <2>1, <2>4 DEF WInv, BeforeAudit, AfterAudit, Assembled, Issued
<1> QED BY <1>2, <1>3

LEMMA NextInv == WInv /\ [WNext]_wvars => WInv'
<1> SUFFICES ASSUME WInv, [WNext]_wvars PROVE WInv'
  OBVIOUS
<1> USE DEF WInv, BeforeAudit, AfterAudit, Assembled, Issued
<1>1. CASE ClassifyInitial
  BY <1>1 DEF ClassifyInitial, Search, Matching
<1>2. CASE IssueDossier
  <2>1. /\ Traced' <=> Traced
        /\ dossier' = Assemble(Judged(assessment))'
    BY <1>2 DEF IssueDossier, Traced, AnyTruncated, Matching, EveryProposal, Proposed,
                Assemble, FirstVerdict, DeriveVerdict, Evidence, Earlier, PossiblyEarlier,
                Blocked, Judged
  <2> QED BY <1>2, <2>1 DEF IssueDossier
<1>3. CASE Raise
  BY <1>3 DEF Raise
<1>4. CASE UNCHANGED wvars
  BY <1>4 DEF wvars, Search, Matching, Traced, AnyTruncated, EveryProposal, Proposed,
              Assemble, FirstVerdict, DeriveVerdict, Evidence, Earlier, PossiblyEarlier,
              Blocked, Judged
<1> QED BY <1>1, <1>2, <1>3, <1>4, RetrieveInitialInv, ApplyAuditInv DEF WNext

LEMMA InvHolds == WSpec => []WInv
<1>1. WInit => WInv
  BY InitInv
<1>2. WInv /\ [WNext]_wvars => WInv'
  BY NextInv
<1> QED BY <1>1, <1>2, PTL DEF WSpec

-----------------------------------------------------------------------------

\* A dossier whose coverage is marked complete has every occurrence, in any
\* corpus, of every spelling of every word that was proposed.
THEOREM CoverageCorrect == WSpec => []CoverageIsTotal
<1>1. WInv => CoverageIsTotal
  <2> SUFFICES ASSUME WInv, Issued, dossier.coverage_complete
               PROVE  Matching(AllSpellings(Cleaned(EveryProposal))) \subseteq hits
    BY DEF CoverageIsTotal
  <2>1. dossier = Assemble(Judged(assessment))
    BY DEF WInv, Assembled
  <2>2. dossier.coverage_complete => ~AnyTruncated
    BY <2>1 DEF Assemble
  <2> QED BY <2>2 DEF WInv, AfterAudit, Traced, Issued
<1> QED BY <1>1, InvHolds, PTL

\* "No earlier match" is issued only if every possibly earlier occurrence was
\* surely excluded by the final assessment.
THEOREM NegativeCorrect == WSpec => []NegativeIsExhaustive
<1>1. WInv => NegativeIsExhaustive
  <2> SUFFICES ASSUME WInv, Issued,
                      dossier.verdict = "NO_EARLIER_MATCH_IN_DECLARED_CORPUS",
                      NEW p \in Matching(AllSpellings(Cleaned(EveryProposal))),
                      corpus[p].year < Cutoff \/ corpus[p].year = NoYear
               PROVE  /\ p \in hits
                      /\ assessment[p].confidence = "high"
                      /\ \/ assessment[p].classification = "homograph"
                         \/ assessment[p].evidence_role = "quoted"
    BY DEF NegativeIsExhaustive
  <2> DEFINE judged == Judged(assessment)
             complete == dossier.coverage_complete
  <2>1. /\ assessment \in [hits -> Decisions]
        /\ dossier = Assemble(judged)
    BY DEF WInv, Assembled
  <2>2. /\ dossier.verdict = DeriveVerdict(judged, complete)
        /\ complete => ~AnyTruncated
    BY <2>1 DEF Assemble
  <2>3. /\ complete
        /\ ~\E q \in DOMAIN judged : PossiblyEarlier(q) /\ CouldQualify(judged[q])
    BY <2>2 DEF DeriveVerdict
  <2>4. p \in hits
    BY <2>2, <2>3 DEF WInv, AfterAudit, Traced, Issued
  <2>5. p \in DOMAIN judged /\ judged[p] = Judge(assessment[p])
    BY <2>1, <2>4 DEF Judged
  <2>6. ~CouldQualify(Judge(assessment[p]))
    BY <2>3, <2>5 DEF PossiblyEarlier, Earlier
  <2>7. assessment[p].confidence = "high"
    BY <2>6 DEF Judge, CouldQualify, Unsettled
  <2>8. assessment[p] \in Decision
    BY <2>1, <2>4, <2>7, DecisionsAssumption DEF NoDecision
  <2> QED BY <2>4, <2>6, <2>7, <2>8 DEF Judge, CouldQualify, Decision, Labels, Roles
<1> QED BY <1>1, InvHolds, PTL

\* "Earlier match found" is issued exactly if there is sure, dated evidence.
THEOREM PositiveCorrect == WSpec => []PositiveIffEvidence
<1>1. WInv => PositiveIffEvidence
  <2> SUFFICES ASSUME WInv, Issued PROVE PositiveIffEvidence
    BY DEF PositiveIffEvidence
  <2> DEFINE judged == Judged(assessment)
             sure == [classification |-> "target_use",
                      evidence_role |-> "independent_authorial_use",
                      confidence |-> "high"]
  <2>1. /\ assessment \in [hits -> Decisions]
        /\ dossier.verdict = DeriveVerdict(judged, dossier.coverage_complete)
    BY DEF WInv, Assembled, Assemble
  <2>2. dossier.verdict = "EARLIER_MATCH_FOUND" <=> Evidence(judged) # {}
    BY <2>1 DEF DeriveVerdict
  <2>3. ASSUME NEW p \in hits
        PROVE  IsQualifying(judged[p]) <=> assessment[p] = sure
    <3>1. judged[p] = Judge(assessment[p]) /\ assessment[p] \in Decision \cup {NoDecision}
      BY <2>1, DecisionsAssumption DEF Judged
    <3>2. CASE assessment[p].confidence # "high"
      BY <3>1, <3>2 DEF Judge, IsQualifying, Unsettled
    <3>3. CASE assessment[p].confidence = "high"
      <4>1. assessment[p] \in Decision
        BY <3>1, <3>3 DEF NoDecision
      <4> QED BY <3>1, <3>3, <4>1 DEF Judge, IsQualifying, Decision
    <3> QED BY <3>2, <3>3
  <2>4. Evidence(judged) # {} <=> \E p \in hits : IsQualifying(judged[p]) /\ corpus[p].year < Cutoff
    BY <2>1 DEF Evidence, Earlier, Judged
  <2> QED BY <2>2, <2>3, <2>4 DEF PositiveIffEvidence
<1> QED BY <1>1, InvHolds, PTL

-----------------------------------------------------------------------------
(* Types, and the match limit that the two passes share.                   *)

\* The form without tatweel, and one of the spellings without marks.
Smooth(w) == [w EXCEPT !.tatweel = FALSE, !.decomposed = FALSE]
Shape(plain, h, m) == [plain EXCEPT !.seats = h, !.maqsura = m]

LEMMA SpellingOf ==
    ASSUME NEW w, NEW s
    PROVE  s \in Spellings(w) <=>
             \/ s = Smooth(w)
             \/ \E h \in {Normalize(w).seats, WithoutFirst(Normalize(w).seats)},
                   m \in {Normalize(w).maqsura, FALSE} : s = Shape(Normalize(w), h, m)
BY DEF Spellings, Shape, Smooth

\* The spellings of words are words.
LEMMA SpellingsAreWords ==
    ASSUME NEW ws, \A w \in ws : IsWord(w)
    PROVE  \A s \in AllSpellings(Cleaned(ws)) : IsWord(s)
<1> SUFFICES ASSUME NEW w \in ws, NEW s \in Spellings(Clean(w)) PROVE IsWord(s)
  BY DEF AllSpellings, Cleaned
<1>1. IsWord(Clean(w))
  BY DEF IsWord, Clean
<1>2. ASSUME NEW v, IsWord(v), NEW h \in SUBSET Nat, NEW m \in BOOLEAN
      PROVE  /\ IsWord(Smooth(v))
             /\ IsWord(Normalize(v))
             /\ IsWord(Shape(v, h, m))
  BY <1>2 DEF IsWord, Normalize, Smooth, Shape
<1> DEFINE plain == Normalize(Clean(w))
<1>3. IsWord(plain)
  BY <1>1, <1>2
<1>4. CASE s = Smooth(Clean(w))
  BY <1>1, <1>2, <1>4
<1>5. ASSUME NEW h \in {plain.seats, WithoutFirst(plain.seats)},
             NEW m \in {plain.maqsura, FALSE}, s = Shape(plain, h, m)
      PROVE  IsWord(s)
  <2>1. h \in SUBSET Nat /\ m \in BOOLEAN
    BY <1>3 DEF IsWord, WithoutFirst
  <2> QED BY <1>2, <1>3, <1>5, <2>1
<1> QED BY <1>4, <1>5, SpellingOf

\* The rows of one query are at most its limit: a posting is told from the
\* others by how many matching ones come before it.
LEMMA RowsWithinLimit ==
    ASSUME corpus \in Corpora, NEW surfaces, NEW limit \in Nat
    PROVE  /\ Search(surfaces, limit).hits \subseteq DOMAIN corpus
           /\ IsFiniteSet(Search(surfaces, limit).hits)
           /\ Cardinality(Search(surfaces, limit).hits) <= limit
<1> DEFINE found == Matching(surfaces)
           before(p) == {q \in found : q < p}
           rows == FirstOf(found, limit)
           rank == [p \in rows |-> Cardinality(before(p))]
<1>1. /\ found \subseteq DOMAIN corpus /\ IsFiniteSet(found) /\ found \subseteq Nat
      /\ rows \subseteq found
  <2>1. found \subseteq DOMAIN corpus /\ rows \subseteq found
    BY DEF Matching, FirstOf
  <2> QED BY <2>1, CorporaAssumption, FS_Subset
<1>2. \A p \in rows : /\ IsFiniteSet(before(p)) /\ Cardinality(before(p)) \in Nat
                      /\ Cardinality(before(p)) < limit
  <2> SUFFICES ASSUME NEW p \in rows
               PROVE  /\ IsFiniteSet(before(p)) /\ Cardinality(before(p)) \in Nat
                      /\ Cardinality(before(p)) < limit
    OBVIOUS
  <2>1. before(p) \subseteq found
    OBVIOUS
  <2>2. IsFiniteSet(before(p))
    BY <1>1, <2>1, FS_Subset
  <2>3. Cardinality(before(p)) \in Nat
    BY <2>2, FS_CardinalityType
  <2>4. Cardinality(before(p)) < limit
    BY DEF FirstOf
  <2> QED BY <2>2, <2>3, <2>4
<1>3. \A p, q \in rows : p < q => Cardinality(before(p)) < Cardinality(before(q))
  <2> SUFFICES ASSUME NEW p \in rows, NEW q \in rows, p < q
               PROVE  Cardinality(before(p)) < Cardinality(before(q))
    OBVIOUS
  <2>1. p \in before(q) /\ before(p) \subseteq before(q) \ {p}
    BY <1>1
  <2>2. IsFiniteSet(before(q) \ {p})
        /\ Cardinality(before(q) \ {p}) = Cardinality(before(q)) - 1
    BY <1>2, <2>1, FS_RemoveElement
  <2> HIDE DEF before
  <2>3. Cardinality(before(p)) <= Cardinality(before(q) \ {p})
    BY <2>1, <2>2, FS_Subset
  <2> QED BY <1>2, <2>2, <2>3
<1>4. rank \in Injection(rows, 0..(limit - 1))
  <2> HIDE DEF before, rows
  <2>1. rank \in [rows -> 0..(limit - 1)]
    BY <1>2
  <2>2. \A p, q \in rows : rank[p] = rank[q] => p = q
    <3> SUFFICES ASSUME NEW p \in rows, NEW q \in rows, p # q
                 PROVE  rank[p] # rank[q]
      OBVIOUS
    <3>1. p \in Nat /\ q \in Nat
      BY <1>1
    <3>2. p < q \/ q < p
      BY <3>1
    <3> QED BY <1>2, <1>3, <3>2
  <2> QED BY <2>1, <2>2 DEF Injection, IsInjective
<1>5. IsFiniteSet(0..(limit - 1)) /\ Cardinality(0..(limit - 1)) = limit
  BY FS_Interval
<1> HIDE DEF rank, rows
<1>6. IsFiniteSet(rows) /\ Cardinality(rows) <= limit
  BY <1>4, <1>5, FS_Injection
<1>7. Search(surfaces, limit).hits = rows
  BY DEF Search, rows
<1> QED BY <1>1, <1>6, <1>7

\* Nothing is assessed before the audit, and the second pass gets what the
\* first one left of the limit.
BoundInv ==
    /\ WTypeOK
    /\ stage \in {"claimed", "retrieved", "classified", "audited"} => assessment = <<>>
    /\ IsFiniteSet(hits) /\ HitsBounded

LEMMA ExpandSurfaceWords ==
    ASSUME NEW form \in Words, NEW others \in Seq(Words)
    PROVE  \A v \in Expand(form, others) : IsWord(v.surface_form)
<1>1. \A w \in {form} \cup Elements(others) : IsWord(w)
  BY WordsAssumption DEF Elements
<1>2. \A s \in Surfaces(Expand(form, others)) : IsWord(s)
  BY <1>1, ExpandSurfaces, SpellingsAreWords
<1> QED BY <1>2 DEF Surfaces

LEMMA VerdictType ==
    ASSUME NEW judged, NEW complete
    PROVE  DeriveVerdict(judged, complete) \in Verdicts
BY DEF DeriveVerdict, Verdicts

LEMMA RetrieveInitialBound == WInv /\ BoundInv /\ RetrieveInitial => BoundInv'
<1> SUFFICES ASSUME WInv, BoundInv, RetrieveInitial PROVE BoundInv'
  OBVIOUS
<1>1. /\ corpus' = corpus /\ claim' = claim /\ audit' = audit /\ assessment' = assessment
      /\ provisional' = provisional /\ dossier' = dossier
      /\ morphology' \in Morphologies /\ assessment = <<>>
  BY DEF RetrieveInitial, BoundInv
<1>2. CASE ~Expandable({claim} \cup Elements(morphology'))
  <2>1. stage' = "raised" /\ UNCHANGED <<variants, passes, hits>>
    BY <1>2 DEF RetrieveInitial
  <2> QED BY <1>1, <2>1 DEF BoundInv, WTypeOK, HitsBounded, Stages
<1>3. CASE Expandable({claim} \cup Elements(morphology'))
  <2> DEFINE first == Search(Surfaces(variants'), MaxMatches)
  <2>1. /\ stage' = "retrieved"
        /\ variants' = Expand(claim, morphology')
        /\ passes' = <<first>>
        /\ hits' = passes'[1].hits
    BY <1>3 DEF RetrieveInitial
  <2>2. claim \in Words /\ morphology' \in Seq(Words)
    BY <1>1, WordsAssumption DEF BoundInv, WTypeOK
  <2>3. \A v \in variants' : IsWord(v.surface_form)
    BY <2>1, <2>2, ExpandSurfaceWords
  <2>4. /\ first.hits \subseteq DOMAIN corpus
        /\ IsFiniteSet(first.hits) /\ Cardinality(first.hits) <= MaxMatches
    BY RowsWithinLimit, LimitsAssumption DEF WInv
  <2> HIDE DEF first
  <2>5. Len(passes') = 1 /\ passes'[1] = first /\ hits' = first.hits
    BY <2>1
  <2> QED BY <1>1, <2>1, <2>3, <2>4, <2>5 DEF BoundInv, WTypeOK, HitsBounded, Stages
<1> QED BY <1>2, <1>3

LEMMA ApplyAuditBound == WInv /\ BoundInv /\ ApplyAudit => BoundInv'
<1> SUFFICES ASSUME WInv, BoundInv, ApplyAudit PROVE BoundInv'
  OBVIOUS
<1> DEFINE kept == {v.surface_form : v \in {u \in variants : u.source = "morphologist"}}
           forms == {claim} \cup Proposed' \cup kept
           declared == AllSpellings(Cleaned(forms))
           new == declared \ Surfaces(variants)
           pass == Search(new, Remaining(hits))
           first == Search(Surfaces(variants), MaxMatches)
<1>1. /\ corpus' = corpus /\ claim' = claim /\ morphology' = morphology
      /\ assessment' = assessment /\ provisional' = provisional /\ dossier' = dossier
      /\ assessment = <<>>
  BY DEF ApplyAudit, BoundInv
<1>2. audit'.completed \in BOOLEAN /\ audit'.findings \subseteq Findings
  BY DEF ApplyAudit
<1>3. passes = <<first>> /\ hits = first.hits
  BY DEF ApplyAudit, WInv, BeforeAudit
<1>4. ASSUME stage' \in {"raised", "audited"}, UNCHANGED <<passes, hits>>,
             \A v \in variants' : IsWord(v.surface_form)
      PROVE  BoundInv'
  <2> HIDE DEF kept, forms, declared, new, pass, first
  <2>1. WTypeOK'
    BY <1>1, <1>2, <1>4 DEF BoundInv, WTypeOK, Stages
  <2> QED BY <1>1, <1>4, <2>1 DEF BoundInv, HitsBounded
<1>5. CASE ~(Valid(Proposed') /\ Expandable(forms))
  <2>1. stage' = "raised" /\ UNCHANGED <<variants, passes, hits>>
    BY <1>5 DEF ApplyAudit
  <2> QED BY <1>4, <2>1 DEF BoundInv, WTypeOK
<1>6. CASE Valid(Proposed') /\ Expandable(forms)
  <2>1. /\ stage' = "audited"
        /\ variants' = {[surface_form |-> s, source |-> "audited"] : s \in declared}
        /\ new = {} => passes' = passes /\ hits' = hits
        /\ new # {} => passes' = Append(passes, pass) /\ hits' = hits \cup pass.hits
    BY <1>6 DEF ApplyAudit, MergeHits
  <2>2. \A v \in variants' : IsWord(v.surface_form)
    <3>1. \A w \in Proposed' : IsWord(w)
      BY <1>2, FindingsAssumption, WordsAssumption DEF Proposed
    <3>2. \A w \in forms : IsWord(w)
      BY <3>1, WordsAssumption DEF BoundInv, WTypeOK
    <3>3. \A s \in declared : IsWord(s)
      BY <3>2, SpellingsAreWords
    <3> HIDE DEF declared
    <3> QED BY <2>1, <3>3
  <2>3. /\ Cardinality(hits) \in Nat /\ Remaining(hits) \in Nat
        /\ Cardinality(hits) + Remaining(hits) = MaxMatches
    BY FS_CardinalityType, LimitsAssumption DEF BoundInv, HitsBounded, Remaining
  <2>4. /\ pass.hits \subseteq DOMAIN corpus
        /\ IsFiniteSet(pass.hits) /\ Cardinality(pass.hits) <= Remaining(hits)
    BY <2>3, RowsWithinLimit DEF WInv
  <2> HIDE DEF pass, new, first
  <2>5. Len(passes) = 1 /\ passes[1] = first
    BY <1>3
  <2>6. CASE new = {}
    BY <1>4, <2>1, <2>2, <2>6
  <2>7. CASE new # {}
    <3>1. passes' = <<first, pass>> /\ hits' = first.hits \cup pass.hits
      BY <1>3, <2>1, <2>7
    <3>2. Len(passes') = 2 /\ passes'[1] = first /\ passes'[2] = pass
      BY <3>1
    <3>3. hits' = UNION {passes'[i].hits : i \in 1..Len(passes')}
      <4>1. 1..Len(passes') = {1, 2}
        BY <3>2
      <4> QED BY <3>1, <3>2, <4>1
    <3>4. \A i \in 1..Len(passes') : passes'[i].hits \subseteq DOMAIN corpus
      <4>1. first.hits \subseteq DOMAIN corpus
        BY <2>5 DEF BoundInv, WTypeOK
      <4> QED BY <2>4, <3>2, <4>1
    <3>5. IsFiniteSet(hits') /\ Cardinality(hits') <= MaxMatches
      <4>1. IsFiniteSet(hits) /\ hits' = hits \cup pass.hits
        BY <2>1, <2>7 DEF BoundInv
      <4>2. /\ IsFiniteSet(hits')
            /\ Cardinality(hits') = Cardinality(hits) + Cardinality(pass.hits)
                                      - Cardinality(hits \cap pass.hits)
        BY <2>4, <4>1, FS_Union
      <4>3. IsFiniteSet(hits \cap pass.hits)
        BY <4>1, FS_Intersection
      <4>4. Cardinality(hits \cap pass.hits) \in Nat /\ Cardinality(pass.hits) \in Nat
        BY <2>4, <4>3, FS_CardinalityType
      <4> QED BY <2>3, <2>4, <4>2, <4>4, LimitsAssumption
    <3> QED BY <1>1, <1>2, <2>1, <2>2, <3>3, <3>4, <3>5
            DEF BoundInv, WTypeOK, HitsBounded, Stages
  <2> QED BY <2>6, <2>7
<1> QED BY <1>5, <1>6

LEMMA NextBound == WInv /\ BoundInv /\ [WNext]_wvars => BoundInv'
<1> SUFFICES ASSUME WInv, BoundInv, [WNext]_wvars PROVE BoundInv'
  OBVIOUS
<1> USE DEF BoundInv, WTypeOK, HitsBounded, Stages
<1>1. CASE ClassifyInitial
  <2>1. provisional' \in Verdicts
    BY <1>1, VerdictType DEF ClassifyInitial, FirstVerdict
  <2> QED BY <1>1, <2>1 DEF ClassifyInitial
<1>2. CASE IssueDossier
  <2>1. dossier'.verdict \in Verdicts
    BY <1>2, VerdictType DEF IssueDossier, Assemble
  <2> QED BY <1>2, <2>1 DEF IssueDossier
<1>3. CASE Raise
  BY <1>3 DEF Raise
<1>4. CASE UNCHANGED wvars
  BY <1>4 DEF wvars
<1> QED BY <1>1, <1>2, <1>3, <1>4, RetrieveInitialBound, ApplyAuditBound DEF WNext

LEMMA BoundHolds == WSpec => []BoundInv
<1>1. WInit => BoundInv
  BY FS_EmptySet, LimitsAssumption
     DEF WInit, BoundInv, WTypeOK, HitsBounded, Stages, NoAudit
<1>2. WInv /\ WInv' /\ BoundInv /\ [WNext]_wvars => BoundInv'
  BY NextBound
<1> QED BY <1>1, <1>2, InvHolds, PTL DEF WSpec

\* Every variable has its type, and the hits are those of the passes.
THEOREM WorkflowTypeCorrect == WSpec => []WTypeOK
<1>1. BoundInv => WTypeOK
  BY DEF BoundInv
<1> QED BY <1>1, BoundHolds, PTL

\* Both passes together stay within the match limit (apply_audit hands the
\* second pass the remainder), whatever the corpus and the limit.
THEOREM HitsBoundedCorrect == WSpec => []HitsBounded
<1>1. BoundInv => HitsBounded
  BY DEF BoundInv
<1> QED BY <1>1, BoundHolds, PTL
-----------------------------------------------------------------------------
(* When the gate lets a run through.                                       *)

\* A non-empty set of numbers has a least one: induction on the place of a
\* form in the morphologist's list is stated with it.
NatBelow == {pair \in Nat \X Nat : pair[1] < pair[2]}

LEMMA LeastNumber ==
    ASSUME NEW S \in SUBSET Nat, S # {}
    PROVE  \E n \in S : \A k \in S : n <= k
<1>1. IsWellFoundedOn(NatBelow, Nat)
  BY NatLessThanWellFounded DEF OpToRel, NatBelow
<1>2. PICK n \in S : \A k \in S : <<k, n>> \notin NatBelow
  BY <1>1, WFMin
<1>3. ASSUME NEW k \in S PROVE n <= k
  <2>1. <<k, n>> \in Nat \X Nat /\ <<k, n>>[1] = k /\ <<k, n>>[2] = n
    OBVIOUS
  <2> QED BY <1>2, <2>1 DEF NatBelow
<1> QED BY <1>3

\* Spelling a spelling again gives nothing new, unless it was the first of
\* several hamza seats that was written plainly.
LEMMA SpellingsClosed ==
    ASSUME NEW v, IsWord(v), NEW w \in Spellings(v), w.seats = v.seats \/ w.seats = {}
    PROVE  Spellings(w) \subseteq Spellings(v)
<1> DEFINE plain == Normalize(v)
           Seats == {plain.seats, WithoutFirst(plain.seats)}
           Finals == {plain.maqsura, FALSE}
<1>1. /\ IsWord(plain) /\ ~plain.tatweel /\ ~plain.mark /\ ~plain.decomposed
      /\ plain.seats = v.seats
  BY DEF IsWord, Normalize
<1>2. CASE w = Smooth(v)
  <2>1. Smooth(w) = w /\ Normalize(w) = plain
    BY <1>2 DEF IsWord, Normalize, Smooth
  <2>2. ASSUME NEW s PROVE s \in Spellings(w) <=> s \in Spellings(v)
    <3>1. s \in Spellings(w) <=>
             s = w \/ \E h \in Seats, m \in Finals : s = Shape(plain, h, m)
      <4>1. s \in Spellings(w) <=>
               \/ s = Smooth(w)
               \/ \E h \in {Normalize(w).seats, WithoutFirst(Normalize(w).seats)},
                     m \in {Normalize(w).maqsura, FALSE} : s = Shape(Normalize(w), h, m)
        BY SpellingOf
      <4> QED BY <2>1, <4>1
    <3>2. s \in Spellings(v) <=>
             s = w \/ \E h \in Seats, m \in Finals : s = Shape(plain, h, m)
      BY <1>2, SpellingOf
    <3> QED BY <3>1, <3>2
  <2> QED BY <2>2
<1>3. ASSUME NEW h \in Seats, NEW m \in Finals, w = Shape(plain, h, m)
      PROVE  Spellings(w) \subseteq Spellings(v)
  <2> HIDE DEF plain
  <2>1. h \subseteq Nat /\ m \in BOOLEAN
    BY <1>1 DEF IsWord, WithoutFirst
  <2>2. w.seats = h /\ w.maqsura = m /\ Smooth(w) = w /\ Normalize(w) = w
    BY <1>1, <1>3, <2>1 DEF IsWord, Shape, Smooth, Normalize
  <2>3. \A g, k : Shape(w, g, k) = Shape(plain, g, k)
    BY <1>1, <1>3, <2>1 DEF IsWord, Shape
  <2>4. WithoutFirst(h) \in Seats
    <3>1. CASE h = plain.seats
      BY <3>1
    <3>2. CASE h = {}
      BY <3>2 DEF WithoutFirst
    <3> QED BY <1>1, <2>2, <3>1, <3>2
  <2>5. ASSUME NEW s \in Spellings(w) PROVE s \in Spellings(v)
    <3>1. s = w \/ \E g \in {h, WithoutFirst(h)}, k \in {m, FALSE} : s = Shape(w, g, k)
      <4>1. \/ s = Smooth(w)
            \/ \E g \in {Normalize(w).seats, WithoutFirst(Normalize(w).seats)},
                  k \in {Normalize(w).maqsura, FALSE} : s = Shape(Normalize(w), g, k)
        BY <2>5, SpellingOf
      <4> QED BY <2>2, <4>1
    <3>2. \E g \in Seats, k \in Finals : s = Shape(plain, g, k)
      <4>1. CASE s = w
        BY <1>3, <4>1
      <4>2. ASSUME NEW g \in {h, WithoutFirst(h)}, NEW k \in {m, FALSE}, s = Shape(w, g, k)
            PROVE  \E a \in Seats, b \in Finals : s = Shape(plain, a, b)
        <5>1. g \in Seats /\ k \in Finals
          BY <2>4
        <5> QED BY <2>3, <4>2, <5>1
      <4> QED BY <3>1, <4>1, <4>2
    <3> QED BY <3>2, SpellingOf DEF plain
  <2> QED BY <2>5
<1> QED BY <1>2, <1>3, SpellingOf

LEMMA PlainSpelling ==
    ASSUME NEW w, IsWord(w), ~w.tatweel
    PROVE  /\ Clean(w) \in Spellings(Clean(w))
           /\ ~w.padded /\ ~w.decomposed => Clean(w) = w
<1>1. Smooth(Clean(w)) = Clean(w)
  BY DEF IsWord, Clean, Smooth
<1>2. ~w.padded /\ ~w.decomposed => Clean(w) = w
  BY DEF IsWord, Clean
<1> QED BY <1>1, <1>2, SpellingOf

\* The label of a spelling is decided by the first form that has it.
LEMMA SourceOfFirst ==
    ASSUME NEW list, NEW form, NEW s,
           \E i \in DOMAIN list : /\ s \in Spellings(list[i])
                                  /\ \A k \in 1..(i - 1) : s \notin Spellings(list[k])
    PROVE  \E i \in DOMAIN list :
              /\ s \in Spellings(list[i])
              /\ \A k \in 1..(i - 1) : s \notin Spellings(list[k])
              /\ s = list[i] /\ s # form => Source(list, form, s) = "morphologist"
<1> DEFINE parent == CHOOSE i \in DOMAIN list :
                       /\ s \in Spellings(list[i])
                       /\ \A k \in 1..(i - 1) : s \notin Spellings(list[k])
<1>1. /\ parent \in DOMAIN list /\ s \in Spellings(list[parent])
      /\ \A k \in 1..(parent - 1) : s \notin Spellings(list[k])
  OBVIOUS
<1>2. Source(list, form, s) = CASE s # list[parent] -> "orthographic"
                                [] s = form         -> "input"
                                [] OTHER            -> "morphologist"
  BY DEF Source
<1> HIDE DEF parent
<1>3. s = list[parent] /\ s # form => Source(list, form, s) = "morphologist"
  BY <1>2
<1> QED BY <1>1, <1>3

\* What the second expansion keeps of the first one's variants.
Kept(vs) == {v.surface_form : v \in {u \in vs : u.source = "morphologist"}}

\* If no form has tatweel or is half-stripped, the claim and the variants
\* labelled "morphologist" have all the spellings of the claim and the
\* morphologist's forms: a form that lost its label to an earlier one has no
\* spelling that the earlier one has not.
LEMMA KeptCovers ==
    ASSUME NEW form \in Words, NEW others \in Seq(Words),
           \A m \in Elements(others) :
              /\ ~m.tatweel
              /\ \A q \in {form} \cup Elements(others) : ~HalfStripped(m, q)
    PROVE  AllSpellings(Cleaned({form} \cup Elements(others)))
             \subseteq AllSpellings(Cleaned({form} \cup Kept(Expand(form, others))))
<1> DEFINE list == FormList(form, others)
           kept == Kept(Expand(form, others))
           again == AllSpellings(Cleaned({form} \cup kept))
           lost == {i \in 1..Len(list) : ~(Spellings(list[i]) \subseteq again)}
<1>1. /\ Len(others) \in Nat /\ Len(list) = Len(others) + 1 /\ DOMAIN list = 1..Len(list)
      /\ list[1] = Clean(form)
      /\ \A i \in 2..Len(list) : i - 1 \in 1..Len(others) /\ list[i] = Clean(others[i - 1])
  BY DEF FormList
<1>2. \A i \in 2..Len(list) : /\ IsWord(list[i]) /\ Clean(list[i]) = list[i]
                              /\ list[i] \in Spellings(list[i])
  <2> SUFFICES ASSUME NEW i \in 2..Len(list)
               PROVE  /\ IsWord(list[i]) /\ Clean(list[i]) = list[i]
                      /\ list[i] \in Spellings(list[i])
    OBVIOUS
  <2> DEFINE w == others[i - 1]
  <2>1. w \in Elements(others) /\ w \in Words /\ list[i] = Clean(w)
    BY <1>1 DEF Elements
  <2>2. IsWord(w) /\ ~w.tatweel
    BY <2>1, WordsAssumption
  <2> HIDE DEF w, list
  <2>3. IsWord(Clean(w)) /\ Clean(Clean(w)) = Clean(w)
    BY <2>2 DEF IsWord, Clean
  <2> QED BY <2>1, <2>2, <2>3, PlainSpelling
<1>3. IsWord(list[1])
  BY <1>1, WordsAssumption DEF IsWord, Clean
<1>4. Spellings(list[1]) \subseteq again
  BY <1>1 DEF AllSpellings, Cleaned
<1>5. ASSUME NEW w \in kept, Clean(w) = w PROVE Spellings(w) \subseteq again
  BY <1>5 DEF AllSpellings, Cleaned
<1>6. \A s \in AllSpellings(Elements(list)) : Source(list, form, s) = "morphologist" => s \in kept
  <2> SUFFICES ASSUME NEW s \in AllSpellings(Elements(list)),
                      Source(list, form, s) = "morphologist"
               PROVE  s \in kept
    OBVIOUS
  <2> DEFINE v == [surface_form |-> s, source |-> Source(list, form, s)]
  <2>1. v \in Expand(form, others)
    BY DEF Expand
  <2>2. v.surface_form = s /\ v.source = "morphologist"
    OBVIOUS
  <2> HIDE DEF v
  <2> QED BY <2>1, <2>2 DEF Kept
<1>7. \A i \in 2..Len(list), k \in 1..Len(list) :
         list[i] \in Spellings(list[k]) => list[i].seats = list[k].seats \/ list[i].seats = {}
  <2> SUFFICES ASSUME NEW i \in 2..Len(list), NEW k \in 1..Len(list),
                      list[i] \in Spellings(list[k])
               PROVE  list[i].seats = list[k].seats \/ list[i].seats = {}
    OBVIOUS
  <2>1. PICK m \in Elements(others) : list[i] = Clean(m)
    BY <1>1 DEF Elements
  <2>2. PICK q \in {form} \cup Elements(others) : list[k] = Clean(q)
    <3>1. k = 1 \/ k \in 2..Len(list)
      BY <1>1
    <3> HIDE DEF list
    <3> QED BY <1>1, <3>1 DEF Elements
  <2>3. \A w \in {form} \cup Elements(others) : IsWord(w)
    BY WordsAssumption DEF Elements
  <2> HIDE DEF list
  <2>4. Clean(m).seats = m.seats /\ Clean(q).seats = q.seats
    BY <2>3 DEF IsWord, Clean
  <2>5. ~HalfStripped(m, q)
    OBVIOUS
  <2> QED BY <2>1, <2>2, <2>4, <2>5 DEF HalfStripped
<1> HIDE DEF list, kept, again
<1>8. lost = {}
  <2> SUFFICES ASSUME lost # {} PROVE FALSE
    OBVIOUS
  <2>1. PICK i \in lost : \A k \in lost : i <= k
    <3>1. lost \in SUBSET Nat
      OBVIOUS
    <3> HIDE DEF lost
    <3> QED BY <3>1, LeastNumber
  <2> DEFINE w == list[i]
             parents == {k \in 1..Len(list) : w \in Spellings(list[k])}
  <2>2. i \in 2..Len(list)
    BY <1>1, <1>4, <2>1
  <2>3. i \in parents
    BY <1>2, <2>2
  <2>4. \E k \in DOMAIN list : /\ w \in Spellings(list[k])
                               /\ \A l \in 1..(k - 1) : w \notin Spellings(list[l])
    <3>1. PICK k \in parents : \A l \in parents : k <= l
      <4>1. parents \in SUBSET Nat /\ parents # {}
        BY <2>3
      <4> HIDE DEF parents
      <4> QED BY <4>1, LeastNumber
    <3>2. \A l \in 1..(k - 1) : l \notin parents
      BY <3>1
    <3>3. \A l \in 1..(k - 1) : l \in 1..Len(list)
      BY <1>1, <3>1
    <3> QED BY <1>1, <3>1, <3>2, <3>3
  <2>5. PICK parent \in 1..Len(list) :
           /\ w \in Spellings(list[parent])
           /\ \A l \in 1..(parent - 1) : w \notin Spellings(list[l])
           /\ w = list[parent] /\ w # form => Source(list, form, w) = "morphologist"
    <3> HIDE DEF w
    <3> QED BY <1>1, <2>4, SourceOfFirst
  <2>6. parent <= i
    <3>1. i \in 1..(parent - 1) \/ parent <= i
      BY <1>1, <2>2, <2>5
    <3> QED BY <2>3, <2>5, <3>1
  <2>8. CASE parent # i
    <3>1. parent \notin lost
      BY <1>1, <2>1, <2>2, <2>5, <2>6, <2>8
    <3>2. Spellings(list[parent]) \subseteq again
      BY <2>5, <3>1
    <3>3. IsWord(list[parent])
      <4>1. parent = 1 \/ parent \in 2..Len(list)
        BY <1>1, <2>5
      <4> QED BY <1>2, <1>3, <4>1
    <3>4. w \in Spellings(list[parent])
      BY <2>5
    <3>5. w.seats = list[parent].seats \/ w.seats = {}
      BY <1>7, <2>2, <2>5
    <3>6. Spellings(w) \subseteq Spellings(list[parent])
      <4> HIDE DEF w
      <4> QED BY <3>3, <3>4, <3>5, SpellingsClosed
    <3> QED BY <2>1, <3>2, <3>6
  <2>9. CASE parent = i
    <3>1. w # form
      <4>1. Clean(w) = w
        BY <1>2, <2>2
      <4>2. list[1] = Clean(form)
        BY <1>1
      <4> QED BY <1>4, <2>1, <4>1, <4>2
    <3>2. Source(list, form, w) = "morphologist"
      BY <2>5, <2>9, <3>1
    <3>3. w \in AllSpellings(Elements(list))
      BY <2>1, <2>3 DEF AllSpellings, Elements
    <3>4. w \in kept /\ Clean(w) = w
      BY <1>2, <1>6, <2>2, <3>2, <3>3
    <3> QED BY <1>5, <2>1, <3>4
  <2> QED BY <2>8, <2>9
<1>9. Surfaces(Expand(form, others)) = AllSpellings(Elements(list))
  <2>1. \A s \in AllSpellings(Elements(list)) :
           [surface_form |-> s, source |-> Source(list, form, s)].surface_form = s
    OBVIOUS
  <2> QED BY <2>1 DEF Surfaces, Expand, list
<1>10. AllSpellings(Elements(list)) \subseteq again
  BY <1>8 DEF AllSpellings, Elements
<1> QED BY <1>9, <1>10, ExpandSurfaces DEF again, kept

\* What was searched, and when the gate has nothing to say of forms or proposals.
Searched == UNION {passes[i].variants : i \in 1..Len(passes)}
PlainForms ==
    \A m \in Elements(morphology) :
       /\ ~m.tatweel
       /\ \A q \in {claim} \cup Elements(morphology) : ~HalfStripped(m, q)
PlainProposals == \A w \in Proposed : ~w.tatweel /\ ~w.padded /\ ~w.decomposed

\* Before the audit the variants are those of the first expansion; after it,
\* plain words are declared exactly as they were searched and proposed.
PlainInv ==
    /\ stage \in {"retrieved", "classified"} => variants = Expand(claim, morphology)
    /\ stage = "audited" =>
          /\ PlainForms => Searched = Surfaces(variants)
          /\ PlainProposals => Proposed \subseteq Surfaces(variants)
    /\ RejectionIsExplained

\* A plain word is a spelling of itself.
LEMMA ProposedIsDeclared ==
    ASSUME NEW ws, NEW w \in ws, IsWord(w), ~w.tatweel, ~w.padded, ~w.decomposed
    PROVE  w \in AllSpellings(Cleaned(ws))
<1>1. Clean(w) = w /\ w \in Spellings(Clean(w))
  BY PlainSpelling
<1> QED BY <1>1 DEF AllSpellings, Cleaned

LEMMA ApplyAuditPlain == WInv /\ BoundInv /\ PlainInv /\ ApplyAudit => PlainInv'
<1> SUFFICES ASSUME WInv, BoundInv, PlainInv, ApplyAudit PROVE PlainInv'
  OBVIOUS
<1> DEFINE forms == {claim} \cup Proposed' \cup Kept(variants)
           declared == AllSpellings(Cleaned(forms))
           old == Surfaces(variants)
           new == declared \ old
           first == Search(old, MaxMatches)
           pass == Search(new, Remaining(hits))
<1>1. morphology' = morphology /\ audit'.findings \subseteq Findings
  BY DEF ApplyAudit
<1>2. CASE ~(Valid(Proposed') /\ Expandable(forms))
  <2>1. stage' = "raised"
    BY <1>2 DEF ApplyAudit, Kept
  <2> QED BY <2>1 DEF PlainInv, RejectionIsExplained
<1>3. CASE Valid(Proposed') /\ Expandable(forms)
  <2>1. /\ variants' = {[surface_form |-> s, source |-> "audited"] : s \in declared}
        /\ new = {} => passes' = passes
        /\ new # {} => passes' = Append(passes, pass)
        /\ stage' = "audited"
    BY <1>3 DEF ApplyAudit, Kept
  <2>2. /\ passes = <<first>>
        /\ old = AllSpellings(Cleaned({claim} \cup Elements(morphology)))
        /\ variants = Expand(claim, morphology)
        /\ claim \in Words /\ morphology \in Seq(Words)
    <3>1. /\ passes = <<first>>
          /\ old = AllSpellings(Cleaned({claim} \cup Elements(morphology)))
          /\ variants = Expand(claim, morphology)
      BY DEF ApplyAudit, WInv, BeforeAudit, PlainInv
    <3>2. claim \in Words /\ morphology \in Seq(Words)
      <4>1. claim \in ClaimForms /\ morphology \in Morphologies \cup {<<>>}
        BY DEF BoundInv, WTypeOK
      <4>2. <<>> \in Seq(Words)
        OBVIOUS
      <4> QED BY <4>1, <4>2, WordsAssumption
    <3> QED BY <3>1, <3>2
  <2>3. Surfaces(variants') = declared
    <3> HIDE DEF declared
    <3>1. \A s \in declared : [surface_form |-> s, source |-> "audited"].surface_form = s
      OBVIOUS
    <3> QED BY <2>1, <3>1 DEF Surfaces
  <2>4. first.variants = old /\ pass.variants = new
    BY DEF Search
  <2>5. Searched' = old \cup new
    <3> HIDE DEF first, pass, old, new
    <3>1. CASE new = {}
      <4>1. passes' = <<first>>
        BY <2>1, <2>2, <3>1
      <4>2. 1..Len(passes') = {1} /\ passes'[1] = first
        BY <4>1
      <4> QED BY <2>4, <3>1, <4>2 DEF Searched
    <3>2. CASE new # {}
      <4>1. passes' = <<first, pass>>
        BY <2>1, <2>2, <3>2
      <4>2. 1..Len(passes') = {1, 2} /\ passes'[1] = first /\ passes'[2] = pass
        BY <4>1
      <4> QED BY <2>4, <4>2 DEF Searched
    <3> QED BY <3>1, <3>2
  <2>6. ASSUME PlainForms PROVE old \subseteq declared
    <3>1. \A m \in Elements(morphology) :
             /\ ~m.tatweel
             /\ \A q \in {claim} \cup Elements(morphology) : ~HalfStripped(m, q)
      BY <2>6 DEF PlainForms
    <3>2. old \subseteq AllSpellings(Cleaned({claim} \cup Kept(variants)))
      BY <2>2, <3>1, KeptCovers
    <3>3. AllSpellings(Cleaned({claim} \cup Kept(variants))) \subseteq declared
      BY DEF AllSpellings, Cleaned
    <3> HIDE DEF old, declared
    <3> QED BY <3>2, <3>3
  <2>7. ASSUME PlainProposals' PROVE Proposed' \subseteq declared
    <3>1. \A w \in Proposed' : IsWord(w)
      BY <1>1, FindingsAssumption, WordsAssumption DEF Proposed
    <3>2. ASSUME NEW w \in Proposed' PROVE w \in declared
      <4>1. w \in forms /\ IsWord(w) /\ ~w.tatweel /\ ~w.padded /\ ~w.decomposed
        BY <2>7, <3>1 DEF PlainProposals
      <4> HIDE DEF forms
      <4> QED BY <4>1, ProposedIsDeclared
    <3> QED BY <3>2
  <2>8. PlainForms' <=> PlainForms
    <3>1. claim' = claim
      BY DEF ApplyAudit
    <3> QED BY <1>1, <3>1 DEF PlainForms
  <2> HIDE DEF declared, old
  <2> QED BY <2>1, <2>3, <2>5, <2>6, <2>7, <2>8 DEF PlainInv, RejectionIsExplained
<1> QED BY <1>2, <1>3

LEMMA IssuePlain == PlainInv /\ IssueDossier => PlainInv'
<1> SUFFICES ASSUME PlainInv, IssueDossier, stage' = "rejected", audit.completed,
                    PlainForms, PlainProposals
             PROVE  FALSE
  BY DEF PlainInv, RejectionIsExplained, PlainForms, PlainProposals, IssueDossier, Proposed
<1> DEFINE judged == Judged(assessment')
<1>1. dossier' = Assemble(judged) /\ ~GatePasses(judged, dossier') /\ stage = "audited"
  BY DEF IssueDossier
<1> HIDE DEF judged
<1>2. /\ dossier'.coverage_complete => ~AnyTruncated /\ ~Blocked
      /\ dossier'.verdict = DeriveVerdict(judged, dossier'.coverage_complete)
  BY <1>1 DEF Assemble
<1>3. dossier'.verdict = "EARLIER_MATCH_FOUND" => Evidence(judged) # {}
  BY <1>2 DEF DeriveVerdict
<1>4. Searched = Surfaces(variants) /\ Proposed \subseteq Surfaces(variants)
  BY <1>1 DEF PlainInv
<1> QED BY <1>1, <1>2, <1>3, <1>4 DEF GatePasses, Searched

\* A run with a completed audit is rejected only for a form with tatweel, a
\* half-stripped form of the morphologist, or a proposal with tatweel, with a
\* space around it or out of NFC.
THEOREM RejectionCorrect == WSpec => []RejectionIsExplained
<1>1. WInit => PlainInv
  BY DEF WInit, PlainInv, RejectionIsExplained
<1>2. WInv /\ BoundInv /\ PlainInv /\ [WNext]_wvars => PlainInv'
  <2> SUFFICES ASSUME WInv, BoundInv, PlainInv, [WNext]_wvars PROVE PlainInv'
    OBVIOUS
  <2>1. CASE RetrieveInitial
    BY <2>1 DEF RetrieveInitial, PlainInv, RejectionIsExplained
  <2>2. CASE ClassifyInitial
    BY <2>2 DEF ClassifyInitial, PlainInv, RejectionIsExplained
  <2>3. CASE Raise
    BY <2>3 DEF Raise, PlainInv, RejectionIsExplained
  <2>4. CASE UNCHANGED wvars
    BY <2>4 DEF wvars, PlainInv, RejectionIsExplained, Searched, PlainForms, PlainProposals, Proposed
  <2> QED BY <2>1, <2>2, <2>3, <2>4, ApplyAuditPlain, IssuePlain DEF WNext
<1>3. PlainInv => RejectionIsExplained
  BY DEF PlainInv
<1> QED BY <1>1, <1>2, <1>3, InvHolds, BoundHolds, PTL DEF WSpec
=============================================================================
