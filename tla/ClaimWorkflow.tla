---------------------------- MODULE ClaimWorkflow ----------------------------
(***************************************************************************)
(* One run of the research workflow (agent.py): from a claimed word form   *)
(* to a dossier that the issuance gate lets through, or to a rejection.    *)
(*                                                                         *)
(* The orchestrator awaits one node after another; each step below is a    *)
(* node with the model call that feeds it.  The three language models      *)
(* (morphologist, assessor, devil's advocate) are external: whatever their *)
(* output schemas allow may be answered.  The corpus index is immutable.   *)
(*                                                                         *)
(* A word is a record of the features that normalization.py acts on, never *)
(* its characters.  A posting is its rank in the order of the index's      *)
(* query (year, document, offset).                                         *)
(***************************************************************************)
EXTENDS Naturals, Sequences, FiniteSets

CONSTANTS
    Words,        \* what a user or a model may write, in the features below
    Malformed,    \* stems that validate_variants refuses
    ClaimForms,   \* the forms a claim may be about
    Morphologies, \* lists of forms the morphologist may return
    Findings,     \* findings the devil's advocate may report
    MaxFindings,  \* bound: findings in one audit
    Decisions,    \* decisions the assessor may return for a hit
    Corpora,      \* the indexes the workflow may run on
    Cutoff,       \* cutoff_year_ah
    MaxVariants,  \* MAX_VARIANTS
    MaxMatches    \* MAX_MATCHES

\* Scribal features of a word: the places of its alefs that are written with a
\* hamza, a final alef maqsura, diacritics, tatweel, whitespace around it, and
\* whether it is written otherwise than in NFC (a hamza apart from its alef,
\* marks in another order).
IsWord(w) ==
    /\ w = [f \in {"stem", "seats", "maqsura", "mark", "tatweel", "padded", "decomposed"} |-> w[f]]
    /\ w.seats \subseteq Nat
    /\ {w.maqsura, w.mark, w.tatweel, w.padded, w.decomposed} \subseteq BOOLEAN

NoYear == 999999
NoVariant == [stem |-> "none"]

Labels == {"target_use", "homograph", "uncertain"}
\* "quoted" stands for the four roles of wording that is not the author's own.
Roles == {"independent_authorial_use", "quoted", "uncertain"}
BlockingKinds == {"thin_time_slice", "metadata_conflict"}
Kinds == BlockingKinds \cup {"missing_variant", "other"}

\* confidence: at least 0.80, below it, or not a number within 0..1 (and then
\* the labels, too, may be unreadable).
Decision == [classification : Labels, evidence_role : Roles,
             confidence : {"high", "low", "invalid"}]
NoDecision == [confidence |-> "none"]
Unsettled == [classification |-> "uncertain", evidence_role |-> "uncertain"]

ASSUME WordsAssumption ==
    /\ \A w \in Words : IsWord(w)
    /\ ClaimForms \subseteq {w \in Words : w.stem \notin Malformed /\ ~w.padded}
    /\ Morphologies \subseteq Seq(Words)
ASSUME FindingsAssumption ==
    /\ \A f \in Findings : f.kind \in Kinds /\ f.missing \in Words \cup {NoVariant}
    /\ MaxFindings \in Nat
ASSUME DecisionsAssumption == Decisions \subseteq Decision \cup {NoDecision}
ASSUME CorporaAssumption ==
    \A c \in Corpora :
        /\ IsFiniteSet(DOMAIN c) /\ DOMAIN c \subseteq Nat
        /\ \A p \in DOMAIN c : c[p].year \in 1..NoYear
        /\ \A p, q \in DOMAIN c : p < q => c[p].year <= c[q].year
ASSUME LimitsAssumption ==
    Cutoff \in 1..1600 /\ MaxVariants \in Nat \ {0} /\ MaxMatches \in Nat \ {0}

VARIABLES
    corpus,      \* corpus[p]: token and comparison year of posting p
    stage,       \* the last node that finished
    claim,       \* claim.form
    morphology,  \* the forms the morphologist returned
    variants,    \* the declared variants: surface forms with their source
    passes,      \* the search passes
    hits,        \* all postings retrieved
    audit,       \* the devil's advocate's report
    assessment,  \* the assessor's final decision on each hit
    provisional, \* the verdict reported before the audit
    dossier      \* what assemble_dossier derived

wvars == <<corpus, stage, claim, morphology, variants, passes, hits, audit,
           assessment, provisional, dossier>>

-----------------------------------------------------------------------------
(* Words: normalization.py.                                                *)

\* What validate_variants makes of a form: stripped, and in NFC.
Clean(w) == [w EXCEPT !.padded = FALSE, !.decomposed = FALSE]

Normalize(w) == [w EXCEPT !.tatweel = FALSE, !.mark = FALSE, !.decomposed = FALSE]

\* The first of several hamza seats is written plainly, the others stay.
WithoutFirst(seats) == {i \in seats : \E k \in seats : k < i}

\* expand_orthographic_variants: the form without tatweel, and without its
\* marks with or without the first hamza seat and with either final letter.
Spellings(w) ==
    LET plain == Normalize(w) IN
    {[w EXCEPT !.tatweel = FALSE, !.decomposed = FALSE]}
        \cup {[plain EXCEPT !.seats = h, !.maqsura = m] :
                h \in {plain.seats, WithoutFirst(plain.seats)}, m \in {plain.maqsura, FALSE}}

AllSpellings(ws) == UNION {Spellings(w) : w \in ws}
Elements(list) == {list[i] : i \in 1..Len(list)}
Cleaned(ws) == {Clean(w) : w \in ws}

\* validate_variants, and the bound on the expanded list: otherwise raise.
Valid(ws) ==
    /\ \A w \in ws : w.stem \notin Malformed
    /\ Cardinality(Cleaned(ws)) <= MaxVariants

Expandable(ws) == Valid(ws) /\ Cardinality(AllSpellings(Cleaned(ws))) <= MaxVariants

FormList(form, others) ==
    [i \in 1..(Len(others) + 1) |-> Clean(IF i = 1 THEN form ELSE others[i - 1])]

\* Mutant: the morphologist's own spellings are not told from derived ones.
SourceInputOnly(list, form, s) == IF s = form THEN "input" ELSE "orthographic"

\* _variants_via_tools: a spelling is listed once, under the first form that
\* has it; it counts as that form only if it is spelled exactly like it, and as
\* the input only if the claim's form was written just so.
Source(list, form, s) ==
    LET parent == CHOOSE i \in DOMAIN list :
                    /\ s \in Spellings(list[i])
                    /\ \A k \in 1..(i - 1) : s \notin Spellings(list[k])
    IN  CASE s # list[parent] -> "orthographic"
          [] s = form         -> "input"
          [] OTHER            -> "morphologist"

Expand(form, others) ==
    LET list == FormList(form, others)
    IN  {[surface_form |-> s, source |-> Source(list, form, s)] : s \in AllSpellings(Elements(list))}

Surfaces(vs) == {v.surface_form : v \in vs}

-----------------------------------------------------------------------------
(* The index: CorpusIndex.search.                                          *)

Matching(surfaces) ==
    {p \in DOMAIN corpus : \E s \in surfaces : corpus[p].token = Normalize(s)}

\* The rows of the query: the first ones in its order, up to the limit.
FirstOf(ps, limit) == {p \in ps : Cardinality({q \in ps : q < p}) < limit}

\* Mutant: compared with the limit of the whole claim, not of this pass.
SearchTruncatesAtMaxMatches(surfaces, limit) ==
    LET found == Matching(surfaces) IN
    [variants |-> surfaces,
     hits |-> FirstOf(found, limit),
     truncated |-> Cardinality(found) > MaxMatches]

Search(surfaces, limit) ==
    LET found == Matching(surfaces) IN
    [variants |-> surfaces,
     hits |-> FirstOf(found, limit),
     truncated |-> Cardinality(found) > limit]

-----------------------------------------------------------------------------
(* The verdict: apply_classifications, verdict.py and assemble_dossier.    *)

\* A missing, unreadable or unsure decision settles nothing.
Judge(d) ==
    IF d.confidence # "high" THEN Unsettled
    ELSE [classification |-> d.classification, evidence_role |-> d.evidence_role]

Judged(decisions) == [p \in DOMAIN decisions |-> Judge(decisions[p])]

IsQualifying(m) ==
    m.classification = "target_use" /\ m.evidence_role = "independent_authorial_use"

\* Mutant: a hit of a settled sense but an unsettled role is ruled out.
CouldQualifyBySense(m) ==
    /\ m.classification \in {"target_use", "uncertain"}
    /\ m.evidence_role = "independent_authorial_use"

CouldQualify(m) ==
    /\ m.classification \in {"target_use", "uncertain"}
    /\ m.evidence_role \in {"independent_authorial_use", "uncertain"}

Earlier(p) == corpus[p].year < Cutoff
PossiblyEarlier(p) == corpus[p].year = NoYear \/ Earlier(p)

Evidence(judged) == {p \in DOMAIN judged : IsQualifying(judged[p]) /\ Earlier(p)}

\* Mutant: incomplete coverage hides the evidence that was found.
VerdictCoverageFirst(judged, complete) ==
    IF ~complete THEN "INCONCLUSIVE"
    ELSE IF Evidence(judged) # {} THEN "EARLIER_MATCH_FOUND"
    ELSE IF \E p \in DOMAIN judged : PossiblyEarlier(p) /\ CouldQualify(judged[p])
    THEN "INCONCLUSIVE"
    ELSE "NO_EARLIER_MATCH_IN_DECLARED_CORPUS"

DeriveVerdict(judged, complete) ==
    IF Evidence(judged) # {} THEN "EARLIER_MATCH_FOUND"
    ELSE IF \/ ~complete
            \/ \E p \in DOMAIN judged : PossiblyEarlier(p) /\ CouldQualify(judged[p])
    THEN "INCONCLUSIVE"
    ELSE "NO_EARLIER_MATCH_IN_DECLARED_CORPUS"

\* The verdict of the first pass alone.
FirstVerdict(judged) ==
    DeriveVerdict([p \in DOMAIN judged \cap passes[1].hits |-> judged[p]],
                  ~passes[1].truncated)

AnyTruncated == \E i \in 1..Len(passes) : passes[i].truncated
Blocked == \E f \in audit.findings : f.kind \in BlockingKinds

Assemble(judged) ==
    LET complete == audit.completed /\ ~AnyTruncated /\ ~Blocked IN
    [provisional_verdict |-> FirstVerdict(judged),
     verdict |-> DeriveVerdict(judged, complete),
     coverage_complete |-> complete]

NoDossier == [provisional_verdict |-> "none", verdict |-> "none", coverage_complete |-> FALSE]

-----------------------------------------------------------------------------
(* The audit and the gate.                                                 *)

NoAudit == [completed |-> FALSE, findings |-> {}]

\* AuditReport.proposed_variants, as they were written.
Proposed == {f.missing : f \in audit.findings} \ {NoVariant}

\* IssuanceGate.inspect.  Its checks of sources, quotations and metadata
\* compare a hit with the document it was read from and hold of every hit of
\* an immutable index.
GatePasses(judged, d) ==
    LET declared == Surfaces(variants)
        searched == UNION {passes[i].variants : i \in 1..Len(passes)}
    IN  /\ audit.completed
        /\ searched = declared
        /\ d.coverage_complete => ~AnyTruncated /\ ~Blocked
        /\ Proposed \subseteq declared
        /\ d.verdict = DeriveVerdict(judged, d.coverage_complete)
        /\ d.verdict = "EARLIER_MATCH_FOUND" => Evidence(judged) # {}

-----------------------------------------------------------------------------
(* The nodes.                                                              *)

WInit ==
    /\ corpus \in Corpora
    /\ claim \in ClaimForms
    /\ stage = "claimed"
    /\ morphology = <<>>
    /\ variants = {}
    /\ passes = <<>>
    /\ hits = {}
    /\ audit = NoAudit
    /\ assessment = <<>>
    /\ provisional = "none"
    /\ dossier = NoDossier

RetrieveInitial ==
    /\ stage = "claimed"
    /\ morphology' \in Morphologies
    /\ LET forms == {claim} \cup Elements(morphology')
           found == Expand(claim, morphology')
       IN  IF Expandable(forms)
           THEN /\ variants' = found
                /\ passes' = <<Search(Surfaces(found), MaxMatches)>>
                /\ hits' = passes'[1].hits
                /\ stage' = "retrieved"
           ELSE /\ stage' = "raised"
                /\ UNCHANGED <<variants, passes, hits>>
    /\ UNCHANGED <<corpus, claim, audit, assessment, provisional, dossier>>

\* classify_initial and the provisional progress report.
ClassifyInitial ==
    /\ stage = "retrieved"
    /\ \E decisions \in [hits -> Decisions] :
          provisional' = FirstVerdict(Judged(decisions))
    /\ stage' = "classified"
    /\ UNCHANGED <<corpus, claim, morphology, variants, passes, hits, audit, assessment, dossier>>

\* Mutant: what the first pass left is not subtracted.
RemainingAll(found) == IF found = {} THEN MaxMatches ELSE MaxMatches

Remaining(found) ==
    IF Cardinality(found) < MaxMatches THEN MaxMatches - Cardinality(found) ELSE 0

\* Mutant: the second pass replaces the first.
MergeHitsReplaces(old, new) == IF new = {} THEN old ELSE new

MergeHits(old, new) == old \cup new

\* devils_advocate and apply_audit.
ApplyAudit ==
    /\ stage = "classified"
    /\ \E completed \in BOOLEAN, findings \in SUBSET Findings :
          /\ Cardinality(findings) <= MaxFindings
          /\ audit' = [completed |-> completed, findings |-> findings]
    /\ LET forms == {claim} \cup Proposed'
                        \cup {v.surface_form : v \in {u \in variants : u.source = "morphologist"}}
           declared == AllSpellings(Cleaned(forms))
           new == declared \ Surfaces(variants)
           pass == Search(new, Remaining(hits))
       IN  IF Valid(Proposed') /\ Expandable(forms)
           THEN /\ variants' = {[surface_form |-> s, source |-> "audited"] : s \in declared}
                /\ IF new = {} THEN UNCHANGED <<passes, hits>>
                   ELSE /\ passes' = Append(passes, pass)
                        /\ hits' = MergeHits(hits, pass.hits)
                /\ stage' = "audited"
           ELSE /\ stage' = "raised"
                /\ UNCHANGED <<variants, passes, hits>>
    /\ UNCHANGED <<corpus, claim, morphology, assessment, provisional, dossier>>

\* The second assessment, assemble_dossier and the gate.
IssueDossier ==
    /\ stage = "audited"
    /\ assessment' \in [hits -> Decisions]
    /\ LET judged == Judged(assessment')
       IN  /\ dossier' = Assemble(judged)
           /\ stage' = IF GatePasses(judged, dossier') THEN "issued" ELSE "rejected"
    /\ UNCHANGED <<corpus, claim, morphology, variants, passes, hits, audit, provisional>>

\* A model call or a tool raises.
Raise ==
    /\ stage \in {"claimed", "retrieved", "classified", "audited"}
    /\ stage' = "raised"
    /\ UNCHANGED <<corpus, claim, morphology, variants, passes, hits, audit,
                   assessment, provisional, dossier>>

WNext == RetrieveInitial \/ ClassifyInitial \/ ApplyAudit \/ IssueDossier \/ Raise

WSpec == WInit /\ [][WNext]_wvars

-----------------------------------------------------------------------------
(* Properties.                                                             *)

Verdicts == {"EARLIER_MATCH_FOUND", "INCONCLUSIVE", "NO_EARLIER_MATCH_IN_DECLARED_CORPUS"}
Stages == {"claimed", "retrieved", "classified", "audited", "issued", "rejected", "raised"}
Issued == stage = "issued"

\* Every word anybody proposed for this claim.
EveryProposal == {claim} \cup Elements(morphology) \cup Proposed

\* Every variable has its type, and the hits are those of the passes.
WTypeOK ==
    /\ stage \in Stages
    /\ claim \in ClaimForms
    /\ morphology \in Morphologies \cup {<<>>}
    /\ \A v \in variants : IsWord(v.surface_form)
    /\ \A i \in 1..Len(passes) : passes[i].hits \subseteq DOMAIN corpus
    /\ hits = UNION {passes[i].hits : i \in 1..Len(passes)}
    /\ audit.completed \in BOOLEAN /\ audit.findings \subseteq Findings
    /\ assessment = <<>> \/ assessment \in [hits -> Decisions]
    /\ provisional \in Verdicts \cup {"none"}
    /\ dossier = NoDossier \/ dossier.verdict \in Verdicts

\* A dossier that says its coverage is complete has seen every occurrence, in
\* the whole corpus, of every spelling of every word that the claim, the
\* morphologist or the devil's advocate named: nothing is lost by relabelling,
\* by the second expansion, or by the match limit shared between the passes.
CoverageIsTotal ==
    Issued /\ dossier.coverage_complete =>
        Matching(AllSpellings(Cleaned(EveryProposal))) \subseteq hits

\* "No earlier match" is issued only if the final assessment is sure, of each
\* occurrence of any of those words that is undated or earlier than the
\* cutoff, that it has another sense or is not the author's own wording.
NegativeIsExhaustive ==
    Issued /\ dossier.verdict = "NO_EARLIER_MATCH_IN_DECLARED_CORPUS" =>
        \A p \in Matching(AllSpellings(Cleaned(EveryProposal))) :
            corpus[p].year < Cutoff \/ corpus[p].year = NoYear =>
                /\ p \in hits
                /\ assessment[p].confidence = "high"
                /\ \/ assessment[p].classification = "homograph"
                   \/ assessment[p].evidence_role = "quoted"

\* "Earlier match found" is issued exactly if the final assessment is sure of
\* such a use in a dated earlier source, and then whatever was truncated or
\* left open elsewhere.
PositiveIffEvidence ==
    Issued =>
        (dossier.verdict = "EARLIER_MATCH_FOUND" <=>
            \E p \in hits :
                /\ corpus[p].year < Cutoff
                /\ assessment[p] = [classification |-> "target_use",
                                    evidence_role |-> "independent_authorial_use",
                                    confidence |-> "high"])

\* Both passes together stay within the match limit.
HitsBounded == Cardinality(hits) <= MaxMatches

\* m is the spelling of q without its first hamza seat, and has a second one:
\* expanded itself, it has a spelling that q has not.
HalfStripped(m, q) ==
    Clean(m) \in Spellings(Clean(q)) /\ m.seats # q.seats /\ m.seats # {}

\* With a completed audit the gate rejects only what the second expansion, which
\* starts from the variants labelled "morphologist" only (agent.py:424), can
\* fail to declare again (gate.py:42) - the spellings of a form with tatweel,
\* and of a form that is itself a half-stripped spelling of another - or a
\* proposal that is not spelled as it is declared (gate.py:53).
RejectionIsExplained ==
    stage = "rejected" /\ audit.completed =>
        \/ \E m \in Elements(morphology) :
              \/ m.tatweel
              \/ \E q \in {claim} \cup Elements(morphology) : HalfStripped(m, q)
        \/ \E w \in Proposed : w.tatweel \/ w.padded \/ w.decomposed

\* README.md:169: "More than 200 matches is not sampled into a confident answer;
\* coverage becomes incomplete and the verdict becomes INCONCLUSIVE."  The code
\* looks for evidence first: a qualifying earlier hit among the rows that were
\* kept makes the verdict positive although the search was cut off.
TruncatedIsInconclusive ==
    Issued /\ AnyTruncated => dossier.verdict = "INCONCLUSIVE"
=============================================================================
