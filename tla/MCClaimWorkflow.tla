--------------------------- MODULE MCClaimWorkflow ---------------------------
(***************************************************************************)
(* ClaimWorkflow on small corpora of three postings: two lexemes, one with *)
(* a hamza seat and marks, the other with two seats, tatweel and padding;  *)
(* every order of an early, a late and an undated source.                  *)
(***************************************************************************)
EXTENDS ClaimWorkflow

Bare(stem) == [stem |-> stem, seats |-> {}, maqsura |-> FALSE, mark |-> FALSE,
               tatweel |-> FALSE, padded |-> FALSE, decomposed |-> FALSE]

base == Bare("a")
seated == [base EXCEPT !.seats = {1}]
final == [seated EXCEPT !.maqsura = TRUE]
marked == [base EXCEPT !.mark = TRUE]
parted == [seated EXCEPT !.decomposed = TRUE]
other == Bare("b")
stretched == [other EXCEPT !.tatweel = TRUE]
padded == [other EXCEPT !.padded = TRUE]
double == [other EXCEPT !.seats = {1, 2}]
half == [other EXCEPT !.seats = {2}]
bad == Bare("malformed")

MCMalformed == {"malformed"}
MCWords == {base, seated, final, marked, parted, other, stretched, padded,
            double, half, bad}
MCClaimForms == {base, parted}
MCMorphologies == {<<>>, <<other>>, <<stretched>>, <<stretched, other>>, <<marked>>,
                   <<double, half>>, <<half, double>>, <<bad>>}
NoMorphologies == {<<>>}

Missing(w) == [kind |-> "missing_variant", missing |-> w]
MCFindings == {Missing(w) : w \in {seated, parted, marked, final, other, stretched, padded, bad}}
                \cup {[kind |-> "thin_time_slice", missing |-> NoVariant],
                      [kind |-> "other", missing |-> base]}

Sure(label, role) == [classification |-> label, evidence_role |-> role, confidence |-> "high"]
MCDecisions ==
    {Sure("target_use", "independent_authorial_use"),
     Sure("target_use", "uncertain"),
     Sure("homograph", "independent_authorial_use"),
     [Sure("homograph", "quoted") EXCEPT !.confidence = "low"],
     NoDecision}

Years == {1, 3, NoYear}
Rising == {y \in [1..3 -> Years] : y[1] <= y[2] /\ y[2] <= y[3]}
Layouts == {<<base, base, other>>, <<base, other, other>>, <<other, seated, base>>}
MCCorpora == {[p \in 1..3 |-> [token |-> l[p], year |-> y[p]]] : l \in Layouts, y \in Rising}
=============================================================================
