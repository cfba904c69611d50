---------------------------- MODULE MCCorpusText ----------------------------
(***************************************************************************)
(* CorpusText on all short texts over four alphabets: for the hamza and    *)
(* the marks, for the controls, for the final ya, and, longer ones, for    *)
(* many words on both sides of a control.                                  *)
(***************************************************************************)
EXTENDS CorpusText, SequencesExt

MCSources ==
    UNION {BoundedSeq({"alef", "seat", "hamza", "mark", "tatweel"}, 4),
           BoundedSeq({"lit", "mark", "latin", "page", "milestone", "weave", "break"}, 4),
           BoundedSeq({"lit", "maqsura", "yeh", "space"}, 4),
           BoundedSeq({"lit", "space", "page"}, 8)}

MCForms ==
    {<<"alef", "seat">>, <<"alef", "tatweel", "hamza", "alef">>, <<"space", "seat", "mark", "seat">>,
     <<"lit", "mark", "lit">>, <<"lit", "maqsura">>, <<"tatweel", "tatweel">>, <<"lit", "tatweel">>,
     <<"lit", "space", "lit">>, <<"lit", "mark">>}

MCEditions == {<<"lit">>, <<"space", "lit", "lit", "space", "lit", "lit">>}
=============================================================================
