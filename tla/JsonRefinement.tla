--------------------------- MODULE JsonRefinement ---------------------------
(***************************************************************************)
(* Trees of json objects implement documents that are values.              *)
(***************************************************************************)
EXTENDS JsonObjects

\* What serialize writes once all calls have returned, as a nested function: a
\* copy under way stands for its original, and a value that is being assigned
\* for the document that is assigned.  A value that was named and never assigned
\* is written as nothing at all.
RECURSIVE Serialize(_)
SerializeValue(r, k) ==
    LET assigned == {y \in Vars : \E x \in Vars : /\ assigning = <<x, k, y>>
                                                  /\ local[x] = r}
        v == memory[r][k]
    IN  IF assigned # {} THEN Serialize(local[CHOOSE y \in assigned : TRUE])
        ELSE IF v.type = "JSON" THEN Serialize(v.json)
        ELSE v.scalar
Serialize(r) ==
    LET originals == {c[1] : c \in {d \in copying : d[2] = r}}
    IN  IF originals # {}
        THEN Serialize(CHOOSE q \in originals : TRUE)
        ELSE [k \in DOMAIN memory[r] |-> SerializeValue(r, k)]

\* json behaves as a value: no assignment to one variable is seen through
\* another one, or through a document it was put into before.
Documents ==
    INSTANCE JsonDocuments
    WITH document <- [x \in Vars |-> IF local[x] = Null THEN Nothing
                                                        ELSE Serialize(local[x])]
DocumentsSpec == Documents!Spec

=============================================================================
