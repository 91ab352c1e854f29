---------------------------- MODULE JsonDocuments ----------------------------
(***************************************************************************)
(* What callers of json rely on: a json variable holds a document, a value *)
(* like a number.  Assigning it copies it; nothing that happens later to   *)
(* the original, or to a document it was put into, changes the copy.       *)
(***************************************************************************)
EXTENDS TLC

CONSTANTS
    Vars,     \* the json variables of the program
    Keys,     \* the keys in use
    Scalars,  \* the strings and numbers in use
    Nothing   \* no document, or no value yet

VARIABLE document  \* the document of each variable

Construct(x) ==
    /\ document[x] = Nothing
    /\ document' = [document EXCEPT ![x] = <<>>]

CopyConstruct(x, y) ==
    /\ document[x] = Nothing
    /\ document[y] # Nothing
    /\ document' = [document EXCEPT ![x] = document[y]]

Put(x, k, value) ==
    /\ document[x] # Nothing
    /\ document' = [document EXCEPT ![x] = (k :> value) @@ @]

\* Naming an entry makes it.
Touch(x, k) ==
    /\ document[x] # Nothing
    /\ document' = [document EXCEPT ![x] = @ @@ (k :> Nothing)]

Destroy(x) ==
    /\ document[x] # Nothing
    /\ document' = [document EXCEPT ![x] = Nothing]

Init == document = [x \in Vars |-> Nothing]

Next ==
    \E x \in Vars :
        \/ Construct(x)
        \/ Destroy(x)
        \/ \E y \in Vars : CopyConstruct(x, y)
        \/ \E k \in Keys : Touch(x, k)
        \/ \E k \in Keys, s \in Scalars : Put(x, k, s)
        \/ \E k \in Keys, y \in Vars : Put(x, k, document[y])

Spec == Init /\ [][Next]_document

=============================================================================
