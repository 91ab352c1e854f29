----------------------------- MODULE JsonObjects -----------------------------
(***************************************************************************)
(* json and json_value: documents as trees of C++ objects.  A json holds a *)
(* map from keys to values; a value of type JSON points to a json that it  *)
(* allocated and has to free.  Objects are told apart by numbers, 0 is the *)
(* null pointer.  STRING, INTEGER and FLOAT are one type here, SCALAR.     *)
(*                                                                         *)
(* Copies and destructors call themselves.  Each call is a step here, and  *)
(* the calls still to be made are kept in sets, in no order, as none of    *)
(* them depends on what another one does.                                  *)
(***************************************************************************)
EXTENDS Integers, FiniteSets, Functions

CONSTANTS
    Vars,       \* json variables of the program
    Keys,       \* keys
    Scalars,    \* what can be assigned to a value, other than a json
    Nothing,    \* no scalar
    MaxObjects  \* bound: the number of json objects at a time

ASSUME JsonAssumption == Nothing \notin Scalars /\ MaxObjects \in Nat

VARIABLES
    memory,    \* the storage_ of each json object that exists
    local,     \* the object behind each variable, 0 outside of its scope
    copying,   \* pairs of a json to be copied and the copy being made
    deleting,  \* objects whose destructor is still to run
    assigning  \* the assignment of a json that has reset its value

vars == <<memory, local, copying, deleting, assigning>>

Null == 0
Refs == 1..MaxObjects
Value == [type : {"UNKNOWN", "SCALAR", "JSON"},
          scalar : Scalars \cup {Nothing},
          json : Refs \cup {Null}]

\* Mutant of the next definition: the pointer is not initialised.
UnknownWild == [type |-> "UNKNOWN", scalar |-> Nothing, json |-> MaxObjects + 1]

\* json_value()
Unknown == [type |-> "UNKNOWN", scalar |-> Nothing, json |-> Null]
Scalar(s) == [type |-> "SCALAR", scalar |-> s, json |-> Null]
Pointer(r) == [type |-> "JSON", scalar |-> Nothing, json |-> r]

\* No operator of a variable is called before the last one has returned.
NoAssignment == <<>>
Idle == copying = {} /\ deleting = {} /\ assigning = NoAssignment

Init ==
    /\ memory = <<>>
    /\ local = [x \in Vars |-> Null]
    /\ Idle

-----------------------------------------------------------------------------
(* Objects. *)

\* Where new puts the next object, as long as the bound leaves room.
Room == ~ (Refs \subseteq DOMAIN memory)
NewRef == CHOOSE r \in Refs : r \notin DOMAIN memory

\* json(): a map without entries.
WithNew(m) ==
    [r \in DOMAIN m \cup {NewRef} |-> IF r = NewRef THEN <<>> ELSE m[r]]

\* Entry k of r becomes v, whether it was there or not.
Put(m, r, k, v) ==
    [m EXCEPT ![r] = [l \in DOMAIN m[r] \cup {k} |->
                        IF l = k THEN v ELSE m[r][l]]]

\* The json that the destructor or the reset of a value frees: they look at
\* the type.
Freed(v) == IF v.type = "JSON" THEN {v.json} ELSE {}

\* What reset of x[k] frees, if the entry is there.
FreedAt(r, k) == IF k \in DOMAIN memory[r] THEN Freed(memory[r][k]) ELSE {}

-----------------------------------------------------------------------------
(* The calls that calls make. *)

\* ~json: the values go, and each deletes what it points to.
DeleteJson ==
    \E r \in deleting :
        /\ r \in DOMAIN memory
        /\ memory' = Restrict(memory, DOMAIN memory \ {r})
        /\ deleting' = (deleting \ {r}) \cup
                       UNION {Freed(memory[r][k]) : k \in DOMAIN memory[r]}
        /\ UNCHANGED <<local, copying, assigning>>

\* Mutants of the next definition: the pointer is copied, and the value that
\* has one is not.
CopyValueShallow ==
    \E c \in copying, k \in Keys :
        /\ k \in DOMAIN memory[c[1]] \ DOMAIN memory[c[2]]
        /\ memory' = Put(memory, c[2], k, memory[c[1]][k])
        /\ UNCHANGED <<local, copying, deleting, assigning>>
CopyValueFlat ==
    \E c \in copying, k \in Keys :
        /\ k \in DOMAIN memory[c[1]] \ DOMAIN memory[c[2]]
        /\ LET v == memory[c[1]][k]
           IN  memory' = Put(memory, c[2], k, IF v.json = Null THEN v ELSE Unknown)
        /\ UNCHANGED <<local, copying, deleting, assigning>>

\* json_value(const json_value&), for one entry of a json that is copied: it
\* looks at the pointer, not at the type.
CopyValue ==
    \E c \in copying, k \in Keys :
        /\ k \in DOMAIN memory[c[1]] \ DOMAIN memory[c[2]]
        /\ LET v == memory[c[1]][k]
           IN  IF v.json = Null
               THEN /\ memory' = Put(memory, c[2], k, v)
                    /\ UNCHANGED copying
               ELSE /\ Room
                    /\ memory' = Put(WithNew(memory), c[2], k,
                                     [v EXCEPT !.json = NewRef])
                    /\ copying' = copying \cup {<<v.json, NewRef>>}
        /\ UNCHANGED <<local, deleting, assigning>>

\* The end of json(const json&).
CopyEnd ==
    \E c \in copying :
        /\ DOMAIN memory[c[1]] = DOMAIN memory[c[2]]
        /\ copying' = copying \ {c}
        /\ UNCHANGED <<memory, local, deleting, assigning>>

-----------------------------------------------------------------------------
(* The operations of a json, on variables of the program. *)

\* json x;
Construct(x) ==
    /\ Idle
    /\ local[x] = Null
    /\ Room
    /\ memory' = WithNew(memory)
    /\ local' = [local EXCEPT ![x] = NewRef]
    /\ UNCHANGED <<copying, deleting, assigning>>

\* json x(y);
CopyConstruct(x, y) ==
    /\ Idle
    /\ local[x] = Null
    /\ local[y] # Null
    /\ Room
    /\ memory' = WithNew(memory)
    /\ local' = [local EXCEPT ![x] = NewRef]
    /\ copying' = {<<local[y], NewRef>>}
    /\ UNCHANGED <<deleting, assigning>>

\* The end of the scope of x.
Destroy(x) ==
    /\ Idle
    /\ local[x] # Null
    /\ deleting' = {local[x]}
    /\ local' = [local EXCEPT ![x] = Null]
    /\ UNCHANGED <<memory, copying, assigning>>

\* x[k]: unordered_map makes an entry that is not there.
Subscript(x, k) ==
    /\ Idle
    /\ local[x] # Null
    /\ k \notin DOMAIN memory[local[x]]
    /\ memory' = Put(memory, local[x], k, Unknown)
    /\ UNCHANGED <<local, copying, deleting, assigning>>

\* Mutant of the next definition: without the reset.
AssignScalarUnreset(x, k, s) ==
    /\ Idle
    /\ local[x] # Null
    /\ LET v == IF k \in DOMAIN memory[local[x]] THEN memory[local[x]][k]
                                                 ELSE Unknown
       IN  memory' = Put(memory, local[x], k,
                         [v EXCEPT !.type = "SCALAR", !.scalar = s])
    /\ UNCHANGED <<local, copying, deleting, assigning>>

\* x[k] = s: the entry is made if it is not there, reset, and set.
AssignScalar(x, k, s) ==
    /\ Idle
    /\ local[x] # Null
    /\ memory' = Put(memory, local[x], k, Scalar(s))
    /\ deleting' = FreedAt(local[x], k)
    /\ UNCHANGED <<local, copying, assigning>>

\* x[k] = y, for another json y: nothing in the program puts one into itself.
AssignJson(x, k, y) ==
    /\ Idle
    /\ x # y
    /\ local[x] # Null
    /\ local[y] # Null
    /\ memory' = Put(memory, local[x], k, Unknown)
    /\ deleting' = FreedAt(local[x], k)
    /\ assigning' = <<x, k, y>>
    /\ UNCHANGED <<local, copying>>

\* The rest of the assignment, after its reset: new json(value).
AssignNew(x, k, y) ==
    /\ assigning = <<x, k, y>>
    /\ deleting = {}
    /\ Room
    /\ memory' = Put(WithNew(memory), local[x], k, Pointer(NewRef))
    /\ copying' = {<<local[y], NewRef>>}
    /\ assigning' = NoAssignment
    /\ UNCHANGED <<local, deleting>>

Next ==
    \/ DeleteJson
    \/ CopyValue
    \/ CopyEnd
    \/ \E x \in Vars :
         \/ Construct(x)
         \/ Destroy(x)
         \/ \E y \in Vars : CopyConstruct(x, y)
         \/ \E k \in Keys : Subscript(x, k)
         \/ \E k \in Keys, s \in Scalars : AssignScalar(x, k, s)
         \/ \E k \in Keys, y \in Vars : AssignJson(x, k, y) \/ AssignNew(x, k, y)

Spec == Init /\ [][Next]_vars

-----------------------------------------------------------------------------
(* Properties. *)

JsonTypeOK ==
    /\ DOMAIN memory \subseteq Refs
    /\ \A r \in DOMAIN memory :
         /\ DOMAIN memory[r] \subseteq Keys
         /\ \A k \in DOMAIN memory[r] : memory[r][k] \in Value
    /\ local \in [Vars -> Refs \cup {Null}]
    /\ copying \subseteq (DOMAIN memory) \X (DOMAIN memory)
    /\ deleting \subseteq Refs
    /\ assigning \in (Vars \X Keys \X Vars) \cup {NoAssignment}

\* Where the pointers to r are: in variables, in values, in calls of delete.
Owners(r) ==
    {<<"local", x>> : x \in {y \in Vars : local[y] = r}} \cup
    {<<"deleting", d>> : d \in deleting \cap {r}} \cup
    UNION {{<<"value", p, k>> : k \in {l \in DOMAIN memory[p] :
                                         memory[p][l].json = r}} :
             p \in DOMAIN memory}

\* Every object has one owner, which will free it, and no pointer dangles:
\* copies, resets and destructors in any order leak nothing and free nothing
\* twice.
OneOwner ==
    \A r \in Refs : IF r \in DOMAIN memory
                    THEN \E owner \in Owners(r) : Owners(r) = {owner}
                    ELSE Owners(r) = {}

\* The destructor and reset go by the type of a value, the copy constructor by
\* its pointer: a value points to a json exactly if its type is JSON.
PointerMatchesType ==
    \A r \in DOMAIN memory : \A k \in DOMAIN memory[r] :
        memory[r][k].type = "JSON" <=> memory[r][k].json # Null

=============================================================================
