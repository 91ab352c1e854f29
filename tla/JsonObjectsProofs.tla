-------------------------- MODULE JsonObjectsProofs --------------------------
(***************************************************************************)
(* Theorems about json objects, for any number of variables, keys and      *)
(* objects: whatever is copied, assigned and destroyed, in whatever order  *)
(* the calls return, each object stays owned by exactly one pointer.       *)
(***************************************************************************)
EXTENDS JsonObjects, TLAPS

-----------------------------------------------------------------------------
(* The inductive invariant. *)

\* No pointer dangles.
Alive ==
    /\ \A x \in Vars : local[x] # Null => local[x] \in DOMAIN memory
    /\ \A p \in DOMAIN memory : \A k \in DOMAIN memory[p] :
         memory[p][k].json # Null => memory[p][k].json \in DOMAIN memory
    /\ deleting \subseteq DOMAIN memory

\* No two pointers are to the same object.
Exclusive ==
    /\ \A x, y \in Vars : local[x] # Null /\ local[x] = local[y] => x = y
    /\ \A p, q \in DOMAIN memory :
         \A k \in DOMAIN memory[p], l \in DOMAIN memory[q] :
           memory[p][k].json # Null /\ memory[p][k].json = memory[q][l].json =>
               p = q /\ k = l
    /\ \A p \in DOMAIN memory : \A k \in DOMAIN memory[p] :
         memory[p][k].json # Null =>
             /\ memory[p][k].json \notin deleting
             /\ \A x \in Vars : local[x] # memory[p][k].json
    /\ \A x \in Vars : local[x] \notin deleting

\* There is a pointer to each object.
Owned ==
    \A r \in DOMAIN memory :
        \/ r \in deleting
        \/ \E x \in Vars : local[x] = r
        \/ \E p \in DOMAIN memory : \E k \in DOMAIN memory[p] :
             memory[p][k].json = r

\* Nothing is destroyed while a copy is made, and an assignment that has reset
\* its value still has its variables, and the value points to nothing.
CallsInv ==
    /\ copying = {} \/ deleting = {}
    /\ assigning # NoAssignment => copying = {}
    /\ \A x, y \in Vars, k \in Keys :
         assigning = <<x, k, y>> =>
             /\ local[x] # Null /\ local[y] # Null
             /\ k \in DOMAIN memory[local[x]]
             /\ memory[local[x]][k].json = Null

IInv ==
    JsonTypeOK /\ PointerMatchesType /\ Alive /\ Exclusive /\ Owned /\ CallsInv

-----------------------------------------------------------------------------
(* What the operators on the memory return. *)

LEMMA NewRefIsNew ==
    ASSUME Room
    PROVE  NewRef \in Refs /\ NewRef \notin DOMAIN memory
BY DEF Room, NewRef

LEMMA WithNewValues ==
    ASSUME NEW m, NEW r, r = NewRef, r \notin DOMAIN m
    PROVE  /\ DOMAIN WithNew(m) = DOMAIN m \cup {r}
           /\ DOMAIN WithNew(m)[r] = {}
           /\ \A p \in DOMAIN m : WithNew(m)[p] = m[p]
BY DEF WithNew

LEMMA PutValues ==
    ASSUME NEW m, NEW r \in DOMAIN m, NEW k, NEW v
    PROVE  /\ DOMAIN Put(m, r, k, v) = DOMAIN m
           /\ DOMAIN Put(m, r, k, v)[r] = DOMAIN m[r] \cup {k}
           /\ Put(m, r, k, v)[r][k] = v
           /\ \A l \in DOMAIN m[r] : l # k => Put(m, r, k, v)[r][l] = m[r][l]
           /\ \A p \in DOMAIN m : p # r => Put(m, r, k, v)[p] = m[p]
BY DEF Put

\* The values that a json can have, and what they free.
LEMMA ValueTypes ==
    ASSUME JsonAssumption
    PROVE  /\ Unknown \in Value /\ Unknown.json = Null
           /\ Unknown.type # "JSON"
           /\ \A s \in Scalars : /\ Scalar(s) \in Value
                                 /\ Scalar(s).json = Null
                                 /\ Scalar(s).type # "JSON"
           /\ \A r \in Refs : /\ Pointer(r) \in Value
                              /\ Pointer(r).json = r /\ r # Null
                              /\ Pointer(r).type = "JSON"
BY DEF JsonAssumption, Unknown, Scalar, Pointer, Value, Null, Refs

\* What is freed is what was pointed to.
LEMMA FreedValues ==
    ASSUME IInv,
           NEW r \in DOMAIN memory, NEW k \in DOMAIN memory[r]
    PROVE  Freed(memory[r][k]) =
             IF memory[r][k].json = Null THEN {} ELSE {memory[r][k].json}
BY DEF IInv, PointerMatchesType, Freed

-----------------------------------------------------------------------------
(* The invariant says what is promised. *)

LEMMA InvariantImplies ==
    ASSUME IInv
    PROVE  OneOwner
<1>1. ASSUME NEW r \in Refs, r \notin DOMAIN memory
      PROVE  Owners(r) = {}
  BY <1>1 DEF IInv, Alive, Owners, Null, Refs
<1>2. ASSUME NEW r \in Refs, r \in DOMAIN memory
      PROVE  \E owner \in Owners(r) : Owners(r) = {owner}
  <2>0. r # Null
    BY DEF Refs, Null
  <2>1. CASE r \in deleting
    <3>1. \A x \in Vars : local[x] # r
      BY <2>1 DEF IInv, Exclusive
    <3>2. \A p \in DOMAIN memory : \A k \in DOMAIN memory[p] :
            memory[p][k].json # r
      BY <2>0, <2>1 DEF IInv, Exclusive
    <3>3. Owners(r) = {<<"deleting", r>>}
      BY <2>1, <3>1, <3>2 DEF Owners
    <3> QED
      BY <3>3
  <2>2. CASE \E x \in Vars : local[x] = r
    <3>1. PICK x \in Vars : local[x] = r
      BY <2>2
    <3>2. r \notin deleting
      BY <3>1 DEF IInv, Exclusive
    <3>3. \A p \in DOMAIN memory : \A k \in DOMAIN memory[p] :
            memory[p][k].json # r
      BY <2>0, <3>1 DEF IInv, Exclusive
    <3>4. \A y \in Vars : local[y] = r <=> y = x
      BY <2>0, <3>1 DEF IInv, Exclusive
    <3>5. Owners(r) = {<<"local", x>>}
      BY <3>2, <3>3, <3>4 DEF Owners
    <3> QED
      BY <3>5
  <2>3. CASE \E p \in DOMAIN memory : \E k \in DOMAIN memory[p] :
               memory[p][k].json = r
    <3>0. PICK p \in DOMAIN memory :
            \E k \in DOMAIN memory[p] : memory[p][k].json = r
      BY <2>3
    <3>1. PICK k \in DOMAIN memory[p] : memory[p][k].json = r
      BY <3>0
    <3>2. r \notin deleting
      BY <2>0, <3>1 DEF IInv, Exclusive
    <3>3. \A x \in Vars : local[x] # r
      BY <2>0, <3>1 DEF IInv, Exclusive
    <3>4. \A q \in DOMAIN memory : \A l \in DOMAIN memory[q] :
            memory[q][l].json = r <=> q = p /\ l = k
      BY <2>0, <3>1 DEF IInv, Exclusive
    <3>5. Owners(r) = {<<"value", p, k>>}
      BY <3>2, <3>3, <3>4 DEF Owners
    <3> QED
      BY <3>5
  <2> QED
    BY <1>2, <2>1, <2>2, <2>3 DEF IInv, Owned
<1> QED
  BY <1>1, <1>2 DEF OneOwner

-----------------------------------------------------------------------------
(* Every step keeps the invariant. *)

LEMMA InitInvariant ==
    ASSUME Init
    PROVE  IInv
<1>1. DOMAIN memory = {}
  BY DEF Init
<1> QED
  BY <1>1 DEF Init, Idle, IInv, JsonTypeOK, PointerMatchesType, Alive,
              Exclusive, Owned, CallsInv, NoAssignment

\* An entry is set to a value without a pointer, and what it pointed to is
\* freed.
LEMMA PutKeeps ==
    ASSUME JsonAssumption, IInv, Idle,
           NEW x \in Vars, local[x] # Null, NEW k \in Keys,
           NEW v \in Value, v.json = Null, v.type # "JSON",
           memory' = Put(memory, local[x], k, v),
           deleting' = FreedAt(local[x], k),
           UNCHANGED <<local, copying>>
    PROVE  /\ DOMAIN memory' \subseteq Refs
           /\ \A r \in DOMAIN memory' :
                /\ DOMAIN memory'[r] \subseteq Keys
                /\ \A l \in DOMAIN memory'[r] : memory'[r][l] \in Value
           /\ deleting' \subseteq Refs
           /\ PointerMatchesType' /\ Alive' /\ Exclusive' /\ Owned'
           /\ DOMAIN memory' = DOMAIN memory
           /\ k \in DOMAIN memory'[local[x]]
           /\ memory'[local[x]][k] = v
<1> DEFINE r == local[x]
<1>1. r \in DOMAIN memory
  BY DEF IInv, Alive
<1>2. /\ DOMAIN memory' = DOMAIN memory
      /\ DOMAIN memory'[r] = DOMAIN memory[r] \cup {k}
      /\ memory'[r][k] = v
      /\ \A l \in DOMAIN memory[r] : l # k => memory'[r][l] = memory[r][l]
      /\ \A p \in DOMAIN memory : p # r => memory'[p] = memory[p]
  BY <1>1, PutValues
<1>3. deleting' = IF k \in DOMAIN memory[r] /\ memory[r][k].json # Null
                  THEN {memory[r][k].json} ELSE {}
  BY <1>1, FreedValues DEF FreedAt
<1>4. deleting = {}
  BY DEF Idle
<1> HIDE DEF r
<1>5. \A p \in DOMAIN memory' : \A l \in DOMAIN memory'[p] :
        \/ p = r /\ l = k /\ memory'[p][l] = v
        \/ /\ p \in DOMAIN memory /\ l \in DOMAIN memory[p]
           /\ memory'[p][l] = memory[p][l] /\ ~ (p = r /\ l = k)
  BY <1>2
<1>6. /\ DOMAIN memory' \subseteq Refs
      /\ \A p \in DOMAIN memory' :
           /\ DOMAIN memory'[p] \subseteq Keys
           /\ \A l \in DOMAIN memory'[p] : memory'[p][l] \in Value
  BY <1>2 DEF IInv, JsonTypeOK
<1>7. deleting' \subseteq DOMAIN memory
  BY <1>1, <1>3 DEF IInv, Alive
<1>8. PointerMatchesType'
  BY <1>5 DEF IInv, PointerMatchesType
<1>9. Alive'
  BY <1>2, <1>5, <1>7 DEF IInv, Alive
<1>10. Exclusive'
  BY <1>1, <1>2, <1>3, <1>5 DEF IInv, Exclusive
<1>11. Owned'
  BY <1>1, <1>2, <1>3, <1>4, <1>5 DEF IInv, Owned
<1> QED
  BY <1>1, <1>2, <1>6, <1>7, <1>8, <1>9, <1>10, <1>11 DEF r

\* An entry without a pointer is set to a pointer to a new object.
LEMMA PutNewKeeps ==
    ASSUME IInv, Room,
           NEW r \in DOMAIN memory, NEW k \in Keys,
           k \in DOMAIN memory[r] => memory[r][k].json = Null,
           NEW v \in Value, v.json = NewRef, v.type = "JSON",
           memory' = Put(WithNew(memory), r, k, v),
           UNCHANGED <<local, deleting>>
    PROVE  /\ DOMAIN memory' \subseteq Refs
           /\ \A p \in DOMAIN memory' :
                /\ DOMAIN memory'[p] \subseteq Keys
                /\ \A l \in DOMAIN memory'[p] : memory'[p][l] \in Value
           /\ PointerMatchesType' /\ Alive' /\ Exclusive' /\ Owned'
           /\ DOMAIN memory' = DOMAIN memory \cup {NewRef}
<1> DEFINE n == NewRef
<1>0. n \in Refs /\ n \notin DOMAIN memory /\ n # Null
  BY NewRefIsNew DEF Refs, Null
<1> HIDE DEF n
<1>1. /\ DOMAIN WithNew(memory) = DOMAIN memory \cup {n}
      /\ DOMAIN WithNew(memory)[n] = {}
      /\ \A p \in DOMAIN memory : WithNew(memory)[p] = memory[p]
  BY <1>0, WithNewValues DEF n
<1>2. /\ DOMAIN memory' = DOMAIN memory \cup {n}
      /\ DOMAIN memory'[n] = {}
      /\ DOMAIN memory'[r] = DOMAIN memory[r] \cup {k}
      /\ memory'[r][k] = v
      /\ \A l \in DOMAIN memory[r] : l # k => memory'[r][l] = memory[r][l]
      /\ \A p \in DOMAIN memory : p # r => memory'[p] = memory[p]
  <2>1. r \in DOMAIN WithNew(memory)
    BY <1>1
  <2>2. /\ DOMAIN memory' = DOMAIN WithNew(memory)
        /\ DOMAIN memory'[r] = DOMAIN WithNew(memory)[r] \cup {k}
        /\ memory'[r][k] = v
        /\ \A l \in DOMAIN WithNew(memory)[r] :
             l # k => memory'[r][l] = WithNew(memory)[r][l]
        /\ \A p \in DOMAIN WithNew(memory) :
             p # r => memory'[p] = WithNew(memory)[p]
    BY <2>1, PutValues
  <2> QED
    BY <1>0, <1>1, <2>2
<1>3. v.json = n
  BY DEF n
<1>4. \A p \in DOMAIN memory' : \A l \in DOMAIN memory'[p] :
        \/ p = r /\ l = k /\ memory'[p][l] = v
        \/ /\ p \in DOMAIN memory /\ l \in DOMAIN memory[p]
           /\ memory'[p][l] = memory[p][l] /\ ~ (p = r /\ l = k)
  BY <1>2
<1>5. \A p \in DOMAIN memory : \A l \in DOMAIN memory[p] :
        memory[p][l].json # Null =>
          /\ p \in DOMAIN memory' /\ l \in DOMAIN memory'[p]
          /\ memory'[p][l] = memory[p][l]
  BY <1>2
<1>6. /\ DOMAIN memory' \subseteq Refs
      /\ \A p \in DOMAIN memory' :
           /\ DOMAIN memory'[p] \subseteq Keys
           /\ \A l \in DOMAIN memory'[p] : memory'[p][l] \in Value
  BY <1>0, <1>2 DEF IInv, JsonTypeOK
<1>7. PointerMatchesType'
  BY <1>0, <1>3, <1>4 DEF IInv, PointerMatchesType
<1>8. Alive'
  BY <1>2, <1>3, <1>4 DEF IInv, Alive
<1>9. Exclusive'
  <2>1. \A p \in DOMAIN memory : \A l \in DOMAIN memory[p] :
          memory[p][l].json # n
    BY <1>0 DEF IInv, Alive
  <2>2. (\A x \in Vars : local[x] # n) /\ n \notin deleting
    BY <1>0 DEF IInv, Alive
  <2> QED
    BY <1>3, <1>4, <2>1, <2>2 DEF IInv, Exclusive
<1>10. Owned'
  <2>1. n \in DOMAIN memory' /\ r \in DOMAIN memory' /\ k \in DOMAIN memory'[r]
        /\ memory'[r][k].json = n
    BY <1>2, <1>3
  <2>2. Null \notin DOMAIN memory
    BY DEF IInv, JsonTypeOK, Refs, Null
  <2> QED
    BY <1>2, <1>5, <2>1, <2>2 DEF IInv, Owned
<1> QED
  BY <1>2, <1>6, <1>7, <1>8, <1>9, <1>10 DEF n

\* ~json moves what the values of the object own to the calls of delete.
LEMMA DeleteJsonKeeps ==
    ASSUME IInv, DeleteJson
    PROVE  IInv'
<1>1. PICK r \in deleting :
        /\ r \in DOMAIN memory
        /\ memory' = Restrict(memory, DOMAIN memory \ {r})
        /\ deleting' = (deleting \ {r}) \cup
                       UNION {Freed(memory[r][k]) : k \in DOMAIN memory[r]}
        /\ UNCHANGED <<local, copying, assigning>>
  BY DEF DeleteJson
<1>2. /\ DOMAIN memory' = DOMAIN memory \ {r}
      /\ \A p \in DOMAIN memory' : memory'[p] = memory[p]
  BY <1>1 DEF Restrict
<1>3. \A d : d \in deleting' <=>
        \/ d \in deleting /\ d # r
        \/ \E k \in DOMAIN memory[r] : memory[r][k].json = d /\ d # Null
  <2>1. \A k \in DOMAIN memory[r] :
          Freed(memory[r][k]) =
            IF memory[r][k].json = Null THEN {} ELSE {memory[r][k].json}
    BY <1>1, FreedValues
  <2> QED
    BY <1>1, <2>1
<1>4. copying = {} /\ r \in Refs /\ r # Null
  BY <1>1 DEF IInv, CallsInv, JsonTypeOK, Refs, Null
<1>5. /\ \A x \in Vars : local[x] # r
      /\ \A p \in DOMAIN memory : \A k \in DOMAIN memory[p] :
           memory[p][k].json # r
  BY <1>4 DEF IInv, Exclusive
<1>6. deleting' \subseteq DOMAIN memory'
  BY <1>2, <1>3, <1>5 DEF IInv, Alive
<1>7. UNCHANGED <<local, copying, assigning>>
  BY <1>1
<1>8. \A p \in DOMAIN memory : p # r => p \in DOMAIN memory' /\ memory'[p] = memory[p]
  BY <1>2
<1>9. \A p \in DOMAIN memory' : p \in DOMAIN memory /\ p # r /\ memory'[p] = memory[p]
  BY <1>2
<1>10. JsonTypeOK'
  BY <1>2, <1>4, <1>6, <1>7 DEF IInv, JsonTypeOK
<1>11. PointerMatchesType'
  BY <1>9 DEF IInv, PointerMatchesType
<1>12. Alive'
  <2>1. \A x \in Vars : local'[x] # Null => local'[x] \in DOMAIN memory'
    BY <1>5, <1>7, <1>8 DEF IInv, Alive
  <2>2. ASSUME NEW p \in DOMAIN memory', NEW k \in DOMAIN memory'[p],
               memory'[p][k].json # Null
        PROVE  memory'[p][k].json \in DOMAIN memory'
    BY <1>5, <1>8, <1>9, <2>2 DEF IInv, Alive
  <2> QED
    BY <1>6, <2>1, <2>2 DEF Alive
<1>13. Exclusive'
  <2>1. \A p, q \in DOMAIN memory' :
         \A k \in DOMAIN memory'[p], l \in DOMAIN memory'[q] :
           memory'[p][k].json # Null /\ memory'[p][k].json = memory'[q][l].json =>
               p = q /\ k = l
    BY <1>9 DEF IInv, Exclusive
  <2>2. ASSUME NEW p \in DOMAIN memory', NEW k \in DOMAIN memory'[p],
               memory'[p][k].json # Null
        PROVE  /\ memory'[p][k].json \notin deleting'
               /\ \A x \in Vars : local'[x] # memory'[p][k].json
    <3> DEFINE d == memory[p][k].json
    <3>1. p \in DOMAIN memory /\ p # r /\ k \in DOMAIN memory[p]
          /\ memory'[p][k].json = d /\ d # Null
      BY <1>9, <2>2
    <3>2. d \notin deleting /\ \A x \in Vars : local[x] # d
      BY <3>1 DEF IInv, Exclusive
    <3>3. \A l \in DOMAIN memory[r] : memory[r][l].json # d
      BY <1>1, <3>1 DEF IInv, Exclusive
    <3> HIDE DEF d
    <3>4. d \notin deleting'
      BY <1>3, <3>2, <3>3
    <3> QED
      BY <1>7, <3>1, <3>2, <3>4
  <2>3. \A x \in Vars : local'[x] \notin deleting'
    BY <1>1, <1>3, <1>7 DEF IInv, Exclusive
  <2> QED
    BY <1>7, <2>1, <2>2, <2>3 DEF IInv, Exclusive
<1>14. Owned'
  <2> SUFFICES ASSUME NEW d \in DOMAIN memory', d \notin deleting',
                      \A x \in Vars : local'[x] # d
               PROVE  \E p \in DOMAIN memory' : \E k \in DOMAIN memory'[p] :
                        memory'[p][k].json = d
    BY DEF Owned
  <2>1. d \in DOMAIN memory /\ d # r /\ d # Null
    BY <1>9 DEF IInv, JsonTypeOK, Refs, Null
  <2>2. PICK p \in DOMAIN memory :
          \E k \in DOMAIN memory[p] : memory[p][k].json = d
    BY <1>3, <1>7, <2>1 DEF IInv, Owned
  <2>3. p # r
    BY <1>3, <2>1, <2>2
  <2> QED
    BY <1>8, <2>2, <2>3
<1>15. CallsInv'
  <2>1. ASSUME NEW x \in Vars, NEW y \in Vars, NEW k \in Keys,
               assigning' = <<x, k, y>>
        PROVE  /\ local'[x] # Null /\ local'[y] # Null
               /\ k \in DOMAIN memory'[local'[x]]
               /\ memory'[local'[x]][k].json = Null
    <3>1. assigning = <<x, k, y>>
      BY <1>7, <2>1
    <3>2. local[x] \in DOMAIN memory /\ local[x] # r
      BY <1>5, <3>1 DEF IInv, CallsInv, Alive
    <3> QED
      BY <1>7, <1>8, <3>1, <3>2 DEF IInv, CallsInv
  <2> QED
    BY <1>4, <1>7, <2>1 DEF IInv, CallsInv
<1> QED
  BY <1>10, <1>11, <1>12, <1>13, <1>14, <1>15 DEF IInv

LEMMA CopyValueKeeps ==
    ASSUME JsonAssumption, IInv, CopyValue
    PROVE  IInv'
<1>1. PICK c \in copying, k \in Keys :
        /\ k \in DOMAIN memory[c[1]] \ DOMAIN memory[c[2]]
        /\ LET v == memory[c[1]][k]
           IN  IF v.json = Null
               THEN /\ memory' = Put(memory, c[2], k, v)
                    /\ UNCHANGED copying
               ELSE /\ Room
                    /\ memory' = Put(WithNew(memory), c[2], k,
                                     [v EXCEPT !.json = NewRef])
                    /\ copying' = copying \cup {<<v.json, NewRef>>}
        /\ UNCHANGED <<local, deleting, assigning>>
  BY DEF CopyValue
<1> DEFINE v == memory[c[1]][k]
<1>2. /\ deleting = {} /\ assigning = NoAssignment
      /\ c[1] \in DOMAIN memory /\ c[2] \in DOMAIN memory
  BY <1>1 DEF IInv, CallsInv, JsonTypeOK
<1>3. v \in Value
  BY <1>1, <1>2 DEF IInv, JsonTypeOK
<1>4. v.type = "JSON" <=> v.json # Null
  BY <1>1, <1>2 DEF IInv, PointerMatchesType
<1>5. CASE v.json = Null
  <2>1. /\ memory' = Put(memory, c[2], k, v)
        /\ UNCHANGED <<copying, local, deleting, assigning>>
    BY <1>1, <1>5
  <2>2. /\ DOMAIN memory' = DOMAIN memory
        /\ DOMAIN memory'[c[2]] = DOMAIN memory[c[2]] \cup {k}
        /\ memory'[c[2]][k] = v
        /\ \A l \in DOMAIN memory[c[2]] :
             l # k => memory'[c[2]][l] = memory[c[2]][l]
        /\ \A p \in DOMAIN memory : p # c[2] => memory'[p] = memory[p]
    BY <1>2, <2>1, PutValues
  <2> HIDE DEF v
  <2>3. \A p \in DOMAIN memory' : \A l \in DOMAIN memory'[p] :
          \/ p = c[2] /\ l = k /\ memory'[p][l] = v
          \/ /\ p \in DOMAIN memory /\ l \in DOMAIN memory[p]
             /\ memory'[p][l] = memory[p][l] /\ ~ (p = c[2] /\ l = k)
    BY <1>1, <2>2
  <2>4. \A p \in DOMAIN memory : \A l \in DOMAIN memory[p] :
          /\ p \in DOMAIN memory' /\ l \in DOMAIN memory'[p]
          /\ memory'[p][l] = memory[p][l]
    BY <1>1, <2>2
  <2>5. JsonTypeOK'
    <3>1. \A p \in DOMAIN memory' :
             /\ DOMAIN memory'[p] \subseteq Keys
             /\ \A l \in DOMAIN memory'[p] : memory'[p][l] \in Value
      BY <1>3, <2>2, <2>3 DEF IInv, JsonTypeOK
    <3> QED
      BY <2>1, <2>2, <3>1 DEF IInv, JsonTypeOK
  <2>6. PointerMatchesType'
    BY <1>4, <1>5, <2>3 DEF IInv, PointerMatchesType
  <2>7. Alive'
    BY <1>5, <2>1, <2>2, <2>3 DEF IInv, Alive
  <2>8. Exclusive'
    BY <1>5, <2>1, <2>3 DEF IInv, Exclusive
  <2>9. Owned'
    BY <2>1, <2>2, <2>4 DEF IInv, Owned
  <2>10. CallsInv'
    BY <1>2, <2>1 DEF IInv, CallsInv, NoAssignment
  <2> QED
    BY <2>5, <2>6, <2>7, <2>8, <2>9, <2>10 DEF IInv
<1>6. CASE v.json # Null
  <2> DEFINE w == [v EXCEPT !.json = NewRef]
  <2>1. /\ Room
        /\ memory' = Put(WithNew(memory), c[2], k, w)
        /\ copying' = copying \cup {<<v.json, NewRef>>}
        /\ UNCHANGED <<local, deleting, assigning>>
    BY <1>1, <1>6
  <2>2. w \in Value /\ w.json = NewRef /\ w.type = "JSON"
    BY <1>3, <1>4, <1>6, <2>1, NewRefIsNew DEF Value
  <2>3. v.json \in DOMAIN memory
    BY <1>1, <1>2, <1>6 DEF IInv, Alive
  <2> HIDE DEF v, w
  <2>4. /\ DOMAIN memory' \subseteq Refs
        /\ \A p \in DOMAIN memory' :
             /\ DOMAIN memory'[p] \subseteq Keys
             /\ \A l \in DOMAIN memory'[p] : memory'[p][l] \in Value
        /\ PointerMatchesType' /\ Alive' /\ Exclusive' /\ Owned'
        /\ DOMAIN memory' = DOMAIN memory \cup {NewRef}
    BY <1>1, <1>2, <2>1, <2>2, PutNewKeeps
  <2>5. copying' \subseteq (DOMAIN memory') \X (DOMAIN memory')
    BY <2>1, <2>3, <2>4 DEF IInv, JsonTypeOK
  <2>6. JsonTypeOK'
    BY <2>1, <2>4, <2>5 DEF IInv, JsonTypeOK
  <2>7. CallsInv'
    BY <1>2, <2>1 DEF IInv, CallsInv, NoAssignment
  <2> QED
    BY <2>4, <2>6, <2>7 DEF IInv
<1> QED
  BY <1>5, <1>6

LEMMA CopyEndKeeps ==
    ASSUME IInv, CopyEnd
    PROVE  IInv'
<1>1. copying' \subseteq copying /\ UNCHANGED <<memory, local, deleting, assigning>>
  BY DEF CopyEnd
<1>2. copying' \subseteq (DOMAIN memory') \X (DOMAIN memory')
  BY <1>1 DEF IInv, JsonTypeOK
<1>3. JsonTypeOK'
  BY <1>1, <1>2 DEF IInv, JsonTypeOK
<1>4. CallsInv'
  BY <1>1 DEF IInv, CallsInv
<1> QED
  BY <1>1, <1>3, <1>4
  DEF IInv, PointerMatchesType, Alive, Exclusive, Owned

\* A variable comes into scope with a new object.
LEMMA ConstructKeeps ==
    ASSUME IInv, Idle, Room,
           NEW x \in Vars, local[x] = Null,
           memory' = WithNew(memory),
           local' = [local EXCEPT ![x] = NewRef],
           UNCHANGED <<deleting, assigning>>,
           copying' \subseteq (DOMAIN memory') \X (DOMAIN memory')
    PROVE  IInv'
<1> DEFINE n == NewRef
<1>0. n \in Refs /\ n \notin DOMAIN memory /\ n # Null
  BY NewRefIsNew DEF Refs, Null
<1> HIDE DEF n
<1>1. /\ DOMAIN memory' = DOMAIN memory \cup {n}
      /\ DOMAIN memory'[n] = {}
      /\ \A p \in DOMAIN memory : memory'[p] = memory[p]
  BY <1>0, WithNewValues DEF n
<1>2. /\ local \in [Vars -> Refs \cup {Null}]
      /\ local' \in [Vars -> Refs \cup {Null}]
      /\ local'[x] = n
      /\ \A y \in Vars : y # x => local'[y] = local[y]
  BY <1>0 DEF IInv, JsonTypeOK, n
<1>3. \A p \in DOMAIN memory' : \A k \in DOMAIN memory'[p] :
        p \in DOMAIN memory /\ memory'[p] = memory[p]
  BY <1>1
<1>4. deleting = {} /\ assigning = NoAssignment
  BY DEF Idle
<1>5. JsonTypeOK'
  BY <1>0, <1>1, <1>2, <1>4 DEF IInv, JsonTypeOK
<1>6. PointerMatchesType'
  BY <1>3 DEF IInv, PointerMatchesType
<1>7. Alive'
  BY <1>1, <1>2, <1>3 DEF IInv, Alive
<1>8. Exclusive'
  <2>1. \A y \in Vars : local[y] # n
    BY <1>0 DEF IInv, Alive
  <2>2. \A p \in DOMAIN memory : \A k \in DOMAIN memory[p] :
          memory[p][k].json # n
    BY <1>0 DEF IInv, Alive
  <2> QED
    BY <1>2, <1>3, <1>4, <2>1, <2>2 DEF IInv, Exclusive
<1>9. Owned'
  <2>1. \A r \in DOMAIN memory : r # Null
    BY DEF IInv, JsonTypeOK, Refs, Null
  <2> QED
    BY <1>1, <1>2, <1>4, <2>1 DEF IInv, Owned
<1>10. CallsInv'
  BY <1>4 DEF IInv, CallsInv, NoAssignment
<1> QED
  BY <1>1, <1>5, <1>6, <1>7, <1>8, <1>9, <1>10 DEF IInv

LEMMA DestroyKeeps ==
    ASSUME IInv, NEW x \in Vars, Destroy(x)
    PROVE  IInv'
<1>1. /\ deleting = {} /\ copying = {} /\ assigning = NoAssignment
      /\ local[x] # Null
      /\ deleting' = {local[x]}
      /\ UNCHANGED <<memory, copying, assigning>>
  BY DEF Destroy, Idle
<1>2. /\ local \in [Vars -> Refs \cup {Null}]
      /\ local' \in [Vars -> Refs \cup {Null}]
      /\ local'[x] = Null
      /\ \A y \in Vars : y # x => local'[y] = local[y]
  BY DEF IInv, JsonTypeOK, Destroy
<1>3. local[x] \in DOMAIN memory /\ Null \notin DOMAIN memory
  BY <1>1 DEF IInv, Alive, JsonTypeOK, Refs, Null
<1>4. JsonTypeOK'
  BY <1>1, <1>2, <1>3 DEF IInv, JsonTypeOK
<1>5. PointerMatchesType'
  BY <1>1 DEF IInv, PointerMatchesType
<1>6. Alive'
  BY <1>1, <1>2, <1>3 DEF IInv, Alive
<1>7. Exclusive'
  BY <1>1, <1>2, <1>3 DEF IInv, Exclusive
<1>8. Owned'
  BY <1>1, <1>2, <1>3 DEF IInv, Owned
<1>9. CallsInv'
  BY <1>1 DEF IInv, CallsInv, NoAssignment
<1> QED
  BY <1>4, <1>5, <1>6, <1>7, <1>8, <1>9 DEF IInv

LEMMA PutInvariant ==
    ASSUME JsonAssumption, IInv, Idle,
           NEW x \in Vars, local[x] # Null, NEW k \in Keys,
           NEW v \in Value, v.json = Null, v.type # "JSON",
           memory' = Put(memory, local[x], k, v),
           deleting' = FreedAt(local[x], k),
           UNCHANGED <<local, copying>>,
           \/ UNCHANGED assigning
           \/ \E y \in Vars : local[y] # Null /\ assigning' = <<x, k, y>>
    PROVE  IInv'
<1>1. /\ DOMAIN memory' \subseteq Refs
      /\ \A r \in DOMAIN memory' :
           /\ DOMAIN memory'[r] \subseteq Keys
           /\ \A l \in DOMAIN memory'[r] : memory'[r][l] \in Value
      /\ deleting' \subseteq Refs
      /\ PointerMatchesType' /\ Alive' /\ Exclusive' /\ Owned'
      /\ DOMAIN memory' = DOMAIN memory
      /\ k \in DOMAIN memory'[local[x]]
      /\ memory'[local[x]][k] = v
  BY PutKeeps
<1>2. copying = {} /\ assigning = NoAssignment
  BY DEF Idle
<1>3. assigning' \in (Vars \X Keys \X Vars) \cup {NoAssignment}
  BY <1>2
<1>4. JsonTypeOK'
  BY <1>1, <1>2, <1>3 DEF IInv, JsonTypeOK
<1>5. ASSUME NEW y \in Vars, NEW z \in Vars, NEW l \in Keys,
             assigning' = <<y, l, z>>
      PROVE  /\ local'[y] # Null /\ local'[z] # Null
             /\ l \in DOMAIN memory'[local'[y]]
             /\ memory'[local'[y]][l].json = Null
  <2>1. PICK w \in Vars : local[w] # Null /\ assigning' = <<x, k, w>>
    BY <1>2, <1>5 DEF NoAssignment
  <2>2. y = x /\ l = k /\ z = w
    BY <1>5, <2>1
  <2> QED
    BY <1>1, <2>1, <2>2
<1>6. CallsInv'
  BY <1>2, <1>5 DEF CallsInv
<1> QED
  BY <1>1, <1>4, <1>6 DEF IInv

LEMMA SubscriptKeeps ==
    ASSUME JsonAssumption, IInv, NEW x \in Vars, NEW k \in Keys, Subscript(x, k)
    PROVE  IInv'
<1>1. deleting' = FreedAt(local[x], k)
  BY DEF Subscript, Idle, FreedAt
<1>2. Unknown \in Value /\ Unknown.json = Null /\ Unknown.type # "JSON"
  BY ValueTypes
<1>3. /\ Idle /\ local[x] # Null
      /\ memory' = Put(memory, local[x], k, Unknown)
      /\ UNCHANGED <<local, copying, assigning>>
  BY DEF Subscript
<1> QED
  BY <1>1, <1>2, <1>3, PutInvariant

LEMMA AssignScalarKeeps ==
    ASSUME JsonAssumption, IInv,
           NEW x \in Vars, NEW k \in Keys, NEW s \in Scalars,
           AssignScalar(x, k, s)
    PROVE  IInv'
<1>1. Scalar(s) \in Value /\ Scalar(s).json = Null /\ Scalar(s).type # "JSON"
  BY ValueTypes
<1>2. /\ Idle /\ local[x] # Null
      /\ memory' = Put(memory, local[x], k, Scalar(s))
      /\ deleting' = FreedAt(local[x], k)
      /\ UNCHANGED <<local, copying, assigning>>
  BY DEF AssignScalar
<1> QED
  BY <1>1, <1>2, PutInvariant

LEMMA AssignJsonKeeps ==
    ASSUME JsonAssumption, IInv,
           NEW x \in Vars, NEW k \in Keys, NEW y \in Vars,
           AssignJson(x, k, y)
    PROVE  IInv'
<1>1. Unknown \in Value /\ Unknown.json = Null /\ Unknown.type # "JSON"
  BY ValueTypes
<1>2. /\ Idle /\ local[x] # Null /\ local[y] # Null
      /\ memory' = Put(memory, local[x], k, Unknown)
      /\ deleting' = FreedAt(local[x], k)
      /\ assigning' = <<x, k, y>>
      /\ UNCHANGED <<local, copying>>
  BY DEF AssignJson
<1> QED
  BY <1>1, <1>2, PutInvariant

LEMMA AssignNewKeeps ==
    ASSUME JsonAssumption, IInv,
           NEW x \in Vars, NEW k \in Keys, NEW y \in Vars,
           AssignNew(x, k, y)
    PROVE  IInv'
<1> DEFINE r == local[x]
<1>1. /\ assigning = <<x, k, y>> /\ deleting = {} /\ Room
      /\ memory' = Put(WithNew(memory), r, k, Pointer(NewRef))
      /\ copying' = {<<local[y], NewRef>>}
      /\ assigning' = NoAssignment
      /\ UNCHANGED <<local, deleting>>
  BY DEF AssignNew
<1>2. /\ r \in DOMAIN memory /\ local[y] \in DOMAIN memory
      /\ memory[r][k].json = Null
  BY <1>1 DEF IInv, CallsInv, Alive
<1>3. /\ Pointer(NewRef) \in Value /\ Pointer(NewRef).json = NewRef
      /\ Pointer(NewRef).type = "JSON"
  BY <1>1, NewRefIsNew, ValueTypes
<1> HIDE DEF r
<1>4. /\ DOMAIN memory' \subseteq Refs
      /\ \A p \in DOMAIN memory' :
           /\ DOMAIN memory'[p] \subseteq Keys
           /\ \A l \in DOMAIN memory'[p] : memory'[p][l] \in Value
      /\ PointerMatchesType' /\ Alive' /\ Exclusive' /\ Owned'
      /\ DOMAIN memory' = DOMAIN memory \cup {NewRef}
  BY <1>1, <1>2, <1>3, PutNewKeeps
<1>5. copying' \subseteq (DOMAIN memory') \X (DOMAIN memory')
  BY <1>1, <1>2, <1>4
<1>6. JsonTypeOK'
  BY <1>1, <1>4, <1>5 DEF IInv, JsonTypeOK
<1>7. CallsInv'
  BY <1>1 DEF CallsInv, NoAssignment
<1> QED
  BY <1>4, <1>6, <1>7 DEF IInv

LEMMA NextKeeps ==
    ASSUME JsonAssumption, IInv, [Next]_vars
    PROVE  IInv'
<1>1. CASE DeleteJson
  BY <1>1, DeleteJsonKeeps
<1>2. CASE CopyValue
  BY <1>2, CopyValueKeeps
<1>3. CASE CopyEnd
  BY <1>3, CopyEndKeeps
<1>4. ASSUME NEW x \in Vars, Construct(x)
      PROVE  IInv'
  <2>1. copying' \subseteq (DOMAIN memory') \X (DOMAIN memory')
    BY <1>4 DEF Construct, Idle
  <2> QED
    BY <1>4, <2>1, ConstructKeeps DEF Construct
<1>5. ASSUME NEW x \in Vars, Destroy(x)
      PROVE  IInv'
  BY <1>5, DestroyKeeps
<1>6. ASSUME NEW x \in Vars, NEW y \in Vars, CopyConstruct(x, y)
      PROVE  IInv'
  <2>1. /\ Idle /\ Room /\ local[x] = Null /\ local[y] # Null
        /\ memory' = WithNew(memory)
        /\ local' = [local EXCEPT ![x] = NewRef]
        /\ copying' = {<<local[y], NewRef>>}
        /\ UNCHANGED <<deleting, assigning>>
    BY <1>6 DEF CopyConstruct
  <2>2. NewRef \notin DOMAIN memory /\ local[y] \in DOMAIN memory
    BY <2>1, NewRefIsNew DEF IInv, Alive
  <2>3. DOMAIN memory' = DOMAIN memory \cup {NewRef}
    BY <2>1, <2>2, WithNewValues
  <2>4. copying' \subseteq (DOMAIN memory') \X (DOMAIN memory')
    BY <2>1, <2>2, <2>3
  <2> QED
    BY <2>1, <2>4, ConstructKeeps
<1>7. ASSUME NEW x \in Vars, NEW k \in Keys, Subscript(x, k)
      PROVE  IInv'
  BY <1>7, SubscriptKeeps
<1>8. ASSUME NEW x \in Vars, NEW k \in Keys, NEW s \in Scalars,
             AssignScalar(x, k, s)
      PROVE  IInv'
  BY <1>8, AssignScalarKeeps
<1>9. ASSUME NEW x \in Vars, NEW k \in Keys, NEW y \in Vars,
             AssignJson(x, k, y) \/ AssignNew(x, k, y)
      PROVE  IInv'
  BY <1>9, AssignJsonKeeps, AssignNewKeeps
<1>10. CASE UNCHANGED vars
  BY <1>10
  DEF vars, IInv, JsonTypeOK, PointerMatchesType, Alive, Exclusive, Owned,
      CallsInv
<1> QED
  BY <1>1, <1>2, <1>3, <1>4, <1>5, <1>6, <1>7, <1>8, <1>9, <1>10 DEF Next

LEMMA InvariantHolds == Spec => []IInv
<1>1. Init => IInv
  BY InitInvariant
<1>2. IInv /\ [Next]_vars => IInv'
  BY JsonAssumption, NextKeeps
<1> QED
  BY <1>1, <1>2, PTL DEF Spec

-----------------------------------------------------------------------------
(* Theorems. *)

\* Pointers are null or to objects, and copies are made of objects that exist,
\* into objects that exist: json_value() and reset leave no pointer unset.
THEOREM JsonTypeCorrect == Spec => []JsonTypeOK
<1>1. IInv => JsonTypeOK
  BY DEF IInv
<1> QED
  BY <1>1, InvariantHolds, PTL

\* Each object is freed by exactly one pointer, at every point between the
\* calls that a copy, an assignment or a destructor makes: nothing leaks,
\* nothing is freed twice, and no pointer dangles.
THEOREM EveryObjectHasOneOwner == Spec => []OneOwner
<1>1. IInv => OneOwner
  BY InvariantImplies
<1> QED
  BY <1>1, InvariantHolds, PTL

\* The copy constructor goes by the pointer, the destructor and reset by the
\* type: the two always agree on whether a value holds a json.
THEOREM PointersMatchTypes == Spec => []PointerMatchesType
<1>1. IInv => PointerMatchesType
  BY DEF IInv
<1> QED
  BY <1>1, InvariantHolds, PTL

=============================================================================
