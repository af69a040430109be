------------------------------ MODULE FieldIntent -------------------------------
(***************************************************************************)
(* The three-state field intent of one node and its edits set, remove and   *)
(* reset (edit/fields.ts).                                                  *)
(*                                                                         *)
(* An intent holds one declaration per declared path of the node's schema.  *)
(* An object is declared by its presence, the empty object, and its content *)
(* by declarations of its children: no value is stored twice.  The plain    *)
(* fields of the node are the projection of its declarations.               *)
(*                                                                         *)
(* Data: a path is a sequence of keys; JSON scalars and arrays are members  *)
(* of Scalars; a JSON object is a function from its keys.  A value the      *)
(* schema does not allow, and a path outside it, refuse the whole edit, so  *)
(* patches range over what the schema allows.                               *)
(***************************************************************************)
EXTENDS Naturals, Sequences, SequencesExt, Functions

CONSTANTS Schema,     \* the registered paths below the root
          Scalars, Null,
          Nullable    \* the object paths that may be null

Names == UNION {Range(p) : p \in Schema}
Root == <<>>
Paths == Schema \cup {Root}
Empty == <<>>                 \* the object without keys

\* The schema is a finite tree, and {} is no scalar.
ASSUME SchemaAssumption ==
  /\ Null \in Scalars /\ Nullable \subseteq Schema /\ Empty \notin Scalars
  /\ Schema \subseteq Seq(Names)
  /\ \A p \in Schema : Len(p) > 0 /\ (Len(p) > 1 => Front(p) \in Schema)
  /\ \E longest \in Paths : \A p \in Schema : Len(p) <= Len(longest)

VARIABLES intents,    \* the field intents of the node
          baseline    \* those of the baseline resets go back to

vars == <<intents, baseline>>

-------------------------------------------------------------------------------
(* Paths and values *)

Below == [p \in Paths |-> {q \in Schema : IsPrefix(p, q)}]
Parents == [p \in Paths |-> {q \in Schema : IsPrefix(q, p) /\ q # p}]
Children == [p \in Paths |-> {q \in Below[p] : Len(q) = Len(p) + 1}]
Keys == [p \in Paths |-> {Last(q) : q \in Children[p]}]

IsObject(v) == v \notin Scalars

\* The values the schema allows at a path.
Legal[p \in Paths] ==
  IF Keys[p] = {} THEN Scalars
  ELSE (IF p \in Nullable THEN {Null} ELSE {}) \cup
       UNION {{f \in [K -> UNION {Legal[Append(p, k)] : k \in K}] :
                 \A k \in K : f[k] \in Legal[Append(p, k)]} : K \in SUBSET Keys[p]}

-------------------------------------------------------------------------------
(* Declarations *)

Removal == [kind |-> "remove"]
Set(v) == [kind |-> "set", value |-> v]
Undeclared == [kind |-> "undeclared"]

\* What a declaration holds of a value: of an object, that it is there.
Presence(v) == IF IsObject(v) THEN Empty ELSE v

\* What the value v at path p has at each path below, nothing or one value.
Parts(p, v) ==
  LET part[q \in Below[p] \cup {p}] ==
        IF q = p THEN {v}
        ELSE {w[Last(q)] : w \in {u \in part[Front(q)] : IsObject(u) /\ Last(q) \in DOMAIN u}}
  IN  part

\* declareFields: the declarations of a value at a path.
Declare(p, v) ==
  LET part == Parts(p, v)
  IN  [q \in {r \in Below[p] : part[r] # {}} |-> Set(Presence(CHOOSE w \in part[q] : TRUE))]

\* The declarations of C, and those of D beside them.
Over(C, D) == [q \in DOMAIN C \cup DOMAIN D |-> IF q \in DOMAIN C THEN C[q] ELSE D[q]]

Declared(D, p) == p \in DOMAIN D
Removed(D, p) == Declared(D, p) /\ D[p] = Removal
Present(D, p) == Declared(D, p) /\ D[p] # Removal

\* Removed itself, or by way of a parent.
Gone(D, p) == \E q \in Parents[p] \cup {p} : Removed(D, q)

\* projectDeclarations fails unless every declaration has a present object for
\* its parent, and no object repeats its children.
Projectable(D) ==
  \A p \in DOMAIN D :
    /\ Len(p) > 1 => Declared(D, Front(p)) /\ D[Front(p)] = Set(Empty)
    /\ D[p] # Removal /\ IsObject(D[p].value) => D[p].value = Empty

Under(D, p) == Restrict(D, DOMAIN D \cap Below[p])

\* The value projectDeclarations builds at a path from what is declared there and below.
Project(D, p) ==
  LET value[q \in Below[p]] ==
        IF ~IsObject(D[q].value) THEN D[q].value
        ELSE [k \in {j \in Keys[q] : Present(D, Append(q, j))} |-> value[Append(q, k)]]
  IN  value[p]

\* stateAt: what the node says of a path.
StateAt(D, p) ==
  IF Gone(D, p) THEN Removal
  ELSE IF Declared(D, p) THEN Set(Project(Under(D, p), p))
  ELSE Undeclared

-------------------------------------------------------------------------------
(* evaluateFields, one patch at a time *)

Patches ==
  [op : {"remove", "reset"}, path : Schema] \cup
    UNION {[op : {"set"}, path : {p}, value : Legal[p]] : p \in Schema}

\* A child of an explicit null is not edited silently.
UnderNull(D, p) == \E q \in Parents[p] : Present(D, q) /\ ~IsObject(D[q].value)

\* Mutant: a removed parent is brought back with its other children undeclared.
ClearNothing(D, p) == {}

\* Mutant: entering a parent clears its other children, removed or not.
ClearAlways(D, p) == UNION {Children[q] : q \in Parents[p]}

\* The children of the removed parents on the way: each keeps being removed when its
\* parent comes back.
Cleared(D, p) == UNION {Children[q] : q \in {r \in Parents[p] : Gone(D, r)}}

\* The parents on the way become present objects.
Expand(D, p) ==
  Over([q \in Parents[p] |-> Set(Empty)], Over([q \in Cleared(D, p) |-> Removal], D))

\* Mutant: the declarations of the children survive.
CutExactly(D, p) == Restrict(D, DOMAIN D \ {p})

\* Everything declared at the path or under it goes.
Cut(D, p) == Restrict(D, DOMAIN D \ Below[p])

\* What a reset puts back: the effective state of the baseline.
Restored(B, p) == IF Gone(B, p) THEN [q \in {p} |-> Removal] ELSE Under(B, p)

\* What a patch declares at its path and below.
Declares(patch) ==
  CASE patch.op = "set" -> Declare(patch.path, patch.value)
    [] patch.op = "remove" -> [q \in {patch.path} |-> Removal]
    [] patch.op = "reset" -> Restored(baseline, patch.path)

Apply(D, patch) == Over(Declares(patch), Cut(Expand(D, patch.path), patch.path))

Edit(patch) ==
  /\ ~UnderNull(intents, patch.path)
  /\ Projectable(Apply(intents, patch))
  /\ intents' = Apply(intents, patch)
  /\ UNCHANGED baseline

\* A completed publication makes the intent the new baseline (baselineOf).
Publish == baseline' = intents /\ UNCHANGED intents

Init == \E fields \in Legal[Root] : intents = Declare(Root, fields) /\ baseline = intents

Next == Publish \/ \E patch \in Patches : Edit(patch)

Spec == Init /\ [][Next]_vars

-------------------------------------------------------------------------------
(* Properties *)

Accepted == {patch \in Patches : ~UnderNull(intents, patch.path)}

\* No sequence of edits and publications leads to declarations that contradict
\* themselves, from which loading and every further edit would fail.
EditsStayProjectable == \A patch \in Accepted : Projectable(Apply(intents, patch))

\* What a patch says of the fields at its path.
Wanted(patch) ==
  CASE patch.op = "set" -> Set(patch.value)
    [] patch.op = "remove" -> Removal
    [] patch.op = "reset" -> StateAt(baseline, patch.path)

Unrelated(p, q) == ~IsPrefix(p, q) /\ ~IsPrefix(q, p)

\* A patch does what it says in every state the Draft can be in, and nothing beside:
\* set replaces the value as a whole, reset finds the state of the baseline again, be
\* it set, removed by way of a parent, or undeclared; and siblings stay removed,
\* undeclared or set as they were, when a parent has to come back too.
PatchIsExact ==
  \A patch \in Accepted :
    LET edited == Apply(intents, patch) IN
    /\ StateAt(edited, patch.path) = Wanted(patch)
    /\ \A q \in Schema : Unrelated(patch.path, q) => StateAt(edited, q) = StateAt(intents, q)

\* Patches of one batch to unrelated paths may be given in any order.
UnrelatedPatchesCommute ==
  \A one, two \in Accepted :
    Unrelated(one.path, two.path) =>
      Apply(Apply(intents, one), two) = Apply(Apply(intents, two), one)
===============================================================================
