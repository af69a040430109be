---------------------------- MODULE FieldIntentProofs ---------------------------
(***************************************************************************)
(* Proofs about FieldIntent, for every schema that is a finite tree and     *)
(* every set of scalars.                                                    *)
(*                                                                         *)
(* An edit is looked at path by path (EditedIs): what the patch declares    *)
(* below its path, presence on the way there, removal of what comes back    *)
(* with a removed parent, and the intent of before elsewhere.  IntentOK,    *)
(* what makes declarations loadable, is inductive.  What is defined by      *)
(* recursion over the tree is unfolded by induction on the length of paths, *)
(* as the impossibility of a least counterexample (Least).                  *)
(***************************************************************************)
EXTENDS FieldIntent, SequenceTheorems, WellFoundedInduction, TLAPS

-------------------------------------------------------------------------------
(* The tree of paths *)

\* Registered paths are sequences of names, the root the empty one.
LEMMA PathsAre ==
  /\ Schema \subseteq Paths /\ Root \in Paths /\ Root \notin Schema
  /\ Paths \subseteq Seq(Names) /\ Len(Root) = 0
  /\ \A p \in Paths : Len(p) \in Nat /\ p \in Seq(Names)
  /\ \A p \in Schema : Len(p) > 0
<1>1. Root \in Seq(Names) /\ Len(Root) = 0
  BY DEF Root
<1>2. Paths \subseteq Seq(Names)
  BY <1>1, SchemaAssumption DEF Paths
<1>3. \A p \in Paths : Len(p) \in Nat /\ p \in Seq(Names)
  BY <1>2
<1> QED
  BY <1>1, <1>2, <1>3, SchemaAssumption DEF Paths

\* A prefix agrees key by key.
LEMMA PrefixIs ==
  ASSUME NEW p \in Paths, NEW q \in Paths
  PROVE  IsPrefix(p, q) <=> Len(p) <= Len(q) /\ \A i \in 1..Len(p) : p[i] = q[i]
<1>1. p \in Seq(Names) /\ q \in Seq(Names) /\ Len(p) \in Nat /\ Len(q) \in Nat
  BY PathsAre
<1>2. SubSeq(p, 1, Len(p)) = [i \in 1..Len(p) |-> p[i]]
  BY <1>1
<1>3. Len(p) <= Len(q) => SubSeq(q, 1, Len(p)) = [i \in 1..Len(p) |-> q[i]]
  BY <1>1
<1>4. [i \in 1..Len(p) |-> p[i]] = [i \in 1..Len(p) |-> q[i]] <=> \A i \in 1..Len(p) : p[i] = q[i]
  OBVIOUS
<1> QED
  BY <1>2, <1>3, <1>4 DEF IsPrefix

\* Paths of one length that agree key by key are one path.
LEMMA SamePath ==
  ASSUME NEW p \in Paths, NEW q \in Paths, Len(p) = Len(q), \A i \in 1..Len(p) : p[i] = q[i]
  PROVE  p = q
<1>1. p \in Seq(Names) /\ q \in Seq(Names)
  BY PathsAre
<1> QED
  BY <1>1, SeqEqual

\* What is below a path is registered and goes on from it.
LEMMA BelowIs ==
  ASSUME NEW p \in Paths, NEW q
  PROVE  q \in Below[p] <=> /\ q \in Schema /\ Len(p) <= Len(q)
                            /\ \A i \in 1..Len(p) : p[i] = q[i]
BY PrefixIs, PathsAre DEF Below

\* Being below is an order: where two paths have something below both, one is below
\* the other.
LEMMA BelowOrders ==
  /\ \A p \in Schema : p \in Below[p]
  /\ \A p \in Paths : Below[p] \subseteq Schema
  /\ \A p \in Paths, q \in Schema, r \in Schema : q \in Below[p] /\ r \in Below[q] => r \in Below[p]
  /\ \A p \in Paths, q \in Schema : q \in Below[p] /\ q # p => Len(p) < Len(q)
  /\ \A p, q, r \in Schema : r \in Below[p] /\ r \in Below[q] /\ Len(p) <= Len(q) => q \in Below[p]
<1>1. ASSUME NEW p \in Schema PROVE p \in Below[p]
  BY BelowIs, PathsAre
<1>2. ASSUME NEW p \in Paths, NEW q \in Below[p] PROVE q \in Schema
  BY BelowIs
<1>3. ASSUME NEW p \in Paths, NEW q \in Schema, NEW r \in Schema, q \in Below[p], r \in Below[q]
      PROVE  r \in Below[p]
  <2>1. q \in Paths /\ r \in Paths /\ Len(p) \in Nat /\ Len(q) \in Nat /\ Len(r) \in Nat
    BY PathsAre
  <2>2. /\ Len(p) <= Len(q) /\ Len(q) <= Len(r)
        /\ \A i \in 1..Len(p) : p[i] = q[i]
        /\ \A i \in 1..Len(q) : q[i] = r[i]
    BY <1>3, <2>1, BelowIs
  <2>3. Len(p) <= Len(r) /\ \A i \in 1..Len(p) : p[i] = r[i]
    BY <2>1, <2>2
  <2> QED
    BY <2>3, BelowIs
<1>4. ASSUME NEW p \in Paths, NEW q \in Schema, q \in Below[p], q # p PROVE Len(p) < Len(q)
  <2>1. q \in Paths /\ Len(p) \in Nat /\ Len(q) \in Nat
    BY PathsAre
  <2>2. Len(p) <= Len(q) /\ \A i \in 1..Len(p) : p[i] = q[i]
    BY <1>4, BelowIs
  <2>3. Len(p) # Len(q)
    BY <1>4, <2>1, <2>2, SamePath
  <2> QED
    BY <2>1, <2>2, <2>3
<1>5. ASSUME NEW p \in Schema, NEW q \in Schema, NEW r \in Schema,
             r \in Below[p], r \in Below[q], Len(p) <= Len(q)
      PROVE  q \in Below[p]
  <2>1. p \in Paths /\ q \in Paths /\ Len(p) \in Nat /\ Len(q) \in Nat
    BY PathsAre
  <2>2. /\ \A i \in 1..Len(p) : p[i] = r[i]
        /\ \A i \in 1..Len(q) : q[i] = r[i]
    BY <1>5, <2>1, BelowIs
  <2>3. \A i \in 1..Len(p) : p[i] = q[i]
    BY <1>5, <2>1, <2>2
  <2> QED
    BY <1>5, <2>1, <2>3, BelowIs
<1> QED
  BY <1>1, <1>2, <1>3, <1>4, <1>5

\* The parents of a path are the paths that have it below them.
LEMMA ParentsAbove ==
  ASSUME NEW p \in Schema, NEW q
  PROVE  q \in Parents[p] <=> q \in Schema /\ p \in Below[q] /\ q # p
BY PathsAre DEF Parents, Below

\* The path one key shorter.
LEMMA FrontIs ==
  ASSUME NEW q \in Schema
  PROVE  /\ Front(q) \in Paths /\ Len(Front(q)) = Len(q) - 1
         /\ \A i \in 1..(Len(q) - 1) : Front(q)[i] = q[i]
         /\ q \in Below[Front(q)] /\ Front(q) # q
         /\ Len(q) > 1 => Front(q) \in Schema
         /\ Len(q) = 1 => Front(q) = Root
<1>1. q \in Seq(Names) /\ Len(q) \in Nat /\ Len(q) > 0 /\ Root \in Paths
  BY PathsAre
<1>2. Len(Front(q)) = Len(q) - 1 /\ \A i \in 1..(Len(q) - 1) : Front(q)[i] = q[i]
  <2>1. 1 \in 1..(Len(q) + 1) /\ Len(q) - 1 \in 0..Len(q) /\ Len(q) - 1 \in (1 - 1)..Len(q)
    BY <1>1
  <2>2. Front(q) = [i \in 1..(Len(q) - 1) |-> q[i]]
    BY <1>1, <2>1 DEF Front
  <2>3. Front(q) \in Seq(Names)
    BY <1>1, <2>1, <2>2 DEF Front
  <2> QED
    BY <1>1, <2>1, <2>2, <2>3
<1>3. Len(q) = 1 => Front(q) = Root
  BY <1>1 DEF Front, Root
<1>4. Len(q) > 1 => Front(q) \in Schema
  BY SchemaAssumption
<1>5. Front(q) \in Paths
  <2>1. CASE Len(q) = 1
    BY <1>1, <1>3, <2>1
  <2>2. CASE Len(q) # 1
    BY <1>1, <1>4, <2>2 DEF Paths
  <2> QED
    BY <2>1, <2>2
<1>6. q \in Below[Front(q)]
  BY <1>1, <1>2, <1>5, BelowIs
<1> QED
  BY <1>1, <1>2, <1>3, <1>4, <1>5, <1>6

\* What is above a path is its parent or above that.
LEMMA AboveFront ==
  ASSUME NEW p \in Paths, NEW q \in Below[p], p # q
  PROVE  IF Front(q) = p THEN TRUE ELSE Front(q) \in Schema /\ Front(q) \in Below[p]
<1>1. /\ q \in Schema /\ Len(p) <= Len(q) /\ Len(p) \in Nat /\ Len(q) \in Nat
      /\ \A i \in 1..Len(p) : p[i] = q[i]
  BY BelowIs, PathsAre
<1>2. Len(p) < Len(q)
  BY <1>1, BelowOrders
<1>3. /\ Front(q) \in Paths /\ Len(Front(q)) = Len(q) - 1
      /\ \A i \in 1..(Len(q) - 1) : Front(q)[i] = q[i]
      /\ Len(q) > 1 => Front(q) \in Schema
      /\ Len(q) = 1 => Front(q) = Root
  BY <1>1, FrontIs
<1>4. \A i \in 1..Len(p) : p[i] = Front(q)[i]
  BY <1>1, <1>2, <1>3
<1>5. CASE Len(p) = Len(q) - 1
  BY <1>3, <1>4, <1>5, SamePath
<1>6. CASE Len(p) < Len(q) - 1
  <2>1. Front(q) \in Schema
    BY <1>1, <1>3, <1>6
  <2> QED
    BY <1>1, <1>3, <1>4, <1>6, <2>1, BelowIs
<1> QED
  BY <1>1, <1>2, <1>5, <1>6

\* The children of a path are the registered paths it is the parent of.
LEMMA ChildrenAre ==
  ASSUME NEW p \in Paths, NEW q
  PROVE  q \in Children[p] <=> q \in Schema /\ Front(q) = p
<1>1. ASSUME q \in Children[p] PROVE q \in Schema /\ Front(q) = p
  <2>1. q \in Below[p] /\ Len(q) = Len(p) + 1
    BY <1>1 DEF Children
  <2>2. q \in Schema /\ q # p /\ Len(p) \in Nat
    BY <2>1, BelowIs, PathsAre
  <2>3. Front(q) # p => Front(q) \in Below[p] /\ Front(q) \in Schema
    BY <2>1, <2>2, AboveFront
  <2>4. Front(q) # p => Len(p) < Len(Front(q))
    BY <2>3, BelowOrders
  <2> QED
    BY <2>1, <2>2, <2>4, FrontIs
<1>2. ASSUME q \in Schema, Front(q) = p PROVE q \in Children[p]
  <2>1. q \in Below[p] /\ Len(p) = Len(q) - 1
    BY <1>2, FrontIs
  <2>2. Len(q) \in Nat
    BY <1>2, PathsAre
  <2> QED
    BY <2>1, <2>2 DEF Children
<1> QED
  BY <1>1, <1>2

\* A key names one child.
LEMMA KeysAre ==
  ASSUME NEW p \in Paths
  PROVE  /\ \A q \in Children[p] : Last(q) \in Keys[p] /\ Append(p, Last(q)) = q
         /\ \A k \in Keys[p] : Append(p, k) \in Children[p] /\ Last(Append(p, k)) = k
<1>1. ASSUME NEW q \in Children[p] PROVE Last(q) \in Keys[p] /\ Append(p, Last(q)) = q
  <2>1. q \in Schema /\ Front(q) = p
    BY ChildrenAre
  <2>2. q \in Seq(Names) /\ p \in Seq(Names) /\ Len(q) \in Nat /\ Len(q) > 0 /\ Len(p) = Len(q) - 1
    BY <2>1, PathsAre, FrontIs
  <2>3. Last(q) \in Names
    BY <2>2 DEF Last
  <2>4. Append(p, Last(q)) \in Seq(Names) /\ Len(Append(p, Last(q))) = Len(q)
    BY <2>2, <2>3
  <2>5. \A i \in 1..(Len(q) - 1) : p[i] = q[i]
    BY <2>1, FrontIs
  <2>6. \A i \in 1..Len(q) : Append(p, Last(q))[i] = q[i]
    BY <2>2, <2>3, <2>5 DEF Last
  <2>7. Append(p, Last(q)) = q
    BY <2>2, <2>4, <2>6, SeqEqual
  <2> QED
    BY <2>7 DEF Keys
<1>2. ASSUME NEW k \in Keys[p] PROVE Append(p, k) \in Children[p] /\ Last(Append(p, k)) = k
  <2>1. PICK q \in Children[p] : k = Last(q)
    BY DEF Keys
  <2> QED
    BY <1>1, <2>1
<1> QED
  BY <1>1, <1>2

-------------------------------------------------------------------------------
(* Induction on lengths, by the least counterexample. *)

\* A set of natural numbers that is not empty has a least one.
LEMMA Least ==
  ASSUME NEW T \in SUBSET Nat, T # {}
  PROVE  \E x \in T : \A y \in T : x <= y
<1> DEFINE R == OpToRel(<, Nat)
<1>1. IsWellFoundedOn(R, Nat)
  BY NatLessThanWellFounded
<1>2. \A x, y \in Nat : <<y, x>> \in R <=> y < x
  BY DEF OpToRel
<1> HIDE DEF R
<1>3. \E x \in T : \A y \in T : ~(<<y, x>> \in R)
  BY <1>1, WFMin, Zenon
<1>4. PICK x \in T : \A y \in T : ~(<<y, x>> \in R)
  BY <1>3
<1>5. ASSUME NEW y \in T PROVE x <= y
  <2>1. ~(y < x)
    BY <1>2, <1>4
  <2> QED
    BY <2>1
<1> QED
  BY <1>5

\* Paths are bounded in length.
LEMMA Longest == \E d \in Nat : \A p \in Paths : Len(p) < d
<1>1. PICK longest \in Paths : \A p \in Schema : Len(p) <= Len(longest)
  BY SchemaAssumption
<1>2. Len(longest) + 1 \in Nat /\ \A p \in Paths : Len(p) < Len(longest) + 1
  BY <1>1, PathsAre DEF Paths
<1> QED
  BY <1>2

-------------------------------------------------------------------------------
(* What declarations look like *)

Marks == {Removal} \cup [kind : {"set"}, value : Scalars \cup {Empty}]

\* The declarations of a node: presence and values at registered paths.
IntentOK(D) ==
  /\ D \in [DOMAIN D -> Marks] /\ DOMAIN D \subseteq Schema
  /\ Projectable(D)

\* What a patch declares at and under its path, complete in itself.
DeclaresOK(C, p) ==
  /\ C \in [DOMAIN C -> Marks] /\ DOMAIN C \subseteq Below[p]
  /\ \A r \in DOMAIN C : r # p /\ Len(r) > 1 => Front(r) \in DOMAIN C /\ C[Front(r)] = Set(Empty)

\* Removal, presence and values are told apart.
LEMMA MarksAre ==
  /\ Removal \in Marks /\ Set(Empty) \in Marks /\ Undeclared \notin Marks
  /\ \A v : Removal # Set(v) /\ Undeclared # Set(v) /\ Set(v).value = v
  /\ \A v, w : Set(v) = Set(w) => v = w
  /\ \A v \in Scalars \cup {Empty} : Set(v) \in Marks
  /\ \A m \in Marks : m # Removal => m = Set(m.value)
  /\ \A m \in Marks : m # Removal /\ IsObject(m.value) => m = Set(Empty)
<1>1. \A v : Set(v).kind = "set" /\ Set(v).value = v
  BY DEF Set
<1>2. Removal.kind = "remove" /\ Undeclared.kind = "undeclared"
  BY DEF Removal, Undeclared
<1>3. \A v : Removal # Set(v) /\ Undeclared # Set(v)
  BY <1>1, <1>2
<1>4. \A v \in Scalars \cup {Empty} : Set(v) \in Marks
  BY DEF Set, Marks
<1>5. \A m \in Marks : m # Removal => m = Set(m.value) /\ m.value \in Scalars \cup {Empty}
  BY DEF Marks, Set
<1>6. Undeclared \notin Marks
  <2>1. \A m \in Marks : m.kind \in {"remove", "set"}
    BY DEF Marks, Removal
  <2> QED
    BY <1>2, <2>1
<1>7. \A m \in Marks : m # Removal /\ IsObject(m.value) => m = Set(Empty)
  BY <1>5 DEF IsObject
<1>8. Removal \in Marks
  BY DEF Marks
<1>9. \A v, w : Set(v) = Set(w) => v = w
  BY <1>1
<1> QED
  BY <1>1, <1>3, <1>4, <1>5, <1>6, <1>7, <1>8, <1>9

\* Declarations project when each has a present object over it.
LEMMA ProjectableIs ==
  ASSUME NEW D, D \in [DOMAIN D -> Marks], DOMAIN D \subseteq Schema
  PROVE  Projectable(D) <=> \A r \in DOMAIN D : Len(r) > 1 => /\ Front(r) \in DOMAIN D
                                                              /\ D[Front(r)] = Set(Empty)
<1>1. ASSUME NEW r \in DOMAIN D, D[r] # Removal, IsObject(D[r].value) PROVE D[r].value = Empty
  <2>1. D[r] \in Marks
    OBVIOUS
  <2>2. D[r] = Set(Empty)
    BY <1>1, <2>1, MarksAre
  <2> QED
    BY <2>2, MarksAre
<1> QED
  BY <1>1 DEF Projectable, Declared

\* A restriction keeps what it does not drop.
LEMMA RestrictIs ==
  ASSUME NEW D, NEW S
  PROVE  DOMAIN Restrict(D, S) = S /\ \A q \in S : Restrict(D, S)[q] = D[q]
BY DEF Restrict

\* Everything over a declared path is a present object.
LEMMA DeclaredAbove ==
  ASSUME NEW D, IntentOK(D), NEW q \in DOMAIN D, NEW p \in Schema, q \in Below[p], p # q
  PROVE  p \in DOMAIN D /\ D[p] = Set(Empty)
<1> DEFINE Others == {r \in DOMAIN D : r \in Below[p] /\ r # p}
           T == {Len(r) : r \in Others}
<1> SUFFICES ASSUME ~(p \in DOMAIN D /\ D[p] = Set(Empty)) PROVE FALSE
  OBVIOUS
<1>1. T \in SUBSET Nat /\ T # {} /\ p \in Paths
  BY PathsAre DEF IntentOK
<1> HIDE DEF T
<1>2. PICK n \in T : \A m \in T : n <= m
  BY <1>1, Least
<1>3. PICK r \in Others : n = Len(r)
  BY <1>2 DEF T
<1>4. r \in Schema /\ r \in Below[p] /\ r # p /\ Len(r) > 1 /\ Len(r) \in Nat
  <2>1. r \in Schema /\ r \in Below[p] /\ r # p
    BY <1>3 DEF IntentOK
  <2>2. Len(p) < Len(r) /\ Len(p) \in Nat /\ Len(r) \in Nat /\ Len(p) > 0
    BY <1>1, <2>1, BelowOrders, PathsAre
  <2> QED
    BY <2>1, <2>2
<1>5. Front(r) \in DOMAIN D /\ D[Front(r)] = Set(Empty)
  BY <1>3, <1>4, ProjectableIs DEF IntentOK
<1>6. Front(r) # p
  BY <1>5
<1>7. Front(r) \in Others
  BY <1>1, <1>4, <1>5, <1>6, AboveFront
<1>8. Len(Front(r)) \in T
  BY <1>7 DEF T
<1>9. n <= Len(Front(r))
  BY <1>2, <1>8
<1>10. Len(Front(r)) = Len(r) - 1
  BY <1>4, FrontIs
<1> QED
  BY <1>3, <1>4, <1>9, <1>10

-------------------------------------------------------------------------------
(* The declarations of a value *)

PartOf(part, p, v, q) ==
  IF q = p THEN {v}
  ELSE {w[Last(q)] : w \in {u \in part[Front(q)] : IsObject(u) /\ Last(q) \in DOMAIN u}}

\* Parts follows the value down the tree.
LEMMA PartsAre ==
  ASSUME NEW p \in Paths, NEW v
  PROVE  Parts(p, v) = [q \in Below[p] \cup {p} |-> PartOf(Parts(p, v), p, v, q)]
<1> DEFINE W == Below[p] \cup {p}
           Upto(n) == {q \in W : Len(q) < n}
           T == {n \in Nat : ~\E f : f = [q \in Upto(n) |-> PartOf(f, p, v, q)]}
<1>1. W \subseteq Paths
  BY BelowIs, PathsAre
<1>2. T = {}
  <2> SUFFICES ASSUME T # {} PROVE FALSE
    OBVIOUS
  <2>1. T \in SUBSET Nat
    OBVIOUS
  <2>2. PICK n \in T : \A m \in T : n <= m
    <3> HIDE DEF T
    <3> QED
      BY <2>1, Least
  <2>3. n \in Nat /\ ~\E f : f = [q \in Upto(n) |-> PartOf(f, p, v, q)]
    OBVIOUS
  <2>4. n # 0
    <3> SUFFICES ASSUME n = 0 PROVE FALSE
      OBVIOUS
    <3>1. Upto(n) = {}
      BY <1>1, PathsAre
    <3> DEFINE f == [q \in {} |-> {}]
    <3>2. f = [q \in Upto(n) |-> PartOf(f, p, v, q)]
      BY <3>1
    <3> QED
      BY <2>3, <3>2
  <2>5. PICK f : f = [q \in Upto(n - 1) |-> PartOf(f, p, v, q)]
    <3>1. n - 1 \in Nat /\ ~(n <= n - 1)
      BY <2>3, <2>4
    <3>2. n - 1 \notin T
      BY <2>2, <3>1
    <3> QED
      BY <3>1, <3>2
  <2> DEFINE g == [q \in Upto(n) |-> PartOf(f, p, v, q)]
  <2>6. ASSUME NEW q \in Upto(n) PROVE PartOf(f, p, v, q) = PartOf(g, p, v, q)
    <3>1. CASE q = p
      BY <3>1 DEF PartOf
    <3>2. CASE q # p
      <4>1. q \in Below[p] /\ q \in Schema /\ Len(q) < n /\ Len(q) \in Nat
        BY <3>2, BelowIs, PathsAre
      <4>2. Front(q) \in W /\ Len(Front(q)) = Len(q) - 1
        BY <3>2, <4>1, AboveFront, FrontIs
      <4>3. Front(q) \in Upto(n - 1) /\ Front(q) \in Upto(n)
        BY <2>3, <4>1, <4>2
      <4>4. f[Front(q)] = PartOf(f, p, v, Front(q))
        <5> HIDE DEF Upto, W
        <5> QED
          BY <2>5, <4>3
      <4>5. g[Front(q)] = f[Front(q)]
        <5> HIDE DEF Upto, W
        <5> QED
          BY <4>3, <4>4
      <4> QED
        BY <3>2, <4>5 DEF PartOf
    <3> QED
      BY <3>1, <3>2
  <2>7. g = [q \in Upto(n) |-> PartOf(g, p, v, q)]
    <3> HIDE DEF Upto, W
    <3> QED
      BY <2>6
  <2> QED
    BY <2>3, <2>7
<1>3. PICK d \in Nat : \A q \in Paths : Len(q) < d
  BY Longest
<1>4. Upto(d) = W
  BY <1>1, <1>3
<1>5. \E f : f = [q \in W |-> PartOf(f, p, v, q)]
  <2>1. d \notin T
    BY <1>2
  <2>2. \E f : f = [q \in Upto(d) |-> PartOf(f, p, v, q)]
    BY <2>1
  <2> QED
    BY <1>4, <2>2
<1> HIDE DEF T, Upto
<1>6. Parts(p, v) = CHOOSE f : f = [q \in W |-> PartOf(f, p, v, q)]
  BY DEF Parts, PartOf
<1> QED
  BY <1>5, <1>6

\* A value has one part at a path, or none.
LEMMA OnePart ==
  ASSUME NEW p \in Paths, NEW v, NEW q \in Below[p] \cup {p},
         NEW u \in Parts(p, v)[q], NEW w \in Parts(p, v)[q]
  PROVE  u = w
<1> DEFINE part == Parts(p, v)
           Twice == {r \in Below[p] \cup {p} : \E a, b \in part[r] : a # b}
           T == {Len(r) : r \in Twice}
<1> SUFFICES ASSUME u # w PROVE FALSE
  OBVIOUS
<1>1. \A r \in Below[p] \cup {p} : r \in Paths /\ Len(r) \in Nat
  BY BelowIs, PathsAre
<1>2. T \in SUBSET Nat /\ T # {}
  <2>1. q \in Twice
    OBVIOUS
  <2>2. Len(q) \in T
    BY <2>1
  <2> QED
    BY <1>1, <2>2
<1> HIDE DEF T
<1>3. PICK n \in T : \A m \in T : n <= m
  BY <1>2, Least
<1>4. PICK r \in Twice : n = Len(r)
  BY <1>3 DEF T
<1>5. PICK a \in part[r], b \in part[r] : a # b
  BY <1>4
<1>6. part[r] = PartOf(part, p, v, r)
  BY <1>4, PartsAre
<1>7. r # p
  BY <1>5, <1>6 DEF PartOf
<1>8. PICK c \in part[Front(r)], d \in part[Front(r)] : a = c[Last(r)] /\ b = d[Last(r)]
  BY <1>5, <1>6, <1>7 DEF PartOf
<1>9. c # d
  BY <1>5, <1>8
<1>10. r \in Below[p] /\ r \in Schema
  BY <1>4, <1>7, BelowIs
<1>11. Front(r) \in Below[p] \cup {p} /\ Len(Front(r)) = Len(r) - 1
  BY <1>7, <1>10, AboveFront, FrontIs
<1>12. Front(r) \in Twice
  BY <1>8, <1>9, <1>11
<1>13. Len(Front(r)) \in T
  BY <1>12 DEF T
<1> QED
  BY <1>1, <1>3, <1>4, <1>11, <1>13

\* The declarations of a value are complete in themselves: an object comes before its
\* content.
LEMMA DeclareOK ==
  ASSUME NEW p \in Paths, NEW v
  PROVE  DeclaresOK(Declare(p, v), p)
<1> DEFINE part == Parts(p, v)
           C == Declare(p, v)
<1>0. /\ DOMAIN C = {q \in Below[p] : part[q] # {}}
      /\ \A q \in DOMAIN C : C[q] = Set(Presence(CHOOSE w \in part[q] : TRUE))
      /\ C = [q \in DOMAIN C |-> C[q]]
  BY DEF Declare
<1>1. \A w : Presence(w) \in Scalars \cup {Empty}
  BY DEF Presence, IsObject
<1> HIDE DEF C
<1>2. DOMAIN C \subseteq Below[p] /\ \A q \in DOMAIN C : C[q] \in Marks
  BY <1>0, <1>1, MarksAre
<1>3. C \in [DOMAIN C -> Marks]
  BY <1>0, <1>2
<1>4. ASSUME NEW r \in DOMAIN C, r # p, Len(r) > 1
      PROVE  Front(r) \in DOMAIN C /\ C[Front(r)] = Set(Empty)
  <2>1. r \in Below[p] /\ part[r] # {} /\ r \in Schema /\ Front(r) \in Schema
    BY <1>0, <1>4, BelowIs, FrontIs
  <2>2. part[r] = PartOf(part, p, v, r)
    BY <2>1, PartsAre
  <2>3. PICK u \in part[Front(r)] : IsObject(u)
    BY <1>4, <2>1, <2>2 DEF PartOf
  <2>4. Front(r) \in Below[p]
    BY <1>4, <2>1, AboveFront, BelowOrders
  <2>5. Front(r) \in DOMAIN C
    BY <1>0, <2>3, <2>4
  <2>6. (CHOOSE w \in part[Front(r)] : TRUE) = u
    BY <2>3, <2>4, OnePart
  <2> QED
    BY <1>0, <2>3, <2>5, <2>6 DEF Presence
<1> QED
  BY <1>2, <1>3, <1>4 DEF DeclaresOK, C

-------------------------------------------------------------------------------
(* One edit, path by path *)

Cell(D, r) == IF r \in DOMAIN D THEN D[r] ELSE Undeclared

Plain(D) == D \in [DOMAIN D -> Marks] /\ DOMAIN D \subseteq Schema

\* The declarations C come in at path p.
Edited(C, D, p) == Over(C, Cut(Expand(D, p), p))

\* What is said of a path, undeclared included.
LEMMA CellsAre ==
  ASSUME NEW D, Plain(D), NEW r
  PROVE  /\ r \in DOMAIN D <=> Cell(D, r) # Undeclared
         /\ Cell(D, r) \in Marks \cup {Undeclared}
         /\ Removed(D, r) <=> Cell(D, r) = Removal
         /\ Undeclared # Removal
BY MarksAre DEF Cell, Plain, Removed, Declared

\* Declarations that say the same of every path are the same.
LEMMA CellsDecide ==
  ASSUME NEW D, NEW E, Plain(D), Plain(E), \A r \in Schema : Cell(D, r) = Cell(E, r)
  PROVE  D = E
<1>1. DOMAIN D = DOMAIN E
  BY CellsAre DEF Plain
<1>2. \A r \in DOMAIN D : D[r] = E[r]
  BY <1>1 DEF Plain, Cell
<1> QED
  BY <1>1, <1>2 DEF Plain

\* Removed, itself or by way of a parent.
LEMMA GoneIs ==
  ASSUME NEW D, Plain(D), NEW w \in Schema
  PROVE  Gone(D, w) <=> \E u \in Schema : w \in Below[u] /\ Cell(D, u) = Removal
BY BelowOrders, ParentsAbove, CellsAre DEF Gone

\* What is cleared has a removed parent on the way to the edited path.
LEMMA ClearedIs ==
  ASSUME NEW D, NEW p \in Schema, NEW r
  PROVE  r \in Cleared(D, p) <=> r \in Schema /\ Front(r) \in Parents[p] /\ Gone(D, Front(r))
<1>1. \A q \in Parents[p] : q \in Paths
  BY ParentsAbove, PathsAre
<1>2. r \in Cleared(D, p) <=> \E q \in Parents[p] : Gone(D, q) /\ r \in Children[q]
  BY DEF Cleared
<1>3. \A q \in Parents[p] : r \in Children[q] <=> r \in Schema /\ Front(r) = q
  BY <1>1, ChildrenAre
<1> QED
  BY <1>2, <1>3

\* What an edit leaves declared at each path.
LEMMA EditedIs ==
  ASSUME NEW C, NEW D, NEW p \in Schema, Plain(C), Plain(D), DOMAIN C \subseteq Below[p]
  PROVE  /\ Plain(Edited(C, D, p))
         /\ \A r \in Schema : Cell(Edited(C, D, p), r) =
              IF r \in Below[p] THEN Cell(C, r)
              ELSE IF r \in Parents[p] THEN Set(Empty)
              ELSE IF r \in Cleared(D, p) THEN Removal
              ELSE Cell(D, r)
<1> DEFINE P == [q \in Parents[p] |-> Set(Empty)]
           R == [q \in Cleared(D, p) |-> Removal]
           RD == Over(R, D)
           X == Expand(D, p)
           Y == Cut(X, p)
           E == Edited(C, D, p)
<1>0. /\ DOMAIN R = Cleared(D, p) /\ \A r \in Cleared(D, p) : R[r] = Removal
      /\ DOMAIN P = Parents[p] /\ \A r \in Parents[p] : P[r] = Set(Empty)
  OBVIOUS
<1>2. X = Over(P, RD)
  BY DEF Expand
<1> HIDE DEF X, P, R
<1>1. /\ DOMAIN RD = Cleared(D, p) \cup DOMAIN D
      /\ \A r \in Cleared(D, p) : RD[r] = Removal
      /\ \A r \in DOMAIN D \ Cleared(D, p) : RD[r] = D[r]
  <2>1. RD = [r \in DOMAIN R \cup DOMAIN D |-> IF r \in DOMAIN R THEN R[r] ELSE D[r]]
    BY DEF Over, RD
  <2> HIDE DEF RD
  <2> QED
    BY <1>0, <2>1
<1> HIDE DEF RD
<1>3. /\ DOMAIN X = Parents[p] \cup DOMAIN RD
      /\ \A r \in Parents[p] : X[r] = Set(Empty)
      /\ \A r \in DOMAIN RD \ Parents[p] : X[r] = RD[r]
  <2>1. X = [r \in DOMAIN P \cup DOMAIN RD |-> IF r \in DOMAIN P THEN P[r] ELSE RD[r]]
    BY <1>2 DEF Over
  <2> QED
    BY <1>0, <2>1
<1>4. DOMAIN Y = DOMAIN X \ Below[p] /\ \A r \in DOMAIN Y : Y[r] = X[r]
  BY RestrictIs DEF Cut
<1> HIDE DEF Y
<1>5. E = Over(C, Y)
  BY DEF Edited, X, Y
<1> HIDE DEF E
<1>6. /\ DOMAIN E = DOMAIN C \cup DOMAIN Y
      /\ \A q \in DOMAIN C : E[q] = C[q]
      /\ \A q \in DOMAIN Y \ DOMAIN C : E[q] = Y[q]
      /\ E = [q \in DOMAIN E |-> E[q]]
  BY <1>5 DEF Over
<1>7. Cleared(D, p) \subseteq Schema /\ Parents[p] \subseteq Schema /\ Below[p] \subseteq Schema
  BY ClearedIs, ParentsAbove, BelowOrders, PathsAre
<1>8. \A r \in DOMAIN E : E[r] \in Marks
  <2>1. \A r \in DOMAIN RD : RD[r] \in Marks
    BY <1>1, MarksAre DEF Plain
  <2>2. \A r \in DOMAIN X : X[r] \in Marks
    BY <1>3, <2>1, MarksAre
  <2>3. \A r \in DOMAIN Y : Y[r] \in Marks
    BY <1>4, <2>2
  <2>4. \A r \in DOMAIN C : C[r] \in Marks
    BY DEF Plain
  <2> QED
    BY <1>6, <2>3, <2>4
<1>9. Plain(E)
  <2>1. E \in [DOMAIN E -> Marks]
    BY <1>6, <1>8
  <2>2. DOMAIN E \subseteq Schema
    BY <1>1, <1>3, <1>4, <1>6, <1>7 DEF Plain
  <2> QED
    BY <2>1, <2>2 DEF Plain
<1>10. ASSUME NEW r \in Schema
       PROVE  Cell(E, r) = IF r \in Below[p] THEN Cell(C, r)
                           ELSE IF r \in Parents[p] THEN Set(Empty)
                           ELSE IF r \in Cleared(D, p) THEN Removal
                           ELSE Cell(D, r)
  <2>1. CASE r \in Below[p]
    BY <1>4, <1>6, <2>1 DEF Cell
  <2>2. CASE r \notin Below[p] /\ r \in Parents[p]
    BY <1>3, <1>4, <1>6, <2>2 DEF Cell
  <2>3. CASE r \notin Below[p] /\ r \notin Parents[p] /\ r \in Cleared(D, p)
    BY <1>1, <1>3, <1>4, <1>6, <2>3 DEF Cell
  <2>4. CASE r \notin Below[p] /\ r \notin Parents[p] /\ r \notin Cleared(D, p)
    BY <1>1, <1>3, <1>4, <1>6, <2>4 DEF Cell
  <2> QED
    BY <2>1, <2>2, <2>3, <2>4
<1> QED
  BY <1>9, <1>10 DEF E

\* What a patch declares lies at or below its path.
LEMMA AsDeclared ==
  ASSUME NEW C, NEW p \in Schema, DeclaresOK(C, p)
  PROVE  Plain(C) /\ DOMAIN C \subseteq Below[p]
BY PathsAre, BelowOrders DEF DeclaresOK, Plain

\* Consistent declarations, path by path.
LEMMA IntentIs ==
  ASSUME NEW D
  PROVE  IntentOK(D) <=>
           Plain(D) /\ \A r \in DOMAIN D : Len(r) > 1 => Cell(D, Front(r)) = Set(Empty)
<1>1. IntentOK(D) <=> Plain(D) /\ Projectable(D)
  BY DEF IntentOK, Plain
<1>2. ASSUME Plain(D), NEW r \in DOMAIN D
      PROVE  Cell(D, Front(r)) = Set(Empty) <=> Front(r) \in DOMAIN D /\ D[Front(r)] = Set(Empty)
  BY MarksAre DEF Cell
<1> QED
  BY <1>1, <1>2, ProjectableIs DEF Plain

\* No edit leaves a declaration without a present object over it: what was on the way
\* comes back, and the rest was complete.
LEMMA EditedOK ==
  ASSUME NEW C, NEW D, NEW p \in Schema, IntentOK(D), DeclaresOK(C, p)
  PROVE  IntentOK(Edited(C, D, p))
<1> DEFINE E == Edited(C, D, p)
<1>1. Plain(C) /\ Plain(D) /\ DOMAIN C \subseteq Below[p] /\ p \in Paths
  BY AsDeclared, IntentIs, PathsAre
<1>2. /\ Plain(E)
      /\ \A r \in Schema : Cell(E, r) = IF r \in Below[p] THEN Cell(C, r)
                                        ELSE IF r \in Parents[p] THEN Set(Empty)
                                        ELSE IF r \in Cleared(D, p) THEN Removal
                                        ELSE Cell(D, r)
  BY <1>1, EditedIs
<1> HIDE DEF E
<1>3. ASSUME NEW r \in DOMAIN E, Len(r) > 1 PROVE Cell(E, Front(r)) = Set(Empty)
  <2> DEFINE f == Front(r)
  <2>1. r \in Schema /\ f \in Schema /\ r \in Below[f] /\ f # r /\ Len(f) = Len(r) - 1
    BY <1>2, <1>3, FrontIs DEF Plain
  <2>2. Cell(E, r) # Undeclared
    BY <1>2, CellsAre
  <2> HIDE DEF f
  <2>3. CASE r = p
    <3>1. f \in Parents[p]
      BY <2>1, <2>3, ParentsAbove
    <3>2. f \notin Below[p]
      BY <1>1, <2>1, <2>3, BelowOrders, PathsAre
    <3> QED
      BY <1>2, <2>1, <3>1, <3>2 DEF f
  <2>4. CASE r \in Below[p] /\ r # p
    <3>1. r \in DOMAIN C
      BY <1>1, <1>2, <2>1, <2>2, <2>4, CellsAre
    <3>2. f \in DOMAIN C /\ C[f] = Set(Empty)
      BY <1>3, <2>4, <3>1 DEF DeclaresOK, f
    <3> QED
      BY <1>1, <1>2, <2>1, <3>2 DEF Cell, f
  <2>5. CASE r \notin Below[p]
    <3>1. f \notin Below[p]
      BY <1>1, <2>1, <2>5, BelowOrders
    <3>2. CASE r \in Parents[p] \/ r \in Cleared(D, p)
      <4>1. f \in Parents[p]
        <5>1. CASE r \in Parents[p]
          <6>1. p \in Below[f]
            BY <1>1, <2>1, <5>1, BelowOrders, ParentsAbove, PathsAre
          <6>2. p # f
            BY <3>1, BelowOrders
          <6> QED
            BY <2>1, <6>1, <6>2, ParentsAbove
        <5>2. CASE r \in Cleared(D, p)
          BY <5>2, ClearedIs DEF f
        <5> QED
          BY <3>2, <5>1, <5>2
      <4> QED
        BY <1>2, <2>1, <3>1, <4>1 DEF f
    <3>3. CASE r \notin Parents[p] /\ r \notin Cleared(D, p)
      <4>1. Cell(D, r) # Undeclared
        BY <1>2, <2>1, <2>2, <2>5, <3>3
      <4>2. r \in DOMAIN D
        BY <1>1, <4>1, CellsAre
      <4>3. Cell(D, f) = Set(Empty)
        BY <1>3, <4>2, IntentIs DEF f
      <4>4. CASE f \in Parents[p]
        BY <1>2, <2>1, <3>1, <4>4 DEF f
      <4>5. CASE f \notin Parents[p] /\ f \in Cleared(D, p)
        <5>1. Front(f) \in Parents[p] /\ Gone(D, Front(f)) /\ Front(f) \in Schema
          BY <4>5, ClearedIs, ParentsAbove
        <5>2. PICK u \in Schema : Front(f) \in Below[u] /\ Cell(D, u) = Removal
          BY <1>1, <5>1, GoneIs
        <5>3. f \in Below[Front(f)]
          BY <2>1, FrontIs
        <5>4. f \in Below[u]
          BY <2>1, <5>1, <5>2, <5>3, BelowOrders, PathsAre
        <5>5. r \in Below[u]
          BY <2>1, <5>4, BelowOrders, PathsAre
        <5>6. u # r
          BY <2>1, <5>4, BelowOrders, PathsAre
        <5>7. u \in DOMAIN D /\ D[u] = Set(Empty)
          BY <4>2, <5>5, <5>6, DeclaredAbove
        <5> QED
          BY <5>2, <5>7, MarksAre DEF Cell
      <4>6. CASE f \notin Parents[p] /\ f \notin Cleared(D, p)
        BY <1>2, <2>1, <3>1, <4>3, <4>6 DEF f
      <4> QED
        BY <4>4, <4>5, <4>6
    <3> QED
      BY <3>2, <3>3
  <2> QED
    BY <2>3, <2>4, <2>5
<1> QED
  BY <1>2, <1>3, IntentIs DEF E

-------------------------------------------------------------------------------
(* What an edit leaves alone *)

\* The parents on the way are present, and everything over them.
LEMMA NotGoneOnTheWay ==
  ASSUME NEW C, NEW D, NEW p \in Schema, Plain(C), Plain(D), DOMAIN C \subseteq Below[p],
         NEW w \in Parents[p]
  PROVE  ~Gone(Edited(C, D, p), w)
<1> DEFINE E == Edited(C, D, p)
<1>1. w \in Schema /\ p \in Below[w] /\ w # p /\ p \in Paths /\ w \in Paths
  BY ParentsAbove, PathsAre
<1>2. ASSUME NEW u \in Schema, w \in Below[u] PROVE Cell(E, u) # Removal
  <2>1. p \in Below[u] /\ u \in Paths
    BY <1>1, <1>2, BelowOrders, PathsAre
  <2>2. Len(u) <= Len(w) /\ Len(w) < Len(p) /\ Len(u) \in Nat /\ Len(w) \in Nat /\ Len(p) \in Nat
    BY <1>1, <1>2, <2>1, BelowOrders, BelowIs, PathsAre
  <2>3. u # p /\ u \notin Below[p]
    BY <1>1, <2>2, BelowIs
  <2>4. u \in Parents[p]
    BY <2>1, <2>3, ParentsAbove
  <2>5. Cell(E, u) = Set(Empty)
    BY <2>3, <2>4, EditedIs
  <2> QED
    BY <2>5, MarksAre
<1>3. Plain(E)
  BY EditedIs
<1> HIDE DEF E
<1> QED
  BY <1>1, <1>2, <1>3, GoneIs DEF E

\* A path that is neither over nor under the edited one is removed, itself or by way of
\* a parent, as it was before.
LEMMA GoneStays ==
  ASSUME NEW C, NEW D, NEW p \in Schema, Plain(C), Plain(D), DOMAIN C \subseteq Below[p],
         NEW w \in Schema, w \notin Below[p], p \notin Below[w]
  PROVE  Gone(Edited(C, D, p), w) <=> Gone(D, w)
<1> DEFINE E == Edited(C, D, p)
<1>1. /\ Plain(E)
      /\ \A r \in Schema : Cell(E, r) = IF r \in Below[p] THEN Cell(C, r)
                                        ELSE IF r \in Parents[p] THEN Set(Empty)
                                        ELSE IF r \in Cleared(D, p) THEN Removal
                                        ELSE Cell(D, r)
  BY EditedIs
<1> HIDE DEF E
<1>2. ASSUME NEW u \in Schema, w \in Below[u] PROVE u \notin Below[p]
  BY <1>2, BelowOrders, PathsAre
<1>3. ASSUME Gone(E, w) PROVE Gone(D, w)
  <2>1. PICK u \in Schema : w \in Below[u] /\ Cell(E, u) = Removal
    BY <1>1, <1>3, GoneIs
  <2>2. u \notin Below[p] /\ u \notin Parents[p]
    BY <1>1, <1>2, <2>1, MarksAre
  <2>3. CASE u \in Cleared(D, p)
    <3>1. Front(u) \in Schema /\ Gone(D, Front(u))
      BY <2>3, ClearedIs, ParentsAbove
    <3>2. PICK v \in Schema : Front(u) \in Below[v] /\ Cell(D, v) = Removal
      BY <3>1, GoneIs
    <3>3. u \in Below[v]
      BY <3>1, <3>2, FrontIs, BelowOrders, PathsAre
    <3>4. w \in Below[v]
      BY <2>1, <3>3, BelowOrders, PathsAre
    <3> QED
      BY <3>2, <3>4, GoneIs
  <2>4. CASE u \notin Cleared(D, p)
    BY <1>1, <2>1, <2>2, <2>4, GoneIs
  <2> QED
    BY <2>3, <2>4
<1>4. ASSUME Gone(D, w) PROVE Gone(E, w)
  <2>1. PICK u \in Schema : w \in Below[u] /\ Cell(D, u) = Removal
    BY <1>4, GoneIs
  <2>2. u \notin Below[p]
    BY <1>2, <2>1
  <2>3. CASE u \notin Parents[p]
    <3>1. Cell(E, u) = Removal
      BY <1>1, <2>1, <2>2, <2>3
    <3> QED
      BY <1>1, <2>1, <3>1, GoneIs
  <2>4. CASE u \in Parents[p]
    <3> DEFINE Off == {d \in Schema : w \in Below[d] /\ d \notin Parents[p]}
               T == {Len(d) : d \in Off}
    <3>1. T \in SUBSET Nat /\ T # {}
      <4>1. w \in Off
        BY BelowOrders, ParentsAbove
      <4>2. Len(w) \in T
        BY <4>1
      <4>3. \A d \in Off : Len(d) \in Nat
        BY PathsAre
      <4> QED
        BY <4>2, <4>3
    <3> HIDE DEF T
    <3>2. PICK n \in T : \A m \in T : n <= m
      BY <3>1, Least
    <3>3. PICK d \in Off : n = Len(d)
      BY <3>2 DEF T
    <3>4. d \in Schema /\ w \in Below[d] /\ d \notin Parents[p] /\ d \notin Below[p] /\ d # u
      BY <1>2, <2>4, <3>3
    <3>5. p \in Below[u] /\ u \in Paths /\ d \in Paths /\ Len(u) \in Nat /\ Len(d) \in Nat
      BY <2>4, <3>4, ParentsAbove, PathsAre
    <3>6. d \in Below[u]
      <4>1. CASE Len(u) <= Len(d)
        BY <2>1, <3>4, <4>1, BelowOrders
      <4>2. CASE Len(d) <= Len(u)
        <5>1. u \in Below[d]
          BY <2>1, <3>4, <4>2, BelowOrders
        <5>2. p \in Below[d] /\ d # p
          BY <3>4, <3>5, <5>1, BelowOrders
        <5> QED
          BY <3>4, <5>2, ParentsAbove
      <4> QED
        BY <3>5, <4>1, <4>2
    <3>7. Front(d) \in Schema /\ Front(d) \in Below[u]
      BY <3>4, <3>5, <3>6, AboveFront, BelowOrders
    <3>8. w \in Below[Front(d)] /\ Len(Front(d)) = Len(d) - 1
      BY <3>4, <3>7, FrontIs, BelowOrders, PathsAre
    <3>9. Front(d) \in Parents[p]
      <4> SUFFICES ASSUME Front(d) \notin Parents[p] PROVE FALSE
        OBVIOUS
      <4>1. Len(Front(d)) \in T
        BY <3>7, <3>8 DEF T
      <4> QED
        BY <3>2, <3>3, <3>5, <3>8, <4>1
    <3>10. Gone(D, Front(d))
      BY <2>1, <3>7, GoneIs
    <3>11. Cell(E, d) = Removal
      BY <1>1, <3>4, <3>9, <3>10, ClearedIs
    <3> QED
      BY <1>1, <3>4, <3>11, GoneIs
  <2> QED
    BY <2>3, <2>4
<1> QED
  BY <1>3, <1>4 DEF E

\* Two edits at unrelated paths, whichever comes first.
LEMMA EditedTwice ==
  ASSUME NEW C1, NEW C2, NEW D, NEW p \in Schema, NEW q \in Schema,
         Plain(C1), Plain(C2), Plain(D), DOMAIN C1 \subseteq Below[p], DOMAIN C2 \subseteq Below[q],
         q \notin Below[p], p \notin Below[q],
         NEW r \in Schema
  PROVE  /\ Plain(Edited(C2, Edited(C1, D, p), q))
         /\ Cell(Edited(C2, Edited(C1, D, p), q), r) =
              IF r \in Below[q] THEN Cell(C2, r)
              ELSE IF r \in Below[p] THEN Cell(C1, r)
              ELSE IF r \in Parents[p] \cup Parents[q] THEN Set(Empty)
              ELSE IF r \in Cleared(D, p) \cup Cleared(D, q) THEN Removal
              ELSE Cell(D, r)
<1> DEFINE D1 == Edited(C1, D, p)
           E == Edited(C2, D1, q)
<1>1. /\ Plain(D1)
      /\ Cell(D1, r) = IF r \in Below[p] THEN Cell(C1, r)
                       ELSE IF r \in Parents[p] THEN Set(Empty)
                       ELSE IF r \in Cleared(D, p) THEN Removal
                       ELSE Cell(D, r)
  BY EditedIs
<1>2. \A w \in Parents[p] : ~Gone(D1, w)
  BY NotGoneOnTheWay
<1>3. \A w \in Schema : w \notin Below[p] /\ p \notin Below[w] => (Gone(D1, w) <=> Gone(D, w))
  BY GoneStays
<1> HIDE DEF D1
<1>4. /\ Plain(E)
      /\ Cell(E, r) = IF r \in Below[q] THEN Cell(C2, r)
                      ELSE IF r \in Parents[q] THEN Set(Empty)
                      ELSE IF r \in Cleared(D1, q) THEN Removal
                      ELSE Cell(D1, r)
  BY <1>1, EditedIs
<1> HIDE DEF E
<1>5. ASSUME NEW w \in Parents[q]
      PROVE  /\ w \in Schema /\ w \notin Below[p]
             /\ w \notin Parents[p] => p \notin Below[w]
  <2>1. w \in Schema /\ q \in Below[w]
    BY ParentsAbove
  <2>2. w \notin Below[p]
    BY <2>1, BelowOrders, PathsAre
  <2>3. w # p
    BY <2>2, BelowOrders
  <2> QED
    BY <2>1, <2>2, <2>3, ParentsAbove
<1>6. r \in Cleared(D1, q) <=> Front(r) \in Parents[q] /\ Gone(D1, Front(r))
  BY ClearedIs
<1>7. /\ r \in Cleared(D, q) <=> Front(r) \in Parents[q] /\ Gone(D, Front(r))
      /\ r \in Cleared(D, p) <=> Front(r) \in Parents[p] /\ Gone(D, Front(r))
  BY ClearedIs
<1>8. ASSUME r \in Cleared(D1, q)
      PROVE  r \in Cleared(D, q) /\ r \notin Below[p] /\ r \notin Parents[p]
  <2>1. Front(r) \in Parents[q] /\ Gone(D1, Front(r)) /\ Front(r) \notin Parents[p]
    BY <1>2, <1>6, <1>8
  <2>2. Front(r) \in Schema /\ Front(r) \notin Below[p] /\ p \notin Below[Front(r)]
    BY <1>5, <2>1
  <2>3. r \in Cleared(D, q)
    BY <1>3, <1>7, <2>1, <2>2
  <2>4. r # p
    BY <2>2, FrontIs
  <2>5. r \notin Below[p]
    <3>1. p \in Paths /\ Front(r) # p
      BY <2>2, BelowOrders, PathsAre
    <3> QED
      BY <2>2, <2>4, <3>1, AboveFront
  <2>6. r \notin Parents[p]
    <3> SUFFICES ASSUME r \in Parents[p] PROVE FALSE
      OBVIOUS
    <3>1. p \in Below[r]
      BY ParentsAbove
    <3>2. p \in Below[Front(r)]
      BY <2>2, <3>1, FrontIs, BelowOrders, PathsAre
    <3> QED
      BY <2>2, <3>2
  <2> QED
    BY <2>3, <2>5, <2>6
<1>9. ASSUME r \in Cleared(D, q), r \notin Cleared(D1, q) PROVE r \in Cleared(D, p)
  BY <1>3, <1>5, <1>6, <1>7, <1>9
<1>10. ASSUME r \in Parents[q] PROVE r \notin Below[p]
  BY <1>5, <1>10
<1>11. Cell(E, r) = IF r \in Below[q] THEN Cell(C2, r)
                    ELSE IF r \in Below[p] THEN Cell(C1, r)
                    ELSE IF r \in Parents[p] \cup Parents[q] THEN Set(Empty)
                    ELSE IF r \in Cleared(D, p) \cup Cleared(D, q) THEN Removal
                    ELSE Cell(D, r)
  BY <1>1, <1>4, <1>8, <1>9, <1>10
<1> QED
  BY <1>4, <1>11 DEF E, D1

\* Edits at unrelated paths commute.
LEMMA EditsCommute ==
  ASSUME NEW C1, NEW C2, NEW D, NEW p \in Schema, NEW q \in Schema,
         Plain(C1), Plain(C2), Plain(D), DOMAIN C1 \subseteq Below[p], DOMAIN C2 \subseteq Below[q],
         q \notin Below[p], p \notin Below[q]
  PROVE  Edited(C2, Edited(C1, D, p), q) = Edited(C1, Edited(C2, D, q), p)
<1> DEFINE E == Edited(C2, Edited(C1, D, p), q)
           F == Edited(C1, Edited(C2, D, q), p)
<1>1. Plain(E) /\ Plain(F)
  BY EditedIs
<1>2. ASSUME NEW r \in Schema PROVE Cell(E, r) = Cell(F, r)
  <2>1. r \in Below[p] => r \notin Below[q]
    <3>1. /\ r \in Below[p] /\ r \in Below[q] /\ Len(p) <= Len(q) => q \in Below[p]
          /\ r \in Below[q] /\ r \in Below[p] /\ Len(q) <= Len(p) => p \in Below[q]
      BY BelowOrders
    <3>2. Len(p) <= Len(q) \/ Len(q) <= Len(p)
      BY PathsAre
    <3> QED
      BY <3>1, <3>2
  <2>2. Cell(E, r) = IF r \in Below[q] THEN Cell(C2, r)
                     ELSE IF r \in Below[p] THEN Cell(C1, r)
                     ELSE IF r \in Parents[p] \cup Parents[q] THEN Set(Empty)
                     ELSE IF r \in Cleared(D, p) \cup Cleared(D, q) THEN Removal
                     ELSE Cell(D, r)
    BY EditedTwice
  <2>3. Cell(F, r) = IF r \in Below[p] THEN Cell(C1, r)
                     ELSE IF r \in Below[q] THEN Cell(C2, r)
                     ELSE IF r \in Parents[q] \cup Parents[p] THEN Set(Empty)
                     ELSE IF r \in Cleared(D, q) \cup Cleared(D, p) THEN Removal
                     ELSE Cell(D, r)
    BY EditedTwice
  <2> HIDE DEF E, F
  <2> QED
    BY <2>1, <2>2, <2>3
<1> HIDE DEF E, F
<1>3. E = F
  BY <1>1, <1>2, CellsDecide
<1> QED
  BY <1>3 DEF E, F

-------------------------------------------------------------------------------
(* The invariant and the patches *)

\* Patches address registered paths and set values the schema allows.
LEMMA PatchIs ==
  ASSUME NEW patch \in Patches
  PROVE  /\ patch.path \in Schema
         /\ patch.op \in {"set", "remove", "reset"}
         /\ patch.op = "set" => patch.value \in Legal[patch.path]
<1>1. CASE patch \in [op : {"remove", "reset"}, path : Schema]
  BY <1>1
<1>2. CASE patch \in UNION {[op : {"set"}, path : {p}, value : Legal[p]] : p \in Schema}
  <2>1. PICK p \in Schema : patch \in [op : {"set"}, path : {p}, value : Legal[p]]
    BY <1>2
  <2>2. patch.op = "set" /\ patch.path = p /\ patch.value \in Legal[p]
    BY <2>1
  <2> QED
    BY <2>2
<1> QED
  BY <1>1, <1>2 DEF Patches

\* What a baseline says at and below a path is complete in itself.
LEMMA UnderOK ==
  ASSUME NEW B, IntentOK(B), NEW p \in Schema
  PROVE  DeclaresOK(Under(B, p), p)
<1>1. /\ B \in [DOMAIN B -> Marks] /\ DOMAIN B \subseteq Schema
      /\ \A r \in DOMAIN B : Len(r) > 1 => Front(r) \in DOMAIN B /\ B[Front(r)] = Set(Empty)
  BY ProjectableIs DEF IntentOK
<1> DEFINE U == Under(B, p)
<1>2. U = [r \in DOMAIN B \cap Below[p] |-> B[r]]
  BY DEF Under, Restrict
<1> HIDE DEF U
<1>3. DOMAIN U = DOMAIN B \cap Below[p] /\ U \in [DOMAIN U -> Marks]
  BY <1>1, <1>2
<1>4. ASSUME NEW r \in DOMAIN U, r # p, Len(r) > 1
      PROVE  Front(r) \in DOMAIN U /\ U[Front(r)] = Set(Empty)
  <2>1. r \in DOMAIN B /\ r \in Below[p]
    BY <1>3
  <2>2. Front(r) \in DOMAIN B /\ B[Front(r)] = Set(Empty)
    BY <1>1, <1>4, <2>1
  <2>3. Front(r) \in Below[p]
    BY <1>4, <2>1, AboveFront, BelowOrders, PathsAre
  <2> QED
    BY <1>2, <2>2, <2>3
<1> QED
  BY <1>3, <1>4 DEF DeclaresOK, U

\* Whatever its operation, what a patch declares is complete in itself.
LEMMA DeclaresIs ==
  ASSUME NEW patch \in Patches, IntentOK(baseline)
  PROVE  DeclaresOK(Declares(patch), patch.path)
<1> DEFINE p == patch.path
<1>1. p \in Schema /\ p \in Paths /\ p \in Below[p]
  BY PatchIs, PathsAre, BelowOrders
<1> HIDE DEF p
<1>2. DeclaresOK([q \in {p} |-> Removal], p)
  <2> DEFINE C == [q \in {p} |-> Removal]
  <2>1. DOMAIN C = {p} /\ C \in [DOMAIN C -> Marks]
    BY MarksAre
  <2> HIDE DEF C
  <2>2. DeclaresOK(C, p)
    BY <1>1, <2>1 DEF DeclaresOK
  <2> QED
    BY <2>2 DEF C
<1>3. DeclaresOK(Restored(baseline, p), p)
  BY <1>1, <1>2, UnderOK DEF Restored
<1>4. CASE patch.op = "set"
  BY <1>1, <1>4, DeclareOK DEF Declares, p
<1>5. CASE patch.op = "remove"
  BY <1>2, <1>5 DEF Declares, p
<1>6. CASE patch.op = "reset"
  BY <1>3, <1>6 DEF Declares, p
<1> QED
  BY <1>4, <1>5, <1>6, PatchIs

\* A patch is an edit with the declarations it makes.
LEMMA ApplyIs ==
  ASSUME NEW D, NEW patch
  PROVE  Apply(D, patch) = Edited(Declares(patch), D, patch.path)
BY DEF Apply, Edited

\* A patch on consistent declarations leaves consistent declarations.
LEMMA ApplyOK ==
  ASSUME NEW D, IntentOK(D), IntentOK(baseline), NEW patch \in Patches
  PROVE  IntentOK(Apply(D, patch))
BY ApplyIs, DeclaresIs, PatchIs, EditedOK

\* The inductive invariant: what is stored can be loaded, intent and baseline.
Inv == IntentOK(intents) /\ IntentOK(baseline)

\* A new node has consistent declarations.
LEMMA InvInit == Init => Inv
<1> SUFFICES ASSUME Init PROVE Inv
  OBVIOUS
<1>1. PICK fields \in Legal[Root] : intents = Declare(Root, fields) /\ baseline = intents
  BY DEF Init
<1>2. DeclaresOK(intents, Root) /\ Root \in Paths /\ Root \notin Schema
  BY <1>1, DeclareOK, PathsAre
<1>3. intents \in [DOMAIN intents -> Marks] /\ DOMAIN intents \subseteq Schema
  BY <1>2, BelowOrders DEF DeclaresOK
<1>4. \A r \in DOMAIN intents : Len(r) > 1 => /\ Front(r) \in DOMAIN intents
                                             /\ intents[Front(r)] = Set(Empty)
  BY <1>2, <1>3 DEF DeclaresOK
<1> QED
  BY <1>1, <1>3, <1>4, ProjectableIs DEF Inv, IntentOK

\* Edits and publications keep intent and baseline consistent.
LEMMA InvStep == Inv /\ [Next]_vars => Inv'
<1> SUFFICES ASSUME Inv, [Next]_vars PROVE Inv'
  OBVIOUS
<1>1. CASE Publish
  BY <1>1 DEF Publish, Inv
<1>2. CASE \E patch \in Patches : Edit(patch)
  <2>1. PICK patch \in Patches : Edit(patch)
    BY <1>2
  <2>2. IntentOK(Apply(intents, patch))
    BY ApplyOK DEF Inv
  <2> QED
    BY <2>1, <2>2 DEF Edit, Inv
<1>3. CASE UNCHANGED vars
  BY <1>3 DEF vars, Inv
<1> QED
  BY <1>1, <1>2, <1>3 DEF Next

\* The intent and its baseline are consistent in every reachable state.
LEMMA InvAlways == Spec => []Inv
BY InvInit, InvStep, PTL DEF Spec

\* Every edit that is not refused leaves declarations that can be loaded and edited
\* again (evaluateFields, projectDeclarations), for every schema.
THEOREM EditsCannotBreak == Spec => []EditsStayProjectable
<1>1. Inv => EditsStayProjectable
  BY ApplyOK DEF Inv, IntentOK, EditsStayProjectable, Accepted
<1> QED
  BY <1>1, InvAlways, PTL

\* Two patches of a batch that touch unrelated paths come out the same in either order,
\* removed parents they share included.
THEOREM OrderIsFree == Spec => []UnrelatedPatchesCommute
<1>1. Inv => UnrelatedPatchesCommute
  <2> SUFFICES ASSUME Inv, NEW one \in Accepted, NEW two \in Accepted,
                      Unrelated(one.path, two.path)
               PROVE  Apply(Apply(intents, one), two) = Apply(Apply(intents, two), one)
    BY DEF UnrelatedPatchesCommute
  <2>1. one \in Patches /\ two \in Patches
    BY DEF Accepted
  <2>2. one.path \in Schema /\ two.path \in Schema
    BY <2>1, PatchIs
  <2>3. two.path \notin Below[one.path] /\ one.path \notin Below[two.path]
    BY <2>2, PathsAre DEF Unrelated, Below
  <2>4. /\ Plain(Declares(one)) /\ DOMAIN Declares(one) \subseteq Below[one.path]
        /\ Plain(Declares(two)) /\ DOMAIN Declares(two) \subseteq Below[two.path]
    BY <2>1, <2>2, DeclaresIs, AsDeclared DEF Inv
  <2>5. Plain(intents)
    BY IntentIs DEF Inv
  <2> QED
    BY <2>2, <2>3, <2>4, <2>5, ApplyIs, EditsCommute
<1> QED
  BY <1>1, InvAlways, PTL

-------------------------------------------------------------------------------
(* Values, bottom up *)

\* The paths of W within n keys of the length d: the deepest first.
Deep(W, d, n) == {q \in W : Len(q) + n >= d}

\* Taking paths in from the deepest, children come before their parents.
LEMMA DeepIs ==
  ASSUME NEW W \in SUBSET Paths, NEW d \in Nat, \A p \in Paths : Len(p) < d
  PROVE  /\ Deep(W, d, 0) = {} /\ Deep(W, d, d) = W
         /\ \A n \in Nat : \A q \in Deep(W, d, n) : q \in W
         /\ \A n \in Nat \ {0} : \A q \in Deep(W, d, n) : \A r \in Children[q] \cap W :
              r \in Deep(W, d, n - 1) /\ r \in Deep(W, d, n)
<1>1. \A q \in W : Len(q) \in Nat /\ Len(q) < d
  BY PathsAre
<1>2. ASSUME NEW n \in Nat \ {0}, NEW q \in Deep(W, d, n), NEW r \in Children[q] \cap W
      PROVE  r \in Deep(W, d, n - 1) /\ r \in Deep(W, d, n)
  <2>1. q \in W /\ q \in Paths /\ Len(q) + n >= d
    BY DEF Deep
  <2>2. Len(r) = Len(q) + 1
    BY <2>1 DEF Children
  <2>3. Len(q) \in Nat /\ Len(r) \in Nat
    BY <1>1, <2>1
  <2>4. Len(r) + (n - 1) >= d /\ Len(r) + n >= d
    BY <2>1, <2>2, <2>3
  <2> QED
    BY <2>4 DEF Deep
<1> QED
  BY <1>1, <1>2 DEF Deep

ProjectOf(value, D, q) ==
  IF ~IsObject(D[q].value) THEN D[q].value
  ELSE [k \in {j \in Keys[q] : Present(D, Append(q, j))} |-> value[Append(q, k)]]

\* A value is built from those of the children alone.
LEMMA ProjectLocal ==
  ASSUME NEW D, NEW q \in Paths, NEW f, NEW g, \A r \in Children[q] : f[r] = g[r]
  PROVE  ProjectOf(f, D, q) = ProjectOf(g, D, q)
<1>1. \A k \in Keys[q] : f[Append(q, k)] = g[Append(q, k)]
  BY KeysAre
<1> QED
  BY <1>1 DEF ProjectOf

\* The values projectDeclarations builds are there, each from what is below it.
LEMMA ProjectIs ==
  ASSUME NEW D, NEW p \in Schema
  PROVE  \E value : /\ value = [q \in Below[p] |-> ProjectOf(value, D, q)]
                    /\ Project(D, p) = value[p]
<1> DEFINE W == Below[p]
<1>1. /\ p \in Paths /\ W \in SUBSET Paths
      /\ \A q \in W : \A r \in Children[q] : r \in W
  <2>1. p \in Paths /\ W \in SUBSET Paths /\ W \in SUBSET Schema
    BY BelowOrders, PathsAre
  <2>2. ASSUME NEW q \in W, NEW r \in Children[q] PROVE r \in W
    <3>1. r \in Below[q] /\ r \in Schema
      BY <2>1, BelowOrders DEF Children
    <3> QED
      BY <2>1, <3>1, BelowOrders
  <2> QED
    BY <2>1, <2>2
<1> HIDE DEF W
<1>2. PICK d \in Nat : \A q \in Paths : Len(q) < d
  BY Longest
<1> DEFINE T == {n \in Nat : ~\E f : f = [q \in Deep(W, d, n) |-> ProjectOf(f, D, q)]}
<1>3. T = {}
  <2> SUFFICES ASSUME T # {} PROVE FALSE
    OBVIOUS
  <2>1. T \in SUBSET Nat
    OBVIOUS
  <2>2. PICK n \in T : \A m \in T : n <= m
    <3> HIDE DEF T
    <3> QED
      BY <2>1, Least
  <2>3. n \in Nat /\ ~\E f : f = [q \in Deep(W, d, n) |-> ProjectOf(f, D, q)]
    OBVIOUS
  <2>4. n # 0
    <3> SUFFICES ASSUME n = 0 PROVE FALSE
      OBVIOUS
    <3>1. Deep(W, d, n) = {}
      BY <1>1, <1>2, DeepIs
    <3> DEFINE f == [q \in {} |-> {}]
    <3>2. f = [q \in Deep(W, d, n) |-> ProjectOf(f, D, q)]
      BY <3>1
    <3> QED
      BY <2>3, <3>2
  <2>5. PICK f : f = [q \in Deep(W, d, n - 1) |-> ProjectOf(f, D, q)]
    <3>1. n - 1 \in Nat /\ ~(n <= n - 1)
      BY <2>3, <2>4
    <3>2. n - 1 \notin T
      BY <2>2, <3>1
    <3> QED
      BY <3>1, <3>2
  <2> DEFINE g == [q \in Deep(W, d, n) |-> ProjectOf(f, D, q)]
  <2>6. ASSUME NEW q \in Deep(W, d, n) PROVE ProjectOf(f, D, q) = ProjectOf(g, D, q)
    <3>1. q \in W /\ q \in Paths
      BY <1>1, <1>2, <2>3, DeepIs
    <3>2. ASSUME NEW r \in Children[q] PROVE f[r] = g[r]
      <4>1. r \in Deep(W, d, n - 1) /\ r \in Deep(W, d, n)
        BY <1>1, <1>2, <2>3, <2>4, <3>1, DeepIs
      <4>2. f[r] = ProjectOf(f, D, r)
        BY <2>5, <4>1
      <4> QED
        BY <4>1, <4>2
    <3> HIDE DEF g
    <3> QED
      BY <3>1, <3>2, ProjectLocal
  <2>7. g = [q \in Deep(W, d, n) |-> ProjectOf(g, D, q)]
    BY <2>6
  <2> QED
    BY <2>3, <2>7
<1>4. \E f : f = [q \in W |-> ProjectOf(f, D, q)]
  <2>1. d \notin T /\ Deep(W, d, d) = W
    BY <1>1, <1>2, <1>3, DeepIs
  <2>2. \E f : f = [q \in Deep(W, d, d) |-> ProjectOf(f, D, q)]
    BY <2>1
  <2> QED
    BY <2>1, <2>2
<1> DEFINE value == CHOOSE f : f = [q \in W |-> ProjectOf(f, D, q)]
<1>5. value = [q \in W |-> ProjectOf(value, D, q)]
  BY <1>4
<1>6. Project(D, p) = value[p]
  BY DEF Project, ProjectOf, W
<1> QED
  BY <1>5, <1>6 DEF W

LegalOf(legal, p) ==
  IF Keys[p] = {} THEN Scalars
  ELSE (IF p \in Nullable THEN {Null} ELSE {}) \cup
       UNION {{f \in [K -> UNION {legal[Append(p, k)] : k \in K}] :
                 \A k \in K : f[k] \in legal[Append(p, k)]} : K \in SUBSET Keys[p]}

\* The values allowed at a path depend on those of its children alone.
LEMMA LegalLocal ==
  ASSUME NEW q \in Paths, NEW f, NEW g, \A r \in Children[q] : f[r] = g[r]
  PROVE  LegalOf(f, q) = LegalOf(g, q)
<1>1. \A k \in Keys[q] : f[Append(q, k)] = g[Append(q, k)]
  BY KeysAre
<1> DEFINE Objects(h, K) == {o \in [K -> UNION {h[Append(q, k)] : k \in K}] :
                               \A k \in K : o[k] \in h[Append(q, k)]}
<1>2. ASSUME NEW K \in SUBSET Keys[q] PROVE Objects(f, K) = Objects(g, K)
  <2>1. {f[Append(q, k)] : k \in K} = {g[Append(q, k)] : k \in K}
    BY <1>1
  <2> QED
    BY <1>1, <2>1
<1>3. UNION {Objects(f, K) : K \in SUBSET Keys[q]} = UNION {Objects(g, K) : K \in SUBSET Keys[q]}
  <2> HIDE DEF Objects
  <2> QED
    BY <1>2
<1> QED
  BY <1>3 DEF LegalOf

\* The schema has a set of values at every path.
LEMMA LegalIs == Legal = [p \in Paths |-> LegalOf(Legal, p)]
<1>1. /\ Paths \in SUBSET Paths
      /\ \A q \in Paths : \A r \in Children[q] : r \in Paths
  BY BelowOrders, PathsAre DEF Children
<1>2. PICK d \in Nat : \A q \in Paths : Len(q) < d
  BY Longest
<1> DEFINE T == {n \in Nat : ~\E f : f = [q \in Deep(Paths, d, n) |-> LegalOf(f, q)]}
<1>3. T = {}
  <2> SUFFICES ASSUME T # {} PROVE FALSE
    OBVIOUS
  <2>1. T \in SUBSET Nat
    OBVIOUS
  <2>2. PICK n \in T : \A m \in T : n <= m
    <3> HIDE DEF T
    <3> QED
      BY <2>1, Least
  <2>3. n \in Nat /\ ~\E f : f = [q \in Deep(Paths, d, n) |-> LegalOf(f, q)]
    OBVIOUS
  <2>4. n # 0
    <3> SUFFICES ASSUME n = 0 PROVE FALSE
      OBVIOUS
    <3>1. Deep(Paths, d, n) = {}
      BY <1>1, <1>2, DeepIs
    <3> DEFINE f == [q \in {} |-> {}]
    <3>2. f = [q \in Deep(Paths, d, n) |-> LegalOf(f, q)]
      BY <3>1
    <3> QED
      BY <2>3, <3>2
  <2>5. PICK f : f = [q \in Deep(Paths, d, n - 1) |-> LegalOf(f, q)]
    <3>1. n - 1 \in Nat /\ ~(n <= n - 1)
      BY <2>3, <2>4
    <3>2. n - 1 \notin T
      BY <2>2, <3>1
    <3> QED
      BY <3>1, <3>2
  <2> DEFINE g == [q \in Deep(Paths, d, n) |-> LegalOf(f, q)]
  <2>6. ASSUME NEW q \in Deep(Paths, d, n) PROVE LegalOf(f, q) = LegalOf(g, q)
    <3>1. q \in Paths
      BY <1>1, <1>2, <2>3, DeepIs
    <3>2. ASSUME NEW r \in Children[q] PROVE f[r] = g[r]
      <4>1. r \in Deep(Paths, d, n - 1) /\ r \in Deep(Paths, d, n)
        BY <1>1, <1>2, <2>3, <2>4, <3>1, DeepIs
      <4>2. f[r] = LegalOf(f, r)
        BY <2>5, <4>1
      <4> QED
        BY <4>1, <4>2
    <3> HIDE DEF g
    <3> QED
      BY <3>1, <3>2, LegalLocal
  <2>7. g = [q \in Deep(Paths, d, n) |-> LegalOf(g, q)]
    BY <2>6
  <2> QED
    BY <2>3, <2>7
<1>4. \E f : f = [q \in Paths |-> LegalOf(f, q)]
  <2>1. d \notin T /\ Deep(Paths, d, d) = Paths
    BY <1>1, <1>2, <1>3, DeepIs
  <2>2. \E f : f = [q \in Deep(Paths, d, d) |-> LegalOf(f, q)]
    BY <2>1
  <2> QED
    BY <2>1, <2>2
<1>5. Legal = CHOOSE f : f = [q \in Paths |-> LegalOf(f, q)]
  BY DEF Legal, LegalOf
<1> QED
  BY <1>4, <1>5

\* A legal object has legal values at some of its keys.
LEMMA LegalObject ==
  ASSUME NEW q \in Paths, NEW v \in Legal[q], IsObject(v)
  PROVE  /\ DOMAIN v \subseteq Keys[q] /\ v = [k \in DOMAIN v |-> v[k]]
         /\ \A k \in DOMAIN v : v[k] \in Legal[Append(q, k)]
<1>1. v \in LegalOf(Legal, q)
  BY LegalIs
<1>2. v \notin Scalars /\ Null \in Scalars
  BY SchemaAssumption DEF IsObject
<1>3. PICK K \in SUBSET Keys[q] : /\ v \in [K -> UNION {Legal[Append(q, k)] : k \in K}]
                                  /\ \A k \in K : v[k] \in Legal[Append(q, k)]
  BY <1>1, <1>2 DEF LegalOf
<1> QED
  BY <1>3

-------------------------------------------------------------------------------
(* A value declared is the value projected *)

\* What the schema allows at a path, it allows part by part.
LEMMA PartLegal ==
  ASSUME NEW p \in Paths, NEW v \in Legal[p], NEW q \in Below[p] \cup {p},
         NEW w \in Parts(p, v)[q]
  PROVE  w \in Legal[q]
<1> DEFINE part == Parts(p, v)
           Bad == {r \in Below[p] \cup {p} : \E u \in part[r] : u \notin Legal[r]}
           T == {Len(r) : r \in Bad}
<1> SUFFICES ASSUME w \notin Legal[q] PROVE FALSE
  OBVIOUS
<1>1. \A r \in Below[p] \cup {p} : r \in Paths /\ Len(r) \in Nat
  BY BelowIs, PathsAre
<1>2. T \in SUBSET Nat /\ T # {}
  <2>1. q \in Bad
    OBVIOUS
  <2>2. Len(q) \in T
    BY <2>1
  <2> QED
    BY <1>1, <2>2
<1> HIDE DEF T
<1>3. PICK n \in T : \A m \in T : n <= m
  BY <1>2, Least
<1>4. PICK r \in Bad : n = Len(r)
  BY <1>3 DEF T
<1>5. PICK u \in part[r] : u \notin Legal[r]
  BY <1>4
<1>6. part[r] = PartOf(part, p, v, r)
  <2>1. part = [x \in Below[p] \cup {p} |-> PartOf(part, p, v, x)]
    BY PartsAre
  <2>2. r \in Below[p] \cup {p}
    BY <1>4
  <2> HIDE DEF part
  <2> QED
    BY <2>1, <2>2
<1>7. r # p
  BY <1>5, <1>6 DEF PartOf
<1>8. PICK c \in part[Front(r)] : u = c[Last(r)] /\ IsObject(c) /\ Last(r) \in DOMAIN c
  BY <1>5, <1>6, <1>7 DEF PartOf
<1>9. r \in Below[p] /\ r \in Schema
  BY <1>4, <1>7, BelowIs
<1>10. Front(r) \in Below[p] \cup {p} /\ Len(Front(r)) = Len(r) - 1 /\ Front(r) \in Paths
  BY <1>7, <1>9, AboveFront, FrontIs
<1>11. Front(r) \notin Bad
  <2> SUFFICES ASSUME Front(r) \in Bad PROVE FALSE
    OBVIOUS
  <2>1. Len(Front(r)) \in T
    BY DEF T
  <2> QED
    BY <1>1, <1>3, <1>4, <1>10, <2>1
<1>12. c \in Legal[Front(r)]
  BY <1>8, <1>10, <1>11
<1>13. r \in Children[Front(r)]
  BY <1>9, <1>10, ChildrenAre
<1>14. Append(Front(r), Last(r)) = r
  BY <1>10, <1>13, KeysAre
<1> QED
  BY <1>5, <1>8, <1>10, <1>12, <1>14, LegalObject

\* Part by part, deepest first, what is declared of a value projects to the value.
LEMMA DeclaredProjects ==
  ASSUME NEW p \in Schema, NEW v \in Legal[p]
  PROVE  /\ p \in DOMAIN Declare(p, v) /\ Declare(p, v)[p] # Removal
         /\ Project(Declare(p, v), p) = v
<1> DEFINE part == Parts(p, v)
           C == Declare(p, v)
<1>1. p \in Paths /\ p \in Below[p] /\ Below[p] \subseteq Schema /\ Below[p] \subseteq Paths
  BY BelowOrders, PathsAre
<1>2. /\ DOMAIN C = {q \in Below[p] : part[q] # {}}
      /\ \A q \in DOMAIN C : C[q] = Set(Presence(CHOOSE w \in part[q] : TRUE))
  BY DEF Declare
<1> HIDE DEF C
<1>3. part = [q \in Below[p] \cup {p} |-> PartOf(part, p, v, q)]
  BY <1>1, PartsAre
<1>4. \A q \in Below[p] : \A u, w \in part[q] : u = w
  BY <1>1, OnePart
<1>5. \A q \in Below[p] : \A w \in part[q] : w \in Legal[q]
  BY <1>1, PartLegal
<1>6. part[p] = {v}
  BY <1>1, <1>3 DEF PartOf
<1> HIDE DEF part
<1>7. ASSUME NEW q \in Below[p], NEW w \in part[q]
      PROVE  q \in DOMAIN C /\ C[q] = Set(Presence(w)) /\ C[q] # Removal
  <2>1. (CHOOSE u \in part[q] : TRUE) = w
    BY <1>4
  <2> QED
    BY <1>2, <2>1, MarksAre
<1>8. PICK value : value = [q \in Below[p] |-> ProjectOf(value, C, q)] /\ Project(C, p) = value[p]
  BY ProjectIs
<1>9. ASSUME NEW q \in Below[p], NEW w \in part[q],
             \A r \in Children[q] : \A u \in part[r] : value[r] = u
      PROVE  value[q] = w
  <2>1. q \in Schema /\ q \in Paths
    BY <1>1
  <2>2. value[q] = ProjectOf(value, C, q)
    BY <1>8
  <2>3. C[q].value = Presence(w)
    BY <1>7, MarksAre
  <2>4. CASE ~IsObject(w)
    BY <2>2, <2>3, <2>4 DEF ProjectOf, Presence
  <2>5. CASE IsObject(w)
    <3>1. IsObject(C[q].value)
      BY <2>3, <2>5, SchemaAssumption DEF Presence, IsObject
    <3>2. /\ DOMAIN w \subseteq Keys[q] /\ w = [k \in DOMAIN w |-> w[k]]
      BY <1>5, <2>1, <2>5, LegalObject
    <3>3. ASSUME NEW k \in Keys[q]
          PROVE  /\ Append(q, k) \in Below[p] /\ Append(q, k) \in Children[q]
                 /\ part[Append(q, k)] =
                      {x[k] : x \in {u \in part[q] : IsObject(u) /\ k \in DOMAIN u}}
      <4>1. Append(q, k) \in Children[q] /\ Last(Append(q, k)) = k
        BY <2>1, KeysAre
      <4>2. Append(q, k) \in Schema /\ Front(Append(q, k)) = q
        BY <2>1, <4>1, ChildrenAre
      <4>3. Append(q, k) \in Below[p] /\ Append(q, k) # p
        <5>1. Append(q, k) \in Below[q] /\ Append(q, k) # q
          BY <4>2, FrontIs
        <5>2. Append(q, k) \in Below[p]
          BY <1>1, <2>1, <4>2, <5>1, BelowOrders
        <5>3. Len(p) <= Len(q) /\ Len(q) < Len(Append(q, k))
          BY <1>1, <2>1, <4>2, <5>1, BelowIs, BelowOrders
        <5>4. Len(p) \in Nat /\ Len(q) \in Nat /\ Len(Append(q, k)) \in Nat
          BY <1>1, <2>1, <4>2, PathsAre
        <5>5. Append(q, k) # p
          BY <5>3, <5>4
        <5> QED
          BY <5>2, <5>5
      <4>4. part[Append(q, k)] = PartOf(part, p, v, Append(q, k))
        BY <1>3, <4>3
      <4> QED
        BY <4>1, <4>2, <4>3, <4>4 DEF PartOf
    <3>4. ASSUME NEW k \in Keys[q] PROVE Present(C, Append(q, k)) <=> k \in DOMAIN w
      <4>1. CASE k \in DOMAIN w
        <5>1. w[k] \in part[Append(q, k)]
          BY <2>5, <3>3, <4>1
        <5> QED
          BY <1>7, <3>3, <4>1, <5>1 DEF Present, Declared
      <4>2. CASE k \notin DOMAIN w
        <5>1. part[Append(q, k)] = {}
          BY <1>4, <3>3, <4>2
        <5> QED
          BY <1>2, <4>2, <5>1 DEF Present, Declared
      <4> QED
        BY <4>1, <4>2
    <3>5. {j \in Keys[q] : Present(C, Append(q, j))} = DOMAIN w
      BY <3>2, <3>4
    <3>6. \A k \in DOMAIN w : value[Append(q, k)] = w[k]
      BY <1>9, <2>5, <3>2, <3>3
    <3>7. value[q] = [k \in DOMAIN w |-> value[Append(q, k)]]
      BY <2>2, <3>1, <3>5 DEF ProjectOf
    <3> QED
      BY <3>2, <3>6, <3>7
  <2> QED
    BY <2>4, <2>5
<1>10. \A q \in Below[p] : \A w \in part[q] : value[q] = w
  <2>1. PICK d \in Nat : \A q \in Paths : Len(q) < d
    BY Longest
  <2> DEFINE Bad == {q \in Below[p] : \E w \in part[q] : value[q] # w}
             T == {d - Len(q) : q \in Bad}
  <2> SUFFICES ASSUME Bad # {} PROVE FALSE
    OBVIOUS
  <2>2. \A q \in Below[p] : Len(q) \in Nat /\ Len(q) < d
    BY <1>1, <2>1, PathsAre
  <2>3. T \in SUBSET Nat /\ T # {}
    BY <2>2
  <2> HIDE DEF T
  <2>4. PICK n \in T : \A m \in T : n <= m
    BY <2>3, Least
  <2>5. PICK q \in Bad : n = d - Len(q)
    BY <2>4 DEF T
  <2>6. PICK w \in part[q] : value[q] # w
    BY <2>5
  <2>7. PICK r \in Children[q] : \E u \in part[r] : value[r] # u
    BY <1>9, <2>5, <2>6
  <2>8. r \in Below[p] /\ Len(r) = Len(q) + 1
    BY <1>1, <2>5, <2>7, BelowOrders DEF Children
  <2>9. d - Len(r) \in T
    BY <2>7, <2>8 DEF T
  <2> QED
    BY <2>2, <2>4, <2>5, <2>8, <2>9
<1> QED
  BY <1>6, <1>7, <1>8, <1>10, <1>1 DEF C

-------------------------------------------------------------------------------
(* A patch does what it says *)

\* Where declarations come in, they are all there is.
LEMMA EditedUnder ==
  ASSUME NEW C, NEW D, NEW p \in Schema, Plain(C), Plain(D), DOMAIN C \subseteq Below[p]
  PROVE  /\ Under(Edited(C, D, p), p) = C
         /\ Cell(Edited(C, D, p), p) = Cell(C, p)
         /\ Gone(Edited(C, D, p), p) <=> Cell(C, p) = Removal
         /\ Declared(Edited(C, D, p), p) <=> p \in DOMAIN C
<1> DEFINE E == Edited(C, D, p)
<1>1. /\ Plain(E)
      /\ \A r \in Schema : Cell(E, r) = IF r \in Below[p] THEN Cell(C, r)
                                        ELSE IF r \in Parents[p] THEN Set(Empty)
                                        ELSE IF r \in Cleared(D, p) THEN Removal
                                        ELSE Cell(D, r)
  BY EditedIs
<1>2. p \in Paths /\ p \in Below[p] /\ Below[p] \subseteq Schema
  BY BelowOrders, PathsAre
<1> HIDE DEF E
<1>3. \A r \in Below[p] : Cell(E, r) = Cell(C, r)
  BY <1>1, <1>2
<1>4. DOMAIN E \cap Below[p] = DOMAIN C
  BY <1>1, <1>3, CellsAre
<1>5. \A r \in DOMAIN C : E[r] = C[r]
  BY <1>3, <1>4 DEF Cell
<1>6. Under(E, p) = [r \in DOMAIN C |-> E[r]]
  BY <1>4 DEF Under, Restrict
<1>7. Under(E, p) = C
  BY <1>5, <1>6 DEF Plain
<1>8. Gone(E, p) <=> Cell(C, p) = Removal
  <2>1. Gone(E, p) <=> \E u \in Schema : p \in Below[u] /\ Cell(E, u) = Removal
    BY <1>1, GoneIs
  <2>2. ASSUME NEW u \in Schema, p \in Below[u], u # p PROVE Cell(E, u) # Removal
    <3>1. u \in Parents[p]
      BY <2>2, ParentsAbove
    <3>2. u \notin Below[p]
      BY <1>2, <2>2, BelowOrders, PathsAre
    <3> QED
      BY <1>1, <3>1, <3>2, MarksAre
  <2> QED
    BY <1>2, <1>3, <2>1, <2>2
<1>9. Declared(E, p) <=> p \in DOMAIN C
  BY <1>2, <1>4 DEF Declared
<1> QED
  BY <1>2, <1>3, <1>7, <1>8, <1>9 DEF E

\* After set, the value at the path is the value given.
LEMMA SetIsExact ==
  ASSUME NEW D, NEW p \in Schema, NEW v \in Legal[p], Plain(D)
  PROVE  StateAt(Edited(Declare(p, v), D, p), p) = Set(v)
<1> DEFINE C == Declare(p, v)
           E == Edited(C, D, p)
<1>1. Plain(C) /\ DOMAIN C \subseteq Below[p]
  BY DeclareOK, AsDeclared, PathsAre
<1>2. p \in DOMAIN C /\ C[p] # Removal /\ Project(C, p) = v
  BY DeclaredProjects
<1> HIDE DEF C
<1>3. Under(E, p) = C /\ ~Gone(E, p) /\ Declared(E, p)
  BY <1>1, <1>2, EditedUnder DEF Cell
<1> QED
  BY <1>2, <1>3 DEF StateAt, C

\* After remove, the path is removed.
LEMMA RemoveIsExact ==
  ASSUME NEW D, NEW p \in Schema, Plain(D)
  PROVE  StateAt(Edited([q \in {p} |-> Removal], D, p), p) = Removal
<1> DEFINE C == [q \in {p} |-> Removal]
<1>1. DOMAIN C = {p} /\ C \in [DOMAIN C -> Marks] /\ C[p] = Removal
  BY MarksAre
<1> HIDE DEF C
<1>2. Plain(C) /\ DOMAIN C \subseteq Below[p] /\ Cell(C, p) = Removal
  BY <1>1, BelowOrders DEF Plain, Cell
<1>3. Gone(Edited(C, D, p), p)
  BY <1>2, EditedUnder
<1> QED
  BY <1>3 DEF StateAt, C

\* After reset, the path is what the baseline says it is.
LEMMA ResetIsExact ==
  ASSUME NEW D, NEW B, NEW p \in Schema, Plain(D), IntentOK(B)
  PROVE  StateAt(Edited(Restored(B, p), D, p), p) = StateAt(B, p)
<1>1. CASE Gone(B, p)
  BY <1>1, RemoveIsExact DEF Restored, StateAt
<1>2. CASE ~Gone(B, p)
  <2> DEFINE C == Under(B, p)
             E == Edited(C, D, p)
  <2>1. Plain(C) /\ DOMAIN C \subseteq Below[p] /\ Plain(B)
    BY UnderOK, AsDeclared, IntentIs
  <2>2. p \in DOMAIN C <=> Declared(B, p)
    BY BelowOrders, RestrictIs DEF Under, Declared
  <2>3. Cell(C, p) # Removal
    <3>1. Cell(C, p) = Cell(B, p)
      BY BelowOrders, RestrictIs DEF Under, Cell
    <3>2. ~Removed(B, p)
      BY <1>2 DEF Gone
    <3> QED
      BY <2>1, <3>1, <3>2, CellsAre
  <2> HIDE DEF C
  <2>4. Under(E, p) = C /\ ~Gone(E, p) /\ (Declared(E, p) <=> p \in DOMAIN C)
    BY <2>1, <2>3, EditedUnder
  <2>5. Restored(B, p) = C
    BY <1>2 DEF Restored, C
  <2> HIDE DEF E
  <2>6. StateAt(E, p) = StateAt(B, p)
    BY <1>2, <2>2, <2>4 DEF StateAt, C
  <2> QED
    BY <2>5, <2>6 DEF E
<1> QED
  BY <1>1, <1>2

\* Beside the edited path everything is as it was, the children of parents that have
\* to come back included.
LEMMA BesideIsKept ==
  ASSUME NEW C, NEW D, NEW p \in Schema, Plain(C), Plain(D), DOMAIN C \subseteq Below[p],
         NEW q \in Schema, q \notin Below[p], p \notin Below[q]
  PROVE  StateAt(Edited(C, D, p), q) = StateAt(D, q)
<1> DEFINE E == Edited(C, D, p)
<1>1. /\ Plain(E)
      /\ \A r \in Schema : Cell(E, r) = IF r \in Below[p] THEN Cell(C, r)
                                        ELSE IF r \in Parents[p] THEN Set(Empty)
                                        ELSE IF r \in Cleared(D, p) THEN Removal
                                        ELSE Cell(D, r)
  BY EditedIs
<1>2. Gone(E, q) <=> Gone(D, q)
  BY GoneStays
<1> HIDE DEF E
<1>3. CASE Gone(D, q)
  BY <1>2, <1>3 DEF StateAt, E
<1>4. CASE ~Gone(D, q)
  <2>1. q \in Paths /\ q \in Below[q] /\ Below[q] \subseteq Schema
    BY BelowOrders, PathsAre
  <2>2. ASSUME NEW r \in Below[q] PROVE Cell(E, r) = Cell(D, r)
    <3>1. r \in Schema
      BY <2>1
    <3>2. r \notin Below[p]
      <4>1. /\ Len(p) <= Len(q) /\ r \in Below[p] => q \in Below[p]
            /\ Len(q) <= Len(p) /\ r \in Below[p] => p \in Below[q]
        BY <3>1, BelowOrders
      <4>2. Len(p) <= Len(q) \/ Len(q) <= Len(p)
        BY PathsAre
      <4> QED
        BY <4>1, <4>2
    <3>3. r \notin Parents[p]
      <4> SUFFICES ASSUME r \in Parents[p] PROVE FALSE
        OBVIOUS
      <4>1. p \in Below[r]
        BY ParentsAbove
      <4> QED
        BY <2>1, <3>1, <4>1, BelowOrders
    <3>4. r \notin Cleared(D, p)
      <4> SUFFICES ASSUME r \in Cleared(D, p) PROVE FALSE
        OBVIOUS
      <4>1. Front(r) \in Parents[p] /\ Gone(D, Front(r))
        BY ClearedIs
      <4>2. Front(r) \in Schema /\ p \in Below[Front(r)]
        BY <4>1, ParentsAbove
      <4>3. CASE r = q
        <5>1. PICK u \in Schema : Front(r) \in Below[u] /\ Cell(D, u) = Removal
          BY <4>1, <4>2, GoneIs
        <5>2. r \in Below[u]
          BY <3>1, <4>2, <5>1, FrontIs, BelowOrders, PathsAre
        <5> QED
          BY <1>4, <4>3, <5>1, <5>2, GoneIs
      <4>4. CASE r # q
        <5>1. Front(r) \in Below[q]
          BY <2>1, <4>4, AboveFront
        <5> QED
          BY <2>1, <4>2, <5>1, BelowOrders
      <4> QED
        BY <4>3, <4>4
    <3> QED
      BY <1>1, <3>1, <3>2, <3>3, <3>4
  <2>3. DOMAIN E \cap Below[q] = DOMAIN D \cap Below[q]
    BY <1>1, <2>2, CellsAre
  <2>4. \A r \in DOMAIN D \cap Below[q] : E[r] = D[r]
    BY <2>2, <2>3 DEF Cell
  <2>5. Under(E, q) = Under(D, q)
    BY <2>3, <2>4 DEF Under, Restrict
  <2>6. Declared(E, q) <=> Declared(D, q)
    BY <2>1, <2>3 DEF Declared
  <2> QED
    BY <1>2, <2>5, <2>6 DEF StateAt, E
<1> QED
  BY <1>3, <1>4

\* set makes the value, as a whole, the value at its path; remove takes it out of the
\* node; reset finds again what the baseline says; and no patch changes what the node
\* says of an unrelated path: for every schema and every value it allows.
THEOREM PatchesAreExact == Spec => []PatchIsExact
<1>1. Inv => PatchIsExact
  <2> SUFFICES ASSUME Inv, NEW patch \in Accepted
               PROVE  /\ StateAt(Apply(intents, patch), patch.path) = Wanted(patch)
                      /\ \A q \in Schema : Unrelated(patch.path, q) =>
                           StateAt(Apply(intents, patch), q) = StateAt(intents, q)
    BY DEF PatchIsExact
  <2> DEFINE p == patch.path
  <2>1. patch \in Patches /\ p \in Schema
    BY PatchIs DEF Accepted
  <2>2. Plain(intents) /\ IntentOK(baseline)
    BY IntentIs DEF Inv
  <2>3. Plain(Declares(patch)) /\ DOMAIN Declares(patch) \subseteq Below[p]
    BY <2>1, <2>2, DeclaresIs, AsDeclared
  <2>4. Apply(intents, patch) = Edited(Declares(patch), intents, p)
    BY ApplyIs
  <2>5. StateAt(Edited(Declares(patch), intents, p), p) = Wanted(patch)
    <3>1. CASE patch.op = "set"
      <4>1. Declares(patch) = Declare(p, patch.value) /\ Wanted(patch) = Set(patch.value)
        BY <3>1 DEF Declares, Wanted
      <4> QED
        BY <2>1, <2>2, <3>1, <4>1, PatchIs, SetIsExact
    <3>2. CASE patch.op = "remove"
      <4>1. Declares(patch) = [q \in {p} |-> Removal] /\ Wanted(patch) = Removal
        BY <3>2 DEF Declares, Wanted
      <4> QED
        BY <2>1, <2>2, <4>1, RemoveIsExact
    <3>3. CASE patch.op = "reset"
      <4>1. Declares(patch) = Restored(baseline, p) /\ Wanted(patch) = StateAt(baseline, p)
        BY <3>3 DEF Declares, Wanted
      <4> QED
        BY <2>1, <2>2, <4>1, ResetIsExact
    <3> QED
      BY <2>1, <3>1, <3>2, <3>3, PatchIs
  <2>6. ASSUME NEW q \in Schema, Unrelated(p, q)
        PROVE  StateAt(Edited(Declares(patch), intents, p), q) = StateAt(intents, q)
    <3>1. q \notin Below[p] /\ p \notin Below[q]
      BY <2>1, <2>6, PathsAre DEF Unrelated, Below
    <3> QED
      BY <2>1, <2>2, <2>3, <3>1, BesideIsKept
  <2> QED
    BY <2>4, <2>5, <2>6
<1> QED
  BY <1>1, InvAlways, PTL
===============================================================================
