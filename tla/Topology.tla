-------------------------------- MODULE Topology --------------------------------
(***************************************************************************)
(* Edits of a Draft's structure: nodes, owned and reference relations,      *)
(* identities and tombstones (edit/topology.ts, edit/evaluate-topology.ts,   *)
(* edit/identity.ts).                                                       *)
(*                                                                         *)
(* A batch is evaluated on a candidate, patch after patch, and stored as a   *)
(* whole or refused as a whole.  A patch either fails, or has one result:    *)
(* operators that may fail give the set of results, empty or a singleton.    *)
(*                                                                         *)
(* Data: a slot is a relation type.  The field intents of a node are one     *)
(* opaque value, 0 as created and 1 once edited (FieldIntent has the rest).  *)
(* Types of nodes and endpoints are left out: what they forbid is refused.   *)
(* Identities are numbers; any one that is unused stands for a fresh one.    *)
(***************************************************************************)
EXTENDS Naturals, Sequences, FiniteSets, SequencesExt, Functions

CONSTANTS Slots,
          Owned,         \* the slots that own their targets
          Single,        \* the slots of cardinality one
          MaxBirths,     \* bound: nodes at creation
          MaxNode,       \* bound: node identities
          MaxEdge,       \* bound: edge identities
          MaxWork        \* bound: stored batches and patches of the open batch

ASSUME TopologyAssumption ==
  /\ Owned \subseteq Slots /\ Single \subseteq Slots
  /\ MaxBirths \in Nat \ {0} /\ MaxNode \in Nat /\ MaxEdge \in Nat /\ MaxWork \in Nat
  /\ MaxBirths <= MaxNode /\ MaxBirths <= MaxEdge

Refs == 1..MaxNode
NoRef == 0

VARIABLES version,    \* of the Draft: the batches stored so far
          draft,      \* the stored graph: nodes with their intents, edges, tombstones
          baseline,   \* the snapshot resets go back to
          adopted,    \* the graph of the current run, {} before the first
          cand,       \* the candidate of the batch in evaluation
          batch       \* the topology patches evaluated so far

vars == <<version, draft, baseline, adopted, cand, batch>>

Ids(edges) == {e.id : e \in edges}
Live(c) == DOMAIN c.nodes
Graph(c) == [nodes |-> c.nodes, edges |-> c.edges]

-------------------------------------------------------------------------------
(* topology.ts *)

Owners(c, n) == {e \in c.edges : e.to = n /\ e.slot \in Owned}
Targets(c, n, slot) == {e.to : e \in {d \in c.edges : d.from = n /\ d.slot = slot}}

\* Mutant: only the direct children go with a node.
ChildrenOnly(edges, roots) ==
  roots \cup {e.to : e \in {d \in edges : d.from \in roots /\ d.slot \in Owned}}

\* removableOwnedClosures, the worklist: what the roots own, directly or not.
OwnedClosure(edges, roots) ==
  LET owned == {e \in edges : e.slot \in Owned}
      reach[n \in 0..Cardinality(owned)] ==
        IF n = 0 THEN roots
        ELSE reach[n - 1] \cup {e.to : e \in {d \in owned : d.from \in reach[n - 1]}}
  IN  reach[Cardinality(owned)]

\* validateTopology
Valid(c) ==
  /\ Live(c) # {}
  /\ \A e \in c.edges : {e.from, e.to} \subseteq Live(c)
  /\ \A d, e \in c.edges : d # e /\ d.from = e.from /\ d.slot = e.slot
                             => d.to # e.to /\ e.slot \notin Single
  /\ \A n \in Live(c) : Cardinality(Owners(c, n)) <= 1
  /\ \A e \in c.edges : e.slot \in Owned => e.from \notin OwnedClosure(c.edges, {e.to})

-------------------------------------------------------------------------------
(* The evaluator's operations on the candidate *)

\* Mutant: deleted edges leave no tombstone.
RetireSilently(c, gone) == [c EXCEPT !.edges = @ \ gone]

\* retireEdge
Retire(c, gone) == [c EXCEPT !.edges = @ \ gone, !.retired = @ \cup Ids(gone)]

\* eraseMany: the owned subtrees go, unless a surviving node refers into them.
Erase(c, refs) ==
  LET removed == OwnedClosure(c.edges, refs)
      inbound == {e \in c.edges : e.from \notin removed /\ e.to \in removed /\ e.slot \notin Owned}
      cut == Retire(c, {e \in c.edges : {e.from, e.to} \cap removed # {}})
  IN  IF ~Valid(c) \/ inbound # {} THEN {}
      ELSE {[cut EXCEPT !.nodes = Restrict(c.nodes, Live(c) \ removed),
                        !.gone = @ \cup removed]}

\* createIdentityAllocator: nothing current, retired or of the baseline.
UnusedNodes(c) ==
  {n \in Refs : n \notin c.gone \cup draft.gone \cup UNION {Live(g) : g \in {c, draft, baseline}}}
UnusedEdges(c) ==
  {i \in 1..MaxEdge :
     i \notin c.retired \cup draft.retired \cup UNION {Ids(g.edges) : g \in {c, draft, baseline}}}

\* A node for every entry of intents, a function; with the names they get.
AddNodes(c, intents) ==
  LET free == Injection(DOMAIN intents, UnusedNodes(c))
      name == CHOOSE f \in free : TRUE
      entry(n) == CHOOSE s \in DOMAIN intents : name[s] = n
  IN  IF free = {} THEN {}
      ELSE {[next |-> [c EXCEPT !.nodes = [n \in Live(c) \cup Range(name) |->
                                             IF n \in Live(c) THEN c.nodes[n] ELSE intents[entry(n)]]],
             name |-> name]}

\* An edge for every link, <<from, slot, to>>.
AddEdges(c, links) ==
  LET free == Injection(links, UnusedEdges(c))
      name == CHOOSE f \in free : TRUE
  IN  IF free = {} THEN {}
      ELSE {[c EXCEPT !.edges = @ \cup {[id |-> name[l], from |-> l[1], slot |-> l[2], to |-> l[3]] :
                                           l \in links}]}

\* existing: there before this request and still there.
Existing(c, ref) == ref \in Live(draft) /\ ref \in Live(c)

-------------------------------------------------------------------------------
(* Node inputs: the ref of a node, a copy of one, or a new node with links,    *)
(* each of them to a ref or to a new leaf (NoRef).                            *)

Leaf == [kind |-> "new", links |-> {}]
Bare == [kind : {"ref"}, ref : Refs]
Specs == [kind : {"clone"}, ref : Refs] \cup
         {Leaf} \cup {[kind |-> "new", links |-> {l}] : l \in Slots \X (Refs \cup {NoRef})}

\* A copy of the part S of a graph in the candidate, with the copy of ref as its root.
CopyOf(c, graph, S, ref) ==
  UNION {LET copy(n) == IF n \in S THEN x.name[n] ELSE n
         IN  {[next |-> [d EXCEPT !.copies = @ \cup {<<x.name[n], n>> : n \in S}],
               root |-> x.name[ref]] :
                d \in AddEdges(x.next, {<<copy(e.from), e.slot, copy(e.to)>> :
                                           e \in {d \in graph.edges : d.from \in S}})} :
         x \in AddNodes(c, Restrict(graph.nodes, S))}

\* Mutant: the copy is taken from the candidate.
CloneOfCandidate(c, ref) ==
  IF ~Existing(c, ref) THEN {} ELSE CopyOf(c, c, OwnedClosure(c.edges, {ref}), ref)

\* clone: the owned subtree as it was before the request, with its references.
Clone(c, ref) ==
  LET S == OwnedClosure(draft.edges, {ref})
  IN  IF ~Existing(c, ref) \/ \E e \in draft.edges : e.from \in S /\ e.to \notin S \cup Live(c) THEN {}
      ELSE CopyOf(c, draft, S, ref)

\* A new node, and a leaf for every link to one.
Itself == <<>>
New(c, links) ==
  LET leaves == {l \in links : l[2] = NoRef}
  IN  IF \E l \in links \ leaves : ~Existing(c, l[2]) THEN {}
      ELSE UNION {{[next |-> d, root |-> x.name[Itself]] :
                     d \in AddEdges(x.next, {<<x.name[Itself], l[1],
                                                IF l \in leaves THEN x.name[l] ELSE l[2]>> : l \in links})} :
                  x \in AddNodes(c, [k \in {Itself} \cup leaves |-> 0])}

\* expand: the candidate and the node the input stands for.
Expand(c, input) ==
  CASE input.kind = "ref" -> {[next |-> c, root |-> n] : n \in {m \in {input.ref} : Existing(c, m)}}
    [] input.kind = "clone" -> Clone(c, input.ref)
    [] input.kind = "new" -> New(c, input.links)

-------------------------------------------------------------------------------
(* evaluateTopology, one patch at a time *)

RemoveNode(c, p) == IF Existing(c, p.ref) THEN Erase(c, {p.ref}) ELSE {}

\* Mutant: a restored node keeps the edges it had.
ResetAdding(c, p) ==
  LET restored == {e \in baseline.edges : \/ e.to = p.ref /\ e.slot \in Owned
                                          \/ e.from = p.ref /\ e.slot \notin Owned}
      alive == Live(c) \cup {p.ref}
  IN  IF p.ref \notin Live(baseline) THEN RemoveNode(c, p)
      ELSE IF \E e \in restored : ~({e.from, e.to} \subseteq alive) THEN {}
      ELSE {[c EXCEPT !.nodes = [n \in alive |-> IF n = p.ref THEN baseline.nodes[n] ELSE @[n]],
                      !.gone = @ \ {p.ref},
                      !.edges = @ \cup restored,
                      !.retired = @ \ Ids(restored)]}

\* reset: a node of the baseline gets back its intent, its owner and what it
\* refers to, all of which must be there, and their identities free; another node
\* is removed.
Reset(c, p) ==
  LET mine(e) == \/ e.to = p.ref /\ e.slot \in Owned
                 \/ e.from = p.ref /\ e.slot \notin Owned
      restored == {e \in baseline.edges : mine(e)}
      alive == Live(c) \cup {p.ref}
      cut == Retire(c, {e \in c.edges : mine(e)})
  IN  IF p.ref \notin Live(baseline) THEN RemoveNode(c, p)
      ELSE IF \E e \in restored : ~({e.from, e.to} \subseteq alive) \/ e.id \in Ids(cut.edges) THEN {}
      ELSE {[cut EXCEPT !.nodes = [n \in alive |-> IF n = p.ref THEN baseline.nodes[n] ELSE @[n]],
                        !.gone = @ \ {p.ref},
                        !.edges = @ \cup restored,
                        !.retired = @ \ Ids(restored)]}

\* set with parentRef: one more target.
AppendTo(c, p) ==
  IF ~Existing(c, p.ref) \/ (p.slot \in Single /\ Targets(c, p.ref, p.slot) # {}) THEN {}
  ELSE UNION {AddEdges(x.next, {<<p.ref, p.slot, x.root>>}) : x \in Expand(c, p.value)}

\* One input after the other.
ExpandAll(c, inputs) ==
  LET first[i \in 0..Len(inputs)] ==
        IF i = 0 THEN {[next |-> c, roots |-> <<>>]}
        ELSE UNION {{[next |-> y.next, roots |-> Append(x.roots, y.root)] :
                       y \in Expand(x.next, inputs[i])} : x \in first[i - 1]}
  IN  first[Len(inputs)]

\* set with ref: the targets of the slot, as a whole.  Owned targets that are
\* not listed are removed before the new edges are made.
Replace(c, p) ==
  LET old == {e \in c.edges : e.from = p.ref /\ e.slot = p.slot}
      replaced(x) ==
        LET next == ToSet(x.roots)
            dropped == {e \in old : e.to \notin next}
            rest == Retire(x.next, dropped)
        IN  IF Cardinality(next) # Len(x.roots) THEN {}
            ELSE UNION {AddEdges(d, {<<p.ref, p.slot, n>> : n \in next \ {e.to : e \in old}}) :
                        d \in IF p.slot \in Owned THEN Erase(rest, {e.to : e \in dropped}) ELSE {rest}}
  IN  IF ~Existing(c, p.ref) THEN {}
      ELSE UNION {replaced(x) : x \in ExpandAll(c, p.value)}

Lists == {<<>>} \cup {<<i>> : i \in Bare \cup Specs} \cup {<<i, j>> : i, j \in Bare \cup {Leaf}}

Patches == [op : {"remove", "reset"}, ref : Refs]
           \cup [op : {"append"}, ref : Refs, slot : Slots, value : Specs]
           \cup [op : {"replace"}, ref : Refs, slot : Slots, value : Lists]

Results(c, p) ==
  {d \in CASE p.op = "remove" -> RemoveNode(c, p)
           [] p.op = "reset" -> Reset(c, p)
           [] p.op = "append" -> AppendTo(c, p)
           [] p.op = "replace" -> Replace(c, p) : Valid(d)}

-------------------------------------------------------------------------------
(* Batches *)

Candidate(g) ==
  [nodes |-> g.nodes, edges |-> g.edges, gone |-> g.gone, retired |-> g.retired, copies |-> {}]

Evaluate(p) ==
  /\ version + Len(batch) < MaxWork
  /\ cand' \in Results(cand, p)
  /\ batch' = Append(batch, p)
  /\ UNCHANGED <<version, draft, baseline, adopted>>

\* The field patches follow, on nodes that were there and are; then the batch is
\* stored.  Once a run has adopted a graph its structure must stay.
Commit(edited) ==
  /\ edited \subseteq Live(draft) \cap Live(cand)
  /\ batch # <<>> \/ edited # {}
  /\ \A g \in adopted : Live(cand) = Live(g) /\ cand.edges = g.edges
  /\ version < MaxWork /\ version' = version + 1
  /\ draft' = [nodes |-> [n \in Live(cand) |-> IF n \in edited THEN 1 ELSE cand.nodes[n]],
               edges |-> cand.edges, gone |-> cand.gone, retired |-> cand.retired]
  /\ cand' = Candidate(draft')
  /\ batch' = <<>>
  /\ UNCHANGED <<baseline, adopted>>

\* A later patch fails, or the fields do, or the lease is lost.
Refuse ==
  /\ batch # <<>>
  /\ cand' = Candidate(draft)
  /\ batch' = <<>>
  /\ UNCHANGED <<version, draft, baseline, adopted>>

\* publish or resume: a run adopts the stored graph, with its intents.
Adopt ==
  /\ batch = <<>>
  /\ adopted' = {Graph(draft)}
  /\ UNCHANGED <<version, draft, baseline, cand, batch>>

\* The run is published: resets go back to what it adopted (baselineOf).
Published ==
  /\ adopted # {}
  /\ baseline' = CHOOSE g \in adopted : TRUE
  /\ UNCHANGED <<version, draft, adopted, cand, batch>>

\* initializeTopology: nested node specs, so every node has at most one edge that
\* leads to it, from a node made before it.
Init ==
  /\ \E n \in 1..MaxBirths : \E parent \in [1..n -> 0..(n - 1)], slot \in [1..n -> Slots] :
       /\ \A i \in 1..n : parent[i] < i
       /\ draft = [nodes |-> [i \in 1..n |-> 0],
                   edges |-> {[id |-> i, from |-> parent[i], to |-> i, slot |-> slot[i]] :
                                i \in {j \in 1..n : parent[j] # 0}},
                   gone |-> {}, retired |-> {}]
  /\ Valid(draft)
  /\ baseline = Graph(draft) /\ adopted = {} /\ version = 0
  /\ cand = Candidate(draft) /\ batch = <<>>

Next ==
  \/ \E p \in Patches : Evaluate(p)
  \/ \E edited \in {{}} \cup {{n} : n \in Refs} : Commit(edited)
  \/ Refuse \/ Adopt \/ Published

Spec == Init /\ [][Next]_vars
-------------------------------------------------------------------------------
(* Properties *)

\* The patch this step evaluates.
Evaluating == Len(batch') > Len(batch)
Patch == Last(batch')

\* Reference definition: what every set that holds root and all it owns has in common.
Below(c, root) ==
  {n \in Live(c) : \A S \in SUBSET Live(c) :
     root \in S /\ (\A e \in c.edges : e.from \in S /\ e.slot \in Owned => e.to \in S) => n \in S}

\* What a patch takes out of the graph, by what it says.
Dropped(p) ==
  CASE p.op = "remove" -> {p.ref}
    [] p.op = "reset" -> {p.ref} \ Live(baseline)
    [] p.op = "append" -> {}
    [] p.op = "replace" ->
         IF p.slot \in Owned
           THEN Targets(cand, p.ref, p.slot) \ {i.ref : i \in {j \in ToSet(p.value) : j.kind = "ref"}}
           ELSE {}

\* The edges a patch is about.
Addressed(p, e) ==
  CASE p.op = "remove" -> FALSE
    [] p.op = "reset" -> \/ e.to = p.ref /\ e.slot \in Owned
                         \/ e.from = p.ref /\ e.slot \notin Owned
    [] p.op \in {"append", "replace"} -> e.from = p.ref /\ e.slot = p.slot

\* A patch takes exactly the dropped nodes and what they own, directly or not.  No
\* survivor loses an edge to another survivor, or its intent, but the patch says so,
\* and none refers to a node that is gone (eraseMany, removableOwnedClosures).
OnlyTheOwnedIsTaken ==
  [][Evaluating =>
       LET taken == UNION {Below(cand, n) : n \in Dropped(Patch)}
           kept == Live(cand) \ taken
           among(c) == {e \in c.edges : {e.from, e.to} \subseteq kept /\ ~Addressed(Patch, e)}
       IN  /\ Live(cand) \ Live(cand') = taken
           /\ among(cand') = among(cand)
           /\ \A n \in kept : cand'.nodes[n] # cand.nodes[n] => Patch.op = "reset" /\ n = Patch.ref
           /\ \A e \in cand.edges : e.to \in taken /\ e.from \in kept =>
                                     e.slot \in Owned \/ Addressed(Patch, e)]_vars

\* A reset of a baseline node undoes everything done to it, and nothing done to others:
\* whatever came between, it has its intent, its owner and its references again, by
\* their identities, and keeps what it owns now.
ResetRestores ==
  [][Evaluating /\ Patch.op = "reset" /\ Patch.ref \in Live(baseline) =>
       LET about(g) == {e \in g.edges : Addressed(Patch, e)} IN
       /\ about(cand') = about(baseline)
       /\ cand'.nodes[Patch.ref] = baseline.nodes[Patch.ref]
       /\ cand'.edges \ about(cand') = cand.edges \ about(cand)
       /\ Restrict(cand'.nodes, Live(cand) \ {Patch.ref}) = Restrict(cand.nodes, Live(cand) \ {Patch.ref})
       /\ cand'.gone = cand.gone \ {Patch.ref}]_vars

\* What a clone makes is the subtree its source had before the request, although
\* earlier patches of the batch may have changed it: the same intents, the same
\* edges among the copies, the same references to others, and no other edge.
ClonesAreFaithful ==
  [][Evaluating /\ Patch.op = "append" /\ Patch.value.kind = "clone" =>
       LET copies == cand'.copies \ cand.copies
           new == {x[1] : x \in copies}
           source(n) == IF n \in new THEN (CHOOSE x \in copies : x[1] = n)[2] ELSE n
           shape(edges) == {<<source(e.from), e.slot, source(e.to)>> : e \in edges}
           made == {e \in cand'.edges : e.from \in new}
           sources == {x[2] : x \in copies}
       IN  /\ sources = Below(draft, Patch.value.ref) /\ Cardinality(new) = Cardinality(sources)
           /\ \A n \in new : cand'.nodes[n] = draft.nodes[source(n)]
           /\ shape(made) = {<<e.from, e.slot, e.to>> : e \in {d \in draft.edges : d.from \in sources}}
           /\ \A e \in made : source(e.to) \in sources => e.to \in new
           /\ Cardinality({e \in cand'.edges : e.from \notin new /\ e.to \in new}) = 1]_vars

\* An identity never stands for two things: what leaves is remembered, what is
\* remembered comes back only as the baseline had it, and what is new was never used
\* (identity.ts, tombstones).
IdentitiesStandForOneThing ==
  [][/\ \A id \in 1..MaxEdge :
          LET rec(g) == {e \in g.edges : e.id = id} IN
          /\ rec(draft) # {} => rec(draft') = rec(draft) \/ (rec(draft') = {} /\ id \in draft'.retired)
          /\ id \in draft.retired => id \in draft'.retired \/ rec(draft') = rec(baseline)
          /\ rec(draft) = {} /\ rec(draft') # {} /\ rec(baseline) # {} => rec(draft') = rec(baseline)
     /\ Live(draft) \subseteq Live(draft') \cup draft'.gone
     /\ draft.gone \subseteq draft'.gone \cup (Live(draft') \cap Live(baseline))
     /\ Live(draft') \cap draft'.gone = {} /\ Ids(draft'.edges) \cap draft'.retired = {}]_vars

\* A new node that names an existing one by its bare ref is linked to it once the patch
\* is through; so the documentation says of bare refs in a replaced slot
\* (docs/design/024-three-state-op-contract.md:35).
BareRefsAreAssociated ==
  [][Evaluating /\ Patch.op = "replace" =>
       \A i \in ToSet(Patch.value) : i.kind = "new" =>
         \A link \in i.links : link[2] # NoRef =>
           \E e \in cand'.edges : e.to = link[2] /\ e.slot = link[1] /\ e.from \notin Live(cand)]_vars

===============================================================================
