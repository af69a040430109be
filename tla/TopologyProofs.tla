---------------------------- MODULE TopologyProofs ----------------------------
(***************************************************************************)
(* Proofs about Topology, for any slots and any bounds, from                *)
(* TopologyAssumption: the four action properties its run checks, and that   *)
(* a reset never finds an identity it restores in use.                      *)
(*                                                                         *)
(* What an operation gives is stated by a lemma ...Is, that it keeps what a  *)
(* candidate must be (Good) by one ...OK.  Worklists and lists of inputs are *)
(* recursive functions; that they exist, and what they compute, is shown by  *)
(* the impossibility of a least counterexample (Least).                     *)
(***************************************************************************)
EXTENDS Topology, FiniteSetTheorems, SequenceTheorems, WellFoundedInduction, TLAPS
-------------------------------------------------------------------------------
(* What a candidate may be *)

\* An identity is one thing in both graphs.
SameThing(g, h) == \A d \in g.edges, e \in h.edges : d.id = e.id => d = e

\* What the candidate c says of identities agrees with the stored graph and the baseline.
Fits(c) ==
  /\ c = [nodes |-> c.nodes, edges |-> c.edges, gone |-> c.gone, retired |-> c.retired,
          copies |-> c.copies]
  /\ c.nodes = [n \in Live(c) |-> c.nodes[n]]
  /\ SameThing(c, c) /\ SameThing(c, draft) /\ SameThing(c, baseline)
  /\ Live(c) \cap c.gone = {} /\ Ids(c.edges) \cap c.retired = {}
  /\ Ids(draft.edges) \subseteq Ids(c.edges) \cup c.retired
  /\ draft.retired \subseteq Ids(c.edges) \cup c.retired
  /\ Ids(c.edges) \subseteq 1..MaxEdge
  /\ \A x \in c.copies : x[1] \in Live(c) \cup c.gone
  /\ Live(draft) \subseteq Live(c) \cup c.gone
  /\ draft.gone \subseteq Live(c) \cup c.gone

\* Before the first run what was retired comes back from the baseline only.
Returned(c) ==
  adopted = {} => /\ \A e \in c.edges : e.id \in draft.retired => e \in baseline.edges
                  /\ Live(c) \cap draft.gone \subseteq Live(baseline)

\* A run in progress freezes the structure.
Frozen == \A g \in adopted : g.edges = draft.edges /\ Live(g) = Live(draft)

\* The inductive invariant.
Inv ==
  /\ Fits(cand) /\ Returned(cand) /\ Valid(cand)
  /\ Fits(Candidate(draft)) /\ Valid(draft)
  /\ draft = [nodes |-> draft.nodes, edges |-> draft.edges, gone |-> draft.gone,
              retired |-> draft.retired]
  /\ SameThing(baseline, baseline) /\ Ids(baseline.edges) \subseteq 1..MaxEdge
  /\ Frozen
  /\ batch \in Seq(Patches)

\* A candidate that keeps what the patches before it have made of identities.
Good(c) == Fits(c) /\ Returned(c)

\* The candidate d is c with new nodes, and new edges that start at them.
Extends(c, d) ==
  /\ Live(c) \subseteq Live(d) /\ c.edges \subseteq d.edges
  /\ \A n \in Live(c) : d.nodes[n] = c.nodes[n]
  /\ \A e \in d.edges \ c.edges : e.from \in Live(d) \ Live(c)

-------------------------------------------------------------------------------
(* The operations on a candidate *)

LEMMA IdsAre ==
  ASSUME NEW edges, NEW i
  PROVE  i \in Ids(edges) <=> \E e \in edges : e.id = i
BY DEF Ids

\* Retiring edges of the candidate.
LEMMA RetireIs ==
  ASSUME NEW c, Fits(c), NEW G \in SUBSET c.edges
  PROVE  Retire(c, G) = [nodes |-> c.nodes, edges |-> c.edges \ G, gone |-> c.gone,
                         retired |-> c.retired \cup Ids(G), copies |-> c.copies]
<1>1. c = [nodes |-> c.nodes, edges |-> c.edges, gone |-> c.gone, retired |-> c.retired,
           copies |-> c.copies]
  BY DEF Fits
<1> DEFINE d == Retire(c, G)
<1>2. d = [f \in DOMAIN c |-> d[f]] /\ DOMAIN c = {"nodes", "edges", "gone", "retired", "copies"}
  BY <1>1 DEF Retire
<1>3. /\ d.nodes = c.nodes /\ d.edges = c.edges \ G /\ d.gone = c.gone
      /\ d.retired = c.retired \cup Ids(G) /\ d.copies = c.copies
  BY <1>1 DEF Retire
<1> HIDE DEF d
<1>4. d = [nodes |-> d.nodes, edges |-> d.edges, gone |-> d.gone, retired |-> d.retired,
           copies |-> d.copies]
  BY <1>2
<1> QED
  BY <1>3, <1>4 DEF d

LEMMA RetireOK ==
  ASSUME NEW c, Good(c), NEW G \in SUBSET c.edges
  PROVE  Good(Retire(c, G))
<1> DEFINE d == Retire(c, G)
<1>1. /\ d = [nodes |-> c.nodes, edges |-> c.edges \ G, gone |-> c.gone,
              retired |-> c.retired \cup Ids(G), copies |-> c.copies]
  BY RetireIs DEF Good
<1>2. /\ d.nodes = c.nodes /\ d.edges = c.edges \ G /\ d.gone = c.gone
      /\ d.retired = c.retired \cup Ids(G) /\ d.copies = c.copies /\ Live(d) = Live(c)
  BY <1>1 DEF Live
<1>3. d = [nodes |-> d.nodes, edges |-> d.edges, gone |-> d.gone, retired |-> d.retired,
           copies |-> d.copies]
  BY <1>1
<1> HIDE DEF d
<1>4. Ids(c.edges) \subseteq Ids(d.edges) \cup Ids(G) /\ Ids(d.edges) \subseteq Ids(c.edges)
  BY <1>2 DEF Ids
<1>5. Ids(d.edges) \cap d.retired = {}
  <2> SUFFICES ASSUME NEW i \in Ids(d.edges), i \in d.retired PROVE FALSE
    OBVIOUS
  <2>1. PICK e \in c.edges \ G : e.id = i
    BY <1>2 DEF Ids
  <2>2. i \notin c.retired
    BY <2>1, IdsAre DEF Good, Fits
  <2>3. PICK f \in G : f.id = i
    BY <1>2, <2>2 DEF Ids
  <2>4. e = f
    BY <2>1, <2>3 DEF Good, Fits, SameThing
  <2> QED
    BY <2>1, <2>3, <2>4
<1>6. SameThing(d, d) /\ SameThing(d, draft) /\ SameThing(d, baseline)
  BY <1>2 DEF Good, Fits, SameThing
<1>7. Fits(d)
  BY <1>2, <1>3, <1>4, <1>5, <1>6 DEF Good, Fits
<1>8. Returned(d)
  BY <1>2 DEF Good, Returned
<1> QED
  BY <1>7, <1>8 DEF Good, d

LEMMA EraseOK ==
  ASSUME NEW c, Good(c), NEW refs, NEW d \in Erase(c, refs)
  PROVE  Good(d)
<1> DEFINE R == OwnedClosure(c.edges, refs)
           G == {e \in c.edges : {e.from, e.to} \cap R # {}}
           cut == Retire(c, G)
<1>1. d = [cut EXCEPT !.nodes = Restrict(c.nodes, Live(c) \ R), !.gone = @ \cup R]
  BY DEF Erase
<1>2. Good(cut) /\ cut.nodes = c.nodes
  BY RetireOK, RetireIs DEF Good
<1> HIDE DEF cut, R
<1>3. /\ d = [nodes |-> Restrict(c.nodes, Live(c) \ R), edges |-> cut.edges,
              gone |-> cut.gone \cup R, retired |-> cut.retired, copies |-> cut.copies]
  BY <1>1, <1>2 DEF Good, Fits
<1>4. /\ d.nodes = [n \in Live(c) \ R |-> c.nodes[n]] /\ d.edges = cut.edges
      /\ d.gone = cut.gone \cup R /\ d.retired = cut.retired /\ d.copies = cut.copies
      /\ d = [nodes |-> d.nodes, edges |-> d.edges, gone |-> d.gone, retired |-> d.retired,
              copies |-> d.copies]
  BY <1>3 DEF Restrict
<1>5. Live(d) = Live(cut) \ R /\ d.nodes = [n \in Live(d) |-> d.nodes[n]]
  BY <1>2, <1>4 DEF Live
<1> HIDE DEF G
<1>6. Fits(d)
  BY <1>2, <1>4, <1>5 DEF Good, Fits, SameThing
<1>7. Returned(d)
  BY <1>2, <1>4, <1>5 DEF Good, Returned
<1> QED
  BY <1>6, <1>7 DEF Good

\* A candidate with new nodes is a candidate, and nothing else of it is new.
LEMMA AddNodesShape ==
  ASSUME NEW c, Fits(c), NEW intents, NEW x \in AddNodes(c, intents)
  PROVE  /\ x.next = [nodes |-> x.next.nodes, edges |-> c.edges, gone |-> c.gone,
                      retired |-> c.retired, copies |-> c.copies]
         /\ x.next.nodes = [n \in Live(x.next) |-> x.next.nodes[n]]
<1>1. PICK f, g : x = [next |-> [c EXCEPT !.nodes = f], name |-> g] /\ f = [n \in DOMAIN f |-> f[n]]
  BY DEF AddNodes
<1>2. x.next = [nodes |-> f, edges |-> c.edges, gone |-> c.gone, retired |-> c.retired,
                copies |-> c.copies]
  BY <1>1 DEF Fits
<1>3. x.next.nodes = f
  BY <1>2
<1> QED
  BY <1>1, <1>2, <1>3 DEF Live

\* The names of new nodes, and what the nodes of the candidate are.
LEMMA AddNodesIs ==
  ASSUME NEW c, Fits(c), NEW intents, NEW x \in AddNodes(c, intents)
  PROVE  /\ x.name \in [DOMAIN intents -> UnusedNodes(c)] /\ IsInjective(x.name)
         /\ x.next.edges = c.edges /\ x.next.gone = c.gone /\ x.next.retired = c.retired
         /\ x.next.copies = c.copies
         /\ Live(x.next) = Live(c) \cup Range(x.name)
         /\ \A n \in Live(c) : x.next.nodes[n] = c.nodes[n]
         /\ \A s \in DOMAIN intents : x.next.nodes[x.name[s]] = intents[s]
<1> DEFINE free == Injection(DOMAIN intents, UnusedNodes(c))
           name == CHOOSE f \in free : TRUE
           entry(n) == CHOOSE s \in DOMAIN intents : name[s] = n
           nodes == [n \in Live(c) \cup Range(name) |->
                       IF n \in Live(c) THEN c.nodes[n] ELSE intents[entry(n)]]
<1>1. free # {} /\ x = [next |-> [c EXCEPT !.nodes = nodes], name |-> name]
  BY DEF AddNodes
<1>2. name \in free /\ x.name = name
  BY <1>1
<1>3. x.next = [nodes |-> nodes, edges |-> c.edges, gone |-> c.gone, retired |-> c.retired,
                copies |-> c.copies]
  BY <1>1 DEF Fits
<1>4. /\ name \in [DOMAIN intents -> UnusedNodes(c)] /\ IsInjective(name)
      /\ \A s, t \in DOMAIN intents : name[s] = name[t] => s = t
  BY <1>2 DEF Injection, IsInjective
<1>5. \A s \in DOMAIN intents : name[s] \notin Live(c) /\ entry(name[s]) = s
  BY <1>4 DEF UnusedNodes
<1> HIDE DEF name, free
<1>6. DOMAIN nodes = Live(c) \cup Range(name) /\ x.next.nodes = nodes
  BY <1>3
<1>7. \A s \in DOMAIN intents : name[s] \in Range(name)
  BY <1>4 DEF Range
<1>8. /\ x.next.edges = c.edges /\ x.next.gone = c.gone /\ x.next.retired = c.retired
      /\ x.next.copies = c.copies
  BY <1>3
<1>9. /\ \A n \in Live(c) : x.next.nodes[n] = c.nodes[n]
      /\ \A s \in DOMAIN intents : x.next.nodes[name[s]] = intents[s]
  BY <1>5, <1>6, <1>7
<1>10. Live(x.next) = Live(c) \cup Range(name)
  BY <1>6 DEF Live
<1> QED
  BY <1>2, <1>4, <1>8, <1>9, <1>10

LEMMA AddNodesOK ==
  ASSUME NEW c, Good(c), NEW intents, NEW x \in AddNodes(c, intents)
  PROVE  Good(x.next)
<1> DEFINE d == x.next
<1>1. Fits(c)
  BY DEF Good
<1>2. /\ d = [nodes |-> d.nodes, edges |-> c.edges, gone |-> c.gone,
              retired |-> c.retired, copies |-> c.copies]
      /\ d.nodes = [n \in Live(d) |-> d.nodes[n]]
  BY <1>1, AddNodesShape
<1>3. d.edges = c.edges /\ d.gone = c.gone /\ d.retired = c.retired /\ d.copies = c.copies
  BY <1>2
<1>4. x.name \in [DOMAIN intents -> UnusedNodes(c)] /\ Live(d) = Live(c) \cup Range(x.name)
  BY <1>1, AddNodesIs
<1>5. \A n \in Range(x.name) : n \notin c.gone \cup draft.gone
  BY <1>4 DEF Range, UnusedNodes
<1> HIDE DEF d
<1>6. Fits(d)
  BY <1>1, <1>2, <1>3, <1>4, <1>5 DEF Fits, SameThing
<1>7. Returned(d)
  BY <1>3, <1>4, <1>5 DEF Good, Returned
<1> QED
  BY <1>6, <1>7 DEF Good, d

LEMMA AddEdgesIs ==
  ASSUME NEW c, Fits(c), NEW links, NEW d \in AddEdges(c, links)
  PROVE  \E name \in Injection(links, UnusedEdges(c)) :
           d = [nodes |-> c.nodes,
                edges |-> c.edges \cup {[id |-> name[l], from |-> l[1], slot |-> l[2], to |-> l[3]] :
                                          l \in links},
                gone |-> c.gone, retired |-> c.retired, copies |-> c.copies]
<1> DEFINE free == Injection(links, UnusedEdges(c))
           name == CHOOSE f \in free : TRUE
           made == {[id |-> name[l], from |-> l[1], slot |-> l[2], to |-> l[3]] : l \in links}
<1>1. free # {} /\ d = [c EXCEPT !.edges = @ \cup made]
  BY DEF AddEdges
<1>2. name \in free
  BY <1>1
<1> HIDE DEF free, name
<1>3. d = [nodes |-> c.nodes, edges |-> c.edges \cup made,
           gone |-> c.gone, retired |-> c.retired, copies |-> c.copies]
  BY <1>1 DEF Fits
<1> QED
  BY <1>2, <1>3 DEF free

LEMMA AddEdgesOK ==
  ASSUME NEW c, Good(c), NEW links, NEW d \in AddEdges(c, links)
  PROVE  Good(d)
<1>1. PICK name \in Injection(links, UnusedEdges(c)) :
           d = [nodes |-> c.nodes,
                edges |-> c.edges \cup {[id |-> name[l], from |-> l[1], slot |-> l[2], to |-> l[3]] :
                                          l \in links},
                gone |-> c.gone, retired |-> c.retired, copies |-> c.copies]
  BY AddEdgesIs DEF Good
<1> DEFINE made == {[id |-> name[l], from |-> l[1], slot |-> l[2], to |-> l[3]] : l \in links}
<1>2. /\ name \in [links -> UnusedEdges(c)]
      /\ \A k, l \in links : name[k] = name[l] => k = l
  BY DEF Injection, IsInjective
<1>3. /\ d.nodes = c.nodes /\ d.edges = c.edges \cup made /\ d.gone = c.gone
      /\ d.retired = c.retired /\ d.copies = c.copies /\ Live(d) = Live(c)
      /\ d = [nodes |-> d.nodes, edges |-> d.edges, gone |-> d.gone, retired |-> d.retired,
              copies |-> d.copies]
  BY <1>1 DEF Live
<1>4. \A e \in made : \E l \in links :
        e = [id |-> name[l], from |-> l[1], slot |-> l[2], to |-> l[3]] /\ e.id = name[l]
  OBVIOUS
<1>5. \A e \in made : e.id \in UnusedEdges(c)
  BY <1>2, <1>4
<1>6. \A d1, e \in made : d1.id = e.id => d1 = e
  BY <1>2, <1>4
<1> HIDE DEF made
<1>7. \A e \in made : /\ \A f \in c.edges \cup draft.edges \cup baseline.edges : f.id # e.id
                      /\ e.id \notin c.retired \cup draft.retired
  BY <1>5 DEF UnusedEdges, Ids
<1>8. SameThing(d, d) /\ SameThing(d, draft) /\ SameThing(d, baseline)
  <2>1. SameThing(c, c) /\ SameThing(c, draft) /\ SameThing(c, baseline)
    BY DEF Good, Fits
  <2>2. ASSUME NEW e \in d.edges, NEW f \in d.edges, e.id = f.id PROVE e = f
    <3>1. (e \in made \/ e \in c.edges) /\ (f \in made \/ f \in c.edges)
      BY <1>3
    <3> QED
      BY <1>6, <1>7, <2>1, <2>2, <3>1 DEF SameThing
  <2>3. ASSUME NEW e \in d.edges, NEW f \in draft.edges, e.id = f.id PROVE e = f
    BY <1>3, <1>7, <2>1, <2>3 DEF SameThing
  <2>4. ASSUME NEW e \in d.edges, NEW f \in baseline.edges, e.id = f.id PROVE e = f
    BY <1>3, <1>7, <2>1, <2>4 DEF SameThing
  <2> QED
    BY <2>2, <2>3, <2>4 DEF SameThing
<1>9. Ids(d.edges) = Ids(c.edges) \cup Ids(made) /\ Ids(made) \subseteq 1..MaxEdge
  BY <1>3, <1>5 DEF Ids, UnusedEdges
<1>10. Ids(d.edges) \cap d.retired = {}
  <2>1. Ids(c.edges) \cap c.retired = {} /\ Ids(made) \cap c.retired = {}
    BY <1>7, IdsAre DEF Good, Fits
  <2> QED
    BY <1>3, <1>9, <2>1
<1>11. Fits(d)
  BY <1>3, <1>8, <1>9, <1>10 DEF Good, Fits
<1>12. Returned(d)
  BY <1>3, <1>7 DEF Good, Returned
<1> QED
  BY <1>11, <1>12 DEF Good

LEMMA CopiesOK ==
  ASSUME NEW c, Good(c), NEW more, \A x \in more : x[1] \in Live(c)
  PROVE  /\ Good([c EXCEPT !.copies = @ \cup more])
         /\ [c EXCEPT !.copies = @ \cup more] =
              [nodes |-> c.nodes, edges |-> c.edges, gone |-> c.gone, retired |-> c.retired,
               copies |-> c.copies \cup more]
<1> DEFINE d == [c EXCEPT !.copies = @ \cup more]
<1>0. c = [nodes |-> c.nodes, edges |-> c.edges, gone |-> c.gone, retired |-> c.retired,
           copies |-> c.copies]
  BY DEF Good, Fits
<1>1. d = [nodes |-> c.nodes, edges |-> c.edges, gone |-> c.gone, retired |-> c.retired,
           copies |-> c.copies \cup more]
  <2>1. d = [f \in DOMAIN c |-> d[f]] /\ DOMAIN c = {"nodes", "edges", "gone", "retired", "copies"}
    BY <1>0
  <2>2. /\ d.nodes = c.nodes /\ d.edges = c.edges /\ d.gone = c.gone
        /\ d.retired = c.retired /\ d.copies = c.copies \cup more
    BY <1>0
  <2> HIDE DEF d
  <2>3. d = [nodes |-> d.nodes, edges |-> d.edges, gone |-> d.gone, retired |-> d.retired,
             copies |-> d.copies]
    BY <2>1
  <2> QED
    BY <2>2, <2>3
<1>2. /\ d.nodes = c.nodes /\ d.edges = c.edges /\ d.gone = c.gone /\ d.retired = c.retired
      /\ d.copies = c.copies \cup more /\ Live(d) = Live(c)
      /\ d = [nodes |-> d.nodes, edges |-> d.edges, gone |-> d.gone, retired |-> d.retired,
              copies |-> d.copies]
  BY <1>1 DEF Live
<1> HIDE DEF d
<1>3. Good(d)
  BY <1>2 DEF Good, Fits, Returned, SameThing
<1> QED
  BY <1>1, <1>3 DEF d

-------------------------------------------------------------------------------
(* What an input may do to the candidate *)

LEMMA ExtendsTwice ==
  ASSUME NEW c, NEW d, NEW f, Extends(c, d), Extends(d, f)
  PROVE  Extends(c, f)
BY DEF Extends

\* The names of new nodes are names the candidate has now, and did not have.
LEMMA NewNames ==
  ASSUME NEW c, Fits(c), NEW intents, NEW x \in AddNodes(c, intents), NEW s \in DOMAIN intents
  PROVE  /\ x.name[s] \in Live(x.next) \ Live(c) /\ x.name[s] \in Range(x.name)
         /\ x.name[s] \notin Live(draft) \cup c.gone
<1>1. x.name \in [DOMAIN intents -> UnusedNodes(c)] /\ Live(x.next) = Live(c) \cup Range(x.name)
  BY AddNodesIs
<1>2. x.name[s] \in UnusedNodes(c) /\ x.name[s] \in Range(x.name)
  BY <1>1 DEF Range
<1> QED
  BY <1>1, <1>2 DEF UnusedNodes

\* New nodes, then edges that start at them.
LEMMA NodesAndEdges ==
  ASSUME NEW c, Good(c), NEW intents, NEW x \in AddNodes(c, intents),
         NEW links, \A l \in links : l[1] \in Range(x.name),
         NEW d \in AddEdges(x.next, links)
  PROVE  Good(d) /\ Extends(c, d) /\ Live(d) = Live(x.next)
<1>1. Good(x.next) /\ Good(d)
  BY AddNodesOK, AddEdgesOK
<1>2. /\ x.next.edges = c.edges /\ Live(x.next) = Live(c) \cup Range(x.name)
      /\ \A n \in Live(c) : x.next.nodes[n] = c.nodes[n]
  BY AddNodesIs DEF Good
<1>3. PICK name :
           d = [nodes |-> x.next.nodes,
                edges |-> x.next.edges \cup {[id |-> name[l], from |-> l[1], slot |-> l[2], to |-> l[3]] :
                                               l \in links},
                gone |-> x.next.gone, retired |-> x.next.retired, copies |-> x.next.copies]
  BY <1>1, AddEdgesIs DEF Good
<1> DEFINE made == {[id |-> name[l], from |-> l[1], slot |-> l[2], to |-> l[3]] : l \in links}
<1>4. d.nodes = x.next.nodes /\ d.edges = c.edges \cup made
  BY <1>2, <1>3
<1>5. \A e \in made : e.from \in Range(x.name)
  OBVIOUS
<1>6. \A n \in Range(x.name) : n \notin Live(c)
  <2>1. x.name \in [DOMAIN intents -> UnusedNodes(c)]
    BY AddNodesIs DEF Good
  <2> QED
    BY <2>1 DEF Range, UnusedNodes
<1> HIDE DEF made
<1>7. Live(d) = Live(x.next)
  BY <1>4 DEF Live
<1>8. Extends(c, d)
  BY <1>2, <1>4, <1>5, <1>6, <1>7 DEF Extends
<1> QED
  BY <1>1, <1>7, <1>8

LEMMA CopyOfOK ==
  ASSUME NEW c, Good(c), NEW graph, NEW S, NEW ref \in S, NEW y \in CopyOf(c, graph, S, ref)
  PROVE  Good(y.next) /\ Extends(c, y.next) /\ y.root \in Live(y.next) \ Live(c)
<1> DEFINE intents == Restrict(graph.nodes, S)
           copy(x, n) == IF n \in S THEN x.name[n] ELSE n
           links(x) == {<<copy(x, e.from), e.slot, copy(x, e.to)>> :
                          e \in {d \in graph.edges : d.from \in S}}
           more(x) == {<<x.name[n], n>> : n \in S}
           z(x, d) == [d EXCEPT !.copies = @ \cup more(x)]
<1>1. PICK x \in AddNodes(c, intents) : \E d \in AddEdges(x.next, links(x)) :
        y = [next |-> z(x, d), root |-> x.name[ref]]
  BY DEF CopyOf
<1>2. PICK d \in AddEdges(x.next, links(x)) : y = [next |-> z(x, d), root |-> x.name[ref]]
  BY <1>1
<1>3. DOMAIN intents = S
  BY DEF Restrict
<1>4. \A n \in S : x.name[n] \in Live(x.next) \ Live(c) /\ x.name[n] \in Range(x.name)
  <2> HIDE DEF intents
  <2> QED
    BY <1>3, NewNames DEF Good
<1>5. \A l \in links(x) : l[1] \in Range(x.name)
  BY <1>4
<1>6. Good(d) /\ Extends(c, d) /\ Live(d) = Live(x.next)
  <2> HIDE DEF intents, links
  <2> QED
    BY <1>5, NodesAndEdges
<1>7. \A m \in more(x) : m[1] \in Live(d)
  BY <1>4, <1>6
<1>8. /\ Good(z(x, d))
      /\ z(x, d) = [nodes |-> d.nodes, edges |-> d.edges, gone |-> d.gone, retired |-> d.retired,
                    copies |-> d.copies \cup more(x)]
  <2> HIDE DEF more
  <2> QED
    BY <1>6, <1>7, CopiesOK
<1> HIDE DEF z
<1>9. z(x, d).nodes = d.nodes /\ z(x, d).edges = d.edges
  BY <1>8
<1>10. y.next = z(x, d) /\ y.root = x.name[ref]
  BY <1>2
<1> QED
  BY <1>4, <1>6, <1>8, <1>9, <1>10 DEF Extends, Live

LEMMA NewOK ==
  ASSUME NEW c, Good(c), NEW links, NEW y \in New(c, links)
  PROVE  Good(y.next) /\ Extends(c, y.next) /\ y.root \in Live(y.next) \ Live(c)
<1> DEFINE leaves == {l \in links : l[2] = NoRef}
           intents == [k \in {Itself} \cup leaves |-> 0]
           made(x) == {<<x.name[Itself], l[1], IF l \in leaves THEN x.name[l] ELSE l[2]>> :
                         l \in links}
<1>1. PICK x \in AddNodes(c, intents) :
        \E d \in AddEdges(x.next, made(x)) : y = [next |-> d, root |-> x.name[Itself]]
  BY DEF New
<1>2. PICK d \in AddEdges(x.next, made(x)) : y = [next |-> d, root |-> x.name[Itself]]
  BY <1>1
<1>3. Itself \in DOMAIN intents
  OBVIOUS
<1>4. x.name[Itself] \in Live(x.next) \ Live(c) /\ x.name[Itself] \in Range(x.name)
  <2> HIDE DEF intents
  <2> QED
    BY <1>3, NewNames DEF Good
<1>5. \A l \in made(x) : l[1] \in Range(x.name)
  BY <1>4
<1> HIDE DEF intents, made
<1>6. Good(d) /\ Extends(c, d) /\ Live(d) = Live(x.next)
  BY <1>5, NodesAndEdges
<1> QED
  BY <1>2, <1>4, <1>6

-------------------------------------------------------------------------------
(* What a set of nodes owns *)

LEMMA Least ==
  ASSUME NEW T \in SUBSET Nat, T # {}
  PROVE  \E x \in T : \A y \in T : x <= y
<1> DEFINE R == OpToRel(<, Nat)
<1>1. IsWellFoundedOn(R, Nat)
  BY NatLessThanWellFounded
<1>2. \A x, y \in Nat : <<y, x>> \in R <=> y < x
  BY DEF OpToRel
<1> HIDE DEF R
<1>3. \E x \in T : \A y \in T : ~(<<y, x>> \in R)
  BY <1>1, WFMin, Zenon
<1>4. PICK x \in T : \A y \in T : ~(<<y, x>> \in R)
  BY <1>3
<1>5. ASSUME NEW y \in T PROVE x <= y
  <2>1. ~(y < x)
    BY <1>2, <1>4
  <2> QED
    BY <2>1
<1> QED
  BY <1>5

\* One round of the worklist.
Onward(edges, S) == S \cup {e.to : e \in {d \in {e \in edges : e.slot \in Owned} : d.from \in S}}

Rounds(edges, roots, f, n) == IF n = 0 THEN roots ELSE Onward(edges, f[n - 1])

LEMMA RoundsExist ==
  ASSUME NEW edges, NEW roots, NEW N \in Nat
  PROVE  \E f : f = [n \in 0..N |-> Rounds(edges, roots, f, n)]
<1> DEFINE T == {K \in Nat : ~\E f : f = [n \in 0..K |-> Rounds(edges, roots, f, n)]}
<1> SUFFICES ASSUME T # {} PROVE FALSE
  OBVIOUS
<1>1. PICK K \in T : \A m \in T : K <= m
  <2>1. T \in SUBSET Nat
    OBVIOUS
  <2> HIDE DEF T
  <2> QED
    BY <2>1, Least
<1>2. K \in Nat /\ ~\E f : f = [n \in 0..K |-> Rounds(edges, roots, f, n)]
  OBVIOUS
<1>3. K # 0
  <2> SUFFICES ASSUME K = 0 PROVE FALSE
    OBVIOUS
  <2> DEFINE f == [n \in 0..0 |-> roots]
  <2>1. f = [n \in 0..0 |-> Rounds(edges, roots, f, n)]
    BY DEF Rounds
  <2> QED
    BY <1>2, <2>1
<1>4. PICK f : f = [n \in 0..(K - 1) |-> Rounds(edges, roots, f, n)]
  <2>1. K - 1 \in Nat /\ ~(K <= K - 1)
    BY <1>2, <1>3
  <2>2. K - 1 \notin T
    BY <1>1, <2>1
  <2> QED
    BY <2>1, <2>2
<1> DEFINE g == [n \in 0..K |-> Rounds(edges, roots, f, n)]
<1>5. ASSUME NEW n \in 0..K PROVE Rounds(edges, roots, f, n) = Rounds(edges, roots, g, n)
  <2>1. CASE n = 0
    BY <2>1 DEF Rounds
  <2>2. CASE n # 0
    <3>1. n - 1 \in 0..(K - 1) /\ n - 1 \in 0..K
      BY <1>2, <2>2
    <3>2. f[n - 1] = Rounds(edges, roots, f, n - 1)
      BY <1>4, <3>1
    <3>3. g[n - 1] = Rounds(edges, roots, f, n - 1)
      BY <3>1
    <3> HIDE DEF g
    <3> QED
      BY <2>2, <3>2, <3>3 DEF Rounds
  <2> QED
    BY <2>1, <2>2
<1>6. g = [n \in 0..K |-> Rounds(edges, roots, g, n)]
  BY <1>5
<1> QED
  BY <1>2, <1>6

\* The worklist, round by round.
LEMMA ClosureRounds ==
  ASSUME NEW edges, IsFiniteSet(edges), NEW roots
  PROVE  LET N == Cardinality({e \in edges : e.slot \in Owned}) IN
         \E f : /\ N \in Nat
                /\ f = [n \in 0..N |-> Rounds(edges, roots, f, n)]
                /\ OwnedClosure(edges, roots) = f[N]
<1> DEFINE owned == {e \in edges : e.slot \in Owned}
           N == Cardinality(owned)
<1>1. IsFiniteSet(owned) /\ N \in Nat
  BY FS_Subset, FS_CardinalityType
<1> HIDE DEF N
<1> DEFINE reach == CHOOSE f : f = [n \in 0..N |-> Rounds(edges, roots, f, n)]
<1>2. reach = [n \in 0..N |-> Rounds(edges, roots, reach, n)]
  <2>1. \E f : f = [n \in 0..N |-> Rounds(edges, roots, f, n)]
    BY <1>1, RoundsExist
  <2> QED
    BY <2>1
<1>3. OwnedClosure(edges, roots) = reach[N]
  BY DEF OwnedClosure, Rounds, Onward, N
<1> HIDE DEF reach
<1> QED
  BY <1>1, <1>2, <1>3 DEF N

\* A set that has what its members own.
ClosedUnder(edges, S) == \A e \in edges : e.slot \in Owned /\ e.from \in S => e.to \in S

\* The worklist ends with the smallest such set: a round that finds a node follows an
\* edge no earlier round did.
LEMMA ClosureIs ==
  ASSUME NEW edges, IsFiniteSet(edges), NEW roots
  PROVE  /\ roots \subseteq OwnedClosure(edges, roots)
         /\ ClosedUnder(edges, OwnedClosure(edges, roots))
         /\ \A S : roots \subseteq S /\ ClosedUnder(edges, S) => OwnedClosure(edges, roots) \subseteq S
<1> DEFINE owned == {e \in edges : e.slot \in Owned}
           N == Cardinality(owned)
           C == OwnedClosure(edges, roots)
<1>1. PICK f : /\ N \in Nat
               /\ f = [n \in 0..N |-> Rounds(edges, roots, f, n)]
               /\ C = f[N]
  BY ClosureRounds
<1>2. \A n \in 0..N : f[n] = Rounds(edges, roots, f, n)
  BY <1>1
<1> DEFINE used(n) == {e \in owned : e.from \in f[n]}
           out(n) == \E e \in owned : e.from \in f[n] /\ e.to \notin f[n]
<1>3. IsFiniteSet(owned) /\ \A n \in 0..N : IsFiniteSet(used(n)) /\ Cardinality(used(n)) \in Nat
                                            /\ Cardinality(used(n)) <= N
  <2>1. IsFiniteSet(owned)
    BY FS_Subset
  <2>2. ASSUME NEW n \in 0..N
        PROVE  IsFiniteSet(used(n)) /\ Cardinality(used(n)) \in Nat /\ Cardinality(used(n)) <= N
    <3>1. used(n) \in SUBSET owned
      OBVIOUS
    <3> HIDE DEF used, owned
    <3> QED
      BY <2>1, <3>1, FS_Subset, FS_CardinalityType
  <2> QED
    BY <2>1, <2>2
<1> HIDE DEF N
<1>4. \A n \in 1..N : /\ n - 1 \in 0..N /\ n \in 0..N
                      /\ f[n] = f[n - 1] \cup {e.to : e \in {d \in owned : d.from \in f[n - 1]}}
  <2> TAKE n \in 1..N
  <2>1. n - 1 \in 0..N /\ n \in 0..N /\ n # 0
    BY <1>1
  <2> QED
    BY <1>2, <2>1 DEF Rounds, Onward
<1>5. f[0] = roots
  BY <1>1, <1>2 DEF Rounds
<1>6. \A n \in 0..N : roots \subseteq f[n]
  <2> DEFINE T == {n \in 0..N : ~(roots \subseteq f[n])}
  <2> SUFFICES ASSUME T # {} PROVE FALSE
    OBVIOUS
  <2>1. PICK n \in T : \A m \in T : n <= m
    <3>1. T \in SUBSET Nat
      OBVIOUS
    <3> HIDE DEF T
    <3> QED
      BY <3>1, Least
  <2>2. n \in 0..N /\ ~(roots \subseteq f[n])
    OBVIOUS
  <2>3. n # 0
    BY <1>5, <2>2
  <2>4. n \in 1..N /\ n - 1 \in 0..N /\ ~(n <= n - 1)
    BY <1>1, <2>2, <2>3
  <2>5. roots \subseteq f[n - 1]
    BY <2>1, <2>4
  <2> QED
    BY <1>4, <2>2, <2>4, <2>5
<1>7. \A n \in 0..N : out(n) => Cardinality(used(n)) >= n + 1
  <2> DEFINE T == {n \in 0..N : out(n) /\ ~(Cardinality(used(n)) >= n + 1)}
  <2> SUFFICES ASSUME T # {} PROVE FALSE
    OBVIOUS
  <2>1. PICK n \in T : \A m \in T : n <= m
    <3>1. T \in SUBSET Nat
      OBVIOUS
    <3> HIDE DEF T
    <3> QED
      BY <3>1, Least
  <2>2. n \in 0..N /\ out(n) /\ ~(Cardinality(used(n)) >= n + 1)
    OBVIOUS
  <2>3. PICK e \in owned : e.from \in f[n] /\ e.to \notin f[n]
    BY <2>2
  <2>4. e \in used(n)
    BY <2>3
  <2>5. CASE n = 0
    <3>1. used(n) # {} /\ IsFiniteSet(used(n)) /\ Cardinality(used(n)) \in Nat
      BY <1>3, <2>2, <2>4
    <3> HIDE DEF used
    <3>2. Cardinality(used(n)) # 0
      BY <3>1, FS_EmptySet
    <3> QED
      BY <2>2, <2>5, <3>1, <3>2
  <2>6. CASE n # 0
    <3>1. n \in 1..N /\ n - 1 \in 0..N /\ ~(n <= n - 1)
      BY <1>1, <2>2, <2>6
    <3>2. f[n] = f[n - 1] \cup {d.to : d \in {x \in owned : x.from \in f[n - 1]}}
      BY <1>4, <3>1
    <3>3. e.from \notin f[n - 1]
      BY <2>3, <3>2
    <3>4. out(n - 1)
      BY <2>3, <3>2, <3>3
    <3>5. Cardinality(used(n - 1)) >= n
      <4>1. n - 1 \notin T
        BY <2>1, <3>1
      <4> QED
        BY <3>1, <3>4, <4>1
    <3>6. used(n - 1) \in SUBSET used(n) /\ e \notin used(n - 1)
      BY <3>2, <3>3
    <3>7. /\ IsFiniteSet(used(n)) /\ Cardinality(used(n)) \in Nat
          /\ Cardinality(used(n - 1)) \in Nat
      BY <1>3, <3>1, <2>2
    <3> HIDE DEF used
    <3>8. /\ Cardinality(used(n - 1)) <= Cardinality(used(n))
          /\ Cardinality(used(n)) # Cardinality(used(n - 1))
      BY <2>4, <3>6, <3>7, FS_Subset
    <3> QED
      BY <2>2, <3>5, <3>7, <3>8
  <2> QED
    BY <2>5, <2>6
<1>8. ClosedUnder(edges, C)
  <2>1. N \in 0..N /\ ~(N >= N + 1)
    BY <1>1
  <2>2. ~out(N)
    <3> HIDE DEF used, out
    <3> QED
      BY <1>3, <1>7, <2>1, <1>1
  <2> QED
    BY <1>1, <2>2 DEF ClosedUnder
<1>9. ASSUME NEW S, roots \subseteq S, ClosedUnder(edges, S) PROVE C \subseteq S
  <2> DEFINE T == {n \in 0..N : ~(f[n] \subseteq S)}
  <2> SUFFICES ASSUME T # {} PROVE FALSE
    BY <1>1
  <2>1. PICK n \in T : \A m \in T : n <= m
    <3>1. T \in SUBSET Nat
      OBVIOUS
    <3> HIDE DEF T
    <3> QED
      BY <3>1, Least
  <2>2. n \in 0..N /\ ~(f[n] \subseteq S)
    OBVIOUS
  <2>3. n # 0
    BY <1>5, <1>9, <2>2
  <2>4. n \in 1..N /\ n - 1 \in 0..N /\ ~(n <= n - 1)
    BY <1>1, <2>2, <2>3
  <2>5. f[n - 1] \subseteq S
    BY <2>1, <2>4
  <2> QED
    BY <1>4, <1>9, <2>2, <2>4, <2>5 DEF ClosedUnder
<1>10. roots \subseteq C
  BY <1>1, <1>6
<1> QED
  BY <1>8, <1>9, <1>10

-------------------------------------------------------------------------------
(* Inputs *)

LEMMA FiniteEdges ==
  ASSUME NEW c, Fits(c)
  PROVE  IsFiniteSet(c.edges)
<1> DEFINE f == [e \in c.edges |-> e.id]
<1>1. IsFiniteSet(1..MaxEdge)
  BY FS_Interval, TopologyAssumption
<1>2. \A e \in c.edges : e.id \in 1..MaxEdge
  BY DEF Fits, Ids
<1>3. \A d, e \in c.edges : d.id = e.id => d = e
  BY DEF Fits, SameThing
<1>4. f \in Injection(c.edges, 1..MaxEdge)
  BY <1>2, <1>3 DEF Injection, IsInjective
<1> HIDE DEF f
<1> QED
  BY <1>1, <1>4, FS_Injection

LEMMA ExpandOK ==
  ASSUME NEW c, Good(c), IsFiniteSet(draft.edges),
         NEW input \in Bare \cup Specs, NEW y \in Expand(c, input)
  PROVE  /\ Good(y.next) /\ Extends(c, y.next)
         /\ input.kind = "ref" => y.root = input.ref
         /\ input.kind # "ref" => y.root \in Live(y.next) \ Live(c)
<1>1. CASE input.kind = "ref"
  <2>1. y.next = c /\ y.root = input.ref
    BY <1>1 DEF Expand
  <2> QED
    BY <1>1, <2>1 DEF Extends
<1>2. CASE input.kind = "clone"
  <2> DEFINE S == OwnedClosure(draft.edges, {input.ref})
  <2>1. y \in CopyOf(c, draft, S, input.ref)
    BY <1>2 DEF Expand, Clone
  <2>2. input.ref \in S
    BY ClosureIs
  <2> HIDE DEF S
  <2> QED
    BY <1>2, <2>1, <2>2, CopyOfOK
<1>3. CASE input.kind = "new"
  <2>1. y \in New(c, input.links)
    BY <1>3 DEF Expand
  <2> QED
    BY <1>3, <2>1, NewOK
<1> QED
  BY <1>1, <1>2, <1>3 DEF Bare, Specs, Leaf

\* What the inputs make, input by input.
After(results, input) ==
  UNION {{[next |-> y.next, roots |-> Append(x.roots, y.root)] : y \in Expand(x.next, input)} :
         x \in results}

Steps(c, inputs, f, i) ==
  IF i = 0 THEN {[next |-> c, roots |-> <<>>]} ELSE After(f[i - 1], inputs[i])

LEMMA StepsExist ==
  ASSUME NEW c, NEW inputs, NEW N \in Nat
  PROVE  \E f : f = [i \in 0..N |-> Steps(c, inputs, f, i)]
<1> DEFINE T == {K \in Nat : ~\E f : f = [i \in 0..K |-> Steps(c, inputs, f, i)]}
<1> SUFFICES ASSUME T # {} PROVE FALSE
  OBVIOUS
<1>1. PICK K \in T : \A m \in T : K <= m
  <2>1. T \in SUBSET Nat
    OBVIOUS
  <2> HIDE DEF T
  <2> QED
    BY <2>1, Least
<1>2. K \in Nat /\ ~\E f : f = [i \in 0..K |-> Steps(c, inputs, f, i)]
  OBVIOUS
<1>3. K # 0
  <2> SUFFICES ASSUME K = 0 PROVE FALSE
    OBVIOUS
  <2> DEFINE f == [i \in 0..0 |-> {[next |-> c, roots |-> <<>>]}]
  <2>1. f = [i \in 0..0 |-> Steps(c, inputs, f, i)]
    BY DEF Steps
  <2> QED
    BY <1>2, <2>1
<1>4. PICK f : f = [i \in 0..(K - 1) |-> Steps(c, inputs, f, i)]
  <2>1. K - 1 \in Nat /\ ~(K <= K - 1)
    BY <1>2, <1>3
  <2>2. K - 1 \notin T
    BY <1>1, <2>1
  <2> QED
    BY <2>1, <2>2
<1> DEFINE g == [i \in 0..K |-> Steps(c, inputs, f, i)]
<1>5. ASSUME NEW i \in 0..K PROVE Steps(c, inputs, f, i) = Steps(c, inputs, g, i)
  <2>1. CASE i = 0
    BY <2>1 DEF Steps
  <2>2. CASE i # 0
    <3>1. i - 1 \in 0..(K - 1) /\ i - 1 \in 0..K
      BY <1>2, <2>2
    <3>2. f[i - 1] = Steps(c, inputs, f, i - 1)
      BY <1>4, <3>1
    <3>3. g[i - 1] = Steps(c, inputs, f, i - 1)
      BY <3>1
    <3> HIDE DEF g
    <3> QED
      BY <2>2, <3>2, <3>3 DEF Steps
  <2> QED
    BY <2>1, <2>2
<1>6. g = [i \in 0..K |-> Steps(c, inputs, g, i)]
  BY <1>5
<1> QED
  BY <1>2, <1>6

\* What is so of the result of some inputs.
Expanded(c, inputs, i, x) ==
  /\ Good(x.next) /\ Extends(c, x.next)
  /\ x.roots \in Seq({x.roots[k] : k \in 1..i}) /\ Len(x.roots) = i
  /\ \A k \in 1..i : /\ inputs[k].kind = "ref" => x.roots[k] = inputs[k].ref
                     /\ inputs[k].kind # "ref" => x.roots[k] \notin Live(c)

LEMMA ExpandAllOK ==
  ASSUME NEW c, Good(c), IsFiniteSet(draft.edges),
         NEW inputs \in Seq(Bare \cup Specs), NEW x \in ExpandAll(c, inputs)
  PROVE  Expanded(c, inputs, Len(inputs), x)
<1> DEFINE N == Len(inputs)
           first == CHOOSE f : f = [i \in 0..N |-> Steps(c, inputs, f, i)]
<1>1. N \in Nat
  OBVIOUS
<1>2. first = [i \in 0..N |-> Steps(c, inputs, first, i)]
  <2>1. \E f : f = [i \in 0..N |-> Steps(c, inputs, f, i)]
    BY <1>1, StepsExist
  <2> QED
    BY <2>1
<1>3. ExpandAll(c, inputs) = first[N]
  BY DEF ExpandAll, Steps, After
<1> HIDE DEF first
<1>4. \A i \in 0..N : first[i] = Steps(c, inputs, first, i)
  BY <1>2
<1> DEFINE T == {i \in 0..N : ~\A z \in first[i] : Expanded(c, inputs, i, z)}
<1>5. T = {}
  <2> SUFFICES ASSUME T # {} PROVE FALSE
    OBVIOUS
  <2>1. PICK i \in T : \A m \in T : i <= m
    <3>1. T \in SUBSET Nat
      OBVIOUS
    <3> HIDE DEF T
    <3> QED
      BY <3>1, Least
  <2>2. i \in 0..N /\ ~\A z \in first[i] : Expanded(c, inputs, i, z)
    OBVIOUS
  <2>3. PICK z \in first[i] : ~Expanded(c, inputs, i, z)
    BY <2>2
  <2>4. z \in Steps(c, inputs, first, i)
    BY <1>4, <2>2, <2>3
  <2>5. i # 0
    <3> SUFFICES ASSUME i = 0 PROVE FALSE
      OBVIOUS
    <3>1. z = [next |-> c, roots |-> <<>>]
      BY <2>4 DEF Steps
    <3>2. z.next = c /\ z.roots = <<>> /\ Len(z.roots) = 0
      BY <3>1
    <3>3. z.roots \in Seq({z.roots[k] : k \in 1..0})
      BY <3>2
    <3> QED
      BY <2>3, <3>2, <3>3 DEF Expanded, Extends
  <2>6. i \in 1..N /\ i - 1 \in 0..N /\ ~(i <= i - 1)
    BY <1>1, <2>2, <2>5
  <2>7. PICK w \in first[i - 1] :
          \E y \in Expand(w.next, inputs[i]) : z = [next |-> y.next, roots |-> Append(w.roots, y.root)]
    BY <2>4, <2>5 DEF Steps, After
  <2>8. PICK y \in Expand(w.next, inputs[i]) : z = [next |-> y.next, roots |-> Append(w.roots, y.root)]
    BY <2>7
  <2>9. Expanded(c, inputs, i - 1, w)
    <3>1. i - 1 \notin T
      BY <2>1, <2>6
    <3> HIDE DEF N
    <3> QED
      BY <2>6, <2>7, <3>1
  <2>10. inputs[i] \in Bare \cup Specs
    BY <2>6
  <2>11. /\ Good(y.next) /\ Extends(w.next, y.next)
         /\ inputs[i].kind = "ref" => y.root = inputs[i].ref
         /\ inputs[i].kind # "ref" => y.root \in Live(y.next) \ Live(w.next)
    <3>1. Good(w.next)
      BY <2>9 DEF Expanded
    <3> QED
      BY <2>8, <2>10, <3>1, ExpandOK
  <2>12. z.next = y.next /\ z.roots = Append(w.roots, y.root)
    BY <2>8
  <2>13. Extends(c, z.next) /\ Live(c) \subseteq Live(w.next)
    <3>1. Extends(c, w.next)
      BY <2>9 DEF Expanded
    <3>2. Extends(c, y.next)
      BY <2>11, <3>1, ExtendsTwice
    <3> QED
      BY <2>12, <3>1, <3>2 DEF Extends
  <2> DEFINE V == {w.roots[k] : k \in 1..(i - 1)} \cup {y.root}
  <2>14. w.roots \in Seq(V) /\ Len(w.roots) = i - 1 /\ y.root \in V
    <3>1. w.roots \in Seq({w.roots[k] : k \in 1..(i - 1)}) /\ Len(w.roots) = i - 1
      BY <2>9 DEF Expanded
    <3> QED
      BY <3>1
  <2> HIDE DEF V
  <2>15. /\ z.roots \in Seq(V) /\ Len(z.roots) = i /\ z.roots[i] = y.root
         /\ \A k \in 1..(i - 1) : z.roots[k] = w.roots[k]
    BY <2>6, <2>12, <2>14
  <2>16. z.roots \in Seq({z.roots[k] : k \in 1..i})
    <3> DEFINE W == {z.roots[k] : k \in 1..i}
    <3>1. \A k \in 1..i : z.roots[k] \in W
      OBVIOUS
    <3> HIDE DEF W
    <3>2. z.roots = [k \in 1..i |-> z.roots[k]]
      BY <2>6, <2>15
    <3>3. z.roots \in Seq(W)
      BY <2>6, <3>1, <3>2
    <3> QED
      BY <3>3 DEF W
  <2>17. ASSUME NEW k \in 1..i
         PROVE  /\ inputs[k].kind = "ref" => z.roots[k] = inputs[k].ref
                /\ inputs[k].kind # "ref" => z.roots[k] \notin Live(c)
    <3>1. CASE k = i
      BY <2>11, <2>13, <2>15, <3>1
    <3>2. CASE k # i
      <4>1. k \in 1..(i - 1)
        BY <2>6, <3>2
      <4> QED
        BY <2>9, <2>15, <4>1 DEF Expanded
    <3> QED
      BY <3>1, <3>2
  <2> QED
    BY <2>3, <2>11, <2>12, <2>13, <2>15, <2>16, <2>17 DEF Expanded
<1>6. N \in 0..N
  BY <1>1
<1> HIDE DEF N
<1> QED
  BY <1>3, <1>5, <1>6 DEF N

-------------------------------------------------------------------------------
(* Patches *)

\* What a reset of p.ref is about.
Mine(p, e) == \/ e.to = p.ref /\ e.slot \in Owned
              \/ e.from = p.ref /\ e.slot \notin Owned

LEMMA ResetIs ==
  ASSUME NEW c, Fits(c), NEW p, p.ref \in Live(baseline), NEW d \in Reset(c, p)
  PROVE  LET restored == {e \in baseline.edges : Mine(p, e)}
             lost == {e \in c.edges : Mine(p, e)} IN
         /\ d = [nodes |-> [n \in Live(c) \cup {p.ref} |-> IF n = p.ref THEN baseline.nodes[n]
                                                            ELSE c.nodes[n]],
                 edges |-> (c.edges \ lost) \cup restored,
                 gone |-> c.gone \ {p.ref},
                 retired |-> (c.retired \cup Ids(lost)) \ Ids(restored),
                 copies |-> c.copies]
         /\ \A e \in restored : e.id \notin Ids(c.edges \ lost)
<1> DEFINE restored == {e \in baseline.edges : Mine(p, e)}
           lost == {e \in c.edges : Mine(p, e)}
           alive == Live(c) \cup {p.ref}
           cut == Retire(c, lost)
           nodes(g) == [n \in alive |-> IF n = p.ref THEN baseline.nodes[n] ELSE g[n]]
<1>1. /\ d = [cut EXCEPT !.nodes = nodes(@), !.gone = @ \ {p.ref}, !.edges = @ \cup restored,
                         !.retired = @ \ Ids(restored)]
      /\ \A e \in restored : e.id \notin Ids(cut.edges)
  BY DEF Reset, Mine
<1>2. cut = [nodes |-> c.nodes, edges |-> c.edges \ lost, gone |-> c.gone,
             retired |-> c.retired \cup Ids(lost), copies |-> c.copies]
  BY RetireIs
<1> HIDE DEF cut, nodes, restored, lost
<1>3. /\ cut.nodes = c.nodes /\ cut.edges = c.edges \ lost /\ cut.gone = c.gone
      /\ cut.retired = c.retired \cup Ids(lost) /\ cut.copies = c.copies
      /\ DOMAIN cut = {"nodes", "edges", "gone", "retired", "copies"}
  BY <1>2
<1>4. d = [f \in DOMAIN cut |-> d[f]]
  BY <1>1
<1>5. /\ d.nodes = nodes(c.nodes) /\ d.edges = (c.edges \ lost) \cup restored
      /\ d.gone = c.gone \ {p.ref} /\ d.retired = (c.retired \cup Ids(lost)) \ Ids(restored)
      /\ d.copies = c.copies
  BY <1>1, <1>3
<1>6. d = [nodes |-> d.nodes, edges |-> d.edges, gone |-> d.gone, retired |-> d.retired,
           copies |-> d.copies]
  BY <1>3, <1>4
<1>7. d = [nodes |-> nodes(c.nodes), edges |-> (c.edges \ lost) \cup restored,
           gone |-> c.gone \ {p.ref}, retired |-> (c.retired \cup Ids(lost)) \ Ids(restored),
           copies |-> c.copies]
  BY <1>5, <1>6
<1> QED
  BY <1>1, <1>3, <1>7 DEF nodes, restored, lost

\* The edges of the baseline come back as themselves, and no other edge has their
\* identities: the candidate never gave them to something else.
LEMMA ResetOK ==
  ASSUME NEW c, Good(c), NEW p, p.ref \in Live(baseline), NEW d \in Reset(c, p),
         SameThing(baseline, baseline), Ids(baseline.edges) \subseteq 1..MaxEdge,
         SameThing(draft, baseline)
  PROVE  Good(d)
<1> DEFINE restored == {e \in baseline.edges : Mine(p, e)}
           lost == {e \in c.edges : Mine(p, e)}
           rest == c.edges \ lost
           nodes == [n \in Live(c) \cup {p.ref} |-> IF n = p.ref THEN baseline.nodes[n]
                                                    ELSE c.nodes[n]]
<1>1. /\ d = [nodes |-> nodes, edges |-> rest \cup restored, gone |-> c.gone \ {p.ref},
              retired |-> (c.retired \cup Ids(lost)) \ Ids(restored), copies |-> c.copies]
      /\ \A e \in restored : e.id \notin Ids(rest)
  <2>1. Fits(c)
    BY DEF Good
  <2> QED
    BY <2>1, ResetIs
<1>2. /\ d.nodes = nodes /\ d.edges = rest \cup restored /\ d.gone = c.gone \ {p.ref}
      /\ d.retired = (c.retired \cup Ids(lost)) \ Ids(restored) /\ d.copies = c.copies
      /\ d = [nodes |-> d.nodes, edges |-> d.edges, gone |-> d.gone, retired |-> d.retired,
              copies |-> d.copies]
  <2> HIDE DEF nodes, rest, lost, restored
  <2> QED
    BY <1>1
<1>3. Live(d) = Live(c) \cup {p.ref} /\ d.nodes = [n \in Live(d) |-> d.nodes[n]]
  BY <1>2 DEF Live
<1> HIDE DEF nodes
<1>4. /\ restored \subseteq baseline.edges /\ rest \subseteq c.edges /\ lost \subseteq c.edges
      /\ c.edges = rest \cup lost /\ rest \cap lost = {}
  OBVIOUS
<1> HIDE DEF restored, rest, lost
<1>5. /\ SameThing(c, c) /\ SameThing(c, draft) /\ SameThing(c, baseline)
      /\ Ids(c.edges) \cap c.retired = {} /\ Ids(c.edges) \subseteq 1..MaxEdge
  BY DEF Good, Fits
<1>6. SameThing(d, d) /\ SameThing(d, draft) /\ SameThing(d, baseline)
  <2>1. ASSUME NEW e \in d.edges, NEW f \in d.edges, e.id = f.id PROVE e = f
    BY <1>2, <1>4, <1>5, <2>1 DEF SameThing
  <2>2. ASSUME NEW e \in d.edges, NEW f \in draft.edges, e.id = f.id PROVE e = f
    BY <1>2, <1>4, <1>5, <2>2 DEF SameThing
  <2>3. ASSUME NEW e \in d.edges, NEW f \in baseline.edges, e.id = f.id PROVE e = f
    BY <1>2, <1>4, <1>5, <2>3 DEF SameThing
  <2> QED
    BY <2>1, <2>2, <2>3 DEF SameThing
<1>7. /\ Ids(d.edges) = Ids(rest) \cup Ids(restored) /\ Ids(c.edges) = Ids(rest) \cup Ids(lost)
      /\ Ids(restored) \subseteq 1..MaxEdge
  BY <1>2, <1>4 DEF Ids
<1>8. Ids(d.edges) \cap d.retired = {}
  <2>1. Ids(rest) \cap Ids(lost) = {}
    BY <1>4, <1>5 DEF SameThing, Ids
  <2> QED
    BY <1>2, <1>5, <1>7, <2>1
<1>9. /\ Live(d) \cap d.gone = {} /\ Ids(d.edges) \subseteq 1..MaxEdge
      /\ Ids(c.edges) \cup c.retired \subseteq Ids(d.edges) \cup d.retired
      /\ Live(c) \cup c.gone \subseteq Live(d) \cup d.gone
  BY <1>2, <1>3, <1>5, <1>7 DEF Good, Fits
<1>10. Fits(d)
  BY <1>2, <1>3, <1>6, <1>8, <1>9 DEF Good, Fits
<1>11. Returned(d)
  BY <1>2, <1>3, <1>4 DEF Good, Returned
<1> QED
  BY <1>10, <1>11 DEF Good

\* The values a list may hold.
LEMMA ListsAre == Lists \subseteq Seq(Bare \cup Specs)
<1>1. Leaf \in Specs
  BY DEF Specs
<1> SUFFICES ASSUME NEW l \in Lists PROVE l \in Seq(Bare \cup Specs)
  OBVIOUS
<1>2. CASE l = <<>>
  BY <1>2
<1>3. CASE \E i \in Bare \cup Specs : l = <<i>>
  BY <1>3
<1>4. CASE \E i, j \in Bare \cup {Leaf} : l = <<i, j>>
  BY <1>1, <1>4
<1> QED
  BY <1>2, <1>3, <1>4 DEF Lists

\* A replaced slot: the edges it had, the ones that go, and what the new ones link.
Old(c, p) == {e \in c.edges : e.from = p.ref /\ e.slot = p.slot}
NotListed(c, p, x) == {e \in Old(c, p) : e.to \notin ToSet(x.roots)}
NewLinks(c, p, x) == {<<p.ref, p.slot, n>> : n \in ToSet(x.roots) \ {e.to : e \in Old(c, p)}}

LEMMA ReplaceIs ==
  ASSUME NEW c, NEW p, NEW d \in Replace(c, p)
  PROVE  \E x \in ExpandAll(c, p.value) : \E b :
           /\ Existing(c, p.ref)
           /\ p.slot \in Owned =>
                b \in Erase(Retire(x.next, NotListed(c, p, x)), {e.to : e \in NotListed(c, p, x)})
           /\ p.slot \notin Owned => b = Retire(x.next, NotListed(c, p, x))
           /\ d \in AddEdges(b, NewLinks(c, p, x))
<1> DEFINE rest(x) == Retire(x.next, NotListed(c, p, x))
           bases(x) == IF p.slot \in Owned THEN Erase(rest(x), {e.to : e \in NotListed(c, p, x)})
                                           ELSE {rest(x)}
           replaced(x) == IF Cardinality(ToSet(x.roots)) # Len(x.roots) THEN {}
                          ELSE UNION {AddEdges(b, NewLinks(c, p, x)) : b \in bases(x)}
<1>1. Existing(c, p.ref) /\ d \in UNION {replaced(x) : x \in ExpandAll(c, p.value)}
  BY DEF Replace, Old, NotListed, NewLinks
<1> HIDE DEF replaced
<1>2. PICK x \in ExpandAll(c, p.value) : d \in replaced(x)
  BY <1>1
<1> HIDE DEF bases
<1>3. PICK b \in bases(x) : d \in AddEdges(b, NewLinks(c, p, x))
  BY <1>2 DEF replaced
<1> QED
  BY <1>1, <1>3 DEF bases

\* A patch on a good candidate gives a good one.
LEMMA ResultOK ==
  ASSUME NEW c, Good(c), NEW p \in Patches, NEW d \in Results(c, p), IsFiniteSet(draft.edges),
         SameThing(baseline, baseline), Ids(baseline.edges) \subseteq 1..MaxEdge,
         SameThing(draft, baseline)
  PROVE  Good(d) /\ Valid(d)
<1>0. Valid(d)
  BY DEF Results
<1>1. CASE p.op = "remove"
  <2>1. d \in Erase(c, {p.ref})
    BY <1>1 DEF Results, RemoveNode
  <2> QED
    BY <1>0, <2>1, EraseOK
<1>2. CASE p.op = "reset"
  <2>1. d \in Reset(c, p)
    BY <1>2 DEF Results
  <2>2. CASE p.ref \in Live(baseline)
    BY <1>0, <2>1, <2>2, ResetOK
  <2>3. CASE p.ref \notin Live(baseline)
    <3>1. d \in Erase(c, {p.ref})
      BY <2>1, <2>3 DEF Reset, RemoveNode
    <3> QED
      BY <1>0, <3>1, EraseOK
  <2> QED
    BY <2>2, <2>3
<1>3. CASE p.op = "append"
  <2>1. p.value \in Bare \cup Specs
    BY <1>3 DEF Patches
  <2>2. d \in AppendTo(c, p)
    BY <1>3 DEF Results
  <2>3. PICK x \in Expand(c, p.value) : d \in AddEdges(x.next, {<<p.ref, p.slot, x.root>>})
    BY <2>2 DEF AppendTo
  <2>4. Good(x.next)
    BY <2>1, ExpandOK
  <2> QED
    BY <1>0, <2>3, <2>4, AddEdgesOK
<1>4. CASE p.op = "replace"
  <2>1. p.value \in Seq(Bare \cup Specs)
    BY <1>4, ListsAre DEF Patches
  <2>2. d \in Replace(c, p)
    BY <1>4 DEF Results
  <2>3. PICK x \in ExpandAll(c, p.value) : \E b :
           /\ Existing(c, p.ref)
           /\ p.slot \in Owned =>
                b \in Erase(Retire(x.next, NotListed(c, p, x)), {e.to : e \in NotListed(c, p, x)})
           /\ p.slot \notin Owned => b = Retire(x.next, NotListed(c, p, x))
           /\ d \in AddEdges(b, NewLinks(c, p, x))
    BY <2>2, ReplaceIs
  <2> DEFINE rest == Retire(x.next, NotListed(c, p, x))
  <2>4. PICK b :
           /\ p.slot \in Owned => b \in Erase(rest, {e.to : e \in NotListed(c, p, x)})
           /\ p.slot \notin Owned => b = rest
           /\ d \in AddEdges(b, NewLinks(c, p, x))
    BY <2>3
  <2>5. Good(x.next) /\ Extends(c, x.next)
    BY <2>1, ExpandAllOK DEF Expanded
  <2>6. NotListed(c, p, x) \in SUBSET x.next.edges
    BY <2>5 DEF Extends, NotListed, Old
  <2>7. Good(rest)
    BY <2>5, <2>6, RetireOK
  <2> HIDE DEF rest
  <2>8. Good(b)
    BY <2>4, <2>7, EraseOK
  <2> QED
    BY <1>0, <2>4, <2>8, AddEdgesOK
<1> QED
  BY <1>1, <1>2, <1>3, <1>4 DEF Patches

-------------------------------------------------------------------------------
(* The invariant *)

LEMMA ValidOf ==
  ASSUME NEW c, NEW d, Live(c) = Live(d), c.edges = d.edges, Valid(c)
  PROVE  Valid(d)
BY DEF Valid, Owners

LEMMA CandidateIs ==
  ASSUME NEW g
  PROVE  LET c == Candidate(g) IN
         /\ c.nodes = g.nodes /\ c.edges = g.edges /\ c.gone = g.gone /\ c.retired = g.retired
         /\ c.copies = {} /\ Live(c) = Live(g)
         /\ c = [nodes |-> c.nodes, edges |-> c.edges, gone |-> c.gone, retired |-> c.retired,
                 copies |-> c.copies]
BY DEF Candidate, Live

LEMMA InvInit == Init => Inv
<1> SUFFICES ASSUME Init PROVE Inv
  OBVIOUS
<1>1. PICK n \in 1..MaxBirths : \E parent \in [1..n -> 0..(n - 1)], slot \in [1..n -> Slots] :
        draft = [nodes |-> [i \in 1..n |-> 0],
                 edges |-> {[id |-> i, from |-> parent[i], to |-> i, slot |-> slot[i]] :
                              i \in {j \in 1..n : parent[j] # 0}},
                 gone |-> {}, retired |-> {}]
  BY DEF Init
<1>2. PICK parent, slot :
        draft = [nodes |-> [i \in 1..n |-> 0],
                 edges |-> {[id |-> i, from |-> parent[i], to |-> i, slot |-> slot[i]] :
                              i \in {j \in 1..n : parent[j] # 0}},
                 gone |-> {}, retired |-> {}]
  BY <1>1
<1>3. Valid(draft) /\ baseline = Graph(draft) /\ adopted = {} /\ cand = Candidate(draft) /\ batch = <<>>
  BY DEF Init
<1> DEFINE edges == {[id |-> i, from |-> parent[i], to |-> i, slot |-> slot[i]] :
                       i \in {j \in 1..n : parent[j] # 0}}
           nodes == [i \in 1..n |-> 0]
<1>4. draft = [nodes |-> nodes, edges |-> edges, gone |-> {}, retired |-> {}]
  BY <1>2
<1>5. (\A e \in edges : e.id \in 1..n) /\ \A d, e \in edges : d.id = e.id => d = e
  OBVIOUS
<1>6. nodes = [i \in DOMAIN nodes |-> nodes[i]]
  OBVIOUS
<1> HIDE DEF edges, nodes
<1>7. draft.nodes = nodes /\ draft.edges = edges /\ draft.gone = {} /\ draft.retired = {}
  BY <1>4
<1>8. baseline.edges = edges /\ Live(baseline) = DOMAIN nodes
  BY <1>3, <1>7 DEF Graph, Live
<1>9. /\ cand.nodes = nodes /\ cand.edges = edges /\ cand.gone = {} /\ cand.retired = {}
      /\ cand.copies = {} /\ Live(cand) = Live(draft) /\ Live(draft) = DOMAIN nodes
      /\ cand = [nodes |-> cand.nodes, edges |-> cand.edges, gone |-> cand.gone,
                 retired |-> cand.retired, copies |-> cand.copies]
  <2>1. Live(draft) = DOMAIN nodes
    BY <1>7 DEF Live
  <2> QED
    BY <1>3, <1>7, <2>1, CandidateIs
<1>10. SameThing(cand, cand) /\ SameThing(cand, draft) /\ SameThing(cand, baseline)
       /\ SameThing(baseline, baseline)
  BY <1>5, <1>7, <1>8, <1>9 DEF SameThing
<1>11. Ids(edges) \subseteq 1..MaxEdge
  <2>1. n <= MaxEdge
    BY TopologyAssumption
  <2> QED
    BY <1>5, <2>1, TopologyAssumption DEF Ids
<1>12. Fits(cand)
  BY <1>6, <1>7, <1>9, <1>10, <1>11 DEF Fits
<1>13. Returned(cand)
  BY <1>7 DEF Returned
<1>14. Valid(cand)
  BY <1>3, <1>7, <1>9, ValidOf
<1>15. Frozen /\ batch \in Seq(Patches)
  BY <1>3 DEF Frozen
<1>16. draft = [nodes |-> draft.nodes, edges |-> draft.edges, gone |-> draft.gone,
                retired |-> draft.retired]
  BY <1>4, <1>7
<1> QED
  BY <1>3, <1>8, <1>10, <1>11, <1>12, <1>13, <1>14, <1>15, <1>16 DEF Inv

\* What the invariant says of the stored graph.
LEMMA DraftIs ==
  ASSUME Inv
  PROVE  /\ IsFiniteSet(draft.edges) /\ IsFiniteSet(cand.edges)
         /\ SameThing(draft, draft) /\ SameThing(draft, baseline)
         /\ Live(draft) \cap draft.gone = {} /\ Ids(draft.edges) \cap draft.retired = {}
<1>1. Fits(Candidate(draft)) /\ Fits(cand)
  BY DEF Inv
<1>2. IsFiniteSet(Candidate(draft).edges) /\ IsFiniteSet(cand.edges)
  BY <1>1, FiniteEdges
<1> DEFINE c == Candidate(draft)
<1>3. /\ c.edges = draft.edges /\ c.gone = draft.gone /\ c.retired = draft.retired
      /\ Live(c) = Live(draft)
  BY CandidateIs
<1>4. Fits(c)
  BY <1>1
<1> HIDE DEF c
<1>5. /\ SameThing(c, draft) /\ SameThing(c, baseline)
      /\ Live(c) \cap c.gone = {} /\ Ids(c.edges) \cap c.retired = {}
  BY <1>4 DEF Fits
<1>6. IsFiniteSet(c.edges)
  BY <1>2 DEF c
<1> QED
  BY <1>2, <1>3, <1>5, <1>6 DEF SameThing

LEMMA InvStep == Inv /\ [Next]_vars => Inv'
<1> SUFFICES ASSUME Inv, [Next]_vars PROVE Inv'
  OBVIOUS
<1>1. ASSUME NEW p \in Patches, Evaluate(p) PROVE Inv'
  <2>1. /\ cand' \in Results(cand, p) /\ batch' = Append(batch, p)
        /\ draft' = draft /\ baseline' = baseline /\ adopted' = adopted
    BY <1>1 DEF Evaluate
  <2>2. Good(cand') /\ Valid(cand')
    <3>1. Good(cand)
      BY DEF Inv, Good
    <3> QED
      BY <2>1, <3>1, DraftIs, ResultOK DEF Inv
  <2>3. Fits(cand') /\ Returned(cand')
    BY <2>2 DEF Good
  <2>4. batch' \in Seq(Patches)
    BY <2>1 DEF Inv
  <2>5. Fits(cand)' /\ Returned(cand)' /\ Valid(cand)'
    BY <2>1, <2>2, <2>3 DEF Fits, Returned
  <2> DEFINE c == Candidate(draft)
  <2>6. Fits(c)' /\ Valid(draft)'
    BY <2>1 DEF Inv, Fits, Candidate
  <2>7. Frozen' /\ SameThing(baseline, baseline)' /\ (Ids(baseline.edges) \subseteq 1..MaxEdge)'
    BY <2>1 DEF Inv, Frozen
  <2> QED
    BY <2>1, <2>4, <2>5, <2>6, <2>7 DEF Inv
<1>2. ASSUME NEW edited, Commit(edited) PROVE Inv'
  <2> DEFINE nodes == [n \in Live(cand) |-> IF n \in edited THEN 1 ELSE cand.nodes[n]]
  <2>1. /\ draft' = [nodes |-> nodes, edges |-> cand.edges, gone |-> cand.gone,
                     retired |-> cand.retired]
        /\ cand' = Candidate(draft') /\ batch' = <<>> /\ baseline' = baseline /\ adopted' = adopted
        /\ \A g \in adopted : Live(cand) = Live(g) /\ cand.edges = g.edges
    BY <1>2 DEF Commit
  <2>2. DOMAIN nodes = Live(cand) /\ nodes = [n \in DOMAIN nodes |-> nodes[n]]
    OBVIOUS
  <2> HIDE DEF nodes
  <2>3. /\ draft'.nodes = nodes /\ draft'.edges = cand.edges /\ draft'.gone = cand.gone
        /\ draft'.retired = cand.retired /\ Live(draft') = Live(cand)
        /\ draft' = [nodes |-> draft'.nodes, edges |-> draft'.edges, gone |-> draft'.gone,
                     retired |-> draft'.retired]
    BY <2>1, <2>2 DEF Live
  <2>4. /\ cand'.nodes = nodes /\ cand'.edges = cand.edges /\ cand'.gone = cand.gone
        /\ cand'.retired = cand.retired /\ cand'.copies = {} /\ Live(cand') = Live(cand)
        /\ cand' = [nodes |-> cand'.nodes, edges |-> cand'.edges, gone |-> cand'.gone,
                    retired |-> cand'.retired, copies |-> cand'.copies]
    <3> DEFINE D == draft'
    <3>1. LET c == Candidate(D) IN
          /\ c.nodes = D.nodes /\ c.edges = D.edges /\ c.gone = D.gone /\ c.retired = D.retired
          /\ c.copies = {} /\ Live(c) = Live(D)
          /\ c = [nodes |-> c.nodes, edges |-> c.edges, gone |-> c.gone, retired |-> c.retired,
                  copies |-> c.copies]
      BY DEF Candidate, Live
    <3> QED
      BY <2>1, <2>3, <3>1
  <2>5. Fits(cand) /\ Valid(cand)
    BY DEF Inv
  <2>6. Fits(cand)'
    BY <2>1, <2>2, <2>3, <2>4, <2>5 DEF Fits, SameThing
  <2>7. Returned(cand)'
    BY <2>3, <2>4, <2>5, IdsAre DEF Fits, Returned
  <2>8. Valid(cand') /\ Valid(draft')
    BY <2>3, <2>4, <2>5, ValidOf
  <2>9. Frozen'
    BY <2>1, <2>3 DEF Frozen
  <2>10. Fits(Candidate(draft))'
    BY <2>1, <2>6
  <2> QED
    BY <2>1, <2>3, <2>6, <2>7, <2>8, <2>9, <2>10 DEF Inv, SameThing
<1>3. ASSUME Refuse PROVE Inv'
  <2>1. /\ cand' = Candidate(draft) /\ batch' = <<>>
        /\ draft' = draft /\ baseline' = baseline /\ adopted' = adopted
    BY <1>3 DEF Refuse
  <2>2. cand' = Candidate(draft)'
    BY <2>1
  <2> DEFINE c == Candidate(draft)
  <2>3. /\ c.edges = draft.edges /\ c.retired = draft.retired /\ Live(c) = Live(draft)
        /\ c.gone = draft.gone
    BY CandidateIs
  <2>4. Fits(c) /\ Valid(c)
    BY <2>3, ValidOf DEF Inv
  <2>5. Returned(c)
    <3> HIDE DEF c
    <3> QED
      BY <2>3, DraftIs, IdsAre DEF Returned
  <2> HIDE DEF c
  <2>6. cand' = c
    BY <2>1 DEF c
  <2>7. Fits(cand)' /\ Returned(cand)' /\ Valid(cand)'
    BY <2>1, <2>4, <2>5, <2>6 DEF Fits, Returned
  <2>8. Fits(Candidate(draft))'
    BY <2>2, <2>7
  <2>9. Frozen'
    BY <2>1 DEF Inv, Frozen
  <2> QED
    BY <2>1, <2>7, <2>8, <2>9 DEF Inv
<1>4. ASSUME Adopt PROVE Inv'
  <2>1. /\ adopted' = {Graph(draft)} /\ draft' = draft /\ baseline' = baseline
        /\ cand' = cand /\ batch' = batch
    BY <1>4 DEF Adopt
  <2>2. Frozen'
    BY <2>1 DEF Frozen, Graph, Live
  <2>3. Fits(cand)' /\ Returned(cand)' /\ Fits(Candidate(draft))'
    BY <2>1 DEF Inv, Fits, Returned
  <2> QED
    BY <2>1, <2>2, <2>3 DEF Inv
<1>5. ASSUME Published PROVE Inv'
  <2>1. /\ adopted # {} /\ baseline' = CHOOSE g \in adopted : TRUE
        /\ adopted' = adopted /\ draft' = draft /\ cand' = cand /\ batch' = batch
    BY <1>5 DEF Published
  <2>2. baseline' \in adopted
    BY <2>1
  <2>3. baseline'.edges = draft.edges
    BY <2>2 DEF Inv, Frozen
  <2>4. SameThing(draft, draft) /\ Ids(draft.edges) \subseteq 1..MaxEdge
    <3> DEFINE c == Candidate(draft)
    <3>1. c.edges = draft.edges
      BY CandidateIs
    <3>2. Fits(c)
      BY DEF Inv
    <3> HIDE DEF c
    <3> QED
      BY <3>1, <3>2, DraftIs DEF Fits
  <2>5. Fits(cand)'
    BY <2>1, <2>3 DEF Inv, Fits, SameThing
  <2>6. Fits(Candidate(draft))'
    BY <2>1, <2>3, <2>4 DEF Inv, Fits, SameThing, Candidate
  <2>7. Returned(cand)'
    BY <2>1 DEF Returned
  <2>8. SameThing(baseline, baseline)' /\ (Ids(baseline.edges) \subseteq 1..MaxEdge)'
    BY <2>3, <2>4 DEF SameThing, Ids
  <2>9. Frozen'
    BY <2>1 DEF Inv, Frozen
  <2> QED
    BY <2>1, <2>5, <2>6, <2>7, <2>8, <2>9 DEF Inv
<1>6. CASE UNCHANGED vars
  BY <1>6 DEF vars, Inv, Fits, Returned, Frozen, Candidate
<1> QED
  BY <1>1, <1>2, <1>3, <1>4, <1>5, <1>6 DEF Next

LEMMA InvAlways == Spec => []Inv
BY InvInit, InvStep, PTL DEF Spec

-------------------------------------------------------------------------------
(* Identities *)

\* What leaves a stored graph leaves a tombstone, what returns is what the baseline
\* had, and nothing new has the identity of anything stored, retired or of the
\* baseline (identity.ts).
THEOREM IdentitiesAreKept == Spec => IdentitiesStandForOneThing
<1> DEFINE rec(g, id) == {e \in g.edges : e.id = id}
           One(id) ==
             /\ rec(draft, id) # {} =>
                  rec(draft', id) = rec(draft, id) \/ (rec(draft', id) = {} /\ id \in draft'.retired)
             /\ id \in draft.retired => id \in draft'.retired \/ rec(draft', id) = rec(baseline, id)
             /\ rec(draft, id) = {} /\ rec(draft', id) # {} /\ rec(baseline, id) # {} =>
                  rec(draft', id) = rec(baseline, id)
           Nodes ==
             /\ Live(draft) \subseteq Live(draft') \cup draft'.gone
             /\ draft.gone \subseteq draft'.gone \cup (Live(draft') \cap Live(baseline))
             /\ Live(draft') \cap draft'.gone = {} /\ Ids(draft'.edges) \cap draft'.retired = {}
<1>1. ASSUME Inv, [Next]_vars PROVE (\A id \in 1..MaxEdge : One(id)) /\ Nodes
  <2>1. CASE draft' = draft
    <3>1. Nodes
      BY <1>1, <2>1, DraftIs
    <3>2. ASSUME NEW id \in 1..MaxEdge PROVE One(id)
      BY <2>1
    <3> HIDE DEF One, Nodes
    <3> QED
      BY <3>1, <3>2
  <2>2. ASSUME NEW edited, Commit(edited) PROVE (\A id \in 1..MaxEdge : One(id)) /\ Nodes
    <3> DEFINE nodes == [n \in Live(cand) |-> IF n \in edited THEN 1 ELSE cand.nodes[n]]
    <3>1. /\ draft' = [nodes |-> nodes, edges |-> cand.edges, gone |-> cand.gone,
                       retired |-> cand.retired]
          /\ \A g \in adopted : Live(cand) = Live(g) /\ cand.edges = g.edges
      BY <2>2 DEF Commit
    <3>2. DOMAIN nodes = Live(cand)
      OBVIOUS
    <3> HIDE DEF nodes
    <3>3. /\ draft'.edges = cand.edges /\ draft'.gone = cand.gone
          /\ draft'.retired = cand.retired /\ Live(draft') = Live(cand)
      BY <3>1, <3>2 DEF Live
    <3>4. Fits(cand) /\ Returned(cand) /\ Frozen
      BY <1>1 DEF Inv
    <3>5. \A g \in adopted : cand.edges = draft.edges /\ Live(cand) = Live(draft)
      BY <3>1, <3>4 DEF Frozen
    <3>6. Nodes
      <4>1. draft.gone \cap Live(cand) \subseteq Live(baseline)
        BY <1>1, <3>4, <3>5, DraftIs DEF Returned
      <4> QED
        BY <3>3, <3>4, <4>1 DEF Fits
    <3>7. ASSUME NEW id \in 1..MaxEdge PROVE One(id)
      <4>1. /\ SameThing(cand, cand) /\ SameThing(cand, draft) /\ SameThing(cand, baseline)
            /\ SameThing(draft, draft) /\ SameThing(baseline, baseline)
        BY <1>1, <3>4, DraftIs DEF Fits, Inv
      <4>2. /\ rec(draft, id) # {} => id \in Ids(cand.edges) \cup cand.retired
            /\ id \in draft.retired => id \in Ids(cand.edges) \cup cand.retired
        BY <3>4, IdsAre DEF Fits
      <4>3. id \in Ids(cand.edges) <=> rec(cand, id) # {}
        BY IdsAre
      <4>4. rec(draft, id) # {} /\ rec(cand, id) # {} => rec(cand, id) = rec(draft, id)
        BY <4>1 DEF SameThing
      <4>5. rec(baseline, id) # {} /\ rec(cand, id) # {} => rec(cand, id) = rec(baseline, id)
        BY <4>1 DEF SameThing
      <4>6. id \in draft.retired /\ rec(cand, id) # {} => rec(baseline, id) # {}
        <5>1. CASE adopted = {}
          BY <3>4, <5>1 DEF Returned
        <5>2. CASE adopted # {}
          <6>1. cand.edges = draft.edges
            BY <3>5, <5>2
          <6> QED
            BY <1>1, <6>1, DraftIs, IdsAre
        <5> QED
          BY <5>1, <5>2
      <4>7. rec(draft', id) = rec(cand, id)
        BY <3>3
      <4> HIDE DEF rec
      <4> QED
        BY <3>3, <4>2, <4>3, <4>4, <4>5, <4>6, <4>7
    <3> HIDE DEF One, Nodes
    <3> QED
      BY <3>6, <3>7
  <2>3. draft' = draft \/ \E edited : Commit(edited)
    BY <1>1 DEF Next, Evaluate, Refuse, Adopt, Published, vars
  <2> HIDE DEF One, Nodes
  <2> QED
    BY <2>1, <2>2, <2>3
<1> DEFINE Kept == (\A id \in 1..MaxEdge : One(id)) /\ Nodes
<1>2. Inv /\ [Next]_vars => [Kept]_vars
  BY <1>1
<1> QED
  BY <1>2, InvAlways, PTL DEF Spec, IdentitiesStandForOneThing

\* A reset finds the identities it restores free, although they were out of use while
\* other edges were made: the check of them never refuses one (evaluate-topology.ts,
\* "already occupied").
PlacesAreFree ==
  \A p \in Patches : p.op = "reset" =>
    \A e \in baseline.edges, d \in cand.edges : Mine(p, e) /\ ~Mine(p, d) => e.id # d.id

THEOREM ResetIsNeverOccupied == Spec => []PlacesAreFree
<1>1. Inv => PlacesAreFree
  BY DEF Inv, Fits, SameThing, PlacesAreFree, Mine
<1> QED
  BY <1>1, InvAlways, PTL

\* What a step evaluates.
LEMMA EvaluatingIs ==
  ASSUME Inv, [Next]_vars, Evaluating
  PROVE  Patch \in Patches /\ cand' \in Results(cand, Patch) /\ baseline' = baseline /\ draft' = draft
<1>1. batch \in Seq(Patches) /\ Len(batch) \in Nat
  BY DEF Inv
<1>2. batch' # batch
  BY DEF Evaluating
<1>3. CASE \E p \in Patches : Evaluate(p)
  <2>1. PICK p \in Patches : Evaluate(p)
    BY <1>3
  <2>2. /\ cand' \in Results(cand, p) /\ batch' = Append(batch, p)
        /\ draft' = draft /\ baseline' = baseline
    BY <2>1 DEF Evaluate
  <2>3. Patch = p
    BY <1>1, <2>2 DEF Patch, Last
  <2> QED
    BY <2>1, <2>2, <2>3
<1>4. CASE batch' = <<>>
  <2>1. Len(batch') = 0
    BY <1>4
  <2> QED
    BY <1>1, <2>1 DEF Evaluating
<1>5. (\E p \in Patches : Evaluate(p)) \/ batch' = <<>> \/ batch' = batch
  BY DEF Next, Commit, Refuse, Adopt, Published, vars
<1> QED
  BY <1>2, <1>3, <1>4, <1>5

-------------------------------------------------------------------------------
(* Resets *)

\* A node of the baseline that is reset has its intent, its owner and its references
\* of the baseline again, and what others have is as it was (evaluate-topology.ts,
\* the reset branch).
THEOREM ResetsRestore == Spec => ResetRestores
<1> DEFINE about(g) == {e \in g.edges : Addressed(Patch, e)}
           Restores ==
             /\ about(cand') = about(baseline)
             /\ cand'.nodes[Patch.ref] = baseline.nodes[Patch.ref]
             /\ cand'.edges \ about(cand') = cand.edges \ about(cand)
             /\ Restrict(cand'.nodes, Live(cand) \ {Patch.ref}) =
                  Restrict(cand.nodes, Live(cand) \ {Patch.ref})
             /\ cand'.gone = cand.gone \ {Patch.ref}
<1>1. ASSUME Inv, [Next]_vars, Evaluating, Patch.op = "reset", Patch.ref \in Live(baseline)
      PROVE  Restores
  <2> DEFINE p == Patch
             d == cand'
             restored == {e \in baseline.edges : Mine(p, e)}
             lost == {e \in cand.edges : Mine(p, e)}
             nodes == [n \in Live(cand) \cup {p.ref} |-> IF n = p.ref THEN baseline.nodes[n]
                                                         ELSE cand.nodes[n]]
  <2>1. d \in Reset(cand, p)
    BY <1>1, EvaluatingIs DEF Results
  <2>2. d = [nodes |-> nodes, edges |-> (cand.edges \ lost) \cup restored,
             gone |-> cand.gone \ {p.ref},
             retired |-> (cand.retired \cup Ids(lost)) \ Ids(restored), copies |-> cand.copies]
    <3>1. Fits(cand) /\ p.ref \in Live(baseline)
      BY <1>1 DEF Inv
    <3> HIDE DEF d, p
    <3> QED
      BY <2>1, <3>1, ResetIs
  <2> HIDE DEF d, p
  <2>3. d.nodes = nodes /\ d.edges = (cand.edges \ lost) \cup restored /\ d.gone = cand.gone \ {p.ref}
    <3> HIDE DEF nodes, lost, restored
    <3> QED
      BY <2>2
  <2>4. \A e : Addressed(p, e) <=> Mine(p, e)
    BY <1>1 DEF Addressed, Mine, p
  <2> DEFINE on(g) == {e \in g.edges : Addressed(p, e)}
  <2>5. on(d) = on(baseline) /\ d.edges \ on(d) = cand.edges \ on(cand)
    BY <2>3, <2>4
  <2>6. d.nodes[p.ref] = baseline.nodes[p.ref]
    BY <2>3
  <2>7. Restrict(d.nodes, Live(cand) \ {p.ref}) = Restrict(cand.nodes, Live(cand) \ {p.ref})
    BY <2>3 DEF Restrict
  <2> QED
    BY <2>3, <2>5, <2>6, <2>7 DEF d, p
<1> DEFINE Step == Evaluating /\ Patch.op = "reset" /\ Patch.ref \in Live(baseline) => Restores
<1>2. Inv /\ [Next]_vars => [Step]_vars
  BY <1>1
<1> QED
  BY <1>2, InvAlways, PTL DEF Spec, ResetRestores

-------------------------------------------------------------------------------
(* What a patch takes *)

LEMMA BelowIs ==
  ASSUME NEW c, IsFiniteSet(c.edges), \A e \in c.edges : {e.from, e.to} \subseteq Live(c),
         NEW root \in Live(c)
  PROVE  Below(c, root) = OwnedClosure(c.edges, {root})
<1> DEFINE C == OwnedClosure(c.edges, {root})
<1>1. /\ {root} \subseteq C /\ ClosedUnder(c.edges, C)
      /\ \A S : {root} \subseteq S /\ ClosedUnder(c.edges, S) => C \subseteq S
  BY ClosureIs
<1> HIDE DEF C
<1>2. C \subseteq Live(c)
  BY <1>1 DEF ClosedUnder
<1>3. ASSUME NEW n \in Below(c, root) PROVE n \in C
  BY <1>1, <1>2 DEF Below, ClosedUnder
<1>4. ASSUME NEW n \in C PROVE n \in Below(c, root)
  BY <1>1, <1>2 DEF Below, ClosedUnder
<1> QED
  BY <1>3, <1>4 DEF C

\* What several roots own is what each of them owns.
LEMMA ClosureOfMany ==
  ASSUME NEW edges, IsFiniteSet(edges), NEW roots
  PROVE  OwnedClosure(edges, roots) = UNION {OwnedClosure(edges, {n}) : n \in roots}
<1> DEFINE each == UNION {OwnedClosure(edges, {n}) : n \in roots}
           all == OwnedClosure(edges, roots)
<1>1. \A n : /\ {n} \subseteq OwnedClosure(edges, {n})
             /\ ClosedUnder(edges, OwnedClosure(edges, {n}))
             /\ \A S : {n} \subseteq S /\ ClosedUnder(edges, S) => OwnedClosure(edges, {n}) \subseteq S
  BY ClosureIs
<1>2. /\ roots \subseteq all /\ ClosedUnder(edges, all)
      /\ \A S : roots \subseteq S /\ ClosedUnder(edges, S) => all \subseteq S
  BY ClosureIs
<1>3. roots \subseteq each
  BY <1>1
<1>4. ClosedUnder(edges, each)
  <2> SUFFICES ASSUME NEW e \in edges, e.slot \in Owned, e.from \in each PROVE e.to \in each
    BY DEF ClosedUnder
  <2>1. PICK n \in roots : e.from \in OwnedClosure(edges, {n})
    OBVIOUS
  <2>2. e.to \in OwnedClosure(edges, {n})
    BY <1>1, <2>1 DEF ClosedUnder
  <2> QED
    BY <2>2
<1>5. \A n \in roots : OwnedClosure(edges, {n}) \subseteq all
  BY <1>1, <1>2
<1> QED
  BY <1>2, <1>3, <1>4, <1>5

\* New nodes and the edges of a node that none of the roots owns make no difference.
LEMMA ClosureKept ==
  ASSUME IsFiniteSet(cand.edges), Valid(cand), NEW y, IsFiniteSet(y.edges), Extends(cand, y),
         NEW T \in SUBSET Live(cand), NEW r, r \notin OwnedClosure(cand.edges, T),
         NEW G, \A e \in G : e.from = r
  PROVE  OwnedClosure(y.edges \ G, T) = OwnedClosure(cand.edges, T)
<1> DEFINE C == OwnedClosure(cand.edges, T)
           D == OwnedClosure(y.edges \ G, T)
<1>1. /\ T \subseteq C /\ ClosedUnder(cand.edges, C)
      /\ \A S : T \subseteq S /\ ClosedUnder(cand.edges, S) => C \subseteq S
  BY ClosureIs
<1>2. /\ T \subseteq D /\ ClosedUnder(y.edges \ G, D)
      /\ \A S : T \subseteq S /\ ClosedUnder(y.edges \ G, S) => D \subseteq S
  <2>1. IsFiniteSet(y.edges \ G)
    BY FS_Subset
  <2> QED
    BY <2>1, ClosureIs
<1> HIDE DEF C, D
<1>3. C \subseteq Live(cand)
  BY <1>1 DEF Valid, ClosedUnder
<1>4. ClosedUnder(y.edges \ G, C)
  BY <1>1, <1>3 DEF Extends, ClosedUnder
<1>5. D \subseteq C
  BY <1>1, <1>2, <1>4
<1>6. r \notin D
  BY <1>5 DEF C
<1>7. ClosedUnder(cand.edges, D)
  BY <1>2, <1>6 DEF Extends, ClosedUnder
<1> QED
  BY <1>1, <1>2, <1>5, <1>7 DEF C, D

LEMMA EraseIs ==
  ASSUME NEW c, Fits(c), NEW refs, NEW d \in Erase(c, refs)
  PROVE  LET R == OwnedClosure(c.edges, refs) IN
         /\ Valid(c)
         /\ \A e \in c.edges : e.from \notin R /\ e.to \in R => e.slot \in Owned
         /\ Live(d) = Live(c) \ R /\ \A n \in Live(c) \ R : d.nodes[n] = c.nodes[n]
         /\ \A e : e \in d.edges <=> e \in c.edges /\ e.from \notin R /\ e.to \notin R
<1> DEFINE R == OwnedClosure(c.edges, refs)
           G == {e \in c.edges : {e.from, e.to} \cap R # {}}
           cut == Retire(c, G)
<1>1. /\ Valid(c) /\ \A e \in c.edges : e.from \notin R /\ e.to \in R => e.slot \in Owned
      /\ d = [cut EXCEPT !.nodes = Restrict(c.nodes, Live(c) \ R), !.gone = @ \cup R]
  BY DEF Erase
<1>2. cut = [nodes |-> c.nodes, edges |-> c.edges \ G, gone |-> c.gone,
             retired |-> c.retired \cup Ids(G), copies |-> c.copies]
  BY RetireIs
<1>3. cut.edges = c.edges \ G /\ DOMAIN cut = {"nodes", "edges", "gone", "retired", "copies"}
  BY <1>2
<1> HIDE DEF cut, R
<1>4. d.nodes = Restrict(c.nodes, Live(c) \ R) /\ d.edges = c.edges \ G
  BY <1>1, <1>3
<1>5. d.nodes = [n \in Live(c) \ R |-> c.nodes[n]]
  BY <1>4 DEF Restrict
<1>6. Live(d) = Live(c) \ R
  BY <1>5 DEF Live
<1> QED
  BY <1>1, <1>4, <1>5, <1>6 DEF R

\* New edges are the links, and nothing else changes.
LEMMA AddEdgesAre ==
  ASSUME NEW c, Fits(c), NEW links, NEW d \in AddEdges(c, links)
  PROVE  /\ d.nodes = c.nodes /\ Live(d) = Live(c) /\ c.edges \subseteq d.edges /\ d.copies = c.copies
         /\ \A l \in links : \E e \in d.edges : e.from = l[1] /\ e.slot = l[2] /\ e.to = l[3]
         /\ \A e \in d.edges \ c.edges : \E l \in links : e.from = l[1] /\ e.slot = l[2] /\ e.to = l[3]
<1>1. PICK name :
           d = [nodes |-> c.nodes,
                edges |-> c.edges \cup {[id |-> name[l], from |-> l[1], slot |-> l[2], to |-> l[3]] :
                                          l \in links},
                gone |-> c.gone, retired |-> c.retired, copies |-> c.copies]
  BY AddEdgesIs
<1> DEFINE made == {[id |-> name[l], from |-> l[1], slot |-> l[2], to |-> l[3]] : l \in links}
<1>2. \A e \in made : \E l \in links : e.from = l[1] /\ e.slot = l[2] /\ e.to = l[3]
  OBVIOUS
<1>3. ASSUME NEW l \in links PROVE \E e \in made : e.from = l[1] /\ e.slot = l[2] /\ e.to = l[3]
  <2> DEFINE e == [id |-> name[l], from |-> l[1], slot |-> l[2], to |-> l[3]]
  <2>1. e \in made /\ e.from = l[1] /\ e.slot = l[2] /\ e.to = l[3]
    OBVIOUS
  <2> QED
    BY <2>1
<1> HIDE DEF made
<1>4. d.nodes = c.nodes /\ d.edges = c.edges \cup made /\ d.copies = c.copies
  BY <1>1 DEF made
<1> QED
  BY <1>2, <1>3, <1>4 DEF Live

\* One link is one edge.
LEMMA AddEdgeIs ==
  ASSUME NEW c, Fits(c), NEW link, NEW d \in AddEdges(c, {link})
  PROVE  \E e : /\ d.edges = c.edges \cup {e}
               /\ e.from = link[1] /\ e.slot = link[2] /\ e.to = link[3]
<1>1. PICK name :
           d = [nodes |-> c.nodes,
                edges |-> c.edges \cup {[id |-> name[l], from |-> l[1], slot |-> l[2], to |-> l[3]] :
                                          l \in {link}},
                gone |-> c.gone, retired |-> c.retired, copies |-> c.copies]
  BY AddEdgesIs
<1> DEFINE e == [id |-> name[link], from |-> link[1], slot |-> link[2], to |-> link[3]]
<1>2. d.edges = c.edges \cup {e}
  BY <1>1
<1>3. e.from = link[1] /\ e.slot = link[2] /\ e.to = link[3]
  OBVIOUS
<1> HIDE DEF e
<1> QED
  BY <1>2, <1>3

\* OnlyTheOwnedIsTaken, of a result d of the patch p.
Taken(p) == UNION {Below(cand, n) : n \in Dropped(p)}
Kept(p) == Live(cand) \ Taken(p)
Among(p, c) == {e \in c.edges : {e.from, e.to} \subseteq Kept(p) /\ ~Addressed(p, e)}

TakesTheOwned(p, d) ==
  /\ Live(cand) \ Live(d) = Taken(p)
  /\ Among(p, d) = Among(p, cand)
  /\ \A n \in Kept(p) : d.nodes[n] # cand.nodes[n] => p.op = "reset" /\ n = p.ref
  /\ \A e \in cand.edges : e.to \in Taken(p) /\ e.from \in Kept(p) => e.slot \in Owned \/ Addressed(p, e)

LEMMA RemoveTakes ==
  ASSUME Inv, NEW p, Existing(cand, p.ref), Dropped(p) = {p.ref},
         NEW d \in Erase(cand, {p.ref})
  PROVE  TakesTheOwned(p, d)
<1> DEFINE R == OwnedClosure(cand.edges, {p.ref})
<1>1. Fits(cand) /\ Valid(cand) /\ IsFiniteSet(cand.edges) /\ p.ref \in Live(cand)
  BY DraftIs DEF Inv, Existing
<1>2. Below(cand, p.ref) = R
  BY <1>1, BelowIs DEF Valid
<1>3. Taken(p) = R /\ Kept(p) = Live(cand) \ R
  BY <1>2 DEF Taken, Kept
<1>4. R \subseteq Live(cand)
  BY <1>2 DEF Below
<1>5. /\ Valid(cand)
      /\ \A e \in cand.edges : e.from \notin R /\ e.to \in R => e.slot \in Owned
      /\ Live(d) = Live(cand) \ R /\ \A n \in Live(cand) \ R : d.nodes[n] = cand.nodes[n]
      /\ \A e : e \in d.edges <=> e \in cand.edges /\ e.from \notin R /\ e.to \notin R
  BY <1>1, EraseIs
<1> HIDE DEF R
<1>6. Among(p, d) = Among(p, cand)
  BY <1>3, <1>5 DEF Among
<1> QED
  BY <1>3, <1>4, <1>5, <1>6 DEF TakesTheOwned

\* A step that takes nothing.
LEMMA NothingTaken ==
  ASSUME NEW p, NEW d, Dropped(p) = {}, Live(cand) \subseteq Live(d),
         \A e \in cand.edges \ d.edges : Addressed(p, e),
         \A e \in d.edges \ cand.edges : Addressed(p, e) \/ e.from \notin Live(cand),
         \A n \in Live(cand) : d.nodes[n] = cand.nodes[n] \/ (p.op = "reset" /\ n = p.ref)
  PROVE  TakesTheOwned(p, d)
<1>1. Taken(p) = {} /\ Kept(p) = Live(cand)
  BY DEF Taken, Kept
<1>2. Among(p, d) = Among(p, cand)
  BY <1>1 DEF Among
<1> QED
  BY <1>1, <1>2 DEF TakesTheOwned

LEMMA AppendTakes ==
  ASSUME Inv, NEW p \in Patches, p.op = "append", NEW d \in AppendTo(cand, p)
  PROVE  TakesTheOwned(p, d)
<1>1. p.value \in Bare \cup Specs
  BY DEF Patches
<1>2. PICK x \in Expand(cand, p.value) : d \in AddEdges(x.next, {<<p.ref, p.slot, x.root>>})
  BY DEF AppendTo
<1>3. Good(x.next) /\ Extends(cand, x.next)
  <2>1. Good(cand) /\ IsFiniteSet(draft.edges)
    BY DraftIs DEF Inv, Good
  <2> QED
    BY <1>1, <2>1, ExpandOK
<1> DEFINE links == {<<p.ref, p.slot, x.root>>}
<1>4. \A l \in links : l[1] = p.ref /\ l[2] = p.slot
  OBVIOUS
<1> HIDE DEF links
<1>5. /\ d.nodes = x.next.nodes /\ Live(d) = Live(x.next) /\ x.next.edges \subseteq d.edges
      /\ \A e \in d.edges \ x.next.edges : e.from = p.ref /\ e.slot = p.slot
  <2>1. d \in AddEdges(x.next, links)
    BY <1>2 DEF links
  <2>2. Fits(x.next)
    BY <1>3 DEF Good
  <2>3. /\ d.nodes = x.next.nodes /\ Live(d) = Live(x.next) /\ x.next.edges \subseteq d.edges
        /\ \A e \in d.edges \ x.next.edges : \E l \in links : e.from = l[1] /\ e.slot = l[2] /\ e.to = l[3]
    BY <2>1, <2>2, AddEdgesAre
  <2> QED
    BY <1>4, <2>3
<1>6. Dropped(p) = {} /\ \A e : Addressed(p, e) <=> e.from = p.ref /\ e.slot = p.slot
  BY DEF Dropped, Addressed
<1> QED
  BY <1>3, <1>5, <1>6, NothingTaken DEF Extends

LEMMA ResetTakes ==
  ASSUME Inv, NEW p, p.op = "reset", p.ref \in Live(baseline), NEW d \in Reset(cand, p)
  PROVE  TakesTheOwned(p, d)
<1> DEFINE restored == {e \in baseline.edges : Mine(p, e)}
           lost == {e \in cand.edges : Mine(p, e)}
           nodes == [n \in Live(cand) \cup {p.ref} |-> IF n = p.ref THEN baseline.nodes[n]
                                                       ELSE cand.nodes[n]]
<1>1. d = [nodes |-> nodes, edges |-> (cand.edges \ lost) \cup restored,
           gone |-> cand.gone \ {p.ref},
           retired |-> (cand.retired \cup Ids(lost)) \ Ids(restored), copies |-> cand.copies]
  <2>1. Fits(cand)
    BY DEF Inv
  <2> QED
    BY <2>1, ResetIs
<1>2. d.nodes = nodes /\ d.edges = (cand.edges \ lost) \cup restored
  <2> HIDE DEF nodes, lost, restored
  <2> QED
    BY <1>1
<1>3. Live(d) = Live(cand) \cup {p.ref}
  BY <1>2 DEF Live
<1>4. Dropped(p) = {} /\ \A e : Addressed(p, e) <=> Mine(p, e)
  BY DEF Dropped, Addressed, Mine
<1> QED
  BY <1>2, <1>3, <1>4, NothingTaken

\* The targets a replaced slot loses are the ones the patch does not name.
LEMMA NotListedIs ==
  ASSUME Valid(cand), NEW p, p.value \in Seq(Bare \cup Specs), p.op = "replace", p.slot \in Owned,
         NEW x, Expanded(cand, p.value, Len(p.value), x)
  PROVE  Dropped(p) = {e.to : e \in NotListed(cand, p, x)}
<1> DEFINE N == Len(p.value)
           listed == {i.ref : i \in {j \in ToSet(p.value) : j.kind = "ref"}}
<1>1. /\ N \in Nat /\ DOMAIN p.value = 1..N /\ Len(x.roots) = N /\ DOMAIN x.roots = 1..N
      /\ \A k \in 1..N : /\ p.value[k].kind = "ref" => x.roots[k] = p.value[k].ref
                         /\ p.value[k].kind # "ref" => x.roots[k] \notin Live(cand)
  BY DEF Expanded
<1> HIDE DEF N
<1>2. ASSUME NEW n \in Live(cand) PROVE n \in listed <=> n \in ToSet(x.roots)
  <2>1. ASSUME n \in listed PROVE n \in ToSet(x.roots)
    <3>1. PICK k \in 1..N : p.value[k].kind = "ref" /\ n = p.value[k].ref
      BY <1>1, <2>1 DEF ToSet
    <3> QED
      BY <1>1, <3>1 DEF ToSet
  <2>2. ASSUME n \in ToSet(x.roots) PROVE n \in listed
    <3>1. PICK k \in 1..N : n = x.roots[k]
      BY <1>1, <2>2 DEF ToSet
    <3>2. p.value[k].kind = "ref" /\ n = p.value[k].ref
      BY <1>1, <1>2, <3>1
    <3> QED
      BY <1>1, <3>1, <3>2 DEF ToSet
  <2> QED
    BY <2>1, <2>2
<1>3. Dropped(p) = Targets(cand, p.ref, p.slot) \ listed
  BY DEF Dropped
<1>4. \A e \in Old(cand, p) : e.to \in Live(cand)
  BY DEF Old, Valid
<1>5. Targets(cand, p.ref, p.slot) = {e.to : e \in Old(cand, p)}
  BY DEF Targets, Old
<1> HIDE DEF listed
<1> QED
  BY <1>2, <1>3, <1>4, <1>5 DEF NotListed

LEMMA ReplaceTakes ==
  ASSUME Inv, NEW p \in Patches, p.op = "replace", NEW d \in Replace(cand, p)
  PROVE  TakesTheOwned(p, d)
<1>1. p.value \in Seq(Bare \cup Specs)
  BY ListsAre DEF Patches
<1>2. PICK x \in ExpandAll(cand, p.value) : \E b :
         /\ Existing(cand, p.ref)
         /\ p.slot \in Owned =>
              b \in Erase(Retire(x.next, NotListed(cand, p, x)), {e.to : e \in NotListed(cand, p, x)})
         /\ p.slot \notin Owned => b = Retire(x.next, NotListed(cand, p, x))
         /\ d \in AddEdges(b, NewLinks(cand, p, x))
  BY ReplaceIs
<1> DEFINE G == NotListed(cand, p, x)
           T == {e.to : e \in G}
           y == x.next
           rest == Retire(y, G)
           links == NewLinks(cand, p, x)
<1>3. PICK b : /\ p.slot \in Owned => b \in Erase(rest, T)
               /\ p.slot \notin Owned => b = rest
               /\ d \in AddEdges(b, links)
  BY <1>2
<1>4. Expanded(cand, p.value, Len(p.value), x)
  <2>1. Good(cand) /\ IsFiniteSet(draft.edges)
    BY DraftIs DEF Inv, Good
  <2> QED
    BY <1>1, <1>2, <2>1, ExpandAllOK
<1>5. Good(y) /\ Extends(cand, y) /\ IsFiniteSet(y.edges)
  BY <1>4, FiniteEdges DEF Expanded, Good
<1>6. /\ G \subseteq cand.edges /\ G \in SUBSET y.edges
      /\ \A e \in G : e.from = p.ref /\ e.slot = p.slot
      /\ \A l \in links : l[1] = p.ref /\ l[2] = p.slot
  BY <1>5 DEF NotListed, Old, NewLinks, Extends
<1>7. Valid(cand) /\ IsFiniteSet(cand.edges)
  BY DraftIs DEF Inv
<1>8. T \subseteq Live(cand)
  BY <1>6, <1>7 DEF Valid
<1>9. p.slot \in Owned => Dropped(p) = T
  BY <1>1, <1>4, <1>7, NotListedIs
<1>10. /\ p.slot \notin Owned => Dropped(p) = {}
       /\ \A e : Addressed(p, e) <=> e.from = p.ref /\ e.slot = p.slot
  BY DEF Dropped, Addressed
<1> HIDE DEF G, y, links
<1>11. /\ Good(rest) /\ rest.edges = y.edges \ G /\ Live(rest) = Live(y) /\ rest.nodes = y.nodes
  <2>1. Good(rest)
    BY <1>5, <1>6, RetireOK
  <2>2. rest = [nodes |-> y.nodes, edges |-> y.edges \ G, gone |-> y.gone,
                retired |-> y.retired \cup Ids(G), copies |-> y.copies]
    BY <1>5, <1>6, RetireIs DEF Good
  <2> HIDE DEF rest
  <2> QED
    BY <2>1, <2>2 DEF Live
<1> HIDE DEF rest
<1>12. ASSUME Good(b)
       PROVE  /\ d.nodes = b.nodes /\ Live(d) = Live(b) /\ b.edges \subseteq d.edges
              /\ \A e \in d.edges \ b.edges : e.from = p.ref /\ e.slot = p.slot
  <2>1. Fits(b)
    BY <1>12 DEF Good
  <2>2. /\ d.nodes = b.nodes /\ Live(d) = Live(b) /\ b.edges \subseteq d.edges
        /\ \A e \in d.edges \ b.edges : \E l \in links : e.from = l[1] /\ e.slot = l[2] /\ e.to = l[3]
    BY <1>3, <2>1, AddEdgesAre
  <2> QED
    BY <1>6, <2>2
<1>13. CASE p.slot \notin Owned
  <2>1. /\ d.nodes = y.nodes /\ Live(d) = Live(y) /\ y.edges \ G \subseteq d.edges
        /\ \A e \in d.edges \ (y.edges \ G) : e.from = p.ref /\ e.slot = p.slot
    BY <1>3, <1>11, <1>12, <1>13
  <2>2. \A e \in cand.edges \ d.edges : Addressed(p, e)
    BY <1>5, <1>6, <1>10, <2>1 DEF Extends
  <2>3. \A e \in d.edges \ cand.edges : Addressed(p, e) \/ e.from \notin Live(cand)
    BY <1>5, <1>10, <2>1 DEF Extends
  <2>4. Live(cand) \subseteq Live(d) /\ \A n \in Live(cand) : d.nodes[n] = cand.nodes[n]
    BY <1>5, <2>1 DEF Extends
  <2> QED
    BY <1>10, <1>13, <2>2, <2>3, <2>4, NothingTaken
<1>14. CASE p.slot \in Owned
  <2> DEFINE C == OwnedClosure(cand.edges, T)
  <2>1. C = UNION {OwnedClosure(cand.edges, {n}) : n \in T}
    BY <1>7, ClosureOfMany
  <2>2. p.ref \notin C
    <3>1. \A e \in G : p.ref \notin OwnedClosure(cand.edges, {e.to})
      BY <1>6, <1>7, <1>14 DEF Valid
    <3> QED
      BY <2>1, <3>1
  <2>3. Taken(p) = C
    <3>1. \A n \in T : Below(cand, n) = OwnedClosure(cand.edges, {n})
      BY <1>7, <1>8, BelowIs DEF Valid
    <3> QED
      BY <1>9, <1>14, <2>1, <3>1 DEF Taken
  <2>4. C \subseteq Live(cand)
    BY <2>3 DEF Taken, Below
  <2>5. OwnedClosure(rest.edges, T) = C
    <3>1. \A e \in G : e.from = p.ref
      BY <1>6
    <3>2. OwnedClosure(y.edges \ G, T) = OwnedClosure(cand.edges, T)
      <4> HIDE DEF T
      <4> QED
        BY <1>5, <1>7, <1>8, <2>2, <3>1, ClosureKept
    <3> QED
      BY <1>11, <3>2
  <2> HIDE DEF C, T
  <2>6. /\ \A e \in rest.edges : e.from \notin C /\ e.to \in C => e.slot \in Owned
        /\ Live(b) = Live(rest) \ C /\ \A n \in Live(rest) \ C : b.nodes[n] = rest.nodes[n]
        /\ \A e : e \in b.edges <=> e \in rest.edges /\ e.from \notin C /\ e.to \notin C
        /\ Good(b)
    <3>1. b \in Erase(rest, T) /\ Fits(rest)
      BY <1>3, <1>11, <1>14 DEF Good
    <3>2. Good(b)
      BY <1>11, <3>1, EraseOK
    <3>3. LET R == OwnedClosure(rest.edges, T) IN
          /\ Valid(rest)
          /\ \A e \in rest.edges : e.from \notin R /\ e.to \in R => e.slot \in Owned
          /\ Live(b) = Live(rest) \ R /\ \A n \in Live(rest) \ R : b.nodes[n] = rest.nodes[n]
          /\ \A e : e \in b.edges <=> e \in rest.edges /\ e.from \notin R /\ e.to \notin R
      BY <3>1, EraseIs
    <3> QED
      BY <2>5, <3>2, <3>3
  <2>7. Kept(p) = Live(cand) \ C
    BY <2>3 DEF Kept
  <2>8. Live(cand) \ Live(d) = Taken(p)
    BY <1>5, <1>11, <1>12, <2>3, <2>4, <2>6 DEF Extends
  <2>9. \A n \in Kept(p) : d.nodes[n] = cand.nodes[n]
    BY <1>5, <1>11, <1>12, <2>6, <2>7 DEF Extends
  <2>10. Among(p, d) = Among(p, cand)
    <3>1. ASSUME NEW e \in d.edges, e.from \in Kept(p), ~Addressed(p, e) PROVE e \in cand.edges
      <4>1. e \in b.edges
        BY <1>10, <1>12, <2>6, <3>1
      <4> QED
        BY <1>5, <1>11, <2>6, <2>7, <3>1, <4>1 DEF Extends
    <3>2. ASSUME NEW e \in cand.edges, {e.from, e.to} \subseteq Kept(p), ~Addressed(p, e)
          PROVE  e \in d.edges
      <4>1. e \in rest.edges
        BY <1>5, <1>6, <1>10, <1>11, <3>2 DEF Extends
      <4> QED
        BY <1>12, <2>6, <2>7, <3>2, <4>1
    <3> QED
      BY <3>1, <3>2 DEF Among
  <2>11. \A e \in cand.edges : e.to \in Taken(p) /\ e.from \in Kept(p) => e.slot \in Owned \/ Addressed(p, e)
    BY <1>5, <1>6, <1>10, <1>11, <2>3, <2>6, <2>7 DEF Extends
  <2> QED
    BY <2>8, <2>9, <2>10, <2>11 DEF TakesTheOwned
<1> QED
  BY <1>13, <1>14

LEMMA PatchTakes ==
  ASSUME Inv, NEW p \in Patches, NEW d \in Results(cand, p)
  PROVE  TakesTheOwned(p, d)
<1>1. CASE p.op = "remove" \/ (p.op = "reset" /\ p.ref \notin Live(baseline))
  <2>1. Existing(cand, p.ref) /\ d \in Erase(cand, {p.ref})
    BY <1>1 DEF Results, Reset, RemoveNode
  <2>2. Dropped(p) = {p.ref}
    BY <1>1 DEF Dropped
  <2> QED
    BY <2>1, <2>2, RemoveTakes
<1>2. CASE p.op = "reset" /\ p.ref \in Live(baseline)
  <2>1. d \in Reset(cand, p)
    BY <1>2 DEF Results
  <2> QED
    BY <1>2, <2>1, ResetTakes
<1>3. CASE p.op = "append"
  <2>1. d \in AppendTo(cand, p)
    BY <1>3 DEF Results
  <2> QED
    BY <1>3, <2>1, AppendTakes
<1>4. CASE p.op = "replace"
  <2>1. d \in Replace(cand, p)
    BY <1>4 DEF Results
  <2> QED
    BY <1>4, <2>1, ReplaceTakes
<1> QED
  BY <1>1, <1>2, <1>3, <1>4 DEF Patches

\* A patch takes what it names and what that owns, and nothing else: no other node, no
\* edge between survivors, no intent of a survivor (eraseMany, removableOwnedClosures).
THEOREM PatchesTakeTheOwned == Spec => OnlyTheOwnedIsTaken
<1> DEFINE Takes ==
      LET taken == UNION {Below(cand, n) : n \in Dropped(Patch)}
          kept == Live(cand) \ taken
          among(c) == {e \in c.edges : {e.from, e.to} \subseteq kept /\ ~Addressed(Patch, e)}
      IN  /\ Live(cand) \ Live(cand') = taken
          /\ among(cand') = among(cand)
          /\ \A n \in kept : cand'.nodes[n] # cand.nodes[n] => Patch.op = "reset" /\ n = Patch.ref
          /\ \A e \in cand.edges : e.to \in taken /\ e.from \in kept =>
                                    e.slot \in Owned \/ Addressed(Patch, e)
<1>1. ASSUME Inv, [Next]_vars, Evaluating PROVE Takes
  <2>1. TakesTheOwned(Patch, cand')
    BY <1>1, EvaluatingIs, PatchTakes
  <2> QED
    BY <2>1 DEF TakesTheOwned, Taken, Kept, Among
<1>2. Inv /\ [Next]_vars => [Evaluating => Takes]_vars
  BY <1>1
<1> QED
  BY <1>2, InvAlways, PTL DEF Spec, OnlyTheOwnedIsTaken

-------------------------------------------------------------------------------
(* Clones *)

LEMMA CopyOfIs ==
  ASSUME NEW c, Good(c), NEW graph, NEW S, NEW ref \in S, NEW y \in CopyOf(c, graph, S, ref)
  PROVE  \E name :
           /\ name \in [S -> UnusedNodes(c)] /\ IsInjective(name)
           /\ Good(y.next) /\ Extends(c, y.next) /\ y.root = name[ref]
           /\ y.next.copies = c.copies \cup {<<name[n], n>> : n \in S}
           /\ \A n \in S : name[n] \in Live(y.next) /\ y.next.nodes[name[n]] = graph.nodes[n]
           /\ \A e \in graph.edges : e.from \in S =>
                \E f \in y.next.edges : /\ f.from = name[e.from] /\ f.slot = e.slot
                                        /\ f.to = IF e.to \in S THEN name[e.to] ELSE e.to
           /\ \A f \in y.next.edges \ c.edges : \E e \in graph.edges :
                /\ e.from \in S /\ f.from = name[e.from] /\ f.slot = e.slot
                /\ f.to = IF e.to \in S THEN name[e.to] ELSE e.to
<1> DEFINE intents == Restrict(graph.nodes, S)
           copy(x, n) == IF n \in S THEN x.name[n] ELSE n
           links(x) == {<<copy(x, e.from), e.slot, copy(x, e.to)>> :
                          e \in {d \in graph.edges : d.from \in S}}
           more(x) == {<<x.name[n], n>> : n \in S}
           z(x, d) == [d EXCEPT !.copies = @ \cup more(x)]
<1>1. PICK x \in AddNodes(c, intents) : \E d \in AddEdges(x.next, links(x)) :
        y = [next |-> z(x, d), root |-> x.name[ref]]
  BY DEF CopyOf
<1>2. PICK d \in AddEdges(x.next, links(x)) : y = [next |-> z(x, d), root |-> x.name[ref]]
  BY <1>1
<1>3. DOMAIN intents = S /\ \A n \in S : intents[n] = graph.nodes[n]
  BY DEF Restrict
<1>4. Good(x.next) /\ Good(d) /\ Fits(c) /\ Fits(x.next)
  <2>1. Good(x.next)
    BY AddNodesOK
  <2> HIDE DEF links
  <2> QED
    BY <2>1, AddEdgesOK DEF Good
<1>5. /\ x.name \in [S -> UnusedNodes(c)] /\ IsInjective(x.name)
      /\ x.next.edges = c.edges /\ x.next.copies = c.copies
      /\ Live(x.next) = Live(c) \cup Range(x.name)
      /\ \A n \in S : x.next.nodes[x.name[n]] = graph.nodes[n]
  <2> HIDE DEF intents
  <2>1. /\ x.name \in [DOMAIN intents -> UnusedNodes(c)] /\ IsInjective(x.name)
        /\ x.next.edges = c.edges /\ x.next.copies = c.copies
        /\ Live(x.next) = Live(c) \cup Range(x.name)
        /\ \A n \in DOMAIN intents : x.next.nodes[x.name[n]] = intents[n]
    BY <1>4, AddNodesIs
  <2> QED
    BY <1>3, <2>1
<1>6. /\ d.nodes = x.next.nodes /\ Live(d) = Live(x.next) /\ d.copies = c.copies
      /\ \A l \in links(x) : \E f \in d.edges : f.from = l[1] /\ f.slot = l[2] /\ f.to = l[3]
      /\ \A f \in d.edges \ c.edges : \E l \in links(x) : f.from = l[1] /\ f.slot = l[2] /\ f.to = l[3]
  <2> HIDE DEF links
  <2> QED
    BY <1>4, <1>5, AddEdgesAre
<1>7. \A n \in S : x.name[n] \in Live(d)
  BY <1>5, <1>6 DEF Range
<1>8. z(x, d) = [nodes |-> d.nodes, edges |-> d.edges, gone |-> d.gone, retired |-> d.retired,
                 copies |-> d.copies \cup more(x)]
  <2>1. \A m \in more(x) : m[1] \in Live(d)
    BY <1>7
  <2> HIDE DEF more
  <2> QED
    BY <1>4, <2>1, CopiesOK
<1> HIDE DEF z
<1>9. /\ y.next = z(x, d) /\ y.root = x.name[ref] /\ y.next.nodes = d.nodes /\ y.next.edges = d.edges
      /\ y.next.copies = d.copies \cup more(x) /\ Live(y.next) = Live(d)
  BY <1>2, <1>8 DEF Live
<1>10. ASSUME NEW e \in graph.edges, e.from \in S
       PROVE  \E f \in y.next.edges : f.from = x.name[e.from] /\ f.slot = e.slot /\ f.to = copy(x, e.to)
  <2>1. <<copy(x, e.from), e.slot, copy(x, e.to)>> \in links(x)
    BY <1>10
  <2> HIDE DEF links
  <2>2. PICK f \in d.edges : f.from = copy(x, e.from) /\ f.slot = e.slot /\ f.to = copy(x, e.to)
    BY <1>6, <2>1
  <2> QED
    BY <1>9, <1>10, <2>2
<1>11. ASSUME NEW f \in y.next.edges \ c.edges
       PROVE  \E e \in graph.edges : /\ e.from \in S /\ f.from = x.name[e.from]
                                     /\ f.slot = e.slot /\ f.to = copy(x, e.to)
  <2>1. PICK l \in links(x) : f.from = l[1] /\ f.slot = l[2] /\ f.to = l[3]
    BY <1>6, <1>9
  <2>2. PICK e \in graph.edges : e.from \in S /\ l = <<copy(x, e.from), e.slot, copy(x, e.to)>>
    OBVIOUS
  <2> QED
    BY <2>1, <2>2
<1>12. Good(y.next) /\ Extends(c, y.next)
  BY CopyOfOK
<1> HIDE DEF links
<1> QED
  BY <1>5, <1>6, <1>7, <1>9, <1>10, <1>11, <1>12

\* What is owned by one node is finitely much.
LEMMA FiniteClosure ==
  ASSUME NEW edges, IsFiniteSet(edges), NEW root
  PROVE  IsFiniteSet(OwnedClosure(edges, {root}))
<1> DEFINE targets == {e.to : e \in edges}
           f == [e \in edges |-> e.to]
           C == OwnedClosure(edges, {root})
<1>1. f \in Surjection(edges, targets)
  BY DEF Surjection
<1> HIDE DEF f
<1>2. IsFiniteSet(targets)
  BY <1>1, FS_Surjection
<1>3. IsFiniteSet(targets \cup {root})
  BY <1>2, FS_AddElement
<1>4. ClosedUnder(edges, targets \cup {root})
  BY DEF ClosedUnder
<1>5. C \subseteq targets \cup {root}
  <2> HIDE DEF targets
  <2> QED
    BY <1>4, ClosureIs
<1> HIDE DEF targets, C
<1>6. IsFiniteSet(C)
  BY <1>3, <1>5, FS_Subset
<1> QED
  BY <1>6 DEF C

LEMMA CloneIsFaithful ==
  ASSUME Inv, NEW p \in Patches, p.op = "append", p.value.kind = "clone", NEW d \in Results(cand, p)
  PROVE  LET copies == d.copies \ cand.copies
             new == {x[1] : x \in copies}
             source(n) == IF n \in new THEN (CHOOSE x \in copies : x[1] = n)[2] ELSE n
             shape(edges) == {<<source(e.from), e.slot, source(e.to)>> : e \in edges}
             made == {e \in d.edges : e.from \in new}
             sources == {x[2] : x \in copies}
         IN  /\ sources = Below(draft, p.value.ref) /\ Cardinality(new) = Cardinality(sources)
             /\ \A n \in new : d.nodes[n] = draft.nodes[source(n)]
             /\ shape(made) = {<<e.from, e.slot, e.to>> : e \in {x \in draft.edges : x.from \in sources}}
             /\ \A e \in made : source(e.to) \in sources => e.to \in new
             /\ Cardinality({e \in d.edges : e.from \notin new /\ e.to \in new}) = 1
<1> DEFINE ref == p.value.ref
           S == OwnedClosure(draft.edges, {ref})
<1>1. /\ Good(cand) /\ Valid(cand) /\ IsFiniteSet(draft.edges) /\ Valid(draft)
      /\ \A x \in cand.copies : x[1] \in Live(cand) \cup cand.gone
  BY DraftIs DEF Inv, Good, Fits
<1>2. d \in AppendTo(cand, p)
  BY DEF Results
<1>3. PICK y \in Clone(cand, ref) : d \in AddEdges(y.next, {<<p.ref, p.slot, y.root>>})
  BY <1>2 DEF AppendTo, Expand
<1>4. /\ Existing(cand, ref) /\ y \in CopyOf(cand, draft, S, ref) /\ Existing(cand, p.ref)
      /\ \A e \in draft.edges : e.from \in S => e.to \in S \cup Live(cand)
  BY <1>2, <1>3 DEF Clone, AppendTo
<1>5. ref \in S /\ IsFiniteSet(S)
  BY <1>1, ClosureIs, FiniteClosure
<1>6. S = Below(draft, ref)
  BY <1>1, <1>4, BelowIs DEF Existing, Valid
<1> HIDE DEF S
<1>7. PICK name :
        /\ name \in [S -> UnusedNodes(cand)] /\ IsInjective(name)
        /\ Good(y.next) /\ Extends(cand, y.next) /\ y.root = name[ref]
        /\ y.next.copies = cand.copies \cup {<<name[n], n>> : n \in S}
        /\ \A n \in S : name[n] \in Live(y.next) /\ y.next.nodes[name[n]] = draft.nodes[n]
        /\ \A e \in draft.edges : e.from \in S =>
             \E f \in y.next.edges : /\ f.from = name[e.from] /\ f.slot = e.slot
                                     /\ f.to = IF e.to \in S THEN name[e.to] ELSE e.to
        /\ \A f \in y.next.edges \ cand.edges : \E e \in draft.edges :
             /\ e.from \in S /\ f.from = name[e.from] /\ f.slot = e.slot
             /\ f.to = IF e.to \in S THEN name[e.to] ELSE e.to
  BY <1>1, <1>4, <1>5, CopyOfIs
<1>8. /\ d.nodes = y.next.nodes /\ d.copies = y.next.copies
      /\ \E e : /\ d.edges = y.next.edges \cup {e}
                /\ e.from = p.ref /\ e.slot = p.slot /\ e.to = y.root
  <2> DEFINE link == <<p.ref, p.slot, y.root>>
  <2>1. link[1] = p.ref /\ link[2] = p.slot /\ link[3] = y.root
    OBVIOUS
  <2>2. Fits(y.next)
    BY <1>7 DEF Good
  <2>3. d \in AddEdges(y.next, {link})
    BY <1>3
  <2> HIDE DEF link
  <2>4. \E e : /\ d.edges = y.next.edges \cup {e}
               /\ e.from = link[1] /\ e.slot = link[2] /\ e.to = link[3]
    BY <2>2, <2>3, AddEdgeIs
  <2>5. d.nodes = y.next.nodes /\ d.copies = y.next.copies
    BY <2>2, <2>3, AddEdgesAre
  <2> QED
    BY <2>1, <2>4, <2>5
<1>9. PICK last : /\ d.edges = y.next.edges \cup {last}
                  /\ last.from = p.ref /\ last.slot = p.slot /\ last.to = y.root
  BY <1>8
<1>10. \A n \in S : name[n] \notin Live(cand) \cup cand.gone
  BY <1>7 DEF UnusedNodes
<1>11. \A m, n \in S : name[m] = name[n] => m = n
  BY <1>7 DEF IsInjective
<1> DEFINE copies == d.copies \ cand.copies
           new == {x[1] : x \in copies}
           source(n) == IF n \in new THEN (CHOOSE x \in copies : x[1] = n)[2] ELSE n
           shape(edges) == {<<source(e.from), e.slot, source(e.to)>> : e \in edges}
           made == {e \in d.edges : e.from \in new}
           sources == {x[2] : x \in copies}
           copy(n) == IF n \in S THEN name[n] ELSE n
<1>12. copies = {<<name[n], n>> : n \in S}
  <2> DEFINE more == {<<name[n], n>> : n \in S}
  <2>1. \A m \in more : m[1] \notin Live(cand) \cup cand.gone
    BY <1>10
  <2>2. d.copies = cand.copies \cup more
    BY <1>7, <1>8
  <2> HIDE DEF more
  <2>3. copies = more
    BY <1>1, <2>1, <2>2
  <2> QED
    BY <2>3 DEF more
<1>13. sources = S /\ new = {name[n] : n \in S}
  <2>1. ASSUME NEW n \in S PROVE n \in sources /\ name[n] \in new
    <3>1. <<name[n], n>> \in copies
      BY <1>12
    <3> HIDE DEF copies
    <3> QED
      BY <3>1
  <2>2. ASSUME NEW x \in copies PROVE x[2] \in S /\ \E n \in S : x[1] = name[n]
    <3>1. PICK n \in S : x = <<name[n], n>>
      BY <1>12
    <3> QED
      BY <3>1
  <2> HIDE DEF copies
  <2> QED
    BY <2>1, <2>2
<1>14. ASSUME NEW n \in S PROVE source(name[n]) = n
  <2>1. <<name[n], n>> \in copies /\ name[n] \in new
    BY <1>12, <1>13
  <2> DEFINE x == CHOOSE x \in copies : x[1] = name[n]
  <2>2. x \in copies /\ x[1] = name[n]
    BY <2>1
  <2>3. PICK m \in S : x = <<name[m], m>>
    BY <1>12, <2>2
  <2> HIDE DEF x
  <2>4. x[2] = n
    BY <1>11, <2>2, <2>3
  <2> QED
    BY <2>1, <2>4 DEF x
<1> HIDE DEF copies
<1>15. \A n \in Live(cand) : n \notin new /\ source(n) = n
  BY <1>10, <1>13
<1>16. \A e \in draft.edges : e.from \in S => source(copy(e.to)) = e.to
  BY <1>4, <1>14, <1>15
<1> HIDE DEF new, source
<1>17. last \in d.edges /\ last.from \in Live(cand) /\ last.to \in new
  BY <1>4, <1>5, <1>7, <1>9, <1>13 DEF Existing
<1>18. \A f \in cand.edges : f.from \in Live(cand) /\ f.to \in Live(cand)
  BY <1>1 DEF Valid
<1>19. \A f \in made : \E e \in draft.edges :
         e.from \in S /\ f.from = name[e.from] /\ f.slot = e.slot /\ f.to = copy(e.to)
  <2> TAKE f \in made
  <2>1. f \in y.next.edges \ cand.edges
    BY <1>9, <1>15, <1>17, <1>18
  <2> QED
    BY <1>7, <2>1
<1>20. \A e \in draft.edges : e.from \in S =>
         \E f \in made : f.from = name[e.from] /\ f.slot = e.slot /\ f.to = copy(e.to)
  BY <1>7, <1>9, <1>13
<1>21. Cardinality(new) = Cardinality(sources)
  <2>1. name \in Bijection(S, new)
    BY <1>7, <1>11, <1>13 DEF Bijection, Injection, Surjection, IsInjective
  <2>2. ExistsBijection(S, new)
    BY <2>1 DEF ExistsBijection
  <2> QED
    BY <1>5, <1>13, <2>2, FS_Bijection
<1>22. \A n \in new : d.nodes[n] = draft.nodes[source(n)]
  BY <1>7, <1>8, <1>13, <1>14
<1> DEFINE original == {<<e.from, e.slot, e.to>> : e \in {x \in draft.edges : x.from \in sources}}
<1>23. shape(made) = original
  <2>1. ASSUME NEW f \in made PROVE <<source(f.from), f.slot, source(f.to)>> \in original
    <3>1. PICK e \in draft.edges :
             e.from \in S /\ f.from = name[e.from] /\ f.slot = e.slot /\ f.to = copy(e.to)
      BY <1>19
    <3>2. source(f.from) = e.from /\ source(f.to) = e.to
      BY <1>14, <1>16, <3>1
    <3> QED
      BY <1>13, <3>1, <3>2
  <2>2. ASSUME NEW e \in draft.edges, e.from \in S PROVE <<e.from, e.slot, e.to>> \in shape(made)
    <3>1. PICK f \in made : f.from = name[e.from] /\ f.slot = e.slot /\ f.to = copy(e.to)
      BY <1>20, <2>2
    <3>2. source(f.from) = e.from /\ source(f.to) = e.to
      BY <1>14, <1>16, <2>2, <3>1
    <3> HIDE DEF made
    <3> QED
      BY <3>1, <3>2
  <2> HIDE DEF made
  <2> QED
    BY <1>13, <2>1, <2>2
<1>24. \A f \in made : source(f.to) \in sources => f.to \in new
  <2> TAKE f \in made
  <2>1. PICK e \in draft.edges :
           e.from \in S /\ f.from = name[e.from] /\ f.slot = e.slot /\ f.to = copy(e.to)
    BY <1>19
  <2>2. source(f.to) = e.to
    BY <1>16, <2>1
  <2> QED
    BY <1>13, <2>1, <2>2
<1>25. Cardinality({e \in d.edges : e.from \notin new /\ e.to \in new}) = 1
  <2>1. ASSUME NEW f \in d.edges, f.from \notin new, f.to \in new PROVE f = last
    <3>1. f \notin cand.edges
      BY <1>15, <1>18, <2>1
    <3>2. f \notin y.next.edges
      BY <1>7, <1>13, <2>1, <3>1
    <3> QED
      BY <1>9, <3>2
  <2>2. {e \in d.edges : e.from \notin new /\ e.to \in new} = {last}
    BY <1>15, <1>17, <2>1
  <2> QED
    BY <2>2, FS_Singleton
<1> HIDE DEF made, original
<1>26. /\ sources = Below(draft, p.value.ref) /\ Cardinality(new) = Cardinality(sources)
       /\ \A n \in new : d.nodes[n] = draft.nodes[source(n)]
       /\ shape(made) = original
       /\ \A e \in made : source(e.to) \in sources => e.to \in new
       /\ Cardinality({e \in d.edges : e.from \notin new /\ e.to \in new}) = 1
  BY <1>6, <1>13, <1>21, <1>22, <1>23, <1>24, <1>25
<1> QED
  BY <1>26 DEF copies, new, source, made, original

\* A clone is its source as it was before the request: the same intents, the same edges
\* among the copies, the same references to others, one edge from outside that leads to
\* it, and no other (evaluate-topology.ts, clone).
THEOREM ClonesAreCopies == Spec => ClonesAreFaithful
<1> DEFINE Faithful ==
      LET copies == cand'.copies \ cand.copies
          new == {x[1] : x \in copies}
          source(n) == IF n \in new THEN (CHOOSE x \in copies : x[1] = n)[2] ELSE n
          shape(edges) == {<<source(e.from), e.slot, source(e.to)>> : e \in edges}
          made == {e \in cand'.edges : e.from \in new}
          sources == {x[2] : x \in copies}
      IN  /\ sources = Below(draft, Patch.value.ref) /\ Cardinality(new) = Cardinality(sources)
          /\ \A n \in new : cand'.nodes[n] = draft.nodes[source(n)]
          /\ shape(made) = {<<e.from, e.slot, e.to>> : e \in {d \in draft.edges : d.from \in sources}}
          /\ \A e \in made : source(e.to) \in sources => e.to \in new
          /\ Cardinality({e \in cand'.edges : e.from \notin new /\ e.to \in new}) = 1
<1>1. ASSUME Inv, [Next]_vars, Evaluating, Patch.op = "append", Patch.value.kind = "clone"
      PROVE  Faithful
  BY <1>1, EvaluatingIs, CloneIsFaithful
<1> DEFINE Step == Evaluating /\ Patch.op = "append" /\ Patch.value.kind = "clone" => Faithful
<1>2. Inv /\ [Next]_vars => [Step]_vars
  BY <1>1
<1> QED
  BY <1>2, InvAlways, PTL DEF Spec, ClonesAreFaithful

===============================================================================
