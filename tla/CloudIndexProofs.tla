-------------------------- MODULE CloudIndexProofs --------------------------
(***************************************************************************)
(* Proofs about CloudIndex for any number of documents, names and changes. *)
(* Whatever other clients do, a known path leads to a node that has it.    *)
(* Until they move a document, the index stays a tree, its listings can be *)
(* looked up, and every call returns.  Until anything happens behind its   *)
(* back, a cached listing is the drive's.  First come facts about the      *)
(* operators of CloudTree, for every index: what remove_subtree visits,    *)
(* and what removing and adding nodes preserves.                           *)
(***************************************************************************)
EXTENDS CloudIndex, Integers, TLAPS

\* Every known path leads to a node that has it.
Points(ix) ==
    \A p \in DOMAIN ix.byPath :
        /\ ix.byPath[p] \in DOMAIN ix.nodes
        /\ ix.nodes[ix.byPath[p]].path = p

Sound(ix) == IsIndex(ix) /\ Points(ix)

\* Nodes that may be added together.
Siblings(nodes) ==
    /\ PartialFunction(nodes, Doc, Node)
    /\ \A c, e \in DOMAIN nodes : nodes[c].path = nodes[e].path => c = e

-----------------------------------------------------------------------------
(* Paths. *)

LEMMA AppendPath ==
    ASSUME NEW p \in Path, NEW n \in Name
    PROVE  /\ Append(p, n) \in Path
           /\ Append(p, n) # <<>>
           /\ Len(p) \in Nat
           /\ Len(Append(p, n)) = Len(p) + 1
BY DEF Path

LEMMA AppendInjective ==
    ASSUME NEW p \in Path, NEW q \in Path, NEW n \in Name, NEW m \in Name,
           Append(p, n) = Append(q, m)
    PROVE  p = q /\ n = m
<1>1. /\ p \in Seq(Name) /\ q \in Seq(Name)
      /\ Len(p) = Len(q)
      /\ Append(p, n)[Len(p) + 1] = n /\ Append(q, m)[Len(q) + 1] = m
    BY DEF Path
<1>2. \A i \in 1 .. Len(p) : Append(p, n)[i] = p[i] /\ Append(q, m)[i] = q[i]
    BY <1>1
<1>3. \A i \in 1 .. Len(p) : p[i] = q[i]
    BY <1>2
<1> QED
    BY <1>1, <1>3

-----------------------------------------------------------------------------
(* Subtrees. *)

LEMMA SubtreeHolds ==
    ASSUME NEW ix, NEW S \in SUBSET Doc
    PROVE  Subtree(ix, S) \subseteq Doc /\ S \subseteq Subtree(ix, S)
BY DEF Subtree

LEMMA SubtreeClosed ==
    ASSUME NEW ix, NEW S \in SUBSET Doc, NEW d \in Subtree(ix, S),
           NEW c \in Kids(ix, d), c \in Doc
    PROVE  c \in Subtree(ix, S)
BY DEF Subtree

LEMMA SubtreeLeast ==
    ASSUME NEW ix, NEW S, NEW C \in SUBSET Doc, S \subseteq C,
           \A c \in C : Kids(ix, c) \subseteq C
    PROVE  Subtree(ix, S) \subseteq C
BY DEF Subtree

\* What is visited was asked for or is listed in something visited.
LEMMA SubtreeReached ==
    ASSUME NEW ix, NEW S \in SUBSET Doc, \A d \in Doc : Kids(ix, d) \subseteq Doc,
           NEW c \in Subtree(ix, S), c \notin S
    PROVE  \E d \in Subtree(ix, S) : c \in Kids(ix, d)
<1> DEFINE T == Subtree(ix, S)
           C == {e \in T : e \in S \/ \E d \in T : e \in Kids(ix, d)}
<1>1. T \subseteq Doc /\ S \subseteq T
    BY SubtreeHolds
<1>2. \A d \in T : Kids(ix, d) \subseteq T
    BY <1>1, SubtreeClosed
<1> HIDE DEF T
<1>3. C \in SUBSET Doc /\ S \subseteq C /\ \A e \in C : Kids(ix, e) \subseteq C
    BY <1>1, <1>2
<1> HIDE DEF C
<1>4. T \subseteq C
    BY <1>3, SubtreeLeast DEF T
<1> QED
    BY <1>4 DEF C, T

-----------------------------------------------------------------------------
(* Every index stays sound: no assumption on what the drive does. *)

LEMMA KidsType ==
    ASSUME NEW ix, IsIndex(ix), NEW d
    PROVE  Kids(ix, d) \in SUBSET Doc
BY DEF IsIndex, PartialFunction, Listing, Kids

LEMMA WithoutSound ==
    ASSUME NEW ix, Sound(ix), NEW removed
    PROVE  Sound(Without(ix, removed))
<1> DEFINE new == Without(ix, removed)
<1>1. /\ new = [nodes |-> new.nodes, byPath |-> new.byPath, kids |-> new.kids]
      /\ new.nodes \in [DOMAIN new.nodes -> Node]
      /\ DOMAIN new.nodes = DOMAIN ix.nodes \ removed
      /\ \A d \in DOMAIN new.nodes : new.nodes[d] = ix.nodes[d]
    BY DEF Sound, IsIndex, PartialFunction, Without, Restrict
<1>2. /\ new.byPath \in [DOMAIN new.byPath -> Doc]
      /\ DOMAIN new.byPath =
            DOMAIN ix.byPath \ {ix.nodes[d].path : d \in removed \cap DOMAIN ix.nodes}
      /\ \A p \in DOMAIN new.byPath : new.byPath[p] = ix.byPath[p]
    BY DEF Sound, IsIndex, PartialFunction, Without, Restrict
<1>3. PartialFunction(new.kids, Doc, Listing)
    BY DEF Sound, IsIndex, PartialFunction, Without, Restrict
<1> HIDE DEF new
<1>4. IsIndex(new)
    BY <1>1, <1>2, <1>3 DEF Sound, IsIndex, PartialFunction
<1>5. Points(new)
    BY <1>1, <1>2 DEF Sound, Points
<1> QED
    BY <1>4, <1>5 DEF Sound, new

LEMMA PutNodesFields ==
    ASSUME NEW ix, IsIndex(ix), NEW nodes, Siblings(nodes)
    PROVE  LET new == PutNodes(ix, nodes)
           IN  /\ IsIndex(new)
               /\ new.kids = ix.kids
               /\ DOMAIN new.nodes = DOMAIN ix.nodes \cup DOMAIN nodes
               /\ \A d \in DOMAIN new.nodes :
                    new.nodes[d] = IF d \in DOMAIN nodes THEN nodes[d] ELSE ix.nodes[d]
               /\ DOMAIN new.byPath = DOMAIN ix.byPath \cup {nodes[d].path : d \in DOMAIN nodes}
               /\ \A p \in DOMAIN new.byPath :
                    (\A d \in DOMAIN nodes : nodes[d].path # p) => new.byPath[p] = ix.byPath[p]
               /\ \A d \in DOMAIN nodes : new.byPath[nodes[d].path] = d
<1> DEFINE new == PutNodes(ix, nodes)
<1>1. /\ new = [nodes |-> new.nodes, byPath |-> new.byPath, kids |-> new.kids]
      /\ new.kids = ix.kids
      /\ new.nodes = [d \in DOMAIN ix.nodes \cup DOMAIN nodes |->
                        IF d \in DOMAIN nodes THEN nodes[d] ELSE ix.nodes[d]]
      /\ new.byPath = [p \in DOMAIN ix.byPath \cup {nodes[d].path : d \in DOMAIN nodes} |->
                        IF \E d \in DOMAIN nodes : nodes[d].path = p
                        THEN CHOOSE d \in DOMAIN nodes : nodes[d].path = p
                        ELSE ix.byPath[p]]
    BY DEF IsIndex, PutNodes
<1> HIDE DEF new
<1>2. \A d \in DOMAIN nodes : new.byPath[nodes[d].path] = d
    BY <1>1 DEF Siblings
<1>3. \A p \in DOMAIN new.byPath :
        (\A d \in DOMAIN nodes : nodes[d].path # p) => new.byPath[p] = ix.byPath[p]
    BY <1>1
<1>4. PartialFunction(new.nodes, Doc, Node)
    BY <1>1 DEF IsIndex, Siblings, PartialFunction
<1>5. \A p \in DOMAIN new.byPath : p \in Path /\ new.byPath[p] \in Doc
  <2> SUFFICES ASSUME NEW p \in DOMAIN new.byPath
               PROVE  p \in Path /\ new.byPath[p] \in Doc
      OBVIOUS
  <2>1. CASE \E d \in DOMAIN nodes : nodes[d].path = p
      BY <2>1, <1>2 DEF Siblings, PartialFunction, Node
  <2>2. CASE \A d \in DOMAIN nodes : nodes[d].path # p
      BY <2>2, <1>1 DEF IsIndex, PartialFunction
  <2> QED
      BY <2>1, <2>2
<1>6. IsIndex(new)
    BY <1>1, <1>4, <1>5 DEF IsIndex, PartialFunction
<1> QED
    BY <1>1, <1>2, <1>3, <1>6 DEF new

LEMMA AddNodesSound ==
    ASSUME NEW ix, Sound(ix), NEW nodes, Siblings(nodes)
    PROVE  Sound(AddNodes(ix, nodes))
<1> DEFINE moved == {d \in DOMAIN nodes \cap DOMAIN ix.nodes :
                        ix.nodes[d].path # nodes[d].path}
           left  == {ix.nodes[d].path : d \in moved}
           cut   == [ix EXCEPT !.byPath = Restrict(@, DOMAIN @ \ left)]
           new   == PutNodes(cut, nodes)
<1>1. /\ cut.nodes = ix.nodes /\ cut.kids = ix.kids
      /\ DOMAIN cut.byPath = DOMAIN ix.byPath \ left
      /\ \A p \in DOMAIN cut.byPath : cut.byPath[p] = ix.byPath[p]
      /\ IsIndex(cut)
    BY DEF Sound, IsIndex, PartialFunction, Restrict
<1>2. AddNodes(ix, nodes) = new
    BY DEF AddNodes
<1> HIDE DEF cut
<1>3. /\ IsIndex(new)
      /\ DOMAIN new.nodes = DOMAIN ix.nodes \cup DOMAIN nodes
      /\ \A d \in DOMAIN new.nodes :
            new.nodes[d] = IF d \in DOMAIN nodes THEN nodes[d] ELSE ix.nodes[d]
      /\ DOMAIN new.byPath = DOMAIN cut.byPath \cup {nodes[d].path : d \in DOMAIN nodes}
      /\ \A p \in DOMAIN new.byPath :
            (\A d \in DOMAIN nodes : nodes[d].path # p) => new.byPath[p] = cut.byPath[p]
      /\ \A d \in DOMAIN nodes : new.byPath[nodes[d].path] = d
    BY <1>1, PutNodesFields
<1> HIDE DEF new
<1>4. Points(new)
  <2> SUFFICES ASSUME NEW p \in DOMAIN new.byPath
               PROVE  new.byPath[p] \in DOMAIN new.nodes /\ new.nodes[new.byPath[p]].path = p
      BY DEF Points
  <2>1. CASE \E d \in DOMAIN nodes : nodes[d].path = p
      BY <2>1, <1>3
  <2>2. CASE \A d \in DOMAIN nodes : nodes[d].path # p
    <3>1. p \in DOMAIN ix.byPath \ left /\ new.byPath[p] = ix.byPath[p]
        BY <2>2, <1>1, <1>3
    <3>2. ix.byPath[p] \in DOMAIN ix.nodes /\ ix.nodes[ix.byPath[p]].path = p
        BY <3>1 DEF Sound, Points
    <3>3. ix.byPath[p] \notin DOMAIN nodes
        BY <3>1, <3>2, <2>2
    <3> QED
        BY <3>1, <3>2, <3>3, <1>3
  <2> QED
      BY <2>1, <2>2
<1> QED
    BY <1>2, <1>3, <1>4 DEF Sound

LEMMA PutListingSound ==
    ASSUME NEW ix, Sound(ix), NEW d \in Doc, NEW nodes, Siblings(nodes)
    PROVE  LET new == PutListing(ix, d, nodes)
           IN  /\ Sound(new)
               /\ new.nodes = ix.nodes /\ new.byPath = ix.byPath
               /\ DOMAIN new.kids = DOMAIN ix.kids \cup {d}
               /\ new.kids[d] = [docs |-> DOMAIN nodes, loaded |-> TRUE]
               /\ \A e \in DOMAIN ix.kids \ {d} : new.kids[e] = ix.kids[e]
<1> DEFINE new == PutListing(ix, d, nodes)
<1>1. DOMAIN nodes \in SUBSET Doc
    BY DEF Siblings, PartialFunction
<1>2. /\ new = [nodes |-> ix.nodes, byPath |-> ix.byPath, kids |-> new.kids]
      /\ new.kids = [e \in DOMAIN ix.kids \cup {d} |->
                        IF e = d THEN [docs |-> DOMAIN nodes, loaded |-> TRUE]
                                 ELSE ix.kids[e]]
  <2>1. ix = [nodes |-> ix.nodes, byPath |-> ix.byPath, kids |-> ix.kids]
      BY DEF Sound, IsIndex
  <2> QED
      BY <2>1 DEF PutListing, WithKids
<1> HIDE DEF new
<1>3. PartialFunction(new.kids, Doc, Listing)
    BY <1>1, <1>2 DEF Sound, IsIndex, PartialFunction, Listing
<1> QED
    BY <1>2, <1>3 DEF new, Sound, Points, IsIndex

LEMMA CacheChildrenSound ==
    ASSUME NEW ix, Sound(ix), NEW d \in Doc, NEW nodes, Siblings(nodes)
    PROVE  Sound(CacheChildren(ix, d, nodes))
BY WithoutSound, AddNodesSound, PutListingSound DEF CacheChildren, RemoveSubtree

LEMMA InvalidateParentSound ==
    ASSUME NEW ix, Sound(ix), NEW d
    PROVE  LET new == InvalidateParent(ix, d)
           IN  /\ Sound(new)
               /\ new.nodes = ix.nodes /\ new.byPath = ix.byPath
               /\ DOMAIN new.kids = DOMAIN ix.kids
               /\ \A e \in DOMAIN ix.kids :
                    /\ new.kids[e].docs = ix.kids[e].docs
                    /\ e # d => new.kids[e] = ix.kids[e]
                    /\ e = d => ~new.kids[e].loaded
<1> DEFINE new == InvalidateParent(ix, d)
<1>1. /\ new = [nodes |-> ix.nodes, byPath |-> ix.byPath, kids |-> new.kids]
      /\ new.kids = [e \in DOMAIN ix.kids |->
                        IF e = d THEN [ix.kids[e] EXCEPT !.loaded = FALSE]
                                 ELSE ix.kids[e]]
  <2>1. ix = [nodes |-> ix.nodes, byPath |-> ix.byPath, kids |-> ix.kids]
      BY DEF Sound, IsIndex
  <2> QED
      BY <2>1 DEF InvalidateParent, WithKids
<1> HIDE DEF new
<1>2. PartialFunction(new.kids, Doc, Listing)
    BY <1>1 DEF Sound, IsIndex, PartialFunction, Listing
<1>3. Sound(new)
    BY <1>1, <1>2 DEF Sound, Points, IsIndex
<1>4. /\ new.nodes = ix.nodes /\ new.byPath = ix.byPath
      /\ DOMAIN new.kids = DOMAIN ix.kids
    BY <1>1
<1>5. \A e \in DOMAIN ix.kids :
        /\ new.kids[e].docs = ix.kids[e].docs
        /\ e # d => new.kids[e] = ix.kids[e]
        /\ e = d => ~new.kids[e].loaded
    BY <1>1 DEF Sound, IsIndex, PartialFunction, Listing
<1> QED
    BY <1>3, <1>4, <1>5 DEF new

-----------------------------------------------------------------------------
(* Every index remains a tree as long as no document is ever listed in two *)
(* directories.                                                            *)

\* c hangs in d the way item_to_node put it there.
Hangs(ix, c, d) ==
    /\ ix.nodes[c].parent = d
    /\ \E n \in Name : ix.nodes[c].path = Append(ix.nodes[d].path, n)

TreeShape(ix) ==
    /\ DOMAIN ix.kids \subseteq DOMAIN ix.nodes
    /\ \A d \in DOMAIN ix.kids : Root \notin ix.kids[d].docs
    /\ \A d \in DOMAIN ix.kids : \A c \in ix.kids[d].docs \cap DOMAIN ix.nodes : Hangs(ix, c, d)
    /\ \A c \in DOMAIN ix.nodes \ {Root} : \E d \in DOMAIN ix.kids : c \in ix.kids[d].docs
    /\ \A d, e \in DOMAIN ix.kids : ix.kids[d].docs \cap ix.kids[e].docs # {} => d = e
    /\ Root \in DOMAIN ix.nodes => ix.nodes[Root].path = <<>>
    /\ \A c \in DOMAIN ix.nodes :
        ix.nodes[c].path \in DOMAIN ix.byPath /\ ix.byPath[ix.nodes[c].path] = c

\* Whatever a valid listing names is known.
Shown(ix) ==
    \A d \in DOMAIN ix.kids : ix.kids[d].loaded => ix.kids[d].docs \subseteq DOMAIN ix.nodes

Tree(ix) == Sound(ix) /\ TreeShape(ix)

\* Paths grow on the way down, so nothing lies below itself.
LEMMA NotBelowItself ==
    ASSUME NEW ix, Tree(ix), NEW d \in Doc
    PROVE  d \notin Subtree(ix, Kids(ix, d))
<1>1. CASE d \notin DOMAIN ix.nodes
  <2>1. Kids(ix, d) = {}
      BY <1>1 DEF Tree, TreeShape, Kids
  <2>2. Subtree(ix, Kids(ix, d)) \subseteq {}
      BY <2>1, SubtreeLeast
  <2> QED
      BY <2>2
<1>2. CASE d \in DOMAIN ix.nodes
  <2> DEFINE depth(c) == Len(ix.nodes[c].path)
             C == {c \in Doc : c \in DOMAIN ix.nodes => depth(c) > depth(d)}
  <2>1. \A c \in DOMAIN ix.nodes : c \in Doc /\ ix.nodes[c].path \in Path /\ depth(c) \in Nat
      BY DEF Tree, Sound, IsIndex, PartialFunction, Node, Path
  <2>2. ASSUME NEW e \in DOMAIN ix.nodes, NEW c \in Kids(ix, e), c \in DOMAIN ix.nodes
        PROVE  depth(c) = depth(e) + 1
    <3>1. e \in DOMAIN ix.kids /\ c \in ix.kids[e].docs
        BY <2>2 DEF Kids
    <3>2. PICK n \in Name : ix.nodes[c].path = Append(ix.nodes[e].path, n)
        BY <3>1, <2>2 DEF Tree, TreeShape, Hangs
    <3> QED
        BY <3>2, <2>1, AppendPath
  <2>3. Kids(ix, d) \subseteq C
    <3> SUFFICES ASSUME NEW c \in Kids(ix, d), c \in DOMAIN ix.nodes PROVE depth(c) > depth(d)
        BY KidsType, <2>1 DEF Tree, Sound
    <3> HIDE DEF depth
    <3> QED
        BY <1>2, <2>1, <2>2
  <2>4. ASSUME NEW e \in C, NEW c \in Kids(ix, e) PROVE c \in C
    <3>1. c \in Doc /\ e \in DOMAIN ix.nodes
        BY <2>4, KidsType DEF Tree, Sound, TreeShape, Kids
    <3>2. depth(e) > depth(d)
        BY <3>1
    <3> HIDE DEF depth
    <3> QED
        BY <1>2, <2>1, <2>2, <3>1, <3>2
  <2>5. d \notin C
    <3> HIDE DEF depth
    <3> QED
        BY <1>2, <2>1
  <2> HIDE DEF C
  <2>6. Subtree(ix, Kids(ix, d)) \subseteq C
    <3>1. C \in SUBSET Doc
        BY DEF C
    <3> QED
        BY <2>3, <2>4, <3>1, SubtreeLeast
  <2> QED
      BY <2>5, <2>6
<1> QED
    BY <1>1, <1>2

LEMMA NeverEndless ==
    ASSUME NEW ix, Tree(ix), NEW S \in SUBSET Doc
    PROVE  ~Endless(ix, S)
BY NotBelowItself, SubtreeHolds DEF Endless

LEMMA RemoveSubtreeTree ==
    ASSUME NEW ix, Tree(ix), NEW S \in SUBSET Doc
    PROVE  LET new == RemoveSubtree(ix, S)
           IN  /\ Tree(new)
               /\ DOMAIN new.nodes = DOMAIN ix.nodes \ Subtree(ix, S)
               /\ \A d \in DOMAIN new.nodes : new.nodes[d] = ix.nodes[d]
               /\ DOMAIN new.kids = DOMAIN ix.kids \ Subtree(ix, S)
               /\ \A d \in DOMAIN new.kids : new.kids[d] = ix.kids[d]
               /\ \A d \in DOMAIN new.kids :
                    \/ ix.kids[d].docs \cap S # {}
                    \/ ~ix.kids[d].loaded
                    \/ ~(ix.kids[d].docs \subseteq DOMAIN ix.nodes)
                    \/ ix.kids[d].docs \subseteq DOMAIN new.nodes
<1> DEFINE T   == Subtree(ix, S)
           new == RemoveSubtree(ix, S)
<1>1. /\ DOMAIN new.nodes = DOMAIN ix.nodes \ T
      /\ \A d \in DOMAIN new.nodes : new.nodes[d] = ix.nodes[d]
      /\ DOMAIN new.kids = DOMAIN ix.kids \ T
      /\ \A d \in DOMAIN new.kids : new.kids[d] = ix.kids[d]
      /\ DOMAIN new.byPath = DOMAIN ix.byPath \ {ix.nodes[d].path : d \in T \cap DOMAIN ix.nodes}
      /\ \A p \in DOMAIN new.byPath : new.byPath[p] = ix.byPath[p]
    BY DEF RemoveSubtree, Without, Restrict
<1>2. Sound(new)
    BY WithoutSound DEF RemoveSubtree, Tree
<1>3. T \subseteq Doc /\ S \subseteq T
    BY SubtreeHolds
<1>4. \A d \in DOMAIN ix.kids \cap T : \A c \in ix.kids[d].docs : c \in T
    BY SubtreeClosed, KidsType DEF Kids, Tree, Sound
<1>5. \A c \in T \ S : \E d \in DOMAIN ix.kids \cap T : c \in ix.kids[d].docs
    BY SubtreeReached, KidsType DEF Kids, Tree, Sound
<1> HIDE DEF new, T
<1>6. \A d \in DOMAIN ix.kids : d \in DOMAIN ix.nodes
    BY DEF Tree, TreeShape
<1>7. \A d \in DOMAIN new.kids : \A c \in new.kids[d].docs \cap DOMAIN new.nodes : Hangs(new, c, d)
    BY <1>1, <1>6 DEF Tree, TreeShape, Hangs
<1>8. \A c \in DOMAIN new.nodes \ {Root} : \E d \in DOMAIN new.kids : c \in new.kids[d].docs
    BY <1>1, <1>4 DEF Tree, TreeShape
<1>9. \A c \in DOMAIN new.nodes :
        new.nodes[c].path \in DOMAIN new.byPath /\ new.byPath[new.nodes[c].path] = c
  <2> SUFFICES ASSUME NEW c \in DOMAIN new.nodes
               PROVE  new.nodes[c].path \in DOMAIN new.byPath /\ new.byPath[new.nodes[c].path] = c
      OBVIOUS
  <2>1. c \in DOMAIN ix.nodes \ T /\ new.nodes[c].path = ix.nodes[c].path
      BY <1>1
  <2>2. \A d \in T \cap DOMAIN ix.nodes : ix.nodes[d].path # ix.nodes[c].path
      BY <2>1 DEF Tree, TreeShape
  <2> QED
      BY <1>1, <2>1, <2>2 DEF Tree, TreeShape
<1>10. TreeShape(new)
    BY <1>1, <1>6, <1>7, <1>8, <1>9 DEF Tree, TreeShape
<1>11. ASSUME NEW d \in DOMAIN new.kids, ix.kids[d].docs \cap S = {},
              ix.kids[d].docs \subseteq DOMAIN ix.nodes
       PROVE  ix.kids[d].docs \subseteq DOMAIN new.nodes
    BY <1>1, <1>5, <1>11 DEF Tree, TreeShape
<1> QED
    BY <1>1, <1>2, <1>10, <1>11 DEF new, T, Tree

\* item_to_node for a listing of d: names are distinct, and nothing of it is
\* listed in another directory.
Offspring(ix, d, nodes) ==
    /\ DOMAIN nodes \subseteq Doc \ {Root}
    /\ nodes = [c \in DOMAIN nodes |-> nodes[c]]
    /\ \A c \in DOMAIN nodes :
        /\ nodes[c] \in Node
        /\ nodes[c].parent = d
        /\ \E n \in Name : nodes[c].path = Append(ix.nodes[d].path, n)
    /\ \A c, e \in DOMAIN nodes : nodes[c].path = nodes[e].path => c = e
    /\ \A e \in DOMAIN ix.kids \ {d} : ix.kids[e].docs \cap DOMAIN nodes = {}

LEMMA OffspringSiblings ==
    ASSUME NEW ix, NEW d, NEW nodes, Offspring(ix, d, nodes)
    PROVE  Siblings(nodes)
BY DEF Offspring, Siblings, PartialFunction

LEMMA CacheChildrenTree ==
    ASSUME NEW ix, Tree(ix), NEW d \in DOMAIN ix.nodes, NEW nodes, Offspring(ix, d, nodes)
    PROVE  LET new == CacheChildren(ix, d, nodes)
           IN  /\ Tree(new)
               /\ Shown(ix) => Shown(new)
               /\ \A e \in DOMAIN new.kids :
                    /\ e \notin DOMAIN nodes /\ e \in DOMAIN new.nodes
                    /\ \/ e = d /\ new.kids[e].docs = DOMAIN nodes
                       \/ e \in DOMAIN ix.kids /\ new.kids[e] = ix.kids[e]
               /\ \A c \in DOMAIN new.nodes :
                    new.nodes[c] = IF c \in DOMAIN nodes THEN nodes[c] ELSE ix.nodes[c]
               /\ DOMAIN nodes \subseteq DOMAIN new.nodes
<1> DEFINE S   == Kids(ix, d)
           cut == RemoveSubtree(ix, S)
           mid == AddNodes(cut, nodes)
           new == PutListing(mid, d, nodes)
<1>1. d \in Doc /\ S \in SUBSET Doc
    BY KidsType DEF Tree, Sound, IsIndex, PartialFunction
<1>2. d \notin Subtree(ix, S) /\ S \subseteq Subtree(ix, S)
    BY <1>1, NotBelowItself, SubtreeHolds
<1>3. /\ Tree(cut)
      /\ DOMAIN cut.nodes = DOMAIN ix.nodes \ Subtree(ix, S)
      /\ \A e \in DOMAIN cut.nodes : cut.nodes[e] = ix.nodes[e]
      /\ DOMAIN cut.kids = DOMAIN ix.kids \ Subtree(ix, S)
      /\ \A e \in DOMAIN cut.kids : cut.kids[e] = ix.kids[e]
      /\ \A e \in DOMAIN cut.kids :
            \/ ix.kids[e].docs \cap S # {}
            \/ ~ix.kids[e].loaded
            \/ ~(ix.kids[e].docs \subseteq DOMAIN ix.nodes)
            \/ ix.kids[e].docs \subseteq DOMAIN cut.nodes
    BY <1>1, RemoveSubtreeTree
<1> HIDE DEF cut
<1>4. d \in DOMAIN cut.nodes /\ cut.nodes[d] = ix.nodes[d]
    BY <1>2, <1>3
<1>5. DOMAIN nodes \cap DOMAIN cut.nodes = {}
  <2> SUFFICES ASSUME NEW c \in DOMAIN nodes, c \in DOMAIN cut.nodes PROVE FALSE
      OBVIOUS
  <2>1. PICK e \in DOMAIN ix.kids : c \in ix.kids[e].docs
      BY <1>3 DEF Offspring, Tree, TreeShape
  <2>2. c \in S
      BY <2>1 DEF Offspring, Kids
  <2> QED
      BY <2>2, <1>2, <1>3
<1>6. \A c \in DOMAIN nodes : nodes[c].path \notin {cut.nodes[e].path : e \in DOMAIN cut.nodes}
  <2> SUFFICES ASSUME NEW c \in DOMAIN nodes, NEW e \in DOMAIN cut.nodes,
                      nodes[c].path = cut.nodes[e].path
               PROVE  FALSE
      OBVIOUS
  <2>1. PICK n \in Name : nodes[c].path = Append(ix.nodes[d].path, n)
      BY DEF Offspring
  <2>2. ix.nodes[d].path \in Path
      BY DEF Tree, Sound, IsIndex, PartialFunction, Node
  <2>3. e # Root
    <3>1. Append(ix.nodes[d].path, n) # <<>>
        BY <2>2, AppendPath
    <3> QED
        BY <1>3, <2>1, <3>1 DEF Tree, TreeShape
  <2>4. PICK f \in DOMAIN cut.kids : e \in cut.kids[f].docs
      BY <1>3, <2>3 DEF Tree, TreeShape
  <2>5. PICK m \in Name : cut.nodes[e].path = Append(cut.nodes[f].path, m)
      BY <1>3, <2>4 DEF Tree, TreeShape, Hangs
  <2>6. f \in DOMAIN cut.nodes /\ cut.nodes[f].path \in Path
      BY <1>3, <2>4 DEF Tree, TreeShape, Sound, IsIndex, PartialFunction, Node
  <2>7. cut.nodes[f].path = cut.nodes[d].path
    <3>1. Append(ix.nodes[d].path, n) = Append(cut.nodes[f].path, m)
        BY <2>1, <2>5
    <3>2. \A p, q \in Path : Append(p, n) = Append(q, m) => p = q
        BY AppendInjective
    <3>3. ix.nodes[d].path = cut.nodes[f].path
        BY <3>1, <3>2, <2>2, <2>6
    <3> QED
        BY <3>3, <1>4
  <2>8. f = d
      BY <1>3, <1>4, <2>6, <2>7 DEF Tree, TreeShape
  <2> QED
      BY <1>2, <1>3, <2>4, <2>8 DEF Kids
<1>7. /\ Sound(mid)
      /\ mid.kids = cut.kids
      /\ DOMAIN mid.nodes = DOMAIN cut.nodes \cup DOMAIN nodes
      /\ \A c \in DOMAIN mid.nodes : mid.nodes[c] = IF c \in DOMAIN nodes THEN nodes[c] ELSE cut.nodes[c]
      /\ DOMAIN mid.byPath = DOMAIN cut.byPath \cup {nodes[c].path : c \in DOMAIN nodes}
      /\ \A p \in DOMAIN mid.byPath :
            (\A c \in DOMAIN nodes : nodes[c].path # p) => mid.byPath[p] = cut.byPath[p]
      /\ \A c \in DOMAIN nodes : mid.byPath[nodes[c].path] = c
  <2> DEFINE same == [cut EXCEPT !.byPath = Restrict(@, DOMAIN @ \ {})]
  <2>1. Siblings(nodes) /\ Sound(cut)
      BY <1>3, OffspringSiblings DEF Tree
  <2>2. same.byPath = cut.byPath /\ same.nodes = cut.nodes /\ same.kids = cut.kids /\ IsIndex(same)
      BY <2>1 DEF Sound, IsIndex, PartialFunction, Restrict
  <2>3. {c \in DOMAIN nodes \cap DOMAIN cut.nodes : cut.nodes[c].path # nodes[c].path} = {}
      BY <1>5
  <2>4. mid = PutNodes(same, nodes)
      BY <2>3 DEF AddNodes
  <2> HIDE DEF same, mid
  <2>5. Sound(mid)
      BY <2>1, AddNodesSound DEF mid
  <2> QED
      BY <2>1, <2>2, <2>4, <2>5, PutNodesFields
<1> HIDE DEF mid
<1>8. /\ Sound(new)
      /\ new.nodes = mid.nodes /\ new.byPath = mid.byPath
      /\ DOMAIN new.kids = DOMAIN mid.kids \cup {d}
      /\ new.kids[d] = [docs |-> DOMAIN nodes, loaded |-> TRUE]
      /\ \A e \in DOMAIN mid.kids \ {d} : new.kids[e] = mid.kids[e]
    BY <1>1, <1>7, OffspringSiblings, PutListingSound
<1> HIDE DEF new
<1>9. TreeShape(new)
  <2>1. DOMAIN new.kids \subseteq DOMAIN new.nodes
      BY <1>3, <1>4, <1>7, <1>8 DEF Tree, TreeShape
  <2>2. \A e \in DOMAIN new.kids : Root \notin new.kids[e].docs
      BY <1>3, <1>7, <1>8 DEF Tree, TreeShape, Offspring
  <2>3. ASSUME NEW e \in DOMAIN new.kids, NEW c \in new.kids[e].docs \cap DOMAIN new.nodes
        PROVE  Hangs(new, c, e)
    <3>1. CASE e = d
        BY <3>1, <1>4, <1>5, <1>7, <1>8 DEF Hangs, Offspring
    <3>2. CASE e # d
      <4>1. e \in DOMAIN ix.kids /\ e \in DOMAIN cut.kids /\ c \in cut.kids[e].docs
          BY <3>2, <2>3, <1>3, <1>7, <1>8
      <4>2. c \notin DOMAIN nodes
          BY <4>1, <3>2, <1>3 DEF Offspring
      <4>3. c \in DOMAIN cut.nodes /\ e \in DOMAIN cut.nodes /\ e \notin DOMAIN nodes
          BY <4>1, <4>2, <2>3, <1>3, <1>5, <1>7, <1>8 DEF Tree, TreeShape
      <4>4. Hangs(cut, c, e)
          BY <4>1, <4>3, <1>3 DEF Tree, TreeShape
      <4>5. new.nodes[c] = cut.nodes[c] /\ new.nodes[e] = cut.nodes[e]
          BY <4>2, <4>3, <1>7, <1>8
      <4> QED
          BY <4>4, <4>5 DEF Hangs
    <3> QED
        BY <3>1, <3>2
  <2>4. ASSUME NEW c \in DOMAIN new.nodes \ {Root}
        PROVE  \E e \in DOMAIN new.kids : c \in new.kids[e].docs
    <3>1. CASE c \in DOMAIN nodes
        BY <3>1, <1>8
    <3>2. CASE c \in DOMAIN cut.nodes
      <4>1. PICK e \in DOMAIN cut.kids : c \in cut.kids[e].docs
          BY <3>2, <2>4, <1>3 DEF Tree, TreeShape
      <4>2. e # d
          BY <4>1, <3>2, <1>2, <1>3 DEF Kids
      <4> QED
          BY <4>1, <4>2, <1>7, <1>8
    <3> QED
        BY <3>1, <3>2, <1>7, <1>8
  <2>5. ASSUME NEW e \in DOMAIN new.kids, NEW f \in DOMAIN new.kids,
               new.kids[e].docs \cap new.kids[f].docs # {}
        PROVE  e = f
    <3>1. \A g \in DOMAIN new.kids \ {d} :
            g \in DOMAIN ix.kids /\ new.kids[g].docs = ix.kids[g].docs
                /\ ix.kids[g].docs \cap DOMAIN nodes = {}
        BY <1>3, <1>7, <1>8 DEF Offspring
    <3>2. \A g, h \in DOMAIN ix.kids : ix.kids[g].docs \cap ix.kids[h].docs # {} => g = h
        BY DEF Tree, TreeShape
    <3> QED
        BY <2>5, <3>1, <3>2, <1>8
  <2>6. Root \in DOMAIN new.nodes => new.nodes[Root].path = <<>>
      BY <1>3, <1>7, <1>8 DEF Tree, TreeShape, Offspring
  <2>7. ASSUME NEW c \in DOMAIN new.nodes
        PROVE  new.nodes[c].path \in DOMAIN new.byPath /\ new.byPath[new.nodes[c].path] = c
    <3>1. CASE c \in DOMAIN nodes
        BY <3>1, <1>7, <1>8
    <3>2. CASE c \notin DOMAIN nodes
      <4>1. c \in DOMAIN cut.nodes /\ new.nodes[c] = cut.nodes[c]
          BY <3>2, <1>7, <1>8
      <4>2. cut.nodes[c].path \in DOMAIN cut.byPath /\ cut.byPath[cut.nodes[c].path] = c
          BY <4>1, <1>3 DEF Tree, TreeShape
      <4>3. \A e \in DOMAIN nodes : nodes[e].path # cut.nodes[c].path
          BY <4>1, <1>6
      <4> QED
          BY <4>1, <4>2, <4>3, <1>7, <1>8
    <3> QED
        BY <3>1, <3>2
  <2> QED
      BY <2>1, <2>2, <2>3, <2>4, <2>5, <2>6, <2>7 DEF TreeShape
<1>10. Shown(ix) => Shown(new)
  <2> SUFFICES ASSUME Shown(ix), NEW e \in DOMAIN new.kids, new.kids[e].loaded
               PROVE  new.kids[e].docs \subseteq DOMAIN new.nodes
      BY DEF Shown
  <2>1. CASE e = d
      BY <2>1, <1>7, <1>8
  <2>2. CASE e # d
    <3>1. e \in DOMAIN cut.kids /\ e \in DOMAIN ix.kids /\ new.kids[e] = ix.kids[e]
        BY <2>2, <1>3, <1>7, <1>8
    <3>2. ix.kids[e].docs \subseteq DOMAIN ix.nodes
        BY <3>1 DEF Shown
    <3>3. ix.kids[e].docs \cap S = {}
        BY <2>2, <3>1 DEF Kids, Tree, TreeShape
    <3>4. ix.kids[e].docs \subseteq DOMAIN cut.nodes
        BY <3>1, <3>2, <3>3, <1>3
    <3> QED
        BY <3>1, <3>4, <1>7, <1>8
  <2> QED
      BY <2>1, <2>2
<1>11. \A e \in DOMAIN new.kids :
        /\ e \notin DOMAIN nodes /\ e \in DOMAIN new.nodes
        /\ \/ e = d /\ new.kids[e].docs = DOMAIN nodes
           \/ e \in DOMAIN ix.kids /\ new.kids[e] = ix.kids[e]
  <2> SUFFICES ASSUME NEW e \in DOMAIN new.kids
               PROVE  /\ e \notin DOMAIN nodes /\ e \in DOMAIN new.nodes
                      /\ \/ e = d /\ new.kids[e].docs = DOMAIN nodes
                         \/ e \in DOMAIN ix.kids /\ new.kids[e] = ix.kids[e]
      OBVIOUS
  <2>1. e \in DOMAIN cut.nodes
      BY <1>3, <1>4, <1>7, <1>8 DEF Tree, TreeShape
  <2> QED
      BY <2>1, <1>3, <1>5, <1>7, <1>8
<1>12. /\ \A c \in DOMAIN new.nodes :
            new.nodes[c] = IF c \in DOMAIN nodes THEN nodes[c] ELSE ix.nodes[c]
       /\ DOMAIN nodes \subseteq DOMAIN new.nodes
    BY <1>3, <1>7, <1>8
<1> QED
    BY <1>8, <1>9, <1>10, <1>11, <1>12 DEF Tree, CacheChildren, new, mid, cut

LEMMA InvalidateParentTree ==
    ASSUME NEW ix, Tree(ix), NEW d
    PROVE  LET new == InvalidateParent(ix, d)
           IN  Tree(new) /\ (Shown(ix) => Shown(new))
<1> DEFINE new == InvalidateParent(ix, d)
<1>1. /\ Sound(new)
      /\ new.nodes = ix.nodes /\ new.byPath = ix.byPath
      /\ DOMAIN new.kids = DOMAIN ix.kids
      /\ \A e \in DOMAIN ix.kids :
            /\ new.kids[e].docs = ix.kids[e].docs
            /\ e # d => new.kids[e] = ix.kids[e]
            /\ e = d => ~new.kids[e].loaded
  <2>1. Sound(ix)
      BY DEF Tree
  <2> QED
      BY <2>1, InvalidateParentSound
<1> HIDE DEF new
<1>2. TreeShape(new)
    BY <1>1 DEF Tree, TreeShape, Hangs
<1>3. Shown(ix) => Shown(new)
    BY <1>1 DEF Shown
<1> QED
    BY <1>1, <1>2, <1>3 DEF new, Tree

\* What rename and remove do to the index.
LEMMA ForgottenTree ==
    ASSUME NEW ix, Tree(ix), Shown(ix), NEW c \in DOMAIN ix.nodes
    PROVE  LET new == RemoveSubtree(InvalidateParent(ix, ix.nodes[c].parent), {c})
           IN  /\ Tree(new) /\ Shown(new)
               /\ \A e \in DOMAIN new.nodes : new.nodes[e] = ix.nodes[e]
               /\ \A e \in DOMAIN new.kids :
                    /\ e \in DOMAIN ix.kids \ Subtree(ix, {c})
                    /\ new.kids[e].docs = ix.kids[e].docs
                    /\ new.kids[e].loaded =>
                        ix.kids[e].loaded /\ ~(c \in ix.kids[e].docs)
<1> DEFINE mid == InvalidateParent(ix, ix.nodes[c].parent)
           new == RemoveSubtree(mid, {c})
<1>1. /\ Tree(mid) /\ Shown(mid)
      /\ mid.nodes = ix.nodes
      /\ DOMAIN mid.kids = DOMAIN ix.kids
      /\ \A e \in DOMAIN ix.kids :
            /\ mid.kids[e].docs = ix.kids[e].docs
            /\ mid.kids[e].loaded => e # ix.nodes[c].parent /\ ix.kids[e].loaded
  <2>1. Sound(ix)
      BY DEF Tree
  <2>2. Tree(mid) /\ Shown(mid)
      BY InvalidateParentTree
  <2>3. /\ mid.nodes = ix.nodes
        /\ DOMAIN mid.kids = DOMAIN ix.kids
        /\ \A e \in DOMAIN ix.kids :
            /\ mid.kids[e].docs = ix.kids[e].docs
            /\ mid.kids[e].loaded => e # ix.nodes[c].parent /\ ix.kids[e].loaded
      BY <2>1, InvalidateParentSound
  <2> QED
      BY <2>2, <2>3
<1>2. {c} \in SUBSET Doc
    BY DEF Tree, Sound, IsIndex, PartialFunction
<1> HIDE DEF mid
<1>6. Subtree(mid, {c}) = Subtree(ix, {c})
  <2>1. \A e : Kids(mid, e) = Kids(ix, e)
      BY <1>1 DEF Kids
  <2> QED
      BY <2>1 DEF Subtree
<1>3. /\ Tree(new)
      /\ \A e \in DOMAIN new.nodes : new.nodes[e] = mid.nodes[e]
      /\ DOMAIN new.kids = DOMAIN mid.kids \ Subtree(mid, {c})
      /\ \A d \in DOMAIN new.kids : new.kids[d] = mid.kids[d]
      /\ \A d \in DOMAIN new.kids :
            \/ mid.kids[d].docs \cap {c} # {}
            \/ ~mid.kids[d].loaded
            \/ ~(mid.kids[d].docs \subseteq DOMAIN mid.nodes)
            \/ mid.kids[d].docs \subseteq DOMAIN new.nodes
    BY <1>1, <1>2, RemoveSubtreeTree
<1> HIDE DEF new
<1>4. ASSUME NEW d \in DOMAIN mid.kids, c \in mid.kids[d].docs
      PROVE  ~mid.kids[d].loaded
    BY <1>1, <1>4 DEF Tree, TreeShape, Hangs
<1>5. Shown(new)
    BY <1>1, <1>3, <1>4 DEF Shown
<1> QED
    BY <1>1, <1>3, <1>4, <1>5, <1>6 DEF new, mid

-----------------------------------------------------------------------------
(* The drive and the index. *)

\* The drive is well formed, and no id is used twice.
DriveOK ==
    /\ PartialFunction(drive, Doc \ {Root}, Place)
    /\ gone \in SUBSET (Doc \ {Root})
    /\ gone \cap DOMAIN drive = {}
    /\ \A c, e \in DOMAIN drive : drive[c] = drive[e] => c = e
    /\ changes \in 0 .. MaxChanges

Marked == disturbed \in {"never", "changed", "moved"}

Safe == DriveOK /\ Sound(index) /\ overflowed \in BOOLEAN /\ Marked

\* What a directory listed is still in it, or deleted.
Homes(ix, there, dead) ==
    \A d \in DOMAIN ix.kids : \A c \in ix.kids[d].docs :
        /\ c \in DOMAIN there \cup dead
        /\ c \in DOMAIN there => there[c].parent = d

Settled == Safe /\ Tree(index) /\ Shown(index) /\ ~overflowed /\ Homes(index, drive, gone)

Inductive == Safe /\ (disturbed # "moved" => Settled)

-----------------------------------------------------------------------------
(* The drive. *)

LEMMA BelowType ==
    ASSUME DriveOK, NEW c \in DOMAIN drive
    PROVE  Below(c) \subseteq Doc \ {Root} /\ c \in Below(c)
<1>1. Doc \ {Root} \in SUBSET Doc /\ c \in Doc \ {Root}
    BY DEF DriveOK, PartialFunction
<1>2. \A e \in Doc \ {Root} : Children(e) \subseteq Doc \ {Root}
    BY DEF DriveOK, PartialFunction, Children
<1> QED
    BY <1>1, <1>2 DEF Below

LEMMA PlacedKeepsDrive ==
    ASSUME DriveOK, NEW c \in Doc \ {Root}, NEW d \in Dirs, NEW n \in Name,
           c \notin gone, Placed(c, d, n)
    PROVE  DriveOK'
<1>1. /\ drive' = [e \in DOMAIN drive \cup {c} |->
                    IF e = c THEN [parent |-> d, name |-> n] ELSE drive[e]]
      /\ gone' = gone /\ changes' = changes + 1 /\ changes < MaxChanges
      /\ \A e \in DOMAIN drive : drive[e] # [parent |-> d, name |-> n]
    BY DEF Placed, Free, Children
<1>2. [parent |-> d, name |-> n] \in Place
    BY DEF Place
<1>3. PartialFunction(drive', Doc \ {Root}, Place)
    BY <1>1, <1>2 DEF DriveOK, PartialFunction
<1>4. \A a, e \in DOMAIN drive' : drive'[a] = drive'[e] => a = e
    BY <1>1 DEF DriveOK
<1>5. changes' \in 0 .. MaxChanges
    BY <1>1, IndexAssumption DEF DriveOK
<1> QED
    BY <1>1, <1>3, <1>4, <1>5 DEF DriveOK

LEMMA DeletedKeepsDrive ==
    ASSUME DriveOK, NEW c, Deleted(c)
    PROVE  DriveOK'
<1>1. /\ c \in DOMAIN drive
      /\ drive' = Restrict(drive, DOMAIN drive \ Below(c))
      /\ gone' = gone \cup Below(c)
      /\ changes' = changes + 1 /\ changes < MaxChanges
    BY DEF Deleted
<1>2. Below(c) \subseteq Doc \ {Root}
    BY <1>1, BelowType
<1>3. changes' \in 0 .. MaxChanges
    BY <1>1, IndexAssumption DEF DriveOK
<1>4. /\ DOMAIN drive' = DOMAIN drive \ Below(c)
      /\ PartialFunction(drive', Doc \ {Root}, Place)
      /\ \A e \in DOMAIN drive' : drive'[e] = drive[e]
    BY <1>1 DEF DriveOK, PartialFunction, Restrict
<1> QED
    BY <1>1, <1>2, <1>3, <1>4 DEF DriveOK

\* A new document, or one that stays where it is.
LEMMA PlacedKeepsHomes ==
    ASSUME NEW ix, Homes(ix, drive, gone), NEW c, NEW d, NEW n, Placed(c, d, n),
           c \in Unborn \/ (c \in DOMAIN drive /\ d = drive[c].parent)
    PROVE  Homes(ix, drive', gone')
BY DEF Homes, Placed, Unborn

LEMMA DeletedKeepsHomes ==
    ASSUME NEW ix, Homes(ix, drive, gone), NEW c, Deleted(c)
    PROVE  Homes(ix, drive', gone')
BY DEF Homes, Deleted, Restrict

-----------------------------------------------------------------------------
(* Every step keeps the index sound. *)

LEMMA ListedIsSiblings ==
    ASSUME Safe, NEW d \in Dirs, d \in DOMAIN index.nodes
    PROVE  /\ Siblings(Listed(d))
           /\ DOMAIN Listed(d) = Children(d)
           /\ \A c \in Children(d) :
                /\ c \in DOMAIN drive /\ drive[c].parent = d
                /\ Listed(d)[c].parent = d
                /\ \E n \in Name : Listed(d)[c].path = Append(index.nodes[d].path, n)
<1> DEFINE p == index.nodes[d].path
<1>1. p \in Path
    BY DEF Safe, Sound, IsIndex, PartialFunction, Node
<1>2. Listed(d) = [c \in Children(d) |-> [parent |-> d, path |-> Append(p, drive[c].name)]]
    BY DEF Listed
<1> HIDE DEF p
<1>3. \A c \in Children(d) :
        /\ c \in DOMAIN drive /\ c \in Doc
        /\ drive[c].parent = d /\ drive[c].name \in Name
        /\ drive[c] = [parent |-> d, name |-> drive[c].name]
    BY DEF Safe, DriveOK, PartialFunction, Place, Children
<1>4. \A c \in Children(d) : Append(p, drive[c].name) \in Path
    BY <1>1, <1>3, AppendPath
<1>5. \A c, e \in Children(d) :
        Append(p, drive[c].name) = Append(p, drive[e].name) => drive[c].name = drive[e].name
    BY <1>1, <1>3, AppendInjective
<1>6. \A c, e \in Children(d) : drive[c].name = drive[e].name => c = e
    BY <1>3 DEF Safe, DriveOK
<1>7. d \in Doc
    BY IndexAssumption
<1>8. PartialFunction(Listed(d), Doc, Node)
  <2>1. \A c \in Children(d) : [parent |-> d, path |-> Append(p, drive[c].name)] \in Node
      BY <1>4, <1>7 DEF Node
  <2> QED
      BY <1>2, <1>3, <2>1 DEF PartialFunction
<1>9. DOMAIN Listed(d) = Children(d)
    BY <1>2
<1>10. \A c \in Children(d) :
        Listed(d)[c].parent = d /\ Listed(d)[c].path = Append(p, drive[c].name)
    BY <1>2
<1>11. Siblings(Listed(d))
    BY <1>5, <1>6, <1>8, <1>9, <1>10 DEF Siblings
<1> QED
    BY <1>3, <1>9, <1>10, <1>11 DEF p

LEMMA InitSafe == Init => Safe
<1> SUFFICES ASSUME Init PROVE Safe
    OBVIOUS
<1>1. IsIndex(index) /\ Points(index)
    BY DEF Init, EmptyIndex, NoFunction, IsIndex, PartialFunction, Points
<1>2. PartialFunction(drive, Doc \ {Root}, Place)
    BY DEF Init, PartialFunction
<1>3. gone = {} /\ changes \in 0 .. MaxChanges /\ overflowed \in BOOLEAN
  <2>1. gone = {} /\ changes = 0 /\ overflowed = FALSE
      BY Zenon DEF Init
  <2>2. 0 \in 0 .. MaxChanges
      BY SMT, IndexAssumption
  <2>3. FALSE \in BOOLEAN
      OBVIOUS
  <2> QED
      BY Zenon, <2>1, <2>2, <2>3
<1>4. \A c, e \in DOMAIN drive : drive[c] = drive[e] => c = e
    BY DEF Init
<1>5. Marked
    BY DEF Init, Marked
<1> QED
    BY <1>1, <1>2, <1>3, <1>4, <1>5 DEF Safe, DriveOK, Sound

LEMMA RootIndexSound == Sound(RootIndex)
<1>1. <<>> \in Path
    BY DEF Path
<1> QED
    BY <1>1, TreeAssumption
       DEF RootIndex, NoFunction, Sound, IsIndex, PartialFunction, Points, Node

LEMMA ForgetSound ==
    ASSUME Safe, NEW c, Forget(c)
    PROVE  Sound(index') /\ overflowed' \in BOOLEAN
<1>1. Sound(RemoveSubtree(InvalidateParent(index, index.nodes[c].parent), {c}))
    BY WithoutSound, InvalidateParentSound DEF Safe, RemoveSubtree
<1> QED
    BY <1>1 DEF Forget, Becomes, Safe

\* What happens behind the back of CloudVfs is noted, and never forgotten.
LEMMA StepMarked ==
    ASSUME Marked, [Next]_vars
    PROVE  Marked' /\ (disturbed' # "moved" => disturbed # "moved")
<1> USE DEF Marked, Unnoticed, AnswerLost
<1>1. ASSUME NEW c, NEW d, NEW n, Creates(c, d, n) \/ Rename(c, n) \/ Delete(c)
      PROVE  Marked' /\ (disturbed' # "moved" => disturbed # "moved")
    BY <1>1 DEF Creates, Rename, Delete, Forget
<1>2. CASE OtherClient
    BY <1>2 DEF OtherClient, OtherCreates, OtherDeletes, OtherRenames, OtherMoves
<1>3. ASSUME NEW d, LoadRoot \/ Fetch(d) \/ UNCHANGED vars
      PROVE  Marked' /\ (disturbed' # "moved" => disturbed # "moved")
    BY <1>3 DEF LoadRoot, Fetch, vars
<1> QED
    BY <1>1, <1>2, <1>3 DEF Next, MkDir, Upload

LEMMA StepSafe == Safe /\ [Next]_vars => Safe'
<1> SUFFICES ASSUME Safe, [Next]_vars PROVE Safe'
    OBVIOUS
<1> DEFINE Goal == DriveOK' /\ Sound(index') /\ overflowed' \in BOOLEAN
<1> SUFFICES Goal
    BY StepMarked DEF Safe
<1> USE DEF Safe
<1>1. CASE LoadRoot
    BY <1>1, RootIndexSound DEF LoadRoot, DriveOK
<1>2. ASSUME NEW d \in Dirs, Fetch(d) PROVE Goal
  <2>1. d \in DOMAIN index.nodes /\ d \in Doc /\ UNCHANGED <<drive, gone, changes>>
      BY <1>2, IndexAssumption DEF Fetch, Leads
  <2>2. Sound(CacheChildren(index, d, Listed(d)))
      BY <2>1, ListedIsSiblings, CacheChildrenSound
  <2>3. Sound(index') /\ overflowed' \in BOOLEAN
      BY <1>2, <2>2 DEF Fetch, Becomes
  <2> QED
      BY <2>1, <2>3 DEF DriveOK
<1>3. ASSUME NEW c \in Doc, NEW d \in Dirs, NEW n \in Name, Creates(c, d, n) PROVE Goal
  <2>1. DriveOK'
      BY <1>3, PlacedKeepsDrive DEF Creates, Unborn
  <2>2. Sound(index') /\ overflowed' \in BOOLEAN
      BY <1>3, InvalidateParentSound DEF Creates, AnswerLost, Unnoticed
  <2> QED
      BY <2>1, <2>2
<1>4. ASSUME NEW c \in Doc, NEW n \in Name, Rename(c, n) PROVE Goal
  <2>1. c \in Doc \ {Root} /\ drive[c].parent \in Dirs /\ c \notin gone
      BY <1>4 DEF Rename, DriveOK, PartialFunction, Place
  <2>2. DriveOK'
      BY <1>4, <2>1, PlacedKeepsDrive DEF Rename
  <2>3. Sound(index') /\ overflowed' \in BOOLEAN
      BY <1>4, ForgetSound DEF Rename, AnswerLost, Unnoticed
  <2> QED
      BY <2>2, <2>3
<1>5. ASSUME NEW c \in Doc, Delete(c) PROVE Goal
    BY <1>5, DeletedKeepsDrive, ForgetSound DEF Delete, AnswerLost, Unnoticed
<1>6. CASE OtherClient
  <2>1. ASSUME NEW c \in Doc, NEW d \in Dirs, NEW n \in Name, OtherCreates(c, d, n) PROVE DriveOK'
      BY <2>1, PlacedKeepsDrive DEF OtherCreates, Unborn
  <2>2. ASSUME NEW c \in Doc, OtherDeletes(c) PROVE DriveOK'
      BY <2>2, DeletedKeepsDrive DEF OtherDeletes
  <2>3. ASSUME NEW c \in Doc, NEW n \in Name, OtherRenames(c, n) PROVE DriveOK'
    <3>1. c \in Doc \ {Root} /\ drive[c].parent \in Dirs /\ c \notin gone
        BY <2>3 DEF OtherRenames, DriveOK, PartialFunction, Place
    <3> QED
        BY <2>3, <3>1, PlacedKeepsDrive DEF OtherRenames
  <2>4. ASSUME NEW c \in Doc, NEW d \in Dirs, OtherMoves(c, d) PROVE DriveOK'
    <3>1. c \in Doc \ {Root} /\ drive[c].name \in Name /\ c \notin gone
        BY <2>4 DEF OtherMoves, DriveOK, PartialFunction, Place
    <3> QED
        BY <2>4, <3>1, PlacedKeepsDrive DEF OtherMoves
  <2> QED
      BY <1>6, <2>1, <2>2, <2>3, <2>4 DEF OtherClient, OtherCreates, OtherDeletes, OtherRenames, OtherMoves, Unnoticed
<1>7. CASE UNCHANGED vars
    BY <1>7 DEF vars, DriveOK
<1> QED
    BY <1>1, <1>2, <1>3, <1>4, <1>5, <1>6, <1>7 DEF Next, MkDir, Upload

\* Whatever other clients do, moves included, and whichever answers are lost:
\* every variable keeps its type, and a path lookup knows leads to a node that
\* has this path.
THEOREM PathsAlwaysPointToNodes == Spec => [](TypeOK /\ PathsPointToNodes)
<1>1. Safe => TypeOK /\ PathsPointToNodes
    BY DEF Safe, Sound, Points, DriveOK, Marked, TypeOK, PathsPointToNodes
<1> QED
    BY <1>1, InitSafe, StepSafe, PTL DEF Spec

-----------------------------------------------------------------------------
(* Without moves the index stays a tree. *)

LEMMA ForgetSettled ==
    ASSUME Settled, NEW c, c \in DOMAIN index.nodes, Forget(c),
           Homes(index, drive', gone')
    PROVE  /\ Tree(index') /\ Shown(index') /\ ~overflowed'
           /\ Homes(index', drive', gone')
<1> DEFINE new == RemoveSubtree(InvalidateParent(index, index.nodes[c].parent), {c})
<1>1. {c} \in SUBSET Doc
    BY DEF Settled, Tree, Sound, IsIndex, PartialFunction
<1>2. index' = new /\ ~overflowed'
    BY <1>1, NeverEndless DEF Forget, Becomes, Settled
<1>3. /\ Tree(new) /\ Shown(new)
      /\ \A e \in DOMAIN new.kids :
            e \in DOMAIN index.kids /\ new.kids[e].docs = index.kids[e].docs
    BY ForgottenTree DEF Settled
<1> HIDE DEF new
<1> QED
    BY <1>2, <1>3 DEF Homes

LEMMA InvalidateSettled ==
    ASSUME Settled, NEW d, index' = InvalidateParent(index, d), Homes(index, drive', gone')
    PROVE  Tree(index') /\ Shown(index') /\ Homes(index', drive', gone')
<1> DEFINE new == InvalidateParent(index, d)
<1>1. Sound(index)
    BY DEF Settled, Tree
<1>2. /\ DOMAIN new.kids = DOMAIN index.kids
      /\ \A e \in DOMAIN index.kids : new.kids[e].docs = index.kids[e].docs
    BY <1>1, InvalidateParentSound
<1>3. Tree(new) /\ Shown(new)
    BY InvalidateParentTree DEF Settled
<1> HIDE DEF new
<1>4. index' = new
    BY DEF new
<1> QED
    BY <1>2, <1>3, <1>4 DEF Homes

\* What the drive lists in a directory can be put into its listing.
LEMMA FetchOffspring ==
    ASSUME Settled, NEW d \in Dirs, d \in DOMAIN index.nodes
    PROVE  Offspring(index, d, Listed(d))
<1>1. /\ Siblings(Listed(d))
      /\ DOMAIN Listed(d) = Children(d)
      /\ \A c \in Children(d) :
            /\ c \in DOMAIN drive /\ drive[c].parent = d
            /\ Listed(d)[c].parent = d
            /\ \E n \in Name : Listed(d)[c].path = Append(index.nodes[d].path, n)
    BY ListedIsSiblings DEF Settled
<1>2. \A e \in DOMAIN index.kids \ {d} : index.kids[e].docs \cap Children(d) = {}
    BY <1>1 DEF Settled, Homes
<1>3. Children(d) \subseteq Doc \ {Root}
    BY DEF Settled, Safe, DriveOK, PartialFunction, Children
<1> QED
    BY <1>1, <1>2, <1>3 DEF Offspring, Siblings, PartialFunction

LEMMA FetchSettled ==
    ASSUME Settled, NEW d \in Dirs, Fetch(d)
    PROVE  /\ Tree(index') /\ Shown(index') /\ ~overflowed'
           /\ Homes(index', drive', gone')
<1> DEFINE new == CacheChildren(index, d, Listed(d))
<1>1. d \in DOMAIN index.nodes /\ d \in Doc /\ UNCHANGED <<drive, gone>>
    BY IndexAssumption DEF Fetch, Leads
<1>2. Kids(index, d) \in SUBSET Doc
    BY KidsType DEF Settled, Tree, Sound
<1>3. index' = new /\ ~overflowed'
    BY <1>2, NeverEndless DEF Fetch, Becomes, Settled
<1>4. DOMAIN Listed(d) = {c \in DOMAIN drive : drive[c].parent = d}
    BY DEF Listed, Children
<1>5. Offspring(index, d, Listed(d))
    BY <1>1, FetchOffspring
<1>6. /\ Tree(new) /\ Shown(new)
      /\ \A e \in DOMAIN new.kids :
            \/ e = d /\ new.kids[e].docs = DOMAIN Listed(d)
            \/ e \in DOMAIN index.kids /\ new.kids[e] = index.kids[e]
    BY <1>1, <1>5, CacheChildrenTree DEF Settled
<1> HIDE DEF new
<1>7. Homes(new, drive, gone)
    BY <1>4, <1>6 DEF Homes, Settled
<1> QED
    BY <1>1, <1>3, <1>6, <1>7

LEMMA EmptyTree == Tree(EmptyIndex) /\ Shown(EmptyIndex)
BY DEF EmptyIndex, NoFunction, Tree, Sound, IsIndex, PartialFunction, Points, TreeShape, Shown

LEMMA RootTree == Tree(RootIndex) /\ Shown(RootIndex)
<1>1. TreeShape(RootIndex) /\ Shown(RootIndex)
    BY DEF RootIndex, NoFunction, TreeShape, Shown
<1> QED
    BY <1>1, RootIndexSound DEF Tree

LEMMA InitSettled == Init => Settled
<1> SUFFICES ASSUME Init PROVE Settled
    OBVIOUS
<1>1. index = EmptyIndex /\ ~overflowed
    BY Zenon DEF Init
<1>2. Homes(EmptyIndex, drive, gone)
    BY DEF EmptyIndex, NoFunction, Homes
<1> QED
    BY <1>1, <1>2, EmptyTree, InitSafe DEF Settled

LEMMA StepSettled ==
    ASSUME disturbed' # "moved", Settled, [Next]_vars
    PROVE  Settled'
<1>1. Safe'
    BY StepSafe DEF Settled
<1> DEFINE Goal == Tree(index') /\ Shown(index') /\ ~overflowed' /\ Homes(index', drive', gone')
<1> SUFFICES Goal
    BY <1>1 DEF Settled
<1>2. CASE LoadRoot
  <2>1. Homes(RootIndex, drive, gone)
      BY DEF RootIndex, NoFunction, Homes
  <2> QED
      BY <1>2, <2>1, RootTree DEF LoadRoot, Settled
<1>3. ASSUME NEW d \in Dirs, Fetch(d) PROVE Goal
    BY <1>3, FetchSettled
<1>4. ASSUME NEW c \in Doc, NEW d \in Dirs, NEW n \in Name, Creates(c, d, n) PROVE Goal
  <2>1. Homes(index, drive', gone')
      BY <1>4, PlacedKeepsHomes DEF Creates, Settled
  <2>2. CASE index' = InvalidateParent(index, d) /\ UNCHANGED overflowed
      BY <2>1, <2>2, InvalidateSettled DEF Settled
  <2>3. CASE UNCHANGED <<index, overflowed>>
      BY <2>1, <2>3 DEF Settled
  <2> QED
      BY <1>4, <2>2, <2>3 DEF Creates, AnswerLost, Unnoticed
<1>5. ASSUME NEW c \in Doc, NEW n \in Name, Rename(c, n) PROVE Goal
  <2>1. Homes(index, drive', gone')
      BY <1>5, PlacedKeepsHomes DEF Rename, Settled
  <2>2. c \in DOMAIN index.nodes
      BY <1>5 DEF Rename, Leads
  <2>3. CASE Forget(c)
      BY <2>1, <2>2, <2>3, ForgetSettled
  <2>4. CASE UNCHANGED <<index, overflowed>>
      BY <2>1, <2>4 DEF Settled
  <2> QED
      BY <1>5, <2>3, <2>4 DEF Rename, AnswerLost, Unnoticed
<1>6. ASSUME NEW c \in Doc, Delete(c) PROVE Goal
  <2>1. Homes(index, drive', gone')
      BY <1>6, DeletedKeepsHomes DEF Delete, Settled
  <2>2. c \in DOMAIN index.nodes
      BY <1>6 DEF Delete, Leads
  <2>3. CASE Forget(c)
      BY <2>1, <2>2, <2>3, ForgetSettled
  <2>4. CASE UNCHANGED <<index, overflowed>>
      BY <2>1, <2>4 DEF Settled
  <2> QED
      BY <1>6, <2>3, <2>4 DEF Delete, AnswerLost, Unnoticed
<1>7. CASE OtherClient
  <2>1. Homes(index, drive', gone')
    <3>1. ASSUME NEW c \in Doc, NEW d \in Dirs, NEW n \in Name, OtherCreates(c, d, n)
          PROVE  Homes(index, drive', gone')
        BY <3>1, PlacedKeepsHomes DEF OtherCreates, Settled
    <3>2. ASSUME NEW c \in Doc, OtherDeletes(c) PROVE Homes(index, drive', gone')
        BY <3>2, DeletedKeepsHomes DEF OtherDeletes, Settled
    <3>3. ASSUME NEW c \in Doc, NEW n \in Name, OtherRenames(c, n)
          PROVE  Homes(index, drive', gone')
        BY <3>3, PlacedKeepsHomes DEF OtherRenames, Settled
    <3> QED
        BY <1>7, <3>1, <3>2, <3>3 DEF OtherClient, OtherMoves
  <2>2. UNCHANGED <<index, overflowed>>
      BY <1>7 DEF OtherClient, OtherCreates, OtherDeletes, OtherRenames, OtherMoves, Unnoticed
  <2> QED
      BY <2>1, <2>2 DEF Settled
<1>8. CASE UNCHANGED vars
    BY <1>8 DEF vars, Settled
<1> QED
    BY <1>2, <1>3, <1>4, <1>5, <1>6, <1>7, <1>8 DEF Next, MkDir, Upload

LEMMA SettledIsTree == Settled => IndexIsTree /\ ListingResolves /\ CallsReturn
<1> SUFFICES ASSUME Settled PROVE IndexIsTree /\ ListingResolves /\ CallsReturn
    OBVIOUS
<1> USE DEF Settled, Tree, TreeShape
<1>1. ASSUME NEW c \in DOMAIN index.nodes, index.nodes[c].path # <<>>
      PROVE  \E q \in DOMAIN index.byPath, n \in Name : index.nodes[c].path = Append(q, n)
  <2>1. PICK d \in DOMAIN index.kids : c \in index.kids[d].docs
      BY <1>1
  <2>2. d \in DOMAIN index.nodes /\ Hangs(index, c, d)
      BY <2>1
  <2>3. index.nodes[d].path \in DOMAIN index.byPath
      BY <2>2
  <2> QED
      BY <2>2, <2>3 DEF Hangs
<1>2. IndexIsTree
    BY <1>1 DEF IndexIsTree, Resolves
<1>3. ListingResolves
    BY DEF ListingResolves, ListingIsCached, Resolves, Shown, Hangs
<1> QED
    BY <1>2, <1>3 DEF CallsReturn

\* Until another client moves a document to another directory, the index is a
\* tree, whatever a cached listing shows can be looked up where it is shown, and
\* remove_subtree never descends for ever.
THEOREM TreeUntilMoved ==
    Spec => [](IndexIsTree /\ ListingResolves /\ CallsReturn)
<1>1. Init => Inductive
    BY InitSafe, InitSettled DEF Inductive
<1>2. Inductive /\ [Next]_vars => Inductive'
    BY StepSafe, StepMarked, StepSettled DEF Inductive, Safe
<1>3. Inductive => IndexIsTree /\ ListingResolves /\ CallsReturn
    BY SettledIsTree DEF Inductive, IndexIsTree, ListingResolves, CallsReturn
<1> QED
    BY <1>1, <1>2, <1>3, PTL DEF Spec

\* Paths and nodes agree always, and until another client moves a document the
\* index is a tree of which listings resolve and calls return.
THEOREM IndexStaysSound == Spec => []IndexSound
<1>1. /\ TypeOK /\ PathsPointToNodes
      /\ IndexIsTree /\ ListingResolves /\ CallsReturn
      => IndexSound
    BY DEF IndexSound
<1> QED
    BY <1>1, PathsAlwaysPointToNodes, TreeUntilMoved, PTL

-----------------------------------------------------------------------------
(* While CloudVfs alone changes the drive, cached listings show the drive. *)

\* A listing that is valid names what the drive has there, at the right paths.
Mirrors(ix, there) ==
    \A d \in DOMAIN ix.kids : ix.kids[d].loaded =>
        /\ ix.kids[d].docs = {c \in DOMAIN there : there[c].parent = d}
        /\ \A c \in ix.kids[d].docs :
            ix.nodes[c].path = Append(ix.nodes[d].path, there[c].name)

Undisturbed == disturbed = "never" => Mirrors(index, drive)

LEMMA BelowStarts ==
    ASSUME NEW c \in Doc
    PROVE  c \in Below(c)
BY DEF Below

LEMMA BelowClosed ==
    ASSUME DriveOK, NEW c, NEW d \in Below(c), NEW e \in Children(d)
    PROVE  e \in Below(c)
BY DEF Below, DriveOK, PartialFunction, Children

\* What lies below a document is the document or in something below it.
LEMMA BelowReached ==
    ASSUME DriveOK, NEW c \in Doc, NEW e \in Below(c) \cap DOMAIN drive, e # c
    PROVE  drive[e].parent \in Below(c)
<1> DEFINE C == {x \in Below(c) : x = c \/ (x \in DOMAIN drive /\ drive[x].parent \in Below(c))}
<1>1. C \in SUBSET Doc /\ c \in C
    BY BelowStarts DEF Below
<1>2. ASSUME NEW x \in C, NEW y \in Children(x) PROVE y \in C
  <2>1. y \in Below(c) /\ y \in DOMAIN drive /\ drive[y].parent = x
      BY <1>2, BelowClosed DEF Children
  <2> QED
      BY <2>1
<1>3. e \in C
    BY <1>1, <1>2 DEF Below
<1> QED
    BY <1>3

\* Of a subtree of the drive, remove_subtree visits whatever the index knows.
LEMMA KnownBelow ==
    ASSUME Settled, NEW c \in DOMAIN index.nodes, NEW e \in Below(c) \cap DOMAIN index.nodes
    PROVE  e \in Subtree(index, {c})
<1> DEFINE T == Subtree(index, {c})
           C == {x \in Below(c) : x \in DOMAIN index.nodes => x \in T}
<1>1. c \in Doc /\ {c} \in SUBSET Doc /\ DOMAIN index.nodes \subseteq Doc
    BY DEF Settled, Tree, Sound, IsIndex, PartialFunction
<1>2. c \in T
    BY <1>1, SubtreeHolds
<1>3. C \in SUBSET Doc /\ c \in C
    BY <1>1, <1>2, BelowStarts DEF Below
<1>4. ASSUME NEW x \in C, NEW y \in Children(x) PROVE y \in C
  <2>1. y \in Below(c) /\ y \in DOMAIN drive /\ drive[y].parent = x /\ y # Root
      BY <1>4, BelowClosed DEF Children, Settled, Safe, DriveOK, PartialFunction
  <2> SUFFICES ASSUME y \in DOMAIN index.nodes PROVE y \in T
      BY <2>1
  <2>2. PICK d \in DOMAIN index.kids : y \in index.kids[d].docs
      BY <2>1 DEF Settled, Tree, TreeShape
  <2>3. d = x /\ x \in DOMAIN index.nodes
      BY <2>1, <2>2 DEF Settled, Homes, Tree, TreeShape
  <2>4. x \in T /\ y \in Kids(index, x)
      BY <2>2, <2>3 DEF Kids
  <2> QED
      BY <1>1, <2>4, SubtreeClosed
<1>5. e \in C
    BY <1>3, <1>4 DEF Below
<1> QED
    BY <1>5

\* A listing that is still valid after rename or remove is not the one of the
\* parent, nor of anything below what was renamed or removed.
LEMMA ForgetKeepsOthers ==
    ASSUME Settled, NEW c, c \in DOMAIN index.nodes, Forget(c)
    PROVE  /\ Tree(index') /\ Shown(index')
           /\ \A e \in DOMAIN index'.nodes : index'.nodes[e] = index.nodes[e]
           /\ \A e \in DOMAIN index'.kids :
                /\ e \in DOMAIN index.kids /\ e \in DOMAIN index'.nodes /\ e \notin Below(c)
                /\ index'.kids[e].docs = index.kids[e].docs
                /\ index'.kids[e].loaded => index.kids[e].loaded /\ c \notin index.kids[e].docs
<1> DEFINE new == RemoveSubtree(InvalidateParent(index, index.nodes[c].parent), {c})
<1>1. {c} \in SUBSET Doc
    BY DEF Settled, Tree, Sound, IsIndex, PartialFunction
<1>2. index' = new
    BY <1>1, NeverEndless DEF Forget, Becomes, Settled
<1>3. /\ Tree(new) /\ Shown(new)
      /\ \A e \in DOMAIN new.nodes : new.nodes[e] = index.nodes[e]
      /\ \A e \in DOMAIN new.kids :
            /\ e \in DOMAIN index.kids \ Subtree(index, {c})
            /\ new.kids[e].docs = index.kids[e].docs
            /\ new.kids[e].loaded => index.kids[e].loaded /\ ~(c \in index.kids[e].docs)
    BY ForgottenTree DEF Settled
<1> HIDE DEF new
<1>4. \A e \in DOMAIN new.kids : e \in DOMAIN new.nodes
    BY <1>3 DEF Tree, TreeShape
<1>5. \A e \in DOMAIN new.kids : e \notin Below(c)
    BY <1>3, KnownBelow DEF Settled, Tree, TreeShape
<1> QED
    BY <1>2, <1>3, <1>4, <1>5

LEMMA FetchMirrors ==
    ASSUME Settled, Mirrors(index, drive), NEW d \in Dirs, Fetch(d)
    PROVE  Mirrors(index', drive')
<1> DEFINE new == CacheChildren(index, d, Listed(d))
<1>1. d \in DOMAIN index.nodes /\ UNCHANGED drive
    BY DEF Fetch, Leads
<1>2. index' = new
    BY KidsType, NeverEndless DEF Fetch, Becomes, Settled, Tree, Sound
<1>3. /\ DOMAIN Listed(d) = Children(d)
      /\ \A c \in Children(d) :
            Listed(d)[c].path = Append(index.nodes[d].path, drive[c].name)
    BY DEF Listed
<1>4. Offspring(index, d, Listed(d))
    BY <1>1, FetchOffspring
<1>5. /\ Shown(new)
      /\ \A e \in DOMAIN new.kids :
            /\ e \notin Children(d) /\ e \in DOMAIN new.nodes
            /\ \/ e = d /\ new.kids[e].docs = Children(d)
               \/ e \in DOMAIN index.kids /\ new.kids[e] = index.kids[e]
      /\ \A c \in DOMAIN new.nodes :
            new.nodes[c] = IF c \in Children(d) THEN Listed(d)[c] ELSE index.nodes[c]
      /\ Children(d) \subseteq DOMAIN new.nodes
    BY <1>1, <1>3, <1>4, CacheChildrenTree DEF Settled
<1> HIDE DEF new
<1>6. ASSUME NEW e \in DOMAIN new.kids, new.kids[e].loaded
      PROVE  /\ new.kids[e].docs = {c \in DOMAIN drive : drive[c].parent = e}
             /\ \A c \in new.kids[e].docs :
                    new.nodes[c].path = Append(new.nodes[e].path, drive[c].name)
  <2>1. new.nodes[e] = index.nodes[e]
      BY <1>5
  <2>2. CASE e = d /\ new.kids[e].docs = Children(d)
      BY <1>3, <1>5, <2>1, <2>2 DEF Children
  <2>3. CASE e # d /\ e \in DOMAIN index.kids /\ new.kids[e] = index.kids[e]
    <3>1. /\ new.kids[e].docs = {c \in DOMAIN drive : drive[c].parent = e}
          /\ \A c \in new.kids[e].docs :
                index.nodes[c].path = Append(index.nodes[e].path, drive[c].name)
        BY <1>6, <2>3 DEF Mirrors
    <3>2. \A c \in new.kids[e].docs : c \in DOMAIN new.nodes /\ c \notin Children(d)
        BY <1>5, <1>6, <2>3, <3>1 DEF Shown, Children
    <3> QED
        BY <1>5, <2>1, <3>1, <3>2
  <2>4. CASE e = d /\ e \in DOMAIN index.kids /\ new.kids[e] = index.kids[e]
    <3>1. /\ new.kids[e].docs = Children(d)
        BY <1>6, <2>4 DEF Mirrors, Children
    <3> QED
        BY <2>2, <2>4, <3>1
  <2> QED
      BY <1>5, <2>2, <2>3, <2>4
<1> QED
    BY <1>1, <1>2, <1>6 DEF Mirrors

\* A write the drive answers invalidates the listing it makes stale.
LEMMA CreateMirrors ==
    ASSUME Settled, Mirrors(index, drive), NEW c \in Unborn, NEW d, NEW n, Placed(c, d, n),
           index' = InvalidateParent(index, d)
    PROVE  Mirrors(index', drive')
<1>1. Sound(index)
    BY DEF Settled, Tree
<1>2. /\ index'.nodes = index.nodes
      /\ DOMAIN index'.kids = DOMAIN index.kids
      /\ \A e \in DOMAIN index.kids :
            index'.kids[e].loaded => e # d /\ index'.kids[e] = index.kids[e]
    BY <1>1, InvalidateParentSound
<1>3. /\ DOMAIN drive' = DOMAIN drive \cup {c} /\ drive'[c].parent = d
      /\ c \notin DOMAIN drive
      /\ \A e \in DOMAIN drive : drive'[e] = drive[e]
    BY DEF Placed, Unborn
<1>4. ASSUME NEW e \in DOMAIN index.kids, index'.kids[e].loaded
      PROVE  /\ index'.kids[e].docs = {x \in DOMAIN drive' : drive'[x].parent = e}
             /\ \A x \in index'.kids[e].docs :
                    index'.nodes[x].path = Append(index'.nodes[e].path, drive'[x].name)
  <2>1. e # d /\ index'.kids[e] = index.kids[e]
      BY <1>2, <1>4
  <2>2. /\ index.kids[e].docs = {x \in DOMAIN drive : drive[x].parent = e}
        /\ \A x \in index.kids[e].docs :
            index.nodes[x].path = Append(index.nodes[e].path, drive[x].name)
      BY <1>4, <2>1 DEF Mirrors
  <2> QED
      BY <1>2, <1>3, <2>1, <2>2
<1> QED
    BY <1>2, <1>4 DEF Mirrors

\* Rename and remove: every other directory keeps its documents and their names.
LEMMA ForgetMirrors ==
    ASSUME Settled, Mirrors(index, drive), NEW c, c \in DOMAIN index.nodes, Forget(c),
           \A e \in DOMAIN drive : e # c /\ drive[e].parent \notin Below(c) =>
                e \in DOMAIN drive' /\ drive'[e] = drive[e],
           \A e \in DOMAIN drive' : e \in DOMAIN drive /\ drive'[e].parent = drive[e].parent
    PROVE  Mirrors(index', drive')
<1>1. /\ Shown(index')
      /\ \A e \in DOMAIN index'.nodes : index'.nodes[e] = index.nodes[e]
      /\ \A e \in DOMAIN index'.kids :
            /\ e \in DOMAIN index.kids /\ e \in DOMAIN index'.nodes /\ e \notin Below(c)
            /\ index'.kids[e].docs = index.kids[e].docs
            /\ index'.kids[e].loaded => index.kids[e].loaded /\ c \notin index.kids[e].docs
    BY ForgetKeepsOthers
<1>2. ASSUME NEW e \in DOMAIN index'.kids, index'.kids[e].loaded
      PROVE  /\ index'.kids[e].docs = {x \in DOMAIN drive' : drive'[x].parent = e}
             /\ \A x \in index'.kids[e].docs :
                    index'.nodes[x].path = Append(index'.nodes[e].path, drive'[x].name)
  <2>1. /\ index'.kids[e].docs = {x \in DOMAIN drive : drive[x].parent = e}
        /\ \A x \in index'.kids[e].docs :
            index.nodes[x].path = Append(index.nodes[e].path, drive[x].name)
      BY <1>1, <1>2 DEF Mirrors
  <2>2. c \notin index'.kids[e].docs /\ e \notin Below(c)
      BY <1>1, <1>2
  <2>3. \A x \in index'.kids[e].docs : x \in DOMAIN drive' /\ drive'[x] = drive[x]
      BY <2>1, <2>2
  <2>4. index'.kids[e].docs = {x \in DOMAIN drive' : drive'[x].parent = e}
      BY <2>1, <2>3
  <2>5. \A x \in index'.kids[e].docs : index'.nodes[x] = index.nodes[x]
      BY <1>1, <1>2 DEF Shown
  <2>6. index'.nodes[e] = index.nodes[e]
      BY <1>1
  <2> QED
      BY <2>1, <2>3, <2>4, <2>5, <2>6
<1> QED
    BY <1>2 DEF Mirrors

\* What is unnoticed, or only others do, is disturbing.
LEMMA DisturbedStays ==
    ASSUME [Next]_vars, disturbed' = "never"
    PROVE  disturbed = "never" /\ ~OtherClient /\ ~AnswerLost
BY DEF Next, vars, LoadRoot, Fetch, MkDir, Upload, Creates, Rename, Delete, Forget,
       AnswerLost, Unnoticed, OtherClient, OtherCreates, OtherDeletes, OtherRenames, OtherMoves

LEMMA StepUndisturbed == Settled /\ Undisturbed /\ [Next]_vars => Undisturbed'
<1> SUFFICES ASSUME Settled, Undisturbed, [Next]_vars, disturbed' = "never"
             PROVE  Mirrors(index', drive')
    BY DEF Undisturbed
<1>1. disturbed = "never" /\ ~OtherClient /\ ~AnswerLost
    BY DisturbedStays
<1>2. Mirrors(index, drive)
    BY <1>1 DEF Undisturbed
<1>3. CASE LoadRoot
    BY <1>3 DEF LoadRoot, RootIndex, NoFunction, Mirrors
<1>4. ASSUME NEW d \in Dirs, Fetch(d) PROVE Mirrors(index', drive')
    BY <1>2, <1>4, FetchMirrors
<1>5. ASSUME NEW c \in Doc, NEW d \in Dirs, NEW n \in Name, Creates(c, d, n)
      PROVE  Mirrors(index', drive')
    BY <1>1, <1>2, <1>5, CreateMirrors DEF Creates
<1>6. ASSUME NEW c \in Doc, NEW n \in Name, Rename(c, n) PROVE Mirrors(index', drive')
  <2>1. c \in DOMAIN index.nodes /\ c \in DOMAIN drive /\ Forget(c)
      BY <1>1, <1>6 DEF Rename, Leads
  <2>2. /\ DOMAIN drive' = DOMAIN drive
        /\ \A e \in DOMAIN drive : e # c => drive'[e] = drive[e]
        /\ drive'[c].parent = drive[c].parent
      BY <1>6, <2>1 DEF Rename, Placed
  <2> QED
      BY <1>2, <2>1, <2>2, ForgetMirrors
<1>7. ASSUME NEW c \in Doc, Delete(c) PROVE Mirrors(index', drive')
  <2>1. c \in DOMAIN index.nodes /\ Deleted(c) /\ Forget(c)
      BY <1>1, <1>7 DEF Delete, Leads
  <2>2. /\ DOMAIN drive' = DOMAIN drive \ Below(c)
        /\ \A e \in DOMAIN drive' : drive'[e] = drive[e]
      BY <2>1 DEF Deleted, Restrict
  <2>3. \A e \in DOMAIN drive : e # c /\ drive[e].parent \notin Below(c) => e \notin Below(c)
      BY BelowReached DEF Settled, Safe
  <2> QED
      BY <1>2, <2>1, <2>2, <2>3, ForgetMirrors
<1>8. CASE UNCHANGED vars
    BY <1>2, <1>8 DEF vars
<1> QED
    BY <1>1, <1>3, <1>4, <1>5, <1>6, <1>7, <1>8 DEF Next, MkDir, Upload

\* As long as CloudVfs alone changes the drive and every answer arrives, what a
\* cached listing shows is what the drive holds, under its names: mkdir, upload,
\* rename and remove leave no listing valid that they made stale.
THEOREM OwnChangesAlwaysShown == Spec => []OwnChangesShown
<1> DEFINE IInv == Inductive /\ Undisturbed
<1>1. Init => IInv
  <2>1. Init => Undisturbed
      BY DEF Init, Undisturbed, Mirrors, EmptyIndex, NoFunction
  <2> QED
      BY <2>1, InitSafe, InitSettled DEF Inductive
<1>2. IInv /\ [Next]_vars => IInv'
  <2> SUFFICES ASSUME IInv, [Next]_vars PROVE IInv'
      OBVIOUS
  <2>1. Inductive'
      BY StepSafe, StepMarked, StepSettled DEF Inductive, Safe
  <2>2. CASE disturbed' = "never"
      BY <2>1, <2>2, DisturbedStays, StepUndisturbed DEF Inductive
  <2> QED
      BY <2>1, <2>2 DEF Undisturbed
<1>3. IInv => OwnChangesShown
  <2> SUFFICES ASSUME Settled, Mirrors(index, drive), NEW d \in DOMAIN index.kids,
                      ListingIsCached(d)
               PROVE  /\ index.kids[d].docs \cap DOMAIN index.nodes = Children(d)
                      /\ \A c \in Children(d) :
                        index.nodes[c].path = Append(index.nodes[d].path, drive[c].name)
      BY DEF Inductive, Undisturbed, OwnChangesShown
  <2> QED
      BY DEF Settled, Shown, Mirrors, ListingIsCached, Children
<1> QED
    BY <1>1, <1>2, <1>3, PTL DEF Spec

=============================================================================
