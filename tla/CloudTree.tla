------------------------------ MODULE CloudTree ------------------------------
(***************************************************************************)
(* The index CloudVfs keeps of the cloud drive: nodes by docid, docids by  *)
(* path, and the children each directory had when it was last listed.  The *)
(* recursion of remove_subtree is written as the set of documents it       *)
(* visits.  A path is the sequence of its names, the root is the empty one;*)
(* size, time, revision and token of a node are left out.                  *)
(***************************************************************************)
EXTENDS Sequences, Functions

CONSTANTS
    Doc,        \* docids
    Root,       \* m_root_docid
    Name        \* names a document can have

ASSUME TreeAssumption == Root \in Doc

Path == Seq(Name)
NoParent == ""
Node == [parent : Doc \cup {NoParent}, path : Path]  \* CloudVfsNode
Listing == [docs : SUBSET Doc, loaded : BOOLEAN] \* MetadataEntry

PartialFunction(f, S, T) == f \in [DOMAIN f -> T] /\ \A x \in DOMAIN f : x \in S

\* m_nodes_by_docid, m_docid_by_path and m_metadata.
IsIndex(index) ==
    /\ index = [nodes |-> index.nodes, byPath |-> index.byPath, kids |-> index.kids]
    /\ PartialFunction(index.nodes, Doc, Node)
    /\ PartialFunction(index.byPath, Path, Doc)
    /\ PartialFunction(index.kids, Doc, Listing)

NoFunction == [x \in {} |-> x]
EmptyIndex == [nodes |-> NoFunction, byPath |-> NoFunction, kids |-> NoFunction]

RootIndex == [nodes  |-> [d \in {Root} |-> [parent |-> NoParent, path |-> <<>>]],
              byPath |-> [p \in {<<>>} |-> Root],
              kids   |-> NoFunction]

-----------------------------------------------------------------------------

Kids(index, d) == IF d \in DOMAIN index.kids THEN index.kids[d].docs ELSE {}

\* The documents remove_subtree visits when it is called for each one of S.
Subtree(index, S) ==
    {d \in Doc : \A C \in SUBSET Doc :
        (S \subseteq C /\ \A c \in C : Kids(index, c) \subseteq C) => d \in C}

\* remove_subtree erases a listing only after its recursive calls: it never
\* returns from a document that lies below itself.
Endless(index, S) ==
    \E d \in Subtree(index, S) : d \in Subtree(index, Kids(index, d))

\* The index without the documents removed and the paths they have.
Without(index, removed) ==
    LET paths == {index.nodes[d].path : d \in removed \cap DOMAIN index.nodes}
    IN  [nodes  |-> Restrict(index.nodes, DOMAIN index.nodes \ removed),
         byPath |-> Restrict(index.byPath, DOMAIN index.byPath \ paths),
         kids   |-> Restrict(index.kids, DOMAIN index.kids \ removed)]

\* Mutant: only the documents themselves are removed, not what lies below.
RemoveSubtree_OneLevel(index, S) == Without(index, S)

\* remove_subtree for each one of S.
RemoveSubtree(index, S) == Without(index, Subtree(index, S))

PutNodes(index, nodes) ==
    [nodes  |-> [d \in DOMAIN index.nodes \cup DOMAIN nodes |->
                    IF d \in DOMAIN nodes THEN nodes[d] ELSE index.nodes[d]],
     byPath |-> [p \in DOMAIN index.byPath \cup {nodes[d].path : d \in DOMAIN nodes} |->
                    IF \E d \in DOMAIN nodes : nodes[d].path = p
                    THEN CHOOSE d \in DOMAIN nodes : nodes[d].path = p
                    ELSE index.byPath[p]],
     kids   |-> index.kids]

\* add_node for each of nodes, in any order: their paths are distinct, and none
\* is the path another one of them is leaving.
AddNodes(index, nodes) ==
    LET moved == {d \in DOMAIN nodes \cap DOMAIN index.nodes :
                    index.nodes[d].path # nodes[d].path}
        left  == {index.nodes[d].path : d \in moved}
    IN  PutNodes([index EXCEPT !.byPath = Restrict(@, DOMAIN @ \ left)], nodes)

WithKids(index, kids) ==
    [nodes |-> index.nodes, byPath |-> index.byPath, kids |-> kids]

\* The listing of d becomes that of nodes.
PutListing(index, d, nodes) ==
    WithKids(index,
        [e \in DOMAIN index.kids \cup {d} |->
            IF e = d THEN [docs |-> DOMAIN nodes, loaded |-> TRUE] ELSE index.kids[e]])

CacheChildren(index, d, nodes) ==
    PutListing(AddNodes(RemoveSubtree(index, Kids(index, d)), nodes), d, nodes)

InvalidateParent(index, d) ==
    WithKids(index,
        [e \in DOMAIN index.kids |->
            IF e = d THEN [index.kids[e] EXCEPT !.loaded = FALSE] ELSE index.kids[e]])
=============================================================================
