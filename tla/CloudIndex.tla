----------------------------- MODULE CloudIndex -----------------------------
(***************************************************************************)
(* CloudVfs as a view of a cloud drive that other clients change as well:  *)
(* the drive, the index of CloudTree, and the operations that read or      *)
(* change them.  list() and refresh() differ only in whether a listing     *)
(* that is loaded and younger than 60 seconds is used again; the age is    *)
(* left out, so a listing may be fetched at any time or never again.       *)
(* One call at a time: CloudVfs has no lock.  The write gate and the       *)
(* entries tasks() shows are left out; upload tasks are in CloudUploads.   *)
(***************************************************************************)
EXTENDS CloudTree, Integers

CONSTANTS
    Dirs,       \* the documents that are directories
    MaxChanges  \* bound: changes to the drive, by anyone

ASSUME IndexAssumption ==
    /\ Root \in Dirs /\ Dirs \subseteq Doc
    /\ MaxChanges \in Nat

VARIABLES
    drive,      \* external: where each document but the root is, and its name
    gone,       \* external: the documents deleted so far; their ids are not reused
    index,      \* CloudVfs: its three maps
    overflowed, \* remove_subtree was called where it never returns
    changes,    \* how many changes the drive has seen
    disturbed   \* history: the worst that happened behind the back of CloudVfs

vars == <<drive, gone, index, overflowed, changes, disturbed>>

Place == [parent : Dirs, name : Name]

TypeOK ==
    /\ PartialFunction(drive, Doc \ {Root}, Place)
    /\ gone \in SUBSET (Doc \ {Root})
    /\ IsIndex(index)
    /\ overflowed \in BOOLEAN
    /\ changes \in 0 .. MaxChanges
    /\ disturbed \in {"never", "changed", "moved"}

-----------------------------------------------------------------------------
(* The drive: a tree whose directories have no two children of one name. *)

Children(d) == {c \in DOMAIN drive : drive[c].parent = d}
Below(d) ==
    {c \in Doc : \A C \in SUBSET Doc :
        (d \in C /\ \A e \in C : Children(e) \subseteq C) => c \in C}
Alive(d) == d = Root \/ d \in DOMAIN drive
Free(d, n) == \A c \in Children(d) : drive[c].name # n
Unborn == Doc \ ({Root} \cup DOMAIN drive \cup gone)

\* The drive makes a change it agrees to.
Placed(c, d, n) ==
    /\ changes < MaxChanges
    /\ Alive(d) /\ Free(d, n)
    /\ drive' = [e \in DOMAIN drive \cup {c} |->
                    IF e = c THEN [parent |-> d, name |-> n] ELSE drive[e]]
    /\ changes' = changes + 1
    /\ UNCHANGED gone

Deleted(c) ==
    /\ changes < MaxChanges
    /\ c \in DOMAIN drive
    /\ drive' = Restrict(drive, DOMAIN drive \ Below(c))
    /\ gone' = gone \cup Below(c)
    /\ changes' = changes + 1

\* Any tree below the root.
Init ==
    /\ drive \in UNION {[D -> Place] : D \in SUBSET (Doc \ {Root})}
    /\ Below(Root) = {Root} \cup DOMAIN drive
    /\ \A c, e \in DOMAIN drive : drive[c] = drive[e] => c = e
    /\ gone = {}
    /\ index = EmptyIndex
    /\ overflowed = FALSE
    /\ changes = 0
    /\ disturbed = "never"

-----------------------------------------------------------------------------
(* CloudVfs. *)

\* lookup: the document a path leads to.
Leads(p, d) == p \in DOMAIN index.byPath /\ index.byPath[p] = d /\ d \in DOMAIN index.nodes

\* The index after a call that removes the subtrees of S, unless it never returns.
Becomes(S, new) ==
    IF Endless(index, S)
    THEN overflowed' = TRUE /\ UNCHANGED index
    ELSE index' = new /\ UNCHANGED overflowed

LoadRoot ==
    /\ ~overflowed
    /\ index' = RootIndex
    /\ UNCHANGED <<drive, gone, overflowed, changes, disturbed>>

\* item_to_node for everything the drive lists in d.
Listed(d) ==
    [c \in Children(d) |->
        [parent |-> d, path |-> Append(index.nodes[d].path, drive[c].name)]]

Fetch(d) ==
    /\ ~overflowed
    /\ d \in Dirs /\ Alive(d)
    /\ \E p \in DOMAIN index.byPath : Leads(p, d)
    /\ Becomes(Kids(index, d), CacheChildren(index, d, Listed(d)))
    /\ UNCHANGED <<drive, gone, changes, disturbed>>

\* The drive was changed and the index does not know of it.
Unnoticed ==
    /\ disturbed' = IF disturbed = "moved" THEN "moved" ELSE "changed"
    /\ UNCHANGED <<index, overflowed>>

\* The drive agreed to a change, but the answer is lost: the call fails and
\* leaves the index alone.
AnswerLost == Unnoticed

Creates(c, d, n) ==
    /\ ~overflowed
    /\ c \in Unborn
    /\ Placed(c, d, n)
    /\ \/ index' = InvalidateParent(index, d) /\ UNCHANGED <<overflowed, disturbed>>
       \/ AnswerLost

MkDir(c, d, n) ==
    /\ c \in Dirs
    /\ \E p \in DOMAIN index.byPath : Leads(p, d)
    /\ Creates(c, d, n)

\* The end of an upload task; the task knows its parent by docid.
Upload(c, d, n) ==
    /\ c \notin Dirs
    /\ d \in DOMAIN index.nodes
    /\ Creates(c, d, n)

\* Mutant: the listing of the parent stays valid.
Forget_KeepsListing(c) ==
    /\ Becomes({c}, RemoveSubtree(index, {c}))
    /\ UNCHANGED disturbed

\* What rename and remove do to the index when the drive has agreed.
Forget(c) ==
    /\ Becomes({c}, RemoveSubtree(InvalidateParent(index, index.nodes[c].parent), {c}))
    /\ UNCHANGED disturbed

Rename(c, n) ==
    /\ ~overflowed
    /\ c \in DOMAIN drive
    /\ \E p \in DOMAIN index.byPath : Leads(p, c)
    /\ Placed(c, drive[c].parent, n)
    /\ Forget(c) \/ AnswerLost

Delete(c) ==
    /\ ~overflowed
    /\ \E p \in DOMAIN index.byPath : Leads(p, c)
    /\ Deleted(c)
    /\ Forget(c) \/ AnswerLost

-----------------------------------------------------------------------------
(* Other clients of the drive. *)

OtherCreates(c, d, n) == c \in Unborn /\ Placed(c, d, n) /\ Unnoticed

OtherDeletes(c) == Deleted(c) /\ Unnoticed

OtherRenames(c, n) ==
    c \in DOMAIN drive /\ Placed(c, drive[c].parent, n) /\ Unnoticed

\* A document keeps its id when it moves, and its name.
OtherMoves(c, d) ==
    /\ c \in DOMAIN drive /\ d \in Dirs \ Below(c)
    /\ Placed(c, d, drive[c].name)
    /\ disturbed' = "moved" /\ UNCHANGED <<index, overflowed>>

OtherClient ==
    \/ \E c \in Doc, d \in Dirs, n \in Name : OtherCreates(c, d, n)
    \/ \E c \in Doc : OtherDeletes(c)
    \/ \E c \in Doc, n \in Name : OtherRenames(c, n)
    \/ \E c \in Doc, d \in Dirs : OtherMoves(c, d)

Next ==
    \/ LoadRoot
    \/ \E d \in Dirs : Fetch(d)
    \/ \E c \in Doc, d \in Dirs, n \in Name : MkDir(c, d, n)
    \/ \E c \in Doc, d \in Dirs, n \in Name : Upload(c, d, n)
    \/ \E c \in Doc, n \in Name : Rename(c, n)
    \/ \E c \in Doc : Delete(c)
    \/ OtherClient

Spec == Init /\ [][Next]_vars

-----------------------------------------------------------------------------
(* Properties. *)

\* A path the index knows leads to a node with that path: lookup never finds
\* its index damaged, and a path never leads to the node of another.
PathsPointToNodes ==
    \A p \in DOMAIN index.byPath :
        /\ index.byPath[p] \in DOMAIN index.nodes
        /\ index.nodes[index.byPath[p]].path = p

Resolves(c) ==
    LET p == index.nodes[c].path
    IN  p \in DOMAIN index.byPath /\ index.byPath[p] = c

\* Until another client moves a document, the index is a tree of paths: every
\* node is found at its path, and the path of what holds it is known as well.
\* remove_subtree must leave nothing below what it removes, and add_node no
\* path behind.
IndexIsTree ==
    disturbed # "moved" =>
        \A c \in DOMAIN index.nodes :
            LET p == index.nodes[c].path
            IN  /\ Resolves(c)
                /\ p # <<>> => \E q \in DOMAIN index.byPath, n \in Name : p = Append(q, n)

ListingIsCached(d) == d \in DOMAIN index.nodes /\ index.kids[d].loaded

\* Until another client moves a document, what list() shows of a directory from
\* its cache can be looked up where it is shown: every child is there, at a
\* path of its own below the directory.
ListingResolves ==
    disturbed # "moved" =>
        \A d \in DOMAIN index.kids : ListingIsCached(d) =>
            \A c \in index.kids[d].docs :
                /\ c \in DOMAIN index.nodes
                /\ \E n \in Name : index.nodes[c].path = Append(index.nodes[d].path, n)
                /\ Resolves(c)

\* While nobody else changes the drive and no answer is lost, a cached listing
\* shows what the drive holds, under its names: every write invalidates the
\* listings it makes stale.
OwnChangesShown ==
    disturbed = "never" =>
        \A d \in DOMAIN index.kids : ListingIsCached(d) =>
            /\ index.kids[d].docs \cap DOMAIN index.nodes = Children(d)
            /\ \A c \in Children(d) :
                index.nodes[c].path = Append(index.nodes[d].path, drive[c].name)

\* Until another client moves a document, refresh() and the writes return:
\* remove_subtree, which recurses over the cached listings before it erases
\* them, never meets a cycle in them.
CallsReturn == disturbed # "moved" => ~overflowed

\* The index is fit for lookups: paths and nodes agree whatever anyone does, and
\* until another client moves a document it is a tree, listings resolve, and the
\* calls that walk it return.
IndexSound == PathsPointToNodes /\ IndexIsTree /\ ListingResolves /\ CallsReturn
=============================================================================
