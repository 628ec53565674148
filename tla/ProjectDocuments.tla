--------------------------- MODULE ProjectDocuments ---------------------------
(***************************************************************************)
(* The tree of a project's documents in the web client                     *)
(* (ProjectDocumentsTab): folders open and close, and documents and        *)
(* folders are dragged to another place, which is a line between two       *)
(* siblings or the row of a folder or a document.                          *)
(*                                                                         *)
(* The code nests the nodes; here each folder, and the root, has the       *)
(* sequence of its children.  An index counts the siblings before a place, *)
(* as in the code.  Names, dates and icons are left out, and of a search   *)
(* only that nothing can be dragged while it filters the tree.             *)
(***************************************************************************)
EXTENDS Naturals, Sequences, SequencesExt, FiniteSets

CONSTANTS Folders, Documents,
          Root,          \* the parent of the first level, null in the code
          Nothing,       \* no node, no target
          InitialTree    \* initialDocumentTree

Nodes == Folders \cup Documents
Parents == Folders \cup {Root}

(* Every node is in one place.                                             *)
Placed(t) ==
    /\ t \in [Parents -> Seq(Nodes)] /\ \A p \in Parents : IsInjective(t[p])
    /\ \A n \in Nodes : \E p \in Parents :
          \A q \in Parents : Contains(t[q], n) <=> p = q

ASSUME DocumentsAssumption == IsFiniteSet(Nodes) /\ Placed(InitialTree)

VARIABLES tree,       \* documentTree
          expanded,   \* expandedFolderIds
          searching,  \* a keyword filters the tree
          dragged,    \* activeId
          over        \* the drop target under the pointer, event.over

pdVars == <<tree, expanded, searching, dragged, over>>

Most == Cardinality(Nodes)
Target == [kind : {"position", "folder"}, parent : Parents, index : 0..Most]

-----------------------------------------------------------------------------
(* findDocumentNodeLocation                                                *)
ParentOf(n) == CHOOSE p \in Parents : Contains(tree[p], n)
IndexOf(n) == (CHOOSE i \in DOMAIN tree[ParentOf(n)] : tree[ParentOf(n)][i] = n) - 1

(* collectDocumentNodeIds: a node and everything below it.                 *)
Below[n \in Nodes] ==
    {n} \cup (IF n \in Folders THEN UNION {Below[c] : c \in ToSet(tree[n])} ELSE {})

(* removeDocumentNode and insertDocumentNode, which bounds the index; the  *)
(* former keeps, of each level, the nodes that are not n.                  *)
Dropped(s, n) ==
    LET kept[i \in 0..Len(s)] ==
          IF i = 0 THEN <<>>
          ELSE IF s[i] = n THEN kept[i - 1] ELSE Append(kept[i - 1], s[i])
    IN  kept[Len(s)]
Without(n) == [p \in Parents |-> Dropped(tree[p], n)]
With(t, p, index, n) ==
    LET safe == IF index > Len(t[p]) THEN Len(t[p]) ELSE index
    IN  [t EXCEPT ![p] = InsertAt(t[p], safe + 1, n)]

(* Mutant: the node is counted among the siblings before its new place.    *)
IndexAfterRemoval_Same(n, target) == target.index

(* The index of the target once the node has left its old place.           *)
IndexAfterRemoval(n, target) ==
    IF ParentOf(n) = target.parent /\ IndexOf(n) < target.index
    THEN target.index - 1 ELSE target.index

(* moveDocumentNode: a node does not go below itself.                      *)
Moved(n, target) ==
    IF target.parent \in Below[n] THEN tree
    ELSE With(Without(n), target.parent, IndexAfterRemoval(n, target), n)

-----------------------------------------------------------------------------
(* What is on the page: the children of a folder if it and all folders     *)
(* above it are open.                                                      *)
Unfolded[p \in Parents] == p = Root \/ (p \in expanded /\ Unfolded[ParentOf(p)])
RowShown(n) == Unfolded[ParentOf(n)]

(* DocumentDropPosition: the lines before, between and after siblings.     *)
Lines ==
    {t \in Target : /\ t.kind = "position" /\ Unfolded[t.parent]
                    /\ t.index <= Len(tree[t.parent])
                    /\ t.parent \notin Below[dragged]}

(* DocumentTreeRow: a folder takes the node as its last child, a document  *)
(* as its next sibling, also a document below the node that is dragged.    *)
RowPlaces ==
    {[kind |-> "folder", parent |-> f, index |-> Len(tree[f])] :
        f \in {f \in Folders : RowShown(f) /\ f \notin Below[dragged]}}
    \cup {[kind |-> "position", parent |-> ParentOf(d), index |-> IndexOf(d) + 1] :
             d \in {d \in Documents : RowShown(d) /\ d # dragged}}

-----------------------------------------------------------------------------
DragStart(n) ==
    /\ dragged = Nothing /\ ~searching /\ RowShown(n)
    /\ dragged' = n
    /\ UNCHANGED <<tree, expanded, searching, over>>

(* The pointer moves; a search disables every target.                      *)
DragOver ==
    /\ dragged # Nothing /\ ~searching
    /\ over' \in Lines \cup RowPlaces \cup {Nothing}
    /\ UNCHANGED <<tree, expanded, searching, dragged>>

(* handleDragEnd: a folder that was the target is opened.                  *)
DragEnd ==
    /\ dragged # Nothing
    /\ dragged' = Nothing /\ over' = Nothing
    /\ IF over = Nothing THEN UNCHANGED <<tree, expanded>>
       ELSE /\ tree' = Moved(dragged, over)
            /\ expanded' = IF over.kind = "folder" THEN expanded \cup {over.parent}
                           ELSE expanded
    /\ UNCHANGED searching

DragCancel ==
    /\ dragged # Nothing
    /\ dragged' = Nothing /\ over' = Nothing
    /\ UNCHANGED <<tree, expanded, searching>>

(* onFolderOpenChange; a row that goes takes its target with it.           *)
ToggleFolder(f) ==
    /\ ~searching /\ RowShown(f)
    /\ expanded' = IF f \in expanded THEN expanded \ {f} ELSE expanded \cup {f}
    /\ over' = Nothing
    /\ UNCHANGED <<tree, searching, dragged>>

Search ==
    /\ searching' = ~searching /\ over' = Nothing
    /\ UNCHANGED <<tree, expanded, dragged>>

-----------------------------------------------------------------------------
DocumentsInit ==
    /\ tree = InitialTree /\ expanded = Folders \cap ToSet(InitialTree[Root])
    /\ searching = FALSE /\ dragged = Nothing /\ over = Nothing

DocumentsNext ==
    \/ DragOver \/ DragEnd \/ DragCancel \/ Search
    \/ \E n \in Nodes : DragStart(n)
    \/ \E f \in Folders : ToggleFolder(f)

DocumentsSpec == DocumentsInit /\ [][DocumentsNext]_pdVars

-----------------------------------------------------------------------------
(* The variables have their types, and every node is in one place.         *)
DocumentsTypeOK ==
    /\ Placed(tree)
    /\ expanded \subseteq Folders /\ searching \in BOOLEAN
    /\ dragged \in Nodes \cup {Nothing} /\ over \in Target \cup {Nothing}

(* Where the page promises a drop: before the siblings that stood behind   *)
(* the line, everything else in its order; nowhere below the node itself.  *)
Landed(n, target) ==
    [p \in Parents |->
        IF p # target.parent THEN Without(n)[p]
        ELSE Dropped(SubSeq(tree[p], 1, target.index), n) \o <<n>>
             \o Dropped(SubSeq(tree[p], target.index + 1, Len(tree[p])), n)]

LandsRight ==
    DragEnd /\ over # Nothing =>
        tree' = IF over.parent \in Below[dragged] THEN tree
                ELSE Landed(dragged, over)

(* A drag moves what is dragged to the place that was shown, and nothing   *)
(* else: no node is lost, doubled, or put beside its place because the     *)
(* node left an earlier one (moveDocumentNode).                            *)
LandsWhereShown == [][LandsRight]_pdVars
=============================================================================
