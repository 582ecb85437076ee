-------------------------- MODULE TemplateFolders --------------------------
(***************************************************************************)
(* The template folders of a service, as a tree of rows with a parent_id,  *)
(* and the requests that make, move and delete them.  A request reads and  *)
(* validates in one step and commits in another; the database enforces the *)
(* foreign keys at the commit and nothing else.                            *)
(***************************************************************************)

CONSTANTS Folders, Templates,
          Requesters,   \* requests that may be handled at once
          Root          \* no parent: the top level

ASSUME FolderAssumption == Root \notin Folders

VARIABLES exists,       \* the folders that exist
          gone,         \* ids of deleted folders, never used again
          parent,       \* TemplateFolder.parent_id
          inFolder,     \* template_folder_map
          asked         \* what each request has read and is about to commit

folderVars == <<exists, gone, parent, inFolder, asked>>

NoneAsked == [op |-> "none", folder |-> Root, target |-> Root, stale |-> FALSE]

FolderTypeOK ==
  /\ exists \subseteq Folders /\ gone \subseteq Folders \ exists
  /\ parent \in [Folders -> Folders \cup {Root}]
  /\ inFolder \in [Templates -> Folders \cup {Root}]
  /\ asked \in [Requesters -> [op : {"none", "create", "move", "template", "delete", "stuck"},
                               folder : Folders \cup Templates \cup {Root},
                               target : Folders \cup {Root}, stale : BOOLEAN]]

FolderInit ==
  /\ exists = {} /\ gone = {}
  /\ parent = [f \in Folders |-> Root]
  /\ inFolder = [t \in Templates |-> Root]
  /\ asked = [q \in Requesters |-> NoneAsked]

Up(f) == IF f = Root THEN {} ELSE {parent[f]} \ {Root}

\* The folders above f, which `while other.parent is not None' meets: the least set with
\* the parent of f and of each of its members.
Ancestors(f) ==
  {g \in Folders : \A S \in SUBSET Folders :
                     Up(f) \subseteq S /\ (\A h \in S : Up(h) \subseteq S) => g \in S}

\* The walk from f never ends: it runs into a cycle.
Endless(f) == \E g \in {f} \cup Ancestors(f) : g # Root /\ g \in Ancestors(g)

Ask(q, op, f, t) == asked' = [asked EXCEPT ![q] = [op |-> op, folder |-> f,
                                                   target |-> t, stale |-> FALSE]]

\* create_template_folder: the parent must exist.
AskCreate(q, f, t) ==
  /\ asked[q] = NoneAsked
  /\ f \notin exists \cup gone /\ t \in exists \cup {Root}
  /\ \A p \in Requesters : asked[p].op = "create" => asked[p].folder # f
  /\ Ask(q, "create", f, t)
  /\ UNCHANGED <<exists, gone, parent, inFolder>>

MoveToChild(f, t) == t # f /\ (t # Root => parent[t] # f)                \* mutant
\* _validate_folder_move, TemplateFolder.is_parent_of
MayMove(f, t) == t # f /\ f \notin Ancestors(t)

\* move_to_template_folder: is_parent_of walks up from the target until it meets the
\* folder or the root.
AskMove(q, f, t) ==
  /\ asked[q] = NoneAsked
  /\ f \in exists /\ t \in exists \cup {Root}
  /\ \/ MayMove(f, t) /\ ~Endless(t) /\ Ask(q, "move", f, t)
     \/ MayMove(f, t) /\ Endless(t) /\ Ask(q, "stuck", f, t)
  /\ UNCHANGED <<exists, gone, parent, inFolder>>

AskMoveTemplate(q, m, t) ==
  /\ asked[q] = NoneAsked
  /\ t \in exists \cup {Root}
  /\ Ask(q, "template", m, t)
  /\ UNCHANGED <<exists, gone, parent, inFolder>>

Empty(f) == /\ \A g \in exists : parent[g] # f
            /\ \A m \in Templates : inFolder[m] # f

\* delete_template_folder: the folder must be empty when it is read.
AskDelete(q, f) ==
  /\ asked[q] = NoneAsked
  /\ f \in exists /\ Empty(f)
  /\ Ask(q, "delete", f, Root)
  /\ UNCHANGED <<exists, gone, parent, inFolder>>

\* The foreign keys of template_folder and template_folder_map: a parent exists, and
\* a folder that is deleted has nothing that refers to it.
ForeignKeysHold(f, t) == t \in exists \cup {Root} /\ (f = Root \/ Empty(f))

\* The commit; IntegrityError and StaleDataError roll it back.
CommitAsked(q) ==
  LET a == asked[q] IN
  /\ \/ /\ a.op = "create" /\ ForeignKeysHold(Root, a.target)
        /\ exists' = exists \cup {a.folder}
        /\ parent' = [parent EXCEPT ![a.folder] = a.target]
        /\ UNCHANGED <<gone, inFolder>>
     \/ /\ a.op = "move" /\ ForeignKeysHold(Root, a.target) /\ a.folder \in exists
        /\ parent' = [parent EXCEPT ![a.folder] = a.target]
        /\ UNCHANGED <<exists, gone, inFolder>>
     \/ /\ a.op = "template" /\ ForeignKeysHold(Root, a.target)
        /\ inFolder' = [inFolder EXCEPT ![a.folder] = a.target]
        /\ UNCHANGED <<exists, gone, parent>>
     \/ /\ a.op = "delete" /\ ForeignKeysHold(a.folder, Root) /\ a.folder \in exists
        /\ exists' = exists \ {a.folder} /\ gone' = gone \cup {a.folder}
        /\ parent' = [parent EXCEPT ![a.folder] = Root]
        /\ UNCHANGED inFolder
  /\ asked' = [p \in Requesters |->
       CASE p = q -> NoneAsked
         [] p # q /\ (asked[p].op = "none" \/ a.op # "move") -> asked[p]
         [] OTHER -> [asked[p] EXCEPT !.stale = TRUE]]

RollbackAsked(q) ==
  /\ asked[q].op \in {"create", "move", "template", "delete"}
  /\ \/ ~ForeignKeysHold(IF asked[q].op = "delete" THEN asked[q].folder ELSE Root,
                         asked[q].target)
     \/ asked[q].op \in {"move", "delete"} /\ asked[q].folder \notin exists
  /\ asked' = [asked EXCEPT ![q] = NoneAsked]
  /\ UNCHANGED <<exists, gone, parent, inFolder>>

FolderNext ==
  \E q \in Requesters :
    \/ \E f \in Folders, t \in Folders \cup {Root} : AskCreate(q, f, t) \/ AskMove(q, f, t)
    \/ \E m \in Templates, t \in Folders \cup {Root} : AskMoveTemplate(q, m, t)
    \/ \E f \in Folders : AskDelete(q, f)
    \/ CommitAsked(q) \/ RollbackAsked(q)

FolderSpec == FolderInit /\ [][FolderNext]_folderVars

-----------------------------------------------------------------------------
\* No folder or template is left in a folder that does not exist, however the
\* deletion of an empty folder overlaps with moves into it (delete_template_folder).
NoOrphans ==
  /\ \A f \in exists : parent[f] \in exists \cup {Root}
  /\ \A m \in Templates : inFolder[m] \in exists \cup {Root}

Acyclic == \A f \in exists : f \notin Ancestors(f)

\* The folders stay a tree, except for a move that was validated before another move
\* was committed: only two moves at once can hang folders under one another, after
\* which is_parent_of never returns for them (move_to_template_folder).
CyclesNeedOverlap ==
  [][Acyclic /\ ~Acyclic' =>
       \E q \in Requesters : /\ asked[q].op = "move" /\ asked[q].stale
                             /\ asked'[q].op = "none"]_folderVars
=============================================================================
