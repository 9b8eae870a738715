--------------------------- MODULE MarkdownTransfer ---------------------------
(***************************************************************************)
(* The layout of a Markdown ZIP (importExport.ts) and how an import reads  *)
(* one (importPlan.ts).  An export gives every document a path of its own, *)
(* writes the attachments under _attachments and points the references at  *)
(* them; an import enumerates the entries, makes folders of directories,   *)
(* and looks the references up inside the archive.                         *)
(*                                                                         *)
(* A name is a sequence of tokens ("a (2).md" is <<"a", "(2)", ".md">>),   *)
(* a path is a sequence of names, and an archive a sequence of entries.    *)
(***************************************************************************)
EXTENDS SequencesExt, FiniteSetsExt, Naturals

CONSTANTS Ids,            \* documents, ordered by identifier
          Titles,         \* their titles
          SafeName,       \* [Titles -> names]: what safeName makes of a title
          LowerCase,      \* [tokens -> tokens]: nameKey folds case
          Attachments,    \* attachments of the notes
          Foreign,        \* archives from other programs
          None

TransferAssumption ==
  /\ IsFiniteSet(Ids) /\ Ids \subseteq Nat
  /\ None \notin Ids
  /\ \A t \in Titles : SafeName[t] # <<>>

VARIABLES phase,     \* "documents", "archive" or "imported"
          documents, \* what the workspace holds
          roots,     \* what is exported: identifiers, or everything
          readable,  \* attachments whose bytes can be read
          archive,   \* [entries, named]: entries, and the paths the manifest names
          plan       \* what the import will create

vars == <<phase, documents, roots, readable, archive, plan>>

Key(name) == [i \in DOMAIN name |-> IF name[i] \in DOMAIN LowerCase
                                      THEN LowerCase[name[i]] ELSE name[i]]
PathKey(path) == [i \in DOMAIN path |-> Key(path[i])]
Resources == <<"_attachments">>
Manifest  == <<"_export.json">>
Markdown  == ".md"
ImageName(a) == <<a, ".png">>
Suffix == <<"(1)", "(2)", "(3)", "(4)", "(5)", "(6)">>

Parent(d) == documents[d].parent
IsFolder(d) == documents[d].kind = "folder"

RECURSIVE Ancestors(_)
Ancestors(d) == IF Parent(d) = None THEN {} ELSE {Parent(d)} \cup Ancestors(Parent(d))

(***************************************************************************)
(* Export                                                                  *)
(***************************************************************************)
Included == IF roots = {} THEN DOMAIN documents
            ELSE {d \in DOMAIN documents : d \in roots \/ Ancestors(d) \cap roots # {}}

(* A single root is exported at the top, several below their folders. *)
Top == IF Cardinality(roots) = 1 THEN roots ELSE {}
Needed == Included \cup UNION {Ancestors(d) \ UNION {Ancestors(r) : r \in Top} : d \in Included}
Within(d) == IF d \in Top THEN None ELSE Parent(d)
Siblings(parent) == {d \in Needed : Within(d) = parent}

Extension(d) == IF IsFolder(d) THEN <<>> ELSE <<Markdown>>
Base(d) == SafeName[documents[d].title] \o Extension(d)

(* Fault: what is numbered is not checked again. *)
NumberedFault(d, occupied) == SafeName[documents[d].title] \o <<Suffix[2]>> \o Extension(d)

(* The first number that no sibling has, by its own name or by a number.   *)
Numbered(d, occupied) ==
  LET name(k) == SafeName[documents[d].title] \o <<Suffix[k]>> \o Extension(d)
  IN name(Min({k \in 2..Len(Suffix) : Key(name(k)) \notin occupied}))

(* Siblings get their names in the order of their identifiers; at the top  *)
(* two names are reserved.                                                 *)
Names(parent) ==
  LET reserved == IF parent = None THEN {Key(Resources), Key(Manifest)} ELSE {}
      give(acc, d) ==
        LET name == IF Key(Base(d)) \in acc.assigned
                      THEN Numbered(d, acc.occupied) ELSE Base(d)
        IN [names    |-> [x \in DOMAIN acc.names \cup {d} |->
                            IF x = d THEN name ELSE acc.names[x]],
            assigned |-> acc.assigned \cup {Key(name)},
            occupied |-> acc.occupied \cup {Key(name)}]
      start == [names |-> <<>>, assigned |-> reserved,
                occupied |-> reserved \cup {Key(Base(d)) : d \in Siblings(parent)}]
  IN FoldLeft(give, start, SetToSortSeq(Siblings(parent), <)).names

Paths ==
  LET names == [p \in {None} \cup {d \in Needed : IsFolder(d)} |-> Names(p)]
      path[d \in Needed] ==
        IF Within(d) = None THEN <<names[None][d]>>
        ELSE Append(path[Within(d)], names[Within(d)][d])
  IN path

ImagePath(a) == <<Resources, ImageName(a)>>
Up == <<"..">>

(* relativeAttachmentPath: one step up for every folder the note is in.    *)
Relative(notePath, path) == [i \in 1..(Len(notePath) - 1) |-> Up] \o path

Entry(path, kind, body) == [path |-> path, kind |-> kind, body |-> body]

(* Folders, then the notes with the attachments they are the first to use. *)
Entries ==
  LET notes   == {d \in Included : ~ IsFolder(d)}
      folders == {d \in Included : IsFolder(d)}
      used    == UNION {documents[d].images : d \in notes}
  IN SetToSeq({Entry(Paths[d], "directory", None) : d \in folders})
       \o SetToSeq({Entry(ImagePath(a), "image", a) : a \in used})
       \o SetToSeq({Entry(Paths[d], "note",
                     {Relative(Paths[d], ImagePath(a)) : a \in documents[d].images}) : d \in notes})

Export ==
  /\ phase = "documents"
  /\ LET used == UNION {documents[d].images : d \in {x \in Included : ~ IsFolder(x)}}
     IN /\ used \subseteq readable
        /\ archive' = [entries |-> Entries, named |-> {ImagePath(a) : a \in used}]
  /\ phase' = "archive"
  /\ UNCHANGED <<documents, roots, readable, plan>>

(* An attachment is missing or cannot be read: there is no archive. *)
ExportFails ==
  /\ phase = "documents"
  /\ \E d \in Included : ~ IsFolder(d) /\ ~ (documents[d].images \subseteq readable)
  /\ phase' = "failed"
  /\ UNCHANGED <<documents, roots, readable, archive, plan>>

(***************************************************************************)
(* Import                                                                  *)
(***************************************************************************)
Of(kind) == {i \in DOMAIN archive.entries : archive.entries[i].kind = kind}
Files == Of("note") \cup Of("image")
PathAt(i) == archive.entries[i].path
Directories(path) == {SubSeq(path, 1, n) : n \in 1..(Len(path) - 1)}

(* A directory of attachments the manifest names is not a folder.          *)
ResourceDirectory(path) ==
  /\ \E n \in archive.named : path \in Directories(n)
  /\ \A i \in Files : (path \in Directories(PathAt(i))) => (PathAt(i) \in archive.named)

(* Exact paths identify folders; the folders of notes need no entry.       *)
Folders ==
  LET listed == {PathAt(i) : i \in {e \in Of("directory") : ~ ResourceDirectory(PathAt(e))}}
  IN UNION {Directories(p) \cup {p} : p \in listed} \cup UNION {Directories(PathAt(i)) : i \in Of("note")}

(* A reference, followed from the folder of its note; None leaves the      *)
(* archive and is refused.                                                 *)
Follow(notePath, reference) ==
  LET step(at, name) == IF at = None THEN None
                        ELSE IF name # Up THEN Append(at, name)
                        ELSE IF at = <<>> THEN None ELSE Front(at)
  IN FoldLeft(step, Front(notePath), reference)

(* The file it names, if it is the only one up to case and is an image.    *)
LookUp(notePath, reference) ==
  LET target == Follow(notePath, reference)
      candidates == IF target = None THEN {}
                    ELSE {i \in Files : PathKey(PathAt(i)) = PathKey(target)}
  IN IF Cardinality(candidates) # 1 THEN None
     ELSE LET found == archive.entries[CHOOSE i \in candidates : TRUE]
          IN IF found.kind = "image" THEN found.body ELSE None

Title(name) == IF Last(name) = Markdown THEN Front(name) ELSE name

(* Every note is kept on its own, also when two entries have one path.     *)
Import ==
  /\ phase = "archive"
  /\ plan' =
       [folders |-> Folders,
        notes   |-> {[entry  |-> i, title |-> Title(Last(PathAt(i))),
                      parent |-> Front(PathAt(i)),
                      images |-> {<<r, LookUp(PathAt(i), r)>> : r \in archive.entries[i].body}] :
                       i \in Of("note")}]
  /\ phase' = "imported"
  /\ UNCHANGED <<documents, roots, readable, archive>>

(***************************************************************************)
(* A workspace and what of it is exported, or an archive from elsewhere.   *)
(***************************************************************************)
Documents ==
  [kind : {"folder"}, title : Titles, parent : Ids \cup {None}, images : {{}}]
    \cup [kind : {"note"}, title : Titles, parent : Ids \cup {None}, images : SUBSET Attachments]

(* Folders hold documents, and nothing holds itself. *)
Tree(docs) ==
  /\ \A d \in DOMAIN docs : docs[d].parent # None =>
       docs[d].parent \in DOMAIN docs /\ docs[docs[d].parent].kind = "folder"
  /\ \A S \in SUBSET DOMAIN docs \ {{}} :
       \E d \in S : docs[d].parent \notin S

(* Of a selection the outermost documents are the roots. *)
Selection ==
  \A a, b \in roots : b \notin Ancestors(a)

Init ==
  /\ plan = None
  /\ \/ /\ phase = "documents"
        /\ documents \in {docs \in [Ids -> Documents] : Tree(docs)}
        /\ roots \in {S \in SUBSET Ids : Cardinality(S) <= 2}
        /\ Selection
        /\ readable \in IF roots = {} THEN {Attachments, {}} ELSE {Attachments}
        /\ archive = None
     \/ /\ phase = "archive"
        /\ documents = <<>> /\ roots = {} /\ readable = {}
        /\ archive \in Foreign

Next == Export \/ ExportFails \/ Import

Spec == Init /\ [][Next]_vars

(***************************************************************************)
(* Properties                                                              *)
(***************************************************************************)

TypeOK ==
  /\ phase \in {"documents", "archive", "imported", "failed"}
  /\ roots \subseteq Ids /\ readable \subseteq Attachments
  /\ phase \in {"archive", "imported"} =>
       \A i \in DOMAIN archive.entries :
         /\ archive.entries[i].kind \in {"directory", "note", "image"}
         /\ PathAt(i) # <<>>
  /\ (phase = "imported") =>
       \A n \in plan.notes : n.title # <<>> /\ n.parent \in {<<>>} \cup plan.folders

(* Files of an archive: exportMarkdownZip in importExport.ts never lets    *)
(* two documents, or a document and the attachments, fall on one path,     *)
(* whatever the file system does with case; a number is only appended when *)
(* the name is taken by an earlier sibling or reserved.                    *)
PathsDistinct ==
  (phase = "archive" /\ documents # <<>>) =>
    /\ \A i, j \in DOMAIN archive.entries :
         (i # j) => (PathKey(PathAt(i)) # PathKey(PathAt(j)))
    /\ \A d \in Needed :
         \/ Last(Paths[d]) = Base(d)
         \/ Key(Base(d)) \in {Key(Resources), Key(Manifest)}
         \/ \E s \in Siblings(Within(d)) : s < d /\ Key(Last(Paths[s])) = Key(Base(d))

(* What was exported is what an import finds: the folders and notes at     *)
(* their places, empty folders included, and every reference to an image   *)
(* leading to its bytes again.                                             *)
RoundTrip ==
  (phase = "imported" /\ documents # <<>>) =>
    /\ plan.folders = {Paths[d] : d \in {x \in Needed : IsFolder(x)}}
    /\ {[title |-> n.title, parent |-> n.parent, images |-> {im[2] : im \in n.images}] :
          n \in plan.notes}
         = {[title |-> Title(Last(Paths[d])), parent |-> Front(Paths[d]),
             images |-> documents[d].images] : d \in {x \in Included : ~ IsFolder(x)}}

(* An archive from elsewhere: every note entry is imported, and a          *)
(* reference only becomes an image that its path names without ambiguity.  *)
ForeignKept ==
  (phase = "imported") =>
    /\ {n.entry : n \in plan.notes} = Of("note")
    /\ \A n \in plan.notes : \A im \in n.images : (im[2] # None) =>
         /\ Cardinality({i \in Files :
                   PathKey(PathAt(i)) = PathKey(Follow(PathAt(n.entry), im[1]))}) = 1
         /\ \E i \in Of("image") : archive.entries[i].body = im[2]

(* An export has distinct paths, an import finds all of it again and leaves    *)
(* out nothing of a foreign archive (importExport.ts).                     *)
TransferSafe == TypeOK /\ PathsDistinct /\ RoundTrip /\ ForeignKept
=============================================================================
