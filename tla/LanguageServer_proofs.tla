------------------------ MODULE LanguageServer_proofs ------------------------
(***************************************************************************)
(* What the editor is shown belongs to what it has, for any files, packages *)
(* and texts and any number of notifications: ServerInv is inductive.        *)
(***************************************************************************)
EXTENDS LanguageServer, TLAPS

USE ServerAssumption, FilesAssumption

Document(f) == [version : 1 .. MaxVersion, text : Written[f]]

TypeOK ==
  /\ disk = [f \in Files |-> disk[f]] /\ \A f \in Files : disk[f] \in Written[f]
  /\ editor = [f \in Files |-> editor[f]] /\ \A f \in Files : editor[f] \in Document(f) \cup {None}
  /\ shown = [f \in Files |-> shown[f]]
  /\ current \in BOOLEAN
  /\ current => last \in Files

(* The package of the last change, as the editor's buffers have it. *)
WorkspaceIsCurrent ==
  workspace = IF Project = None THEN None
              ELSE [package |-> Project, files |-> TextsOf(Project)]

(* Every open file is shown what was found in it with that package. *)
ShownIsFound ==
  \A f \in Files :
    editor[f] # None =>
      shown[f] = Ranges(f, editor[f].text, diagnostics(workspace, f, editor[f].text))

(* The server never takes a version that was overtaken, and so has what the
   editor has. *)
ServerInv ==
  /\ TypeOK
  /\ documents = editor
  /\ current => WorkspaceIsCurrent /\ ShownIsFound
-----------------------------------------------------------------------------
(* What a notification leaves behind *)

(* Before a file is opened nothing is published. *)
LEMMA InitIsSound == Init => ServerInv
<1>. SUFFICES ASSUME Init PROVE ServerInv
  OBVIOUS
<1>1. /\ disk = First /\ editor = [f \in Files |-> None] /\ documents = editor
      /\ shown = [f \in Files |-> {}] /\ current = FALSE
  BY DEF Init
<1>2. disk = [f \in Files |-> disk[f]] /\ \A f \in Files : disk[f] \in Written[f]
  <2>1. First = [f \in Files |-> First[f]]
    BY DEF Files
  <2>2. \A f \in Files : First[f] \in Written[f]
    BY DEF Files
  <2>. QED BY <1>1, <2>1, <2>2
<1>. QED BY <1>1, <1>2 DEF ServerInv, TypeOK

(* A document that is taken builds the package of what is open, over what is on
   disk. *)
LEMMA UpdateIsCurrent ==
  ASSUME TypeOK', documents' = editor', NEW f \in Files, NEW version, NEW text,
         update(f, version, text)
  PROVE  WorkspaceIsCurrent'
<1>1. last' = f
  BY DEF update
<1>2. Project' = IF Home[f] = None \/ ~Package[Home[f]].resolves THEN None ELSE Home[f]
  BY <1>1 DEF Project
<1>3. CASE Home[f] = None \/ ~Package[Home[f]].resolves
  BY <1>2, <1>3 DEF update, refresh_workspace, WorkspaceIsCurrent
<1>4. CASE ~(Home[f] = None \/ ~Package[Home[f]].resolves)
  <2>. DEFINE p == Home[f]
  <2>1. p \in DOMAIN Package /\ p # None /\ SourceFiles(p) \subseteq Files
    BY <1>4
  <2>2. \A g \in SourceFiles(p) : Texts'[g] = IF editor'[g] = None THEN disk'[g] ELSE editor'[g].text
    BY <2>1 DEF Texts
  <2>3. workspace' = [package |-> p,
                      files |-> [g \in SourceFiles(p) |->
                                   IF documents'[g] = None THEN disk'[g] ELSE documents'[g].text]]
    BY <1>4 DEF update, refresh_workspace
  <2>4. workspace' = [package |-> p, files |-> [g \in SourceFiles(p) |-> Texts'[g]]]
    BY <2>2, <2>3
  <2>5. Project' = p
    BY <1>2, <1>4
  <2>6. TextsOf(Project)' = [g \in SourceFiles(p) |-> Texts'[g]]
    BY <2>5 DEF TextsOf
  <2>. QED BY <2>1, <2>4, <2>5, <2>6 DEF WorkspaceIsCurrent
<1>. QED BY <1>3, <1>4

(* publish_open_documents leaves every open file with what analysing it finds. *)
LEMMA PublishedIsShown ==
  ASSUME TypeOK, documents' = editor', publish_open_documents
  PROVE  ShownIsFound'
BY DEF publish_open_documents, publish, ShownIsFound

(* Saving and closing leave the texts as they are, and so the package. *)
LEMMA SameTextsSameWorkspace ==
  ASSUME WorkspaceIsCurrent, UNCHANGED <<workspace, last>>, Texts' = Texts
  PROVE  WorkspaceIsCurrent'
BY DEF WorkspaceIsCurrent, Project, TextsOf

(* The analysis reads the editor's text of an open file and the disk's of another:
   what changes only the other of them changes nothing. *)
LEMMA SameTexts ==
  ASSUME \A f \in Files : (IF editor'[f] = None THEN disk'[f] ELSE editor'[f].text)
                           = (IF editor[f] = None THEN disk[f] ELSE editor[f].text)
  PROVE  Texts' = Texts
BY DEF Texts

-----------------------------------------------------------------------------
(* The notifications *)

(* didOpen leaves the diagnostics current. *)
LEMMA OpenIsSound ==
  ASSUME ServerInv, NEW f \in Files, didOpen(f)
  PROVE  ServerInv'
<1>1. /\ editor' = [editor EXCEPT ![f] = [version |-> 1, text |-> disk[f]]]
      /\ documents' = [documents EXCEPT ![f] = [version |-> 1, text |-> disk[f]]]
      /\ disk' = disk /\ last' = f /\ current' = TRUE
  BY DEF didOpen, update
<1>2. documents' = editor'
  BY <1>1 DEF ServerInv
<1>3. [version |-> 1, text |-> disk[f]] \in Document(f)
  BY DEF ServerInv, TypeOK, Document
<1>4. shown' = [g \in Files |-> shown'[g]]
  BY DEF didOpen, publish_open_documents
<1>5. TypeOK'
  BY <1>1, <1>3, <1>4 DEF ServerInv, TypeOK
<1>6. WorkspaceIsCurrent'
  BY <1>2, <1>5, UpdateIsCurrent DEF didOpen
<1>7. ShownIsFound'
  BY <1>2, PublishedIsShown DEF didOpen, ServerInv
<1>. QED BY <1>2, <1>5, <1>6, <1>7 DEF ServerInv

(* So does didChange. *)
LEMMA ChangeIsSound ==
  ASSUME ServerInv, NEW f \in Files, NEW text \in Written[f], didChange(f, text)
  PROVE  ServerInv'
<1>. DEFINE new == [version |-> editor[f].version + 1, text |-> text]
<1>1. /\ editor' = [editor EXCEPT ![f] = new]
      /\ documents' = [documents EXCEPT ![f] = new]
      /\ disk' = disk /\ last' = f /\ current' = TRUE
  BY DEF didChange, update
<1>2. documents' = editor'
  BY <1>1 DEF ServerInv
<1>3. new \in Document(f)
  BY DEF ServerInv, TypeOK, Document, didChange
<1>4. shown' = [g \in Files |-> shown'[g]]
  BY DEF didChange, publish_open_documents
<1>5. TypeOK'
  BY <1>1, <1>3, <1>4 DEF ServerInv, TypeOK
<1>6. WorkspaceIsCurrent'
  BY <1>2, <1>5, UpdateIsCurrent DEF didChange
<1>7. ShownIsFound'
  BY <1>2, PublishedIsShown DEF didChange, ServerInv
<1>. QED BY <1>2, <1>5, <1>6, <1>7 DEF ServerInv

(* A version that was overtaken is not taken. *)
LEMMA LateIsSound ==
  ASSUME ServerInv, NEW f \in Files, NEW text \in Written[f], didChangeLate(f, text)
  PROVE  ServerInv'
<1>1. editor[f] # None /\ editor[f].version \in 1 .. MaxVersion /\ documents[f] = editor[f]
  BY DEF didChangeLate, ServerInv, TypeOK, Document
<1>2. ~Accepted(f, editor[f].version - 1)
  BY <1>1 DEF Accepted
<1>3. UNCHANGED <<disk, editor, documents, workspace, shown, last, current>>
  BY <1>2 DEF didChangeLate
<1>. QED
  BY <1>3 DEF ServerInv, TypeOK, WorkspaceIsCurrent, ShownIsFound, Project, TextsOf, Texts

(* So does didSave, with the text or without. *)
LEMMA SaveIsSound ==
  ASSUME ServerInv, NEW f \in Files, NEW with \in BOOLEAN, didSave(f, with)
  PROVE  ServerInv'
<1>1. /\ editor[f] # None /\ editor[f] \in Document(f)
      /\ disk' = [disk EXCEPT ![f] = editor[f].text] /\ editor' = editor
  BY DEF didSave, ServerInv, TypeOK
<1>2. documents' = editor'
  <2>1. CASE with
    <3>1. documents' = [documents EXCEPT ![f] = [version |-> documents[f].version, text |-> editor[f].text]]
      BY <2>1 DEF didSave, update
    <3>2. editor[f] = [version |-> editor[f].version, text |-> editor[f].text]
      BY <1>1 DEF Document
    <3>. QED BY <1>1, <3>1, <3>2 DEF ServerInv, TypeOK
  <2>2. CASE ~with
    BY <1>1, <2>2 DEF didSave, ServerInv
  <2>. QED BY <2>1, <2>2
<1>3. shown' = [g \in Files |-> shown'[g]]
  BY DEF didSave, publish_open_documents
<1>4. IF with THEN last' = f /\ current' = TRUE ELSE UNCHANGED <<workspace, last, current>>
  BY DEF didSave, update
<1>5. TypeOK'
  <2>1. disk' = [g \in Files |-> disk'[g]] /\ \A g \in Files : disk'[g] \in Written[g]
    BY <1>1 DEF ServerInv, TypeOK, Document
  <2>. QED BY <1>1, <1>3, <1>4, <2>1 DEF ServerInv, TypeOK
<1>6. ASSUME current' PROVE WorkspaceIsCurrent'
  <2>1. CASE with
    BY <1>2, <1>5, <2>1, UpdateIsCurrent DEF didSave
  <2>2. CASE ~with
    <3>1. Texts' = Texts
      BY <1>1, SameTexts DEF ServerInv, TypeOK
    <3>. QED BY <1>4, <1>6, <2>2, <3>1, SameTextsSameWorkspace DEF ServerInv
  <2>. QED BY <2>1, <2>2
<1>7. ShownIsFound'
  BY <1>2, PublishedIsShown DEF didSave, ServerInv
<1>. QED BY <1>2, <1>5, <1>6, <1>7 DEF ServerInv

(* So does didClose, which clears the diagnostics of the file. *)
LEMMA CloseIsSound ==
  ASSUME ServerInv, NEW f \in Files, didClose(f)
  PROVE  ServerInv'
<1>1. /\ editor[f] # None /\ editor' = [editor EXCEPT ![f] = None]
      /\ documents' = [documents EXCEPT ![f] = None]
      /\ shown' = [shown EXCEPT ![f] = {}]
      /\ current' = (current /\ editor[f].text = disk[f])
      /\ UNCHANGED <<disk, workspace, last>>
  BY DEF didClose
<1>2. documents' = editor'
  BY <1>1 DEF ServerInv
<1>3. TypeOK'
  BY <1>1 DEF ServerInv, TypeOK
<1>4. ASSUME current' PROVE WorkspaceIsCurrent' /\ ShownIsFound'
  <2>1. current /\ editor[f].text = disk[f]
    BY <1>1, <1>4
  <2>2. Texts' = Texts
    BY <1>1, <2>1, SameTexts DEF ServerInv, TypeOK
  <2>3. WorkspaceIsCurrent'
    BY <1>1, <2>1, <2>2, SameTextsSameWorkspace DEF ServerInv
  <2>4. ShownIsFound'
    BY <1>1, <2>1 DEF ServerInv, TypeOK, ShownIsFound
  <2>. QED BY <2>3, <2>4
<1>. QED BY <1>2, <1>3, <1>4 DEF ServerInv

(* A file written behind the server leaves what is open as it is. *)
LEMMA OverwriteIsSound ==
  ASSUME ServerInv, NEW f \in Files, NEW text \in Written[f], Overwrite(f, text)
  PROVE  ServerInv'
<1>1. /\ disk' = [disk EXCEPT ![f] = text]
      /\ current' = (current /\ editor[f] # None)
      /\ UNCHANGED <<editor, documents, workspace, shown, last>>
  BY DEF Overwrite
<1>2. TypeOK'
  BY <1>1 DEF ServerInv, TypeOK
<1>3. ASSUME current' PROVE WorkspaceIsCurrent' /\ ShownIsFound'
  <2>1. current /\ editor[f] # None
    BY <1>1, <1>3
  <2>2. Texts' = Texts
    BY <1>1, <2>1, SameTexts DEF ServerInv, TypeOK
  <2>3. WorkspaceIsCurrent'
    BY <1>1, <2>1, <2>2, SameTextsSameWorkspace DEF ServerInv
  <2>4. ShownIsFound'
    BY <1>1, <2>1 DEF ServerInv, ShownIsFound
  <2>. QED BY <2>3, <2>4
<1>. QED BY <1>1, <1>2, <1>3 DEF ServerInv

(* Every notification keeps ServerInv. *)
LEMMA StepIsSound == ServerInv /\ [Next]_vars => ServerInv'
<1>. SUFFICES ASSUME ServerInv, [Next]_vars PROVE ServerInv'
  OBVIOUS
<1>1. CASE UNCHANGED vars
  BY <1>1 DEF vars, ServerInv, TypeOK, WorkspaceIsCurrent, ShownIsFound, Project, TextsOf, Texts
<1>2. ASSUME NEW f \in Files, didOpen(f) \/ didClose(f) PROVE ServerInv'
  BY <1>2, OpenIsSound, CloseIsSound
<1>3. ASSUME NEW f \in Files, NEW with \in BOOLEAN, didSave(f, with) PROVE ServerInv'
  BY <1>3, SaveIsSound
<1>4. ASSUME NEW f \in Files, NEW text \in Written[f],
             didChange(f, text) \/ didChangeLate(f, text) \/ Overwrite(f, text)
      PROVE  ServerInv'
  BY <1>4, ChangeIsSound, LateIsSound, OverwriteIsSound
<1>. QED BY <1>1, <1>2, <1>3, <1>4 DEF Next

-----------------------------------------------------------------------------
(* Theorems *)

(* The invariant of the server: its documents are the editor's buffers, whatever
   came late, and until something changes that it is not told of, its package is
   built of what is open over what is on disk. *)
THEOREM ServerInvariant == Spec => []ServerInv
BY InitIsSound, StepIsSound, PTL DEF Spec

(* publish_open_documents: the editor shows for each open file what a build of
   its own buffers would say. *)
THEOREM PublishedStaysCurrent == Spec => []PublishedIsCurrent
<1>1. ServerInv => PublishedIsCurrent
  <2>. SUFFICES ASSUME ServerInv, current,
                       NEW f \in (IF Project = None THEN {last} ELSE SourceFiles(Project)),
                       editor[f] # None
                PROVE  shown[f] = Ranges(f, Texts[f], IF Project = None THEN Known[f][Texts[f]].diagnostics
                                         ELSE Built[Project][TextsOf(Project)].diagnostics[f])
    BY DEF PublishedIsCurrent
  <2>1. WorkspaceIsCurrent /\ ShownIsFound /\ last \in Files
    BY DEF ServerInv, TypeOK
  <2>2. CASE Project = None
    <3>1. f = last /\ workspace = None
      BY <2>1, <2>2 DEF WorkspaceIsCurrent
    <3>2. Texts[f] = editor[f].text
      BY <2>1, <3>1 DEF Texts
    <3>. QED BY <2>1, <2>2, <3>1, <3>2 DEF ShownIsFound, diagnostics
  <2>3. CASE Project # None
    <3>. DEFINE p == Project
    <3>1. p \in DOMAIN Package /\ f \in SourceFiles(p) /\ f \in Files
      BY <2>1, <2>3 DEF Project
    <3>2. Texts[f] = editor[f].text
      BY <3>1 DEF Texts
    <3>3. workspace = [package |-> p, files |-> TextsOf(p)] /\ DOMAIN workspace.files = SourceFiles(p)
      BY <2>1, <2>3 DEF WorkspaceIsCurrent, TextsOf
    <3>4. TextsOf(p) \in Contents(p)
      <4>1. ASSUME NEW g \in SourceFiles(p) PROVE TextsOf(p)[g] \in Written[g]
        <5>1. g \in Files
          BY <3>1
        <5>2. Texts[g] \in Written[g]
          BY <5>1 DEF Texts, ServerInv, TypeOK, Document
        <5>. QED BY <5>2 DEF TextsOf
      <4>2. TextsOf(p) \in [SourceFiles(p) -> UNION {Written[g] : g \in SourceFiles(p)}]
        BY <4>1 DEF TextsOf
      <4>. QED BY <4>1, <4>2 DEF Contents
    <3>5. workspace # None
      BY <3>1, <3>3, <3>4
    <3>. QED BY <2>1, <2>3, <3>1, <3>2, <3>3, <3>5 DEF ShownIsFound, diagnostics
  <2>. QED BY <2>2, <2>3
<1>. QED BY <1>1, ServerInvariant, PTL
=============================================================================
