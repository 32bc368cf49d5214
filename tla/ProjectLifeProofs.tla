-------------------------- MODULE ProjectLifeProofs --------------------------
(***************************************************************************)
(* Theorems about the life of a project, for any number of forms, project  *)
(* files and edits.                                                        *)
(***************************************************************************)
EXTENDS ProjectLife, TLAPS

\* The forms that are worked on, a file, a document.
Contents == [Forms -> 0 .. MaxVersion]

LEMMA DocumentFields ==
  ASSUME NEW doc \in Document
  PROVE  doc.content \in Contents /\ doc.open \subseteq Forms
BY DEF Document, Contents

\* Which windows are open does not follow from the type of a document: a file
\* has windows for the forms it has.
FilesOK ==
  \A file \in Files : intact(file) =>
    disk[file].open \subseteq {f \in Forms : disk[file].content[f] # 0}

LEMMA IntactDocument ==
  ASSUME TypeOK, NEW file \in Files, intact(file)
  PROVE  disk[file] \in Document
BY DEF TypeOK, intact

LEMMA ContinuationFields ==
  ASSUME NEW c \in Continuations
  PROVE  /\ c.op \in {"none", "close", "exit", "load"}
         /\ c.op = "load" => c.file \in Files
         /\ c.op = "none" => c = Nothing
BY DEF Continuations, Nothing

LEMMA NothingType == Nothing \in Continuations /\ Nothing.op = "none"
BY DEF Continuations, Nothing

LEMMA NoFormsType == noForms \in Contents /\ \A f \in Forms : noForms[f] = 0
BY MaxVersionAssumption DEF noForms, Contents

\* The forms in memory and those of them with a window or unnoticed changes.
FormsOK ==
  /\ content \in Contents
  /\ open \subseteq {f \in Forms : content[f] # 0}
  /\ unnoticed \subseteq {f \in Forms : content[f] # 0}
  /\ autoAdd \in BOOLEAN

\* Creating an AutoMap changes no other form and does not go unrecorded.
LEMMA SyncResult ==
  ASSUME NEW on \in BOOLEAN, NEW forms \in Contents, NEW windows, NEW before,
         windows \subseteq {f \in Forms : forms[f] # 0},
         before \subseteq {f \in Forms : forms[f] # 0},
         syncAutoRequestMap(on, forms, windows, before)
  PROVE  /\ FormsOK'
         /\ \A f \in Forms : content'[f] = forms[f] \/ (forms[f] = 0 /\ f \in unnoticed')
         /\ before \subseteq unnoticed'
<1>1. AutoMap \in Forms /\ 1 \in 0 .. MaxVersion
  BY AutoMapAssumption, MaxVersionAssumption
<1>2. CASE on /\ forms[AutoMap] = 0
  <2>1. /\ content' = [forms EXCEPT ![AutoMap] = 1]
        /\ open' = windows \cup {AutoMap}
        /\ unnoticed' = before \cup {AutoMap} /\ autoAdd' = on
    BY <1>2 DEF syncAutoRequestMap
  <2>2. content' \in Contents BY <1>1, <2>1 DEF Contents
  <2>3. content'[AutoMap] = 1 /\ \A f \in Forms : f # AutoMap => content'[f] = forms[f]
    BY <1>1, <2>1 DEF Contents
  <2>4. QED BY <1>1, <1>2, <2>1, <2>2, <2>3 DEF FormsOK
<1>3. CASE ~(on /\ forms[AutoMap] = 0)
  <2>1. /\ content' = forms /\ unnoticed' = before /\ autoAdd' = on
        /\ open' = windows \/ (forms[AutoMap] # 0 /\ open' = windows \cup {AutoMap})
    BY <1>3 DEF syncAutoRequestMap
  <2>2. QED BY <1>1, <2>1 DEF FormsOK
<1>4. QED BY <1>2, <1>3

-----------------------------------------------------------------------------
(* The inductive invariant.                                                *)

\* A program that does not run has no project.
DeadIsEmpty == ~alive => path = None /\ next = Nothing

\* The project's path names a file that was written or read.
PathExists == path # None => disk[path] # Absent

\* What is about to be discarded without a question is empty or unmodified.
ToBeDiscarded ==
  alive /\ dialog = "none" /\ next # Nothing =>
    \/ \A f \in Forms : content[f] = 0
    \/ path # None /\ ~modified

IInv ==
  /\ TypeOK
  /\ FilesOK
  /\ DeadIsEmpty
  /\ PathExists
  /\ ToBeDiscarded
  /\ UnmodifiedIsSaved

LEMMA InitIInv == Init => IInv
<1> SUFFICES ASSUME Init PROVE IInv
  OBVIOUS
<1>1. TypeOK
  BY NoFormsType, NothingType DEF Init, TypeOK, Contents
<1>2. FilesOK BY DEF Init, FilesOK, intact
<1>3. QED BY <1>1, <1>2 DEF Init, IInv, DeadIsEmpty, PathExists, ToBeDiscarded, UnmodifiedIsSaved

-----------------------------------------------------------------------------
(* What saving leaves on disk.                                             *)

\* Whatever becomes of the dialogs: the part of the invariant that saving can
\* disturb.
SavedOK ==
  /\ disk \in [Files -> Document \cup {Broken, Absent}]
  /\ FilesOK
  /\ PathExists
  /\ UnmodifiedIsSaved

LEMMA SaveFailsKeeps ==
  ASSUME IInv, NEW file \in Files, saveFails(file)
  PROVE  SavedOK' /\ UNCHANGED <<content, open, path, modified, autoAdd, unnoticed, alive>>
<1>1. UNCHANGED <<content, open, path, modified, autoAdd, unnoticed, alive>> BY DEF saveFails, memory
<1>2. CASE UNCHANGED disk
  BY <1>1, <1>2 DEF IInv, TypeOK, SavedOK, FilesOK, PathExists, UnmodifiedIsSaved, intact
<1>3. CASE disk' = [disk EXCEPT ![file] = Broken]
  <2>1. disk' \in [Files -> Document \cup {Broken, Absent}] BY <1>3 DEF IInv, TypeOK
  <2>2. disk'[file] = Broken /\ \A x \in Files : x # file => disk'[x] = disk[x]
    BY <1>3 DEF IInv, TypeOK
  <2>3. FilesOK' BY <2>2 DEF IInv, FilesOK, intact
  <2>4. Broken # Absent BY DEF Broken, Absent
  <2>5. path \in Files \cup {None} BY DEF IInv, TypeOK
  <2>6. PathExists' BY <1>1, <2>2, <2>4, <2>5 DEF IInv, PathExists
  <2>7. UnmodifiedIsSaved' BY <1>1, <2>2, <2>5 DEF IInv, UnmodifiedIsSaved, intact
  <2>8. QED BY <1>1, <2>1, <2>3, <2>6, <2>7 DEF SavedOK
<1>4. QED BY <1>2, <1>3 DEF saveFails

LEMMA SaveSucceedsKeeps ==
  ASSUME IInv, NEW file \in Files, saveSucceeds(file)
  PROVE  /\ SavedOK'
         /\ path' = file /\ path' # None /\ ~modified' /\ unnoticed' = {}
         /\ UNCHANGED <<content, open, autoAdd, alive>>
<1>1. /\ path' = file /\ modified' = FALSE /\ path' # None /\ unnoticed' = {}
      /\ UNCHANGED <<content, open, autoAdd, alive>>
  BY NoneAssumption DEF saveSucceeds
<1>2. document \in Document /\ document.content = content /\ document.open = open
  BY DEF IInv, TypeOK, document, Document
<1>3. Broken # Absent /\ document # Absent
  BY DEF Broken, Absent, document
<1>4. PICK new \in {document, Broken} : disk' = [disk EXCEPT ![file] = new]
  BY DEF saveSucceeds
<1>5. disk' \in [Files -> Document \cup {Broken, Absent}] BY <1>2, <1>4 DEF IInv, TypeOK
<1>6. disk'[file] = new /\ \A x \in Files : x # file => disk'[x] = disk[x]
  BY <1>4 DEF IInv, TypeOK
<1>7. open \subseteq {f \in Forms : content[f] # 0} BY DEF IInv, TypeOK
<1>8. FilesOK'
  <2> SUFFICES ASSUME NEW x \in Files, intact(x)'
               PROVE  disk'[x].open \subseteq {f \in Forms : disk'[x].content[f] # 0}
    BY DEF FilesOK
  <2>1. CASE x = file
    <3>1. disk'[x] = document BY <1>6, <2>1 DEF intact
    <3>2. QED BY <1>2, <1>7, <3>1
  <2>2. CASE x # file BY <1>6, <2>2 DEF IInv, FilesOK, intact
  <2>3. QED BY <2>1, <2>2
<1>9. PathExists' BY <1>1, <1>3, <1>6 DEF PathExists
<1>10. UnmodifiedIsSaved' BY <1>1, <1>2, <1>6 DEF UnmodifiedIsSaved, intact
<1>11. QED BY <1>1, <1>5, <1>8, <1>9, <1>10 DEF SavedOK

-----------------------------------------------------------------------------
(* Every step keeps the invariant.                                         *)

\* The user's work, which leaves the path, the dialogs and the files alone.
work(f) ==
  \/ createNewForm(f) \/ edit(f) \/ editUnnoticed(f)
  \/ closeWindow(f) \/ reopen(f) \/ deleteForm(f)

\* What follows for the invariant from what a step did to the forms.
LEMMA FormsKeepIInv ==
  ASSUME IInv, FormsOK', responsive, UNCHANGED <<path, dialog, next, alive, disk>>,
         modified' \in BOOLEAN,
         \/ modified'
         \/ /\ ~modified /\ unnoticed \subseteq unnoticed' \cup {f \in Forms : content'[f] = 0}
            /\ \A f \in Forms \ unnoticed' : content'[f] \in {0, content[f]}
  PROVE  IInv'
<1>1. TypeOK' BY DEF IInv, TypeOK, FormsOK, Contents
<1>2. FilesOK' /\ DeadIsEmpty' /\ PathExists' /\ ToBeDiscarded'
  BY DEF IInv, FilesOK, DeadIsEmpty, PathExists, ToBeDiscarded, intact, responsive
<1>3. UnmodifiedIsSaved'
  <2> SUFFICES ASSUME alive, path # None, ~modified', intact(path), NEW f \in Forms \ unnoticed'
               PROVE  content'[f] \in {0, disk[path].content[f]}
    BY DEF UnmodifiedIsSaved, intact
  <2>1. content'[f] # 0 => content'[f] = content[f] /\ f \notin unnoticed OBVIOUS
  <2>2. QED BY <2>1 DEF IInv, UnmodifiedIsSaved
<1>4. QED BY <1>1, <1>2, <1>3 DEF IInv

LEMMA WorkKeepsIInv ==
  ASSUME IInv, NEW f \in Forms, work(f)
  PROVE  IInv'
<1>1. TypeOK /\ FormsOK /\ modified \in BOOLEAN
  BY DEF IInv, TypeOK, FormsOK, Contents
<1>2. content \in Contents /\ content[f] \in 0 .. MaxVersion BY <1>1 DEF FormsOK, Contents
<1>3. responsive /\ UNCHANGED <<path, dialog, next, alive, disk>>
  BY DEF work, createNewForm, edit, editUnnoticed, changed, closeWindow, reopen, deleteForm,
         idle, responsive, ui
<1>4. CASE createNewForm(f)
  <2>1. content' = [content EXCEPT ![f] = 1] /\ open' = open \cup {f} /\ modified' = TRUE
        /\ UNCHANGED <<autoAdd, unnoticed>>
    BY <1>4 DEF createNewForm
  <2>2. FormsOK' BY <1>1, <1>2, <2>1, MaxVersionAssumption DEF FormsOK, Contents
  <2>3. QED BY <1>3, <2>1, <2>2, FormsKeepIInv
<1>5. CASE edit(f) \/ editUnnoticed(f)
  <2>1. /\ content[f] \in 1 .. MaxVersion - 1
        /\ content' = [content EXCEPT ![f] = content[f] + 1]
        /\ UNCHANGED <<open, autoAdd>>
    BY <1>5 DEF edit, editUnnoticed, changed
  <2>2. content' \in Contents BY <1>2, <2>1, MaxVersionAssumption DEF Contents
  <2>3. content'[f] # 0 /\ content[f] # 0 /\ \A g \in Forms : g # f => content'[g] = content[g]
    BY <1>2, <2>1, MaxVersionAssumption DEF Contents
  <2>4. unnoticed' \in {unnoticed, unnoticed \cup {f}} BY <1>5 DEF edit, editUnnoticed
  <2>5. FormsOK' BY <1>1, <2>1, <2>2, <2>3, <2>4 DEF FormsOK
  <2>6. CASE edit(f) BY <1>3, <2>5, <2>6, FormsKeepIInv DEF edit
  <2>7. CASE editUnnoticed(f)
    <3>1. modified' = modified /\ unnoticed' = unnoticed \cup {f} BY <2>7 DEF editUnnoticed
    <3>2. \A g \in Forms \ unnoticed' : content'[g] \in {0, content[g]} BY <2>3, <3>1
    <3>3. QED BY <1>1, <1>3, <2>5, <3>1, <3>2, FormsKeepIInv
  <2>8. QED BY <1>5, <2>6, <2>7
<1>6. CASE closeWindow(f) \/ reopen(f)
  <2>1. /\ UNCHANGED <<content, autoAdd, unnoticed>>
        /\ open' \in {open \ {f}, open \cup {f}} /\ content[f] # 0
    BY <1>1, <1>6 DEF closeWindow, reopen, FormsOK
  <2>2. FormsOK' BY <1>1, <2>1 DEF FormsOK
  <2>3. CASE closeWindow(f) BY <1>3, <2>2, <2>3, FormsKeepIInv DEF closeWindow
  <2>4. CASE reopen(f)
    <3>1. modified' = modified BY <2>4 DEF reopen
    <3>2. QED BY <1>1, <1>3, <2>1, <2>2, <3>1, FormsKeepIInv
  <2>5. QED BY <1>6, <2>3, <2>4
<1>7. CASE deleteForm(f)
  <2>1. /\ content' = [content EXCEPT ![f] = 0] /\ open' = open \ {f}
        /\ modified' = (modified \/ f \in open) /\ unnoticed' = unnoticed \ {f}
        /\ UNCHANGED autoAdd
    BY <1>7 DEF deleteForm
  <2>2. content' \in Contents BY <1>2, <2>1, MaxVersionAssumption DEF Contents
  <2>3. content'[f] = 0 /\ \A g \in Forms : g # f => content'[g] = content[g]
    BY <1>2, <2>1 DEF Contents
  <2>4. FormsOK' BY <1>1, <2>1, <2>2, <2>3 DEF FormsOK
  <2>5. modified' \in BOOLEAN /\ (modified => modified') BY <1>1, <2>1
  <2>6. \A g \in Forms : content'[g] \in {0, content[g]} BY <2>3
  <2>7. unnoticed \subseteq unnoticed' \cup {g \in Forms : content'[g] = 0} BY <2>1, <2>3
  <2>8. QED BY <1>1, <1>3, <2>4, <2>5, <2>6, <2>7, FormsKeepIInv
<1>8. QED BY <1>4, <1>5, <1>6, <1>7 DEF work

LEMMA DefinitionsKeepIInv ==
  ASSUME IInv, NEW on \in BOOLEAN, setModbusDefinitions(on)
  PROVE  IInv'
<1>1. /\ content \in Contents /\ modified \in BOOLEAN
      /\ open \subseteq {f \in Forms : content[f] # 0}
      /\ unnoticed \subseteq {f \in Forms : content[f] # 0}
  BY DEF IInv, TypeOK, Contents
<1>2. /\ responsive /\ UNCHANGED <<path, modified, dialog, next, alive, disk>>
      /\ syncAutoRequestMap(on, content, open, unnoticed)
  BY DEF setModbusDefinitions, ui
<1>3. /\ FormsOK' /\ unnoticed \subseteq unnoticed'
      /\ \A f \in Forms : content'[f] = content[f] \/ (content[f] = 0 /\ f \in unnoticed')
  BY <1>1, <1>2, SyncResult
<1>4. QED BY <1>1, <1>2, <1>3, FormsKeepIInv

LEMMA MarkKeepsIInv ==
  ASSUME IInv, markModified
  PROVE  IInv'
<1>1. FormsOK BY DEF IInv, TypeOK, FormsOK, Contents
<1>2. /\ responsive /\ UNCHANGED <<path, dialog, next, alive, disk>>
      /\ modified' = TRUE /\ UNCHANGED <<content, open, autoAdd, unnoticed>>
  BY DEF markModified, idle, responsive, ui
<1>3. FormsOK' BY <1>1, <1>2 DEF FormsOK
<1>4. QED BY <1>2, <1>3, FormsKeepIInv

\* A step that leaves the project and the files alone.
LEMMA DialogKeepsIInv ==
  ASSUME IInv, UNCHANGED <<memory, alive, disk>>,
         dialog' \in {"none", "confirm", "saveAs"}, next' \in Continuations,
         ~alive => next' = next,
         dialog' = "none" /\ next' # Nothing => ~hasProjectContext \/ ~(modified \/ path = None)
  PROVE  IInv'
<1>1. TypeOK' BY DEF IInv, TypeOK, memory
<1>2. FilesOK' /\ DeadIsEmpty' /\ PathExists' /\ UnmodifiedIsSaved'
  BY DEF IInv, FilesOK, DeadIsEmpty, PathExists, UnmodifiedIsSaved, intact, memory
<1>3. ToBeDiscarded' BY DEF ToBeDiscarded, memory, hasProjectContext
<1>4. QED BY <1>1, <1>2, <1>3 DEF IInv

LEMMA SaveKeepsIInv ==
  ASSUME IInv, alive, NEW file \in Files,
         \/ saveSucceeds(file)
         \/ saveFails(file) /\ (dialog' # "none" \/ next' = Nothing),
         dialog' \in {"none", "confirm", "saveAs"}, next' \in Continuations
  PROVE  IInv'
<1>1. /\ SavedOK' /\ UNCHANGED <<content, open, autoAdd, alive>>
      /\ unnoticed' \in {unnoticed, {}}
      /\ \/ UNCHANGED <<path, modified>> /\ (dialog' # "none" \/ next' = Nothing)
         \/ path' \in Files /\ path' # None /\ ~modified' /\ saveSucceeds(file)
  BY SaveFailsKeeps, SaveSucceedsKeeps
<1>2. path' \in Files \cup {None} /\ modified' \in BOOLEAN
  BY <1>1 DEF IInv, TypeOK, saveSucceeds
<1>3. TypeOK' BY <1>1, <1>2 DEF IInv, TypeOK, SavedOK
<1>4. DeadIsEmpty' BY <1>1 DEF DeadIsEmpty
<1>5. ToBeDiscarded' BY <1>1 DEF ToBeDiscarded
<1>6. QED BY <1>1, <1>3, <1>4, <1>5 DEF IInv, SavedOK

\* Nothing is left of a project that was discarded.
LEMMA EmptyKeepsIInv ==
  ASSUME IInv, content' = noForms, open' = {}, path' = None, modified' = FALSE,
         unnoticed' = {}, autoAdd' \in BOOLEAN, dismissed, alive' \in BOOLEAN,
         disk' \in [Files -> Document \cup {Broken, Absent}], FilesOK'
  PROVE  IInv'
<1>1. TypeOK' BY NoFormsType, NothingType DEF TypeOK, Contents, dismissed
<1>2. QED BY <1>1 DEF IInv, DeadIsEmpty, PathExists, ToBeDiscarded, UnmodifiedIsSaved, dismissed

LEMMA ProceedKeepsIInv ==
  ASSUME IInv, alive, Proceed
  PROVE  IInv'
<1>1. /\ TypeOK /\ FilesOK /\ UNCHANGED disk /\ dismissed
      /\ disk' \in [Files -> Document \cup {Broken, Absent}] /\ FilesOK'
  BY DEF IInv, TypeOK, FilesOK, intact, Proceed
<1>2. CASE discarded /\ autoAdd' \in BOOLEAN /\ alive' \in BOOLEAN
  BY <1>1, <1>2, EmptyKeepsIInv DEF discarded
<1>3. CASE next.op = "load" /\ intact(next.file) /\ loaded(next.file) /\ UNCHANGED alive
  <2> DEFINE file == next.file
  <2>1. file \in Files BY <1>1, <1>3, ContinuationFields DEF TypeOK
  <2> HIDE DEF file
  <2>2. intact(file) /\ path' = file /\ modified' = FALSE BY <1>3 DEF loaded, file
  <2>3. disk[file].content \in Contents /\ disk[file].open \subseteq Forms
    BY <1>1, <2>1, <2>2, IntactDocument, DocumentFields
  <2>4. disk[file].open \subseteq {f \in Forms : disk[file].content[f] # 0}
    BY <1>1, <2>1, <2>2 DEF FilesOK
  <2>5. PICK on \in BOOLEAN :
          syncAutoRequestMap(on, disk[file].content, disk[file].open, {})
    BY <1>3 DEF loaded, file
  <2>6. /\ FormsOK'
        /\ \A f \in Forms : content'[f] = disk[file].content[f] \/ f \in unnoticed'
    BY <2>3, <2>4, <2>5, SyncResult
  <2>7. TypeOK'
    BY <1>1, <1>3, <2>1, <2>2, <2>6, NothingType DEF TypeOK, FormsOK, Contents, dismissed
  <2>8. DeadIsEmpty' /\ PathExists' /\ ToBeDiscarded'
    BY <1>1, <1>3, <2>2 DEF DeadIsEmpty, PathExists, ToBeDiscarded, intact, dismissed
  <2>9. UnmodifiedIsSaved' BY <1>1, <2>2, <2>6 DEF UnmodifiedIsSaved
  <2>10. QED BY <1>1, <2>7, <2>8, <2>9 DEF IInv
<1>4. QED BY <1>1, <1>2, <1>3 DEF Proceed, TypeOK

\* What merging makes of the forms, before the AutoMap is looked for.
LEMMA CombineForms ==
  ASSUME IInv, NEW file \in Files, Combine(file)
  PROVE  /\ FormsOK'
         /\ \A f \in Forms : content[f] # 0 => content'[f] = content[f]
<1> DEFINE forms == [f \in Forms |-> content[f] + disk[file].content[f]]
           windows == open \cup disk[file].open
<1>1. TypeOK /\ FilesOK /\ intact(file) BY DEF IInv, Combine
<1>2. \A f \in Forms : disk[file].content[f] = 0 \/ content[f] = 0 BY DEF Combine
<1>3. disk[file].content \in Contents BY <1>1, IntactDocument, DocumentFields
<1>4. content \in Contents /\ autoAdd \in BOOLEAN BY <1>1 DEF TypeOK, Contents
<1>5. ASSUME NEW f \in Forms
      PROVE  /\ forms[f] \in 0 .. MaxVersion
             /\ content[f] # 0 => forms[f] = content[f]
             /\ disk[file].content[f] # 0 => forms[f] # 0
  <2>1. content[f] \in 0 .. MaxVersion /\ disk[file].content[f] \in 0 .. MaxVersion
    BY <1>3, <1>4 DEF Contents
  <2>2. forms[f] = content[f] + disk[file].content[f] OBVIOUS
  <2>3. QED BY <1>2, <2>1, <2>2, MaxVersionAssumption
<1>6. forms \in Contents BY <1>5 DEF Contents
<1>7. /\ windows \subseteq {f \in Forms : forms[f] # 0}
      /\ unnoticed \subseteq {f \in Forms : forms[f] # 0}
  BY <1>1, <1>5 DEF TypeOK, FilesOK
<1>8. \/ \E on \in BOOLEAN : syncAutoRequestMap(on, forms, windows, unnoticed)
      \/ content' = forms /\ open' = windows /\ UNCHANGED <<autoAdd, unnoticed>>
  BY DEF Combine
<1> HIDE DEF forms, windows
<1>9. CASE \E on \in BOOLEAN : syncAutoRequestMap(on, forms, windows, unnoticed)
  <2>1. PICK on \in BOOLEAN : syncAutoRequestMap(on, forms, windows, unnoticed) BY <1>9
  <2>2. FormsOK' /\ \A f \in Forms : forms[f] # 0 => content'[f] = forms[f]
    BY <1>6, <1>7, <2>1, SyncResult
  <2>3. QED BY <1>5, <2>2
<1>10. CASE content' = forms /\ open' = windows /\ UNCHANGED <<autoAdd, unnoticed>>
  BY <1>4, <1>5, <1>6, <1>7, <1>10 DEF FormsOK
<1>11. QED BY <1>8, <1>9, <1>10

LEMMA CombineKeepsIInv ==
  ASSUME IInv, NEW file \in Files, Combine(file)
  PROVE  IInv'
<1>1. /\ TypeOK /\ FilesOK /\ PathExists BY DEF IInv
<1>2. /\ alive /\ next = Nothing /\ intact(file)
      /\ path' = IF path = None THEN file ELSE path
      /\ modified' = TRUE
      /\ UNCHANGED <<dialog, next, alive, disk>>
  BY DEF Combine, idle, ui
<1>3. FormsOK' BY CombineForms
<1>4. TypeOK' BY <1>1, <1>2, <1>3 DEF TypeOK, FormsOK, Contents
<1>5. PathExists' BY <1>1, <1>2 DEF PathExists, intact
<1>6. FilesOK' BY <1>1, <1>2 DEF FilesOK, intact
<1>7. QED BY <1>2, <1>4, <1>5, <1>6
  DEF IInv, DeadIsEmpty, ToBeDiscarded, UnmodifiedIsSaved

LEMMA CrashKeepsIInv == ASSUME IInv, Crash PROVE IInv'
<1>1. TypeOK /\ FilesOK BY DEF IInv
<1>2. CASE UNCHANGED disk BY <1>1, <1>2, EmptyKeepsIInv DEF Crash, TypeOK, FilesOK, intact
<1>3. ASSUME NEW file \in Files, disk' = [disk EXCEPT ![file] = Broken] PROVE IInv'
  <2>1. disk' \in [Files -> Document \cup {Broken, Absent}] BY <1>1, <1>3 DEF TypeOK
  <2>2. disk'[file] = Broken /\ \A x \in Files : x # file => disk'[x] = disk[x]
    BY <1>1, <1>3 DEF TypeOK
  <2>3. FilesOK' BY <1>1, <2>2 DEF FilesOK, intact
  <2>4. QED BY <2>1, <2>3, EmptyKeepsIInv DEF Crash
<1>4. {path} \ {None} \subseteq Files BY <1>1 DEF TypeOK
<1>5. QED BY <1>2, <1>3, <1>4 DEF Crash

LEMMA NextIInv == IInv /\ [Next]_vars => IInv'
<1> SUFFICES ASSUME IInv, [Next]_vars PROVE IInv'
  OBVIOUS
<1>1. TypeOK BY DEF IInv
<1>2. path # None => path \in Files BY <1>1 DEF TypeOK
<1>3. next \in Continuations /\ dialog \in {"none", "confirm", "saveAs"} BY <1>1 DEF TypeOK
<1>4. ASSUME NEW f \in Forms, work(f) PROVE IInv'
  BY <1>4, WorkKeepsIInv
<1>5. CASE SaveProject
  <2>1. CASE path = None /\ askWhere /\ UNCHANGED <<memory, alive, disk>>
    BY <1>3, <2>1, DialogKeepsIInv DEF askWhere
  <2>2. CASE path # None /\ saveFails(path) /\ askWhere
    BY <1>2, <1>3, <1>5, <2>2, SaveKeepsIInv DEF askWhere, SaveProject, idle
  <2>3. CASE path # None /\ saveSucceeds(path) /\ UNCHANGED ui
    BY <1>2, <1>3, <1>5, <2>3, SaveKeepsIInv DEF ui, SaveProject, idle
  <2>4. QED BY <1>5, <2>1, <2>2, <2>3 DEF SaveProject
<1>6. CASE SaveProjectAs BY <1>3, <1>6, DialogKeepsIInv DEF SaveProjectAs, askWhere
<1>7. ASSUME NEW continuation \in Continuations, Request(continuation) PROVE IInv'
  BY <1>7, DialogKeepsIInv DEF Request, idle
<1>8. CASE NotAsked \/ AnswerNo
  BY <1>8, ProceedKeepsIInv DEF NotAsked, AnswerNo, unasked, asked
<1>9. CASE AnswerCancel \/ SaveAsCancelled
  BY <1>9, NothingType, DialogKeepsIInv DEF AnswerCancel, SaveAsCancelled, asked, dismissed
<1>10. CASE AnswerSave
  <2>1. CASE path = None /\ askWhere /\ UNCHANGED <<memory, alive, disk>>
    BY <1>3, <2>1, DialogKeepsIInv DEF askWhere
  <2>2. CASE path # None /\ saveFails(path) /\ askWhere
    BY <1>2, <1>3, <1>10, <2>2, SaveKeepsIInv DEF askWhere, AnswerSave, asked
  <2>3. CASE path # None /\ saveSucceeds(path) /\ saved
    BY <1>2, <1>3, <1>10, <2>3, SaveKeepsIInv DEF saved, AnswerSave, asked
  <2>4. QED BY <1>10, <2>1, <2>2, <2>3 DEF AnswerSave
<1>11. ASSUME NEW file \in Files, SaveAs(file) PROVE IInv'
  BY <1>3, <1>11, NothingType, SaveKeepsIInv DEF SaveAs, saved, dismissed
<1>12. ASSUME NEW file \in Files, Combine(file) PROVE IInv'
  BY <1>12, CombineKeepsIInv
<1>13. CASE Crash BY <1>13, CrashKeepsIInv
<1>14. CASE Restart
  <2>1. UNCHANGED <<content, open, path, modified, autoAdd, unnoticed, dialog, next, disk>> /\ alive' = TRUE
    BY <1>14 DEF Restart, memory, ui
  <2>2. path = None /\ next = Nothing BY <1>14 DEF Restart, IInv, DeadIsEmpty
  <2>3. TypeOK' BY <1>1, <2>1 DEF TypeOK
  <2>4. QED BY <2>1, <2>2, <2>3
    DEF IInv, FilesOK, intact, DeadIsEmpty, PathExists, ToBeDiscarded, UnmodifiedIsSaved
<1>15. CASE UNCHANGED vars
  <2>1. UNCHANGED <<content, open, path, modified, autoAdd, unnoticed, dialog, next, alive, disk>>
    BY <1>15 DEF vars, memory, ui
  <2>2. TypeOK' BY <1>1, <2>1 DEF TypeOK
  <2>3. QED BY <2>1, <2>2
    DEF IInv, FilesOK, intact, DeadIsEmpty, PathExists, ToBeDiscarded, UnmodifiedIsSaved
<1>16. markModified \/ (\E on \in BOOLEAN : setModbusDefinitions(on)) => IInv'
  BY MarkKeepsIInv, DefinitionsKeepIInv
<1>17. QED
  BY <1>4, <1>5, <1>6, <1>7, <1>8, <1>9, <1>10, <1>11, <1>12, <1>13, <1>14, <1>15, <1>16
  DEF Next, work

LEMMA InvariantHolds == Spec => []IInv
BY InitIInv, NextIInv, PTL DEF Spec

-----------------------------------------------------------------------------
\* Through saving, loading, merging, crashes and cancelled dialogs the project
\* in memory has windows for its own forms only, and the file of a pending
\* load is a file (AppProject, MainWindow).
THEOREM TypeCorrect == Spec => []TypeOK
<1>1. IInv => TypeOK BY DEF IInv
<1>2. QED BY <1>1, InvariantHolds, PTL

\* A project that does not count as modified is in its file, if that is intact,
\* but for what was changed without setting the flag (AppProject::saveProject,
\* MainWindow::markModified, ProjectFormManager::setupForm).
THEOREM UnmodifiedProjectIsSaved == Spec => []UnmodifiedIsSaved
<1>1. IInv => UnmodifiedIsSaved BY DEF IInv
<1>2. QED BY <1>1, InvariantHolds, PTL

\* No form is lost without a question, unless the program crashes, has destroyed
\* the project's own file, or the form was changed without setting the flag
\* (MainWindow::confirmSaveOnClose, AppProject::closeProject).
THEOREM NothingIsLostSilently == Spec => NoSilentLoss
<1> DEFINE Kept(f) ==
       \/ content[f] = 0 \/ content'[f] = content[f]
       \/ edit(f) \/ editUnnoticed(f) \/ deleteForm(f) \/ AnswerNo \/ Crash
       \/ \E file \in Files : disk[file] \notin {Broken, Absent}
                             /\ disk[file].content[f] = content[f]
       \/ path # None /\ disk[path] = Broken
       \/ lostUnnoticed(f)
<1>1. ASSUME IInv, Next, NEW f \in Forms PROVE Kept(f)
  <2>1. TypeOK /\ content \in Contents BY <1>1 DEF IInv, TypeOK, Contents
  <2>2. ASSUME NEW g \in Forms, work(g) PROVE Kept(f)
    <3>1. CASE g = f
      BY <2>2, <3>1 DEF work, createNewForm, closeWindow, reopen
    <3>2. CASE g # f
      BY <2>1, <2>2, <3>2
      DEF work, createNewForm, edit, editUnnoticed, changed, closeWindow, reopen, deleteForm,
          Contents
    <3>3. QED BY <3>1, <3>2
  <2>3. CASE NotAsked
    <3>1. unasked BY <2>3 DEF NotAsked
    <3>2. (\A g \in Forms : content[g] = 0) \/ (path # None /\ ~modified)
      BY <1>1, <3>1 DEF unasked, IInv, ToBeDiscarded
    <3>3. ASSUME path # None, ~modified, disk[path] # Broken, content[f] # 0, f \notin unnoticed
          PROVE  intact(path) /\ path \in Files /\ disk[path].content[f] = content[f]
      <4>1. path \in Files BY <2>1, <3>3 DEF TypeOK
      <4>2. intact(path) BY <1>1, <3>3 DEF IInv, PathExists, intact
      <4>3. content[f] \in {0, disk[path].content[f]}
        BY <1>1, <3>1, <3>3, <4>2 DEF IInv, UnmodifiedIsSaved, unasked
      <4>4. QED BY <3>3, <4>1, <4>2, <4>3
    <3>4. QED BY <2>3, <3>2, <3>3 DEF intact, lostUnnoticed
  <2>4. ASSUME NEW file \in Files, Combine(file) PROVE Kept(f)
    BY <1>1, <2>4, CombineForms
  <2>5. ASSUME NEW on \in BOOLEAN, setModbusDefinitions(on) PROVE Kept(f)
    <3>1. /\ syncAutoRequestMap(on, content, open, unnoticed)
          /\ open \subseteq {g \in Forms : content[g] # 0}
          /\ unnoticed \subseteq {g \in Forms : content[g] # 0}
      BY <2>1, <2>5 DEF setModbusDefinitions, TypeOK
    <3>2. content'[f] = content[f] \/ content[f] = 0 BY <2>1, <3>1, SyncResult
    <3>3. QED BY <3>2
  <2>6. SaveProject \/ SaveProjectAs \/ AnswerCancel \/ AnswerSave \/ SaveAsCancelled \/ Restart
        \/ markModified
        \/ (\E file \in Files : SaveAs(file))
        \/ (\E continuation \in Continuations : Request(continuation))
        => UNCHANGED content
    BY DEF SaveProject, SaveProjectAs, AnswerCancel, AnswerSave, SaveAsCancelled, Restart,
           markModified, SaveAs, Request, saveFails, saveSucceeds, memory
  <2>7. UNCHANGED content => Kept(f) OBVIOUS
  <2>8. AnswerNo \/ Crash => Kept(f) OBVIOUS
  <2> HIDE DEF Kept
  <2>9. QED BY <1>1, <2>2, <2>3, <2>4, <2>5, <2>6, <2>7, <2>8 DEF Next, work
<1>2. IInv /\ [Next]_vars => [\A f \in Forms : Kept(f)]_vars BY <1>1
<1>3. Spec => [][\A f \in Forms : Kept(f)]_vars BY <1>2, InvariantHolds, PTL DEF Spec
<1>4. QED BY <1>3 DEF NoSilentLoss
=============================================================================
