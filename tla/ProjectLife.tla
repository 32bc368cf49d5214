----------------------------- MODULE ProjectLife -----------------------------
(***************************************************************************)
(* The life of a project: the forms in memory, the project files, and the  *)
(* dialogs that ask before something is discarded.  The user-state file    *)
(* beside a project file, which keeps the layout of the windows, is left   *)
(* out: writing it changes nothing here and its failure is ignored.        *)
(*                                                                         *)
(* Everything happens in the main thread, but a dialog waits for the user: *)
(* requests of clients and scripts go on meanwhile, and the program may    *)
(* crash.  Writing a file may be refused or fail half way; the file is     *)
(* truncated first.                                                        *)
(*                                                                         *)
(* Only some changes of a form set the modified flag.  The others are      *)
(* saved too, but until then nothing tells them from what is on disk;      *)
(* unnoticed names the forms that have such changes.                       *)
(***************************************************************************)
EXTENDS Naturals

CONSTANTS
  Forms,       \* forms that may be created; a merge brings in absent ones
  AutoMap,     \* the data map that holds registers added on request
  Files,       \* paths of project files
  None,
  MaxVersion   \* bound on the edits of a form: its versions are 1 .. MaxVersion

ASSUME AutoMapAssumption == AutoMap \in Forms
ASSUME NoneAssumption == None \notin Files
ASSUME MaxVersionAssumption == MaxVersion \in Nat \ {0}

VARIABLES
  content,   \* the version of each form in memory; 0 when there is no such form
  open,      \* the forms that have a window, the others are parked
  path,      \* AppProject::_projectFilename
  modified,  \* MainWindow::_isModified
  autoAdd,   \* ModbusDefinitions::AutoAddRegistersOnRequest
  dialog,    \* the modal dialog that is shown
  next,      \* what goes on once the project may be discarded
  alive,     \* the program runs
  disk,      \* the project files
  unnoticed  \* history: the forms changed without a flag since they were saved

memory == <<content, open, path, modified, autoAdd, unnoticed>>
ui == <<dialog, next>>
vars == <<memory, ui, alive, disk>>

Document == [content : [Forms -> 0 .. MaxVersion], open : SUBSET Forms]
Broken == [broken |-> TRUE]   \* truncated or half written
Absent == [broken |-> FALSE]  \* no such file
intact(file) == disk[file] \notin {Broken, Absent}

Continuations ==
  [op : {"none", "close", "exit"}, file : {None}] \cup [op : {"load"}, file : Files]
Nothing == [op |-> "none", file |-> None]

TypeOK ==
  /\ content \in [Forms -> 0 .. MaxVersion]
  /\ open \subseteq {f \in Forms : content[f] # 0}
  /\ path \in Files \cup {None}
  /\ modified \in BOOLEAN
  /\ autoAdd \in BOOLEAN
  /\ unnoticed \subseteq {f \in Forms : content[f] # 0}
  /\ dialog \in {"none", "confirm", "saveAs"}
  /\ next \in Continuations
  /\ alive \in BOOLEAN
  /\ disk \in [Files -> Document \cup {Broken, Absent}]

noForms == [f \in Forms |-> 0]

Init ==
  /\ content = noForms
  /\ open = {}
  /\ path = None
  /\ modified = FALSE
  /\ autoAdd = FALSE
  /\ unnoticed = {}
  /\ dialog = "none"
  /\ next = Nothing
  /\ alive = TRUE
  /\ disk = [file \in Files |-> Absent]

-----------------------------------------------------------------------------
(* The user works on the project; no dialog is shown.                      *)

idle == alive /\ dialog = "none" /\ next = Nothing

\* The event loop runs, in a dialog too: requests and timers are served.
responsive == alive /\ (dialog # "none" \/ next = Nothing)

hasProjectContext == path # None \/ \E f \in Forms : content[f] # 0

createNewForm(f) ==
  /\ idle
  /\ f # AutoMap
  /\ content[f] = 0
  /\ content' = [content EXCEPT ![f] = 1]
  /\ open' = open \cup {f}
  /\ modified' = TRUE
  /\ UNCHANGED <<path, autoAdd, unnoticed, ui, alive, disk>>

\* Connections, the order of tabs and moving a form between panels.
markModified ==
  /\ idle
  /\ modified' = TRUE
  /\ UNCHANGED <<content, open, path, autoAdd, unnoticed, ui, alive, disk>>

changed(f) ==
  /\ responsive
  /\ content[f] \in 1 .. MaxVersion - 1
  /\ content' = [content EXCEPT ![f] = @ + 1]
  /\ UNCHANGED <<open, path, autoAdd, ui, alive, disk>>

\* A script, a title, the definitions of a view, a data map that is cleared or
\* gets registers on request: contentsChanged, definitionChanged.
edit(f) ==
  /\ changed(f)
  /\ modified' = TRUE
  /\ UNCHANGED unnoticed

\* A row of a data map added, inserted, deleted, moved or edited; a colour, a
\* data type or a code page of a view.
editUnnoticed(f) ==
  /\ changed(f)
  /\ unnoticed' = unnoticed \cup {f}
  /\ UNCHANGED modified

\* With registers added on request there is an AutoMap and it has a window.
\* The flag is not set for it.
syncAutoRequestMap(on, forms, windows, before) ==
  /\ autoAdd' = on
  /\ content' = IF on /\ forms[AutoMap] = 0 THEN [forms EXCEPT ![AutoMap] = 1] ELSE forms
  /\ open' = IF on THEN windows \cup {AutoMap} ELSE windows
  /\ unnoticed' = IF on /\ forms[AutoMap] = 0 THEN before \cup {AutoMap} ELSE before

\* The user sets the definitions in a dialog of their own, scripts set some of
\* them at any time, but not this one.
setModbusDefinitions(on) ==
  /\ responsive
  /\ dialog # "none" => on = autoAdd
  /\ syncAutoRequestMap(on, content, open, unnoticed)
  /\ UNCHANGED <<path, modified, ui, alive, disk>>

\* Closing the window of a form parks it.
closeWindow(f) ==
  /\ idle
  /\ f \in open
  /\ open' = open \ {f}
  /\ modified' = TRUE
  /\ UNCHANGED <<content, path, autoAdd, unnoticed, ui, alive, disk>>

\* Opening a parked form again does not count as a modification.
reopen(f) ==
  /\ idle
  /\ content[f] # 0
  /\ f \notin open
  /\ open' = open \cup {f}
  /\ UNCHANGED <<content, path, modified, autoAdd, unnoticed, ui, alive, disk>>

\* Deleting a form is noticed by the window it closes, if it has one.  The
\* AutoMap is locked while registers are added on request.
deleteForm(f) ==
  /\ idle
  /\ ~(autoAdd /\ f = AutoMap)
  /\ content[f] # 0
  /\ content' = [content EXCEPT ![f] = 0]
  /\ open' = open \ {f}
  /\ modified' = (modified \/ f \in open)
  /\ unnoticed' = unnoticed \ {f}
  /\ UNCHANGED <<path, autoAdd, ui, alive, disk>>

-----------------------------------------------------------------------------
(* Saving.                                                                 *)

document == [content |-> content, open |-> open]

\* Bug: the flag is cleared before the file is written.
saveFailsForgetting(file) ==
  /\ disk' \in {disk, [disk EXCEPT ![file] = Broken]}
  /\ modified' = FALSE
  /\ UNCHANGED <<content, open, path, autoAdd, unnoticed, alive>>

\* The file is not opened, or is truncated and not written to its end.
saveFails(file) ==
  /\ disk' \in {disk, [disk EXCEPT ![file] = Broken]}
  /\ UNCHANGED <<memory, alive>>

\* Closing the file writes what is still buffered, and is not asked whether it
\* could.
saveSucceeds(file) ==
  /\ disk' \in {[disk EXCEPT ![file] = document], [disk EXCEPT ![file] = Broken]}
  /\ path' = file
  /\ modified' = FALSE
  /\ unnoticed' = {}
  /\ UNCHANGED <<content, open, autoAdd, alive>>

askWhere == dialog' = "saveAs" /\ UNCHANGED next
dismissed == dialog' = "none" /\ next' = Nothing

\* Save: to the project's file, or wherever the user says if it has none or
\* that fails.
SaveProject ==
  /\ idle
  /\ \/ path = None /\ askWhere /\ UNCHANGED <<memory, alive, disk>>
     \/ path # None /\ saveFails(path) /\ askWhere
     \/ path # None /\ saveSucceeds(path) /\ UNCHANGED ui

SaveProjectAs ==
  /\ idle
  /\ askWhere
  /\ UNCHANGED <<memory, alive, disk>>

-----------------------------------------------------------------------------
(* Discarding the project, and what may follow.                            *)

\* Bug: the windows of the project are left behind.
discardedKeepingWindows ==
  /\ content' = noForms
  /\ path' = None
  /\ modified' = FALSE
  /\ unnoticed' = {}
  /\ UNCHANGED open

\* closeProject; what the user-state file keeps is stored before.
discarded ==
  /\ content' = noForms
  /\ open' = {}
  /\ path' = None
  /\ modified' = FALSE
  /\ unnoticed' = {}

\* The definitions in the file are left out of Document: on may be either.
loaded(file) ==
  /\ \E on \in BOOLEAN : syncAutoRequestMap(on, disk[file].content, disk[file].open, {})
  /\ path' = file
  /\ modified' = FALSE

\* Once the user has agreed: close, close and load, or leave.  The file to be
\* loaded was valid when the user chose it; it is validated again.
Proceed ==
  /\ dismissed
  /\ UNCHANGED disk
  /\ \/ next.op = "close" /\ discarded /\ UNCHANGED <<autoAdd, alive>>
     \/ /\ next.op = "load"
        /\ IF intact(next.file) THEN loaded(next.file) ELSE discarded /\ UNCHANGED autoAdd
        /\ UNCHANGED alive
     \/ next.op = "exit" /\ discarded /\ autoAdd' = FALSE /\ alive' = FALSE

\* confirmSaveOnClose, before closing, opening another project and leaving.
Request(continuation) ==
  /\ idle
  /\ continuation.op # "none"
  /\ continuation.op = "load" => intact(continuation.file)
  /\ next' = continuation
  /\ dialog' = IF hasProjectContext /\ (modified \/ path = None) THEN "confirm" ELSE "none"
  /\ UNCHANGED <<memory, alive, disk>>

unasked == alive /\ dialog = "none" /\ next # Nothing
asked == alive /\ dialog = "confirm"

NotAsked == unasked /\ Proceed
AnswerNo == asked /\ Proceed
AnswerCancel == asked /\ dismissed /\ UNCHANGED <<memory, alive, disk>>

\* Once saved the project is discarded at once, in the same call.
saved == dialog' = "none" /\ UNCHANGED next

AnswerSave ==
  /\ asked
  /\ \/ path = None /\ askWhere /\ UNCHANGED <<memory, alive, disk>>
     \/ path # None /\ saveFails(path) /\ askWhere
     \/ path # None /\ saveSucceeds(path) /\ saved

\* Bug: a file that could not be written is taken for a saved one.
SaveAsAccepted(file) ==
  /\ alive
  /\ dialog = "saveAs"
  /\ saveFails(file) \/ saveSucceeds(file)
  /\ saved

\* The file dialog: a file chosen, whose saving fails or not, or cancelled.
SaveAs(file) ==
  /\ alive
  /\ dialog = "saveAs"
  /\ \/ saveFails(file) /\ dismissed
     \/ saveSucceeds(file) /\ saved

SaveAsCancelled ==
  /\ alive
  /\ dialog = "saveAs"
  /\ dismissed
  /\ UNCHANGED <<memory, alive, disk>>

-----------------------------------------------------------------------------
\* A file dropped on the window is combined with the project, which takes the
\* file's path, and its definitions, when it has no path of its own.  Bound: the
\* file's forms are absent, and an AutoMap comes only with the definitions.
Combine(file) ==
  /\ idle
  /\ hasProjectContext
  /\ intact(file)
  /\ \A f \in Forms : disk[file].content[f] = 0 \/ content[f] = 0
  /\ path # None => disk[file].content[AutoMap] = 0
  /\ LET forms == [f \in Forms |-> content[f] + disk[file].content[f]]
         windows == open \cup disk[file].open
     IN  \/ /\ path = None
            /\ \E on \in BOOLEAN : syncAutoRequestMap(on, forms, windows, unnoticed)
         \/ /\ path # None
            /\ content' = forms
            /\ open' = windows
            /\ UNCHANGED <<autoAdd, unnoticed>>
  /\ path' = IF path = None THEN file ELSE path
  /\ modified' = TRUE
  /\ UNCHANGED <<ui, alive, disk>>

\* The program dies, perhaps in the middle of writing its file.
Crash ==
  /\ alive
  /\ alive' = FALSE
  /\ content' = noForms
  /\ open' = {}
  /\ path' = None
  /\ modified' = FALSE
  /\ autoAdd' = FALSE
  /\ unnoticed' = {}
  /\ dismissed
  /\ disk' \in {disk} \cup 
       {[disk EXCEPT ![file] = Broken] :
          file \in IF dialog = "saveAs" THEN Files ELSE {path} \ {None}}

Restart ==
  /\ ~alive
  /\ alive' = TRUE
  /\ UNCHANGED <<memory, ui, disk>>

Next ==
  \/ \E f \in Forms :
       \/ createNewForm(f) \/ edit(f) \/ editUnnoticed(f)
       \/ closeWindow(f) \/ reopen(f) \/ deleteForm(f)
  \/ markModified
  \/ \E on \in BOOLEAN : setModbusDefinitions(on)
  \/ SaveProject
  \/ SaveProjectAs
  \/ \E continuation \in Continuations : Request(continuation)
  \/ NotAsked \/ AnswerNo \/ AnswerCancel \/ AnswerSave \/ SaveAsCancelled
  \/ \E file \in Files : SaveAs(file) \/ Combine(file)
  \/ Crash
  \/ Restart

Spec == Init /\ [][Next]_vars

-----------------------------------------------------------------------------
\* A project that does not count as modified is in its file, form by form, as
\* long as that file is intact and but for the changes no signal tells of:
\* nothing else that changes a form, fails to save it, loads or merges forms
\* leaves the flag clear.
UnmodifiedIsSaved ==
  alive /\ path # None /\ ~modified /\ intact(path) =>
    \A f \in Forms \ unnoticed : content[f] \in {0, disk[path].content[f]}

\* A project closed without a question loses what went unnoticed.
lostUnnoticed(f) == NotAsked /\ f \in unnoticed

\* Unless the user deletes a form, changes it, or answers No, a version of a
\* form leaves memory only for a file that has it: through every failed save,
\* second file dialog and cancelled one.  What no dialog can help is a crash, a
\* project whose own file was destroyed by saving it, and a change that did not
\* set the flag, of which alone the program does not ask.
NoSilentLoss ==
  [][\A f \in Forms :
       \/ content[f] = 0 \/ content'[f] = content[f]
       \/ edit(f) \/ editUnnoticed(f) \/ deleteForm(f) \/ AnswerNo \/ Crash
       \/ \E file \in Files : disk[file] \notin {Broken, Absent} /\ disk[file].content[f] = content[f]
       \/ path # None /\ disk[path] = Broken
       \/ lostUnnoticed(f)]_vars
=============================================================================
