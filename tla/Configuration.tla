----------------------------- MODULE Configuration -----------------------------
(***************************************************************************)
(* The configuration file and the copies the workers have of it.  A worker   *)
(* reads it again at the beginning of a request if its modification time is  *)
(* another; a page of the administrator changes the copy of its worker and   *)
(* saves it, through a file beside it that is then renamed.  Each of these   *)
(* is several calls of the file system, and the workers are processes.  Two  *)
(* modifications may leave the same time.  One setting, lineExecutionTrace,  *)
(* is a worker's own: the file always says that it is off.                   *)
(* What a worker has compiled, or has connected to, is cleared when it has   *)
(* read the file again (TemplateCache has the compiled forms).               *)
(***************************************************************************)
EXTENDS TemplateCache

CONSTANTS Workers,
          Admins,     \* the workers that serve a page that changes settings
          Keys,       \* settings
          Inodes,     \* files
          MaxSets,    \* bound on the changes made
          MaxEdits,   \* bound on the times the file is spoilt by hand
          MaxMtime    \* bound on the modification times

ASSUME WorkersAssumption == Admins \subseteq Workers /\ Users \subseteq Workers
ASSUME ChangeBounds == MaxSets \in Nat /\ MaxEdits \in Nat /\ MaxMtime \in Nat

VARIABLES step,      \* where a worker is
          globals,   \* config::* of a worker, lineExecutionTrace apart
          trace,     \* lineExecutionTrace
          last,      \* s_lastLoadMtime
          fd,        \* the file a worker has open for writing
          file, tmp, \* the files named configFilePath and configFilePath.tmp
          node,      \* what is in a file
          count,     \* changes made, and modifications of files
          under,     \* the settings under which a worker has opened its connections
          hist       \* what its settings come from, and what it did itself

configVars == <<step, globals, trace, last, fd, file, tmp, node, count, under, hist>>
vars == <<configVars, templateVars>>

\* The value of a setting is the number of the change it was made by.
Settings == [Keys -> 0 .. MaxSets]
Defaults == [k \in Keys |-> 0]

ASSUME NoneIsNoValue == None \notin Inodes \cup Settings

\* A file that has been truncated is empty, one that two processes have written to is torn:
\* the text of the last of them, and the end of a longer one;
\* "invalid" is what somebody made of it who does not write JSON.
Text == [state : {"empty", "whole", "torn", "invalid"}, settings : Settings, mtime : 0 .. MaxMtime]

\* The modification time of the file a worker's settings come from, whether another text with
\* that time has been put there since, whether the worker has changes it did not save, and
\* whether it has made any since it read the file.
History == [taken : 0 .. MaxMtime, overtaken : BOOLEAN, rejected : BOOLEAN, changed : BOOLEAN]

Took(mtime) == [taken |-> mtime, overtaken |-> FALSE, rejected |-> FALSE, changed |-> FALSE]

Steps == {"idle", "load", "loaded", "page", "open", "write", "rename", "renamed"}

TypeOK ==
    /\ TemplateTypeOK
    /\ step \in [Workers -> Steps]
    /\ globals \in [Workers -> Settings]
    /\ trace \in [Workers -> BOOLEAN]
    /\ last \in [Workers -> 0 .. count.mtime]
    /\ fd \in [Workers -> Inodes \cup {None}]
    /\ \A w \in Workers : fd[w] # None <=> step[w] \in {"write", "rename"}
    /\ file \in Inodes /\ tmp \in Inodes \cup {None}
    /\ node \in [Inodes -> Text]
    /\ count \in [sets : 0 .. MaxSets, edits : 0 .. MaxEdits, mtime : 0 .. MaxMtime]
    /\ under \in [Workers -> Settings \cup {None}]
    /\ hist \in [Workers -> History]

\* The supervisor has loaded the file before it forks the workers.
Init ==
    /\ TemplateInit
    /\ step = [w \in Workers |-> "idle"]
    /\ globals = [w \in Workers |-> Defaults]
    /\ trace = [w \in Workers |-> FALSE]
    /\ last = [w \in Workers |-> 0]
    /\ fd = [w \in Workers |-> None]
    /\ file \in Inodes
    /\ tmp = None
    /\ node = [i \in Inodes |-> [state |-> IF i = file THEN "whole" ELSE "empty",
                             settings |-> Defaults, mtime |-> 0]]
    /\ count = [sets |-> 0, edits |-> 0, mtime |-> 0]
    /\ under = [w \in Workers |-> None]
    /\ hist = [w \in Workers |-> Took(0)]

FileMtime == node[file].mtime
Whole == node[file].state = "whole"
Parses == node[file].state \in {"whole", "torn"}   \* what follows the JSON is not looked at
To(w, next) == step' = [step EXCEPT ![w] = next]

files == <<file, tmp, node, count>>

-------------------------------------------------------------------------------
(* Requests.                                                               *)

\* reloadIfChanged
BeginRequest(w) ==
    /\ step[w] = "idle"
    /\ To(w, IF FileMtime = last[w] THEN "page" ELSE "load")
    /\ UNCHANGED <<globals, trace, last, fd, files, under, hist, templateVars>>

\* process_request, after the file has changed, whether or not it could be read.
ClearCaches(w) == under' = [under EXCEPT ![w] = None] /\ ClearTemplates(w)

\* The mutated form: only the templates.
ClearTemplatesOnly(w) == UNCHANGED under /\ ClearTemplates(w)

ClearAfterLoad(w) == ClearCaches(w)

\* A change to the tracing, except by __traceControl and at the end of a request, clears the
\* caches.
SetTrace(w, on) ==
    /\ trace' = [trace EXCEPT ![w] = on]
    /\ IF on # trace[w] THEN ClearCaches(w) ELSE UNCHANGED <<under, templateVars>>

\* The mutated form: what could not be read counts as loaded.
ReadFileOnce(w) ==
    /\ step[w] = "load"
    /\ globals' = IF Parses THEN [globals EXCEPT ![w] = node[file].settings] ELSE globals
    /\ SetTrace(w, trace[w] /\ ~Parses)
    /\ hist' = [hist EXCEPT ![w] = Took(FileMtime)]
    /\ To(w, "loaded")
    /\ UNCHANGED <<last, fd, files>>

\* The file is read, and the tracing turned off, whatever the file says; one that is not
\* valid JSON changes nothing, not even "last".
ReadFile(w) ==
    /\ step[w] = "load"
    /\ IF Parses
       THEN /\ globals' = [globals EXCEPT ![w] = node[file].settings]
            /\ SetTrace(w, FALSE)
            /\ hist' = [hist EXCEPT ![w] = Took(FileMtime)]
            /\ To(w, "loaded")
       ELSE /\ To(w, "page")
            /\ ClearAfterLoad(w)
            /\ hist' = [hist EXCEPT ![w].changed = FALSE]
            /\ UNCHANGED <<globals, trace>>
    /\ UNCHANGED <<last, fd, files>>

\* The time is that of the file there is now.
NoteLoaded(w) ==
    /\ step[w] = "loaded"
    /\ last' = [last EXCEPT ![w] = FileMtime]
    /\ To(w, "page")
    /\ ClearAfterLoad(w)
    /\ UNCHANGED <<globals, trace, fd, files, hist>>

\* The page opens a connection, or uses the one the worker has.
UseDatasource(w) ==
    /\ step[w] = "page" /\ under[w] = None
    /\ under' = [under EXCEPT ![w] = globals[w]]
    /\ UNCHANGED <<step, globals, trace, last, fd, files, hist, templateVars>>

\* The hundredth request that is traced turns the tracing off, and clears nothing.
EndRequest(w) ==
    /\ step[w] = "page" /\ (w \in Users => compile[w] = None)
    /\ To(w, "idle")
    /\ \E on \in {FALSE, trace[w]} : trace' = [trace EXCEPT ![w] = on]
    /\ UNCHANGED <<globals, last, fd, files, under, hist, templateVars>>

-------------------------------------------------------------------------------
(* The administrator's pages.                                              *)

\* applySettings and applyDatasources change one key after the other; what is wrong with
\* a later one is thrown when the earlier ones are made.
Configure(w, keys) ==
    /\ step[w] = "page" /\ count.sets < MaxSets
    /\ count' = [count EXCEPT !.sets = @ + 1]
    /\ globals' = [globals EXCEPT ![w] = [k \in Keys |-> IF k \in keys THEN count.sets + 1 ELSE @[k]]]
    /\ \/ To(w, "open") /\ hist' = [hist EXCEPT ![w].changed = TRUE]
       \/ To(w, "page") /\ hist' = [hist EXCEPT ![w].rejected = TRUE, ![w].changed = TRUE]
    /\ \E on \in BOOLEAN : SetTrace(w, on)
    /\ UNCHANGED <<last, fd, file, tmp, node>>

\* __traceControl saves nothing, and clears nothing.
TraceControl(w) ==
    /\ step[w] = "page"
    /\ \E on \in BOOLEAN : trace' = [trace EXCEPT ![w] = on]
    /\ UNCHANGED <<step, globals, last, fd, files, under, hist, templateVars>>

\* __configReset
ResetToDefaults(w) ==
    /\ step[w] = "page" /\ count.sets < MaxSets
    /\ count' = [count EXCEPT !.sets = @ + 1]
    /\ globals' = [globals EXCEPT ![w] = [k \in Keys |-> count.sets + 1]]
    /\ To(w, "open")
    /\ trace' = [trace EXCEPT ![w] = FALSE]
    /\ ClearCaches(w)
    /\ hist' = [hist EXCEPT ![w].changed = TRUE]
    /\ UNCHANGED <<last, fd, file, tmp, node>>

\* The time of a modification is that of the one before it, or a later one.
Times == {count.mtime} \cup (IF count.mtime < MaxMtime THEN {count.mtime + 1} ELSE {})

Modify(i, state, settings) ==
    \E mtime \in Times :
        /\ node' = [node EXCEPT ![i] = [state |-> state, settings |-> settings, mtime |-> mtime]]
        /\ count' = [count EXCEPT !.mtime = mtime]

Free(i) == i \notin {file, tmp} /\ \A v \in Workers : fd[v] # i

\* save: an existing file of the name is truncated.
OpenTemporary(w) ==
    /\ step[w] = "open"
    /\ \E i \in Inodes :
          /\ IF tmp = None THEN Free(i) ELSE i = tmp
          /\ tmp' = i
          /\ fd' = [fd EXCEPT ![w] = i]
          /\ Modify(i, "empty", Defaults)
    /\ To(w, "write")
    /\ UNCHANGED <<globals, trace, last, file, under, hist, templateVars>>

\* Any of the calls can fail; then a warning is printed, and the page goes on.
Warn(w) ==
    /\ To(w, "page")
    /\ fd' = [fd EXCEPT ![w] = None]
    /\ hist' = [hist EXCEPT ![w].rejected = TRUE]
    /\ UNCHANGED <<globals, trace, last, files, under, templateVars>>

OpenFails(w) == step[w] = "open" /\ Warn(w)

\* Of the tracing the file says nothing that is read.
\* What another process has written is written over, which leaves its end if it is longer.
WriteTemporary(w) ==
    /\ step[w] = "write"
    /\ \E state \in IF node[fd[w]].state = "empty" THEN {"whole"} ELSE {"whole", "torn"} :
          Modify(fd[w], state, globals[w])
    /\ To(w, "rename")
    /\ UNCHANGED <<globals, trace, last, fd, file, tmp, under, hist, templateVars>>

\* The mutated form: a write that has failed is not noticed.
WriteFailsUnnoticed(w) ==
    /\ step[w] = "write"
    /\ To(w, "rename")
    /\ UNCHANGED <<globals, trace, last, fd, files, under, hist, templateVars>>

WriteFails(w) == step[w] = "write" /\ Warn(w)

\* Whoever has taken the settings of another text of the same time cannot tell the two apart.
Overtaken(mtime) ==
    [v \in Workers |-> IF hist[v].taken = mtime THEN [hist[v] EXCEPT !.overtaken = TRUE] ELSE hist[v]]

\* "open": what becomes of the file that is open.
RenameWith(w, open) ==
    /\ step[w] = "rename" /\ tmp # None
    /\ file' = tmp /\ tmp' = None
    /\ fd' = [fd EXCEPT ![w] = open]
    /\ hist' = [Overtaken(node[tmp].mtime) EXCEPT
                   ![w].taken = node[tmp].mtime, ![w].overtaken = FALSE]
    /\ To(w, "renamed")
    /\ UNCHANGED <<globals, trace, last, node, count, under, templateVars>>

\* The mutated form: it is renamed before it is closed.
RenameOpen(w) == RenameWith(w, fd[w])

Rename(w) == RenameWith(w, None)

\* Also when another process has renamed it.
RenameFails(w) == step[w] = "rename" /\ Warn(w)

\* The file is edited by hand, and is no JSON until the next save.
EditFile ==
    /\ Whole /\ count.edits < MaxEdits
    /\ \E mtime \in Times :
          /\ node' = [node EXCEPT ![file].state = "invalid", ![file].mtime = mtime]
          /\ count' = [count EXCEPT !.mtime = mtime, !.edits = @ + 1]
          /\ hist' = Overtaken(mtime)
    /\ UNCHANGED <<step, globals, trace, last, fd, file, tmp, under, templateVars>>

Noting(w, mtime) ==
    /\ step[w] = "renamed"
    /\ last' = [last EXCEPT ![w] = mtime]
    /\ hist' = [hist EXCEPT ![w].rejected = FALSE]
    /\ To(w, "page")
    /\ UNCHANGED <<globals, trace, fd, files, under, templateVars>>

\* The mutated form: what the worker has saved itself it reads again.
NoteNothing(w) == Noting(w, last[w])

NoteSaved(w) == Noting(w, FileMtime)

Save(w) ==
    \/ OpenTemporary(w) \/ OpenFails(w)
    \/ WriteTemporary(w) \/ WriteFails(w)
    \/ Rename(w) \/ RenameFails(w)
    \/ NoteSaved(w)

Next ==
    \/ \E w \in Workers :
          \/ BeginRequest(w) \/ ReadFile(w) \/ NoteLoaded(w) \/ UseDatasource(w) \/ EndRequest(w)
          \/ Save(w)
    \/ \E w \in Admins :
          \/ \E keys \in SUBSET Keys : Configure(w, keys)
          \/ ResetToDefaults(w) \/ TraceControl(w)
    \/ \E w \in Users :
          /\ step[w] = "page"
          /\ ReadSource(w) \/ ReadComponent(w) \/ FinishCompile(w) \/ CompileFails(w)
          /\ UNCHANGED configVars
    \/ EditFile
    \/ (Tick \/ Rewrite) /\ UNCHANGED configVars

Spec == Init /\ [][Next]_vars

-------------------------------------------------------------------------------
(* Properties.                                                             *)

\* The file a worker may read at any moment is never a half-written one.
FileWhole == node[file].state \in {"whole", "invalid"}

\* A worker that has no reason to read the file has what the file says, of every setting but
\* lineExecutionTrace, unless the file was replaced between its reading, or renaming, it and
\* noting the time, or was replaced by one with the same time, or the worker has itself made
\* changes that were not saved.
SettingsCurrent ==
    \A w \in Workers :
        /\ step[w] \in {"idle", "page"}
        /\ last[w] = FileMtime /\ hist[w].taken = last[w]
        /\ ~hist[w].overtaken /\ ~hist[w].rejected
        => globals[w] = node[file].settings

\* A setting that is saved (that is, any but lineExecutionTrace) never goes back to an earlier
\* value, on any worker: with one administrator a worker may be late, but what it has seen it
\* keeps.
SettingsAdvance ==
    [][\A w \in Workers, k \in Keys : globals'[w][k] >= globals[w][k]]_vars

\* A page works with a connection that was opened under other settings than its own only
\* on a worker that has changed the settings itself.
OnlyOwnChangesLinger ==
    \A w \in Workers :
        step[w] \in {"idle", "page"} /\ under[w] \notin {None, globals[w]} => hist[w].changed
===============================================================================
