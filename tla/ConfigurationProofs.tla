-------------------------- MODULE ConfigurationProofs --------------------------
(***************************************************************************)
(* The configuration file and the compiled forms, for any number of        *)
(* workers, settings and changes.  What a worker has of a template or a    *)
(* component is bounded by when it read the file and when it noted the     *)
(* time; this part needs nothing of the configuration.  What a worker has  *)
(* of the settings is what the file said when the worker took it, and with *)
(* one administrator at a time nobody else writes to the temporary file.   *)
(***************************************************************************)
EXTENDS Configuration, SequenceTheorems, TLAPS

-------------------------------------------------------------------------------
(* Compiled forms.                                                         *)

\* "ws" are the seconds of the writes so far, "t" is the clock: a form that is not in "c"
\* was written after "c" was read.
ReadBefore(c, ws, t) ==
    /\ c.form <= Len(ws) /\ c.read <= t /\ c.noted <= t
    /\ \A v \in c.form + 1 .. Len(ws) : c.read <= ws[v]

\* The time noted is that of a form not later than the one in "c".
StampOfForm(c, ws) == \E u \in 1 .. c.form : ws[u] = c.stamp

Being(c) == ReadBefore(c, writes, now) /\ StampOfForm(c, writes)

Kept(c) ==
    /\ ReadBefore(c, writes, now)
    /\ kind = "template" => c.stamp <= c.noted
    /\ kind = "component" => StampOfForm(c, writes)

TemplateInv ==
    /\ TemplateTypeOK
    /\ \A v \in 1 .. Form : writes[v] <= now
    /\ \A w \in Users : /\ compile[w] # None => Being(compile[w])
                        /\ entry[w] # None => Kept(entry[w])

LEMMA Bounds == MaxTime \in Nat /\ MaxWrites \in Nat /\ MaxWrites > 0
  BY TemplateBounds

LEMMA LaterKept ==
    ASSUME NEW c \in Compiled, NEW ws \in Seq(0 .. MaxTime), NEW t \in 0 .. MaxTime,
           NEW u \in 0 .. MaxTime, t <= u, NEW next \in {ws, Append(ws, t)}
    PROVE  /\ ReadBefore(c, ws, t) => ReadBefore(c, next, u)
           /\ ReadBefore(c, ws, t) /\ StampOfForm(c, ws) => StampOfForm(c, next)
<1>1. /\ c.form \in Nat /\ c.read \in Nat /\ c.noted \in Nat /\ t \in Nat /\ u \in Nat
      /\ Len(ws) \in Nat /\ c.form > 0
  BY Bounds DEF Compiled
<1>2. CASE next = ws
  BY <1>1, <1>2 DEF ReadBefore, StampOfForm
<1>3. CASE next = Append(ws, t)
  <2>1. /\ Len(next) = Len(ws) + 1 /\ next[Len(ws) + 1] = t
        /\ \A i \in 1 .. Len(ws) : next[i] = ws[i]
    BY <1>3
  <2>2. ASSUME ReadBefore(c, ws, t)
        PROVE  ReadBefore(c, next, u)
    <3>1. c.form <= Len(ws) /\ c.read <= t /\ c.noted <= t
      BY <2>2 DEF ReadBefore
    <3>2. ASSUME NEW v \in c.form + 1 .. Len(next)
          PROVE  c.read <= next[v]
      <4>1. CASE v = Len(ws) + 1
        BY <2>1, <3>1, <4>1
      <4>2. CASE v # Len(ws) + 1
        <5>1. v \in c.form + 1 .. Len(ws) /\ v \in 1 .. Len(ws)
          BY <1>1, <2>1, <3>2, <4>2
        <5> QED BY <2>1, <2>2, <5>1 DEF ReadBefore
      <4> QED BY <4>1, <4>2
    <3> QED BY <1>1, <2>1, <3>1, <3>2 DEF ReadBefore
  <2>3. ASSUME ReadBefore(c, ws, t), StampOfForm(c, ws)
        PROVE  StampOfForm(c, next)
    BY <1>1, <2>1, <2>3 DEF ReadBefore, StampOfForm
  <2> QED BY <2>2, <2>3
<1> QED BY <1>2, <1>3

TemplateStep ==
    \/ UNCHANGED templateVars \/ Tick \/ Rewrite
    \/ \E w \in Workers : ClearTemplates(w)
    \/ \E w \in Users : ReadSource(w) \/ ReadComponent(w) \/ FinishCompile(w) \/ CompileFails(w)

LEMMA TemplateInvInit == Init => TemplateInv
<1> SUFFICES ASSUME Init PROVE TemplateInv
  OBVIOUS
<1>1. TemplateInit
  BY DEF Init
<1>2. Form = 1 /\ \A v \in 1 .. Form : writes[v] = 0
  BY <1>1 DEF TemplateInit, Form
<1>3. TemplateTypeOK
  BY <1>1, <1>2, Bounds DEF TemplateInit, TemplateTypeOK
<1>4. now = 0 /\ \A w \in Users : compile[w] = None /\ entry[w] = None
  BY <1>1 DEF TemplateInit
<1> QED BY <1>2, <1>3, <1>4 DEF TemplateInv

\* A worker's compiled form is replaced by another, while nothing is written.
LEMMA Replaced ==
    ASSUME TemplateInv, UNCHANGED <<now, kind, writes>>, NEW w \in Users,
           NEW c, NEW e,
           compile' = [compile EXCEPT ![w] = c], entry' = [entry EXCEPT ![w] = e],
           c \in Compiled \cup {None}, e \in Compiled \cup {None},
           c # None => Being(c), e # None => Kept(e)
    PROVE  TemplateInv'
<1> USE DEF TemplateInv
<1>1. TemplateTypeOK'
  BY DEF TemplateTypeOK, Form
<1>2. \A v \in Users : /\ compile'[v] = IF v = w THEN c ELSE compile[v]
                       /\ entry'[v] = IF v = w THEN e ELSE entry[v]
  BY DEF TemplateTypeOK
<1> QED BY <1>1, <1>2 DEF Form, Being, Kept

LEMMA TemplateStepInv ==
    ASSUME TemplateInv, TemplateStep
    PROVE  TemplateInv'
<1>0. /\ now \in 0 .. MaxTime /\ writes \in Seq(0 .. MaxTime) /\ Form \in 1 .. MaxWrites
      /\ compile \in [Users -> Compiled \cup {None}] /\ entry \in [Users -> Compiled \cup {None}]
  BY DEF TemplateInv, TemplateTypeOK
<1>00. /\ Form \in Nat /\ Form = Len(writes) /\ Mtime \in 0 .. MaxTime /\ Mtime <= now
       /\ \E u \in 1 .. Form : writes[u] = Mtime
  <2>1. Form \in 1 .. Form /\ Form = Len(writes)
    BY <1>0, Bounds DEF Form
  <2>2. writes[Form] \in 0 .. MaxTime /\ writes[Form] <= now
    <3>1. \A i \in 1 .. Len(writes) : writes[i] \in 0 .. MaxTime
      BY <1>0, ElementOfSeq
    <3> QED BY <2>1, <3>1 DEF TemplateInv
  <2> QED BY <1>0, <2>1, <2>2, Bounds DEF Mtime
<1>1. CASE UNCHANGED templateVars
  BY <1>1 DEF templateVars, TemplateInv, TemplateTypeOK, Form, Being, Kept
<1>2. ASSUME now' \in 0 .. MaxTime, now <= now', writes' \in {writes, Append(writes, now)},
             Form' \in 1 .. MaxWrites, UNCHANGED <<kind, entry, compile>>
      PROVE  TemplateInv'
  <2>1. \A c \in Compiled : /\ ReadBefore(c, writes, now) => ReadBefore(c, writes', now')
                            /\ ReadBefore(c, writes, now) /\ StampOfForm(c, writes)
                                 => StampOfForm(c, writes')
    <3>1. /\ writes \in Seq(0 .. MaxTime) /\ now \in 0 .. MaxTime /\ now' \in 0 .. MaxTime
          /\ now <= now' /\ writes' \in {writes, Append(writes, now)}
      BY <1>0, <1>2
    <3> QED BY <3>1, LaterKept, Zenon
  <2>2. TemplateTypeOK'
    <3>1. writes' \in Seq(0 .. MaxTime)
      <4>1. Append(writes, now) \in Seq(0 .. MaxTime)
        BY <1>0, AppendProperties
      <4> QED BY <1>0, <1>2, <4>1
    <3> QED BY <1>0, <1>2, <3>1 DEF TemplateInv, TemplateTypeOK
  <2>3. \A v \in 1 .. Form' : writes'[v] <= now'
    <3>1. CASE writes' = writes
      BY <1>0, <1>2, <3>1, Bounds DEF TemplateInv, Form
    <3>2. CASE writes' = Append(writes, now)
      BY <1>0, <1>2, <3>2, Bounds DEF TemplateInv, Form
    <3> QED BY <1>2, <3>1, <3>2
  <2>4. ASSUME NEW w \in Users
        PROVE  /\ compile'[w] # None => Being(compile[w])'
               /\ entry'[w] # None => Kept(entry[w])'
    <3>1. compile[w] # None => compile[w] \in Compiled /\ Being(compile[w])
      BY <1>0 DEF TemplateInv
    <3>2. entry[w] # None => entry[w] \in Compiled /\ Kept(entry[w])
      BY <1>0 DEF TemplateInv
    <3> QED BY <1>2, <2>1, <3>1, <3>2 DEF Being, Kept
  <2> QED BY <2>2, <2>3, <2>4 DEF TemplateInv
<1>3. CASE Tick
  BY <1>0, <1>2, <1>3, Bounds DEF Tick, Form
<1>4. CASE Rewrite
  <2>1. Len(Append(writes, now)) = Form + 1
    BY <1>0 DEF Form
  <2> QED BY <1>0, <1>2, <1>4, <2>1, Bounds DEF Rewrite, Form
<1>5. ASSUME NEW w \in Workers, ClearTemplates(w)
      PROVE  TemplateInv'
  <2>1. \A v \in Users : entry'[v] \in {None, entry[v]} /\ compile'[v] = compile[v]
    BY <1>5 DEF ClearTemplates
  <2>2. UNCHANGED <<now, kind, writes, compile>> /\ entry' \in [Users -> Compiled \cup {None}]
    BY <1>0, <1>5 DEF ClearTemplates
  <2> QED BY <2>1, <2>2 DEF TemplateInv, TemplateTypeOK, Form, Being, Kept
<1>6. ASSUME NEW w \in Users, ReadSource(w)
      PROVE  TemplateInv'
  <2>1. /\ Noted \in Compiled /\ Being(Noted)
    <3>1. Noted \in Compiled /\ Noted.form = Form /\ Noted.stamp = Mtime /\ Noted.read = now
          /\ Noted.noted = now
      BY <1>0, <1>00 DEF Noted, Compiled
    <3>2. ReadBefore(Noted, writes, now)
      BY <1>0, <1>00, <3>1, Bounds DEF ReadBefore
    <3>3. StampOfForm(Noted, writes)
      BY <1>00, <3>1 DEF StampOfForm
    <3> QED BY <3>1, <3>2, <3>3 DEF Being
  <2>2. /\ UNCHANGED <<now, kind, writes>>
        /\ compile' = [compile EXCEPT ![w] = Noted] /\ entry' = [entry EXCEPT ![w] = None]
    BY <1>6 DEF ReadSource
  <2> QED BY <2>1, <2>2, Replaced
<1>7. ASSUME NEW w \in Users, ReadComponent(w)
      PROVE  TemplateInv'
  <2> DEFINE c == [compile[w] EXCEPT !.form = Form, !.read = now]
  <2>1. compile[w] \in Compiled /\ Being(compile[w])
    BY <1>0, <1>7 DEF ReadComponent, TemplateInv
  <2>2. /\ c \in Compiled /\ c.form = Form /\ c.read = now /\ c.noted = compile[w].noted
        /\ c.stamp = compile[w].stamp
    BY <1>0, <2>1 DEF Compiled
  <2>3. Being(c)
    <3>1. ReadBefore(c, writes, now)
      BY <1>0, <1>00, <2>1, <2>2, Bounds DEF Being, ReadBefore
    <3>2. compile[w].form <= Form /\ compile[w].form \in Nat
      BY <1>00, <2>1, Bounds DEF Being, ReadBefore, Compiled
    <3>3. PICK u \in 1 .. compile[w].form : writes[u] = compile[w].stamp
      BY <2>1 DEF Being, StampOfForm
    <3>4. u \in 1 .. Form
      BY <1>00, <3>2, <3>3
    <3> QED BY <2>2, <3>1, <3>3, <3>4 DEF Being, StampOfForm
  <2>4. /\ UNCHANGED <<now, kind, writes>>
        /\ compile' = [compile EXCEPT ![w] = c] /\ entry' = [entry EXCEPT ![w] = entry[w]]
    BY <1>0, <1>7 DEF ReadComponent
  <2>5. entry[w] \in Compiled \cup {None} /\ (entry[w] # None => Kept(entry[w]))
    BY <1>0 DEF TemplateInv
  <2> HIDE DEF c
  <2> QED BY <2>2, <2>3, <2>4, <2>5, Replaced
<1>8. ASSUME NEW w \in Users, FinishCompile(w)
      PROVE  TemplateInv'
  <2> DEFINE e == IF kind = "template" THEN StampedAfter(w) ELSE compile[w]
  <2>1. compile[w] \in Compiled /\ Being(compile[w])
    BY <1>0, <1>8 DEF FinishCompile, Insert, TemplateInv
  <2>2. e \in Compiled /\ Kept(e)
    <3>1. CASE kind = "template"
      <4>1. Mtime \in 0 .. MaxTime /\ Mtime <= now
        BY <1>00
      <4>2. /\ e \in Compiled /\ e.stamp = Mtime /\ e.noted = now
            /\ e.form = compile[w].form /\ e.read = compile[w].read
        BY <1>0, <2>1, <3>1, <4>1 DEF StampedAfter, Compiled
      <4> HIDE DEF e
      <4> QED BY <1>0, <2>1, <3>1, <4>1, <4>2, Bounds DEF Being, Kept, ReadBefore
    <3>2. CASE kind # "template"
      BY <2>1, <3>2 DEF Being, Kept
    <3> QED BY <3>1, <3>2
  <2>3. /\ UNCHANGED <<now, kind, writes>>
        /\ compile' = [compile EXCEPT ![w] = None] /\ entry' = [entry EXCEPT ![w] = e]
    BY <1>8 DEF FinishCompile, Insert
  <2> HIDE DEF e
  <2> QED BY <2>2, <2>3, Replaced
<1>9. ASSUME NEW w \in Users, CompileFails(w)
      PROVE  TemplateInv'
  <2>1. /\ UNCHANGED <<now, kind, writes>>
        /\ compile' = [compile EXCEPT ![w] = None] /\ entry' = [entry EXCEPT ![w] = entry[w]]
    BY <1>0, <1>9 DEF CompileFails
  <2>2. entry[w] \in Compiled \cup {None} /\ (entry[w] # None => Kept(entry[w]))
    BY <1>0 DEF TemplateInv
  <2> QED BY <2>1, <2>2, Replaced
<1> QED BY <1>1, <1>3, <1>4, <1>5, <1>6, <1>7, <1>8, <1>9 DEF TemplateStep

LEMMA NextIsTemplateStep == [Next]_vars => TemplateStep
<1> SUFFICES ASSUME [Next]_vars PROVE TemplateStep
  OBVIOUS
<1>1. ASSUME NEW w \in Workers,
             \/ BeginRequest(w) \/ ReadFile(w) \/ NoteLoaded(w) \/ UseDatasource(w) \/ EndRequest(w)
             \/ (\E keys \in SUBSET Keys : Configure(w, keys)) \/ ResetToDefaults(w)
             \/ TraceControl(w)
      PROVE  UNCHANGED templateVars \/ ClearTemplates(w)
  BY <1>1, Zenon DEF BeginRequest, ReadFile, NoteLoaded, UseDatasource, EndRequest, Configure,
                     ResetToDefaults, TraceControl, SetTrace, ClearAfterLoad, ClearCaches
<1>2. ASSUME NEW w \in Workers, Save(w)
      PROVE  UNCHANGED templateVars
  BY <1>2 DEF Save, OpenTemporary, OpenFails, WriteTemporary, WriteFails, Rename, RenameWith,
              RenameFails, NoteSaved, Noting, Warn
<1>3. EditFile => UNCHANGED templateVars
  BY DEF EditFile
<1>4. UNCHANGED vars => UNCHANGED templateVars
  BY DEF vars
<1>5. Admins \subseteq Workers
  BY WorkersAssumption
<1> QED BY <1>1, <1>2, <1>3, <1>4, <1>5 DEF Next, TemplateStep

LEMMA TemplatePart == Spec => []TemplateInv
  BY TemplateInvInit, TemplateStepInv, NextIsTemplateStep, PTL DEF Spec

\* TemplateCache::get notes the time of a template after it has compiled it: an old form is
\* served only if the file was written between the reading and the noting.
THEOREM TemplatesCurrent == Spec => []TemplateCurrent
<1>1. ASSUME TemplateInv
      PROVE  TemplateCurrent
  <2> SUFFICES ASSUME NEW w \in Users, kind = "template", Stale(w)
               PROVE  \E v \in entry[w].form + 1 .. Form :
                          writes[v] \in entry[w].read .. entry[w].noted
    BY DEF TemplateCurrent
  <2>1. /\ entry[w] \in Compiled /\ Kept(entry[w]) /\ entry[w].stamp = writes[Form]
        /\ entry[w].form # Form
    BY <1>1 DEF Stale, Hits, Mtime, TemplateInv, TemplateTypeOK
  <2>2. /\ Form \in Nat /\ writes[Form] \in Nat /\ Form = Len(writes)
        /\ entry[w].form \in Nat /\ entry[w].read \in Nat /\ entry[w].noted \in Nat
    BY <1>1, <2>1, Bounds DEF TemplateInv, TemplateTypeOK, Compiled, Form
  <2>3. Form \in entry[w].form + 1 .. Form
    BY <2>1, <2>2 DEF Kept, ReadBefore
  <2>4. entry[w].read <= writes[Form] /\ writes[Form] <= entry[w].noted
    BY <2>1, <2>2, <2>3 DEF Kept, ReadBefore
  <2> QED BY <2>2, <2>3, <2>4
<1> QED BY <1>1, TemplatePart, PTL

\* get_component notes the time before it reads the source, as long before as the compilation
\* takes: an old form is served only if two forms were written in the second noted.
THEOREM ComponentsCurrent == Spec => []ComponentCurrent
<1>1. ASSUME TemplateInv
      PROVE  ComponentCurrent
  <2> SUFFICES ASSUME NEW w \in Users, kind = "component", Stale(w)
               PROVE  \E u \in 1 .. Form, v \in 1 .. Form :
                          u # v /\ writes[u] = Mtime /\ writes[v] = Mtime
    BY DEF ComponentCurrent
  <2>1. /\ entry[w] \in Compiled /\ Kept(entry[w]) /\ entry[w].stamp = Mtime
        /\ entry[w].form # Form
    BY <1>1 DEF Stale, Hits, TemplateInv, TemplateTypeOK
  <2>2. Form \in Nat /\ Form = Len(writes) /\ entry[w].form \in Nat /\ Form > 0
    BY <1>1, <2>1, Bounds DEF TemplateInv, TemplateTypeOK, Compiled, Form
  <2>3. PICK u \in 1 .. entry[w].form : writes[u] = Mtime
    BY <2>1 DEF Kept, StampOfForm
  <2>4. u \in 1 .. Form /\ u # Form /\ Form \in 1 .. Form
    BY <2>1, <2>2 DEF Kept, ReadBefore
  <2> QED BY <2>3, <2>4 DEF Mtime
<1> QED BY <1>1, TemplatePart, PTL

-------------------------------------------------------------------------------
(* Types.                                                                  *)

StepOK ==
    /\ step \in [Workers -> Steps]
    /\ fd \in [Workers -> Inodes \cup {None}]
    /\ \A w \in Workers : fd[w] # None <=> step[w] \in {"write", "rename"}

\* No time noted is later than the last modification.
FilesOK ==
    /\ file \in Inodes /\ tmp \in Inodes \cup {None}
    /\ node \in [Inodes -> Text]
    /\ count \in [sets : 0 .. MaxSets, edits : 0 .. MaxEdits, mtime : 0 .. MaxMtime]
    /\ \A i \in Inodes : node[i].mtime <= count.mtime
    /\ last \in [Workers -> 0 .. count.mtime]

ValuesOK ==
    /\ globals \in [Workers -> Settings]
    /\ trace \in [Workers -> BOOLEAN]
    /\ under \in [Workers -> Settings \cup {None}]

HistOK == hist \in [Workers -> History] /\ \A w \in Workers : hist[w].taken <= count.mtime

Typed == StepOK /\ FilesOK /\ ValuesOK /\ HistOK

LEMMA TypedIsTypeOK == Typed /\ TemplateInv => TypeOK
  BY DEF Typed, StepOK, FilesOK, ValuesOK, HistOK, TemplateInv, TypeOK

LEMMA SetBounds ==
    /\ MaxSets \in Nat /\ MaxEdits \in Nat /\ MaxMtime \in Nat
    /\ None \notin Inodes /\ None \notin Settings
  BY ChangeBounds, NoneIsNoValue

LEMMA TypedInit == Init => Typed
<1> SUFFICES ASSUME Init PROVE Typed
  OBVIOUS
<1>1. Defaults \in Settings
  BY SetBounds DEF Defaults, Settings
<1>2. StepOK
  BY DEF Init, StepOK, Steps
<1>3. FilesOK
  BY <1>1, SetBounds DEF Init, FilesOK, Text
<1>4. ValuesOK
  BY <1>1 DEF Init, ValuesOK
<1>5. HistOK
  BY SetBounds DEF Init, HistOK, History, Took
<1> QED BY <1>2, <1>3, <1>4, <1>5 DEF Typed

\* Where a worker goes, it has a file open exactly between the opening and the closing.
LEMMA StepTo ==
    ASSUME StepOK, NEW w \in Workers, NEW next \in Steps, To(w, next),
           \/ fd' = fd /\ (next \in {"write", "rename"} <=> step[w] \in {"write", "rename"})
           \/ next \notin {"write", "rename"} /\ fd' = [fd EXCEPT ![w] = None]
           \/ \E i \in Inodes : next \in {"write", "rename"} /\ fd' = [fd EXCEPT ![w] = i]
    PROVE  StepOK'
  BY SetBounds DEF StepOK, To

LEMMA StepPart ==
    ASSUME StepOK, [Next]_vars
    PROVE  StepOK'
<1> USE DEF Steps
<1>1. ASSUME NEW w \in Workers,
             \/ BeginRequest(w) \/ ReadFile(w) \/ NoteLoaded(w) \/ EndRequest(w) \/ NoteSaved(w)
             \/ (\E keys \in SUBSET Keys : Configure(w, keys)) \/ ResetToDefaults(w)
      PROVE  StepOK'
  <2>1. /\ fd' = fd /\ step[w] \notin {"write", "rename"}
        /\ \E next \in {"page", "load", "loaded", "idle", "open"} : To(w, next)
    BY <1>1 DEF BeginRequest, ReadFile, NoteLoaded, EndRequest, NoteSaved, Noting, Configure,
                ResetToDefaults
  <2> QED BY <2>1, StepTo
<1>2. ASSUME NEW w \in Workers, OpenTemporary(w)
      PROVE  StepOK'
  BY <1>2, StepTo DEF OpenTemporary
<1>3. ASSUME NEW w \in Workers, WriteTemporary(w)
      PROVE  StepOK'
  BY <1>3, StepTo DEF WriteTemporary
<1>4. ASSUME NEW w \in Workers, Rename(w) \/ OpenFails(w) \/ WriteFails(w) \/ RenameFails(w)
      PROVE  StepOK'
  <2>1. /\ fd' = [fd EXCEPT ![w] = None]
        /\ To(w, "page") \/ To(w, "renamed")
    BY <1>4 DEF Rename, RenameWith, OpenFails, WriteFails, RenameFails, Warn
  <2> QED BY <2>1, StepTo
<1>5. ASSUME UNCHANGED <<step, fd>>
      PROVE  StepOK'
  BY <1>5 DEF StepOK
<1>6. (\E w \in Workers : UseDatasource(w) \/ TraceControl(w)) \/ EditFile \/ UNCHANGED configVars
        => UNCHANGED <<step, fd>>
  BY DEF UseDatasource, TraceControl, EditFile, configVars
<1> QED BY <1>1, <1>2, <1>3, <1>4, <1>5, <1>6, WorkersAssumption DEF Next, Save, vars

\* Nothing but a change to the settings, or a file that is modified, counts.
LEMMA FilesPart ==
    ASSUME StepOK, FilesOK, ValuesOK, [Next]_vars
    PROVE  FilesOK' /\ count.mtime <= count'.mtime
<1> USE SetBounds
<1>0. count \in [sets : 0 .. MaxSets, edits : 0 .. MaxEdits, mtime : 0 .. MaxMtime] /\ FileMtime \in 0 .. count.mtime
  BY DEF FilesOK, FileMtime, Text
<1>1. ASSUME NEW w \in Workers, UNCHANGED files,
             last' = last \/ last' = [last EXCEPT ![w] = FileMtime]
      PROVE  FilesOK' /\ count.mtime <= count'.mtime
  BY <1>0, <1>1 DEF files, FilesOK
<1>2. ASSUME NEW w \in Workers,
             \/ BeginRequest(w) \/ ReadFile(w) \/ NoteLoaded(w) \/ UseDatasource(w) \/ EndRequest(w)
             \/ OpenFails(w) \/ WriteFails(w) \/ RenameFails(w) \/ NoteSaved(w) \/ TraceControl(w)
      PROVE  FilesOK' /\ count.mtime <= count'.mtime
  <2>1. UNCHANGED files /\ (last' = last \/ last' = [last EXCEPT ![w] = FileMtime])
    BY <1>2 DEF BeginRequest, ReadFile, NoteLoaded, UseDatasource, EndRequest, OpenFails,
                WriteFails, RenameFails, Warn, NoteSaved, Noting, TraceControl
  <2> QED BY <1>1, <2>1
<1>3. ASSUME UNCHANGED <<file, tmp, node, last>>, count.sets < MaxSets,
             count' = [count EXCEPT !.sets = @ + 1]
      PROVE  FilesOK' /\ count.mtime <= count'.mtime
  <2>1. count' \in [sets : 0 .. MaxSets, edits : 0 .. MaxEdits, mtime : 0 .. MaxMtime] /\ count'.mtime = count.mtime
    BY <1>0, <1>3
  <2> QED BY <1>0, <1>3, <2>1 DEF FilesOK
<1>4. ASSUME NEW w \in Workers,
             (\E keys \in SUBSET Keys : Configure(w, keys)) \/ ResetToDefaults(w)
      PROVE  FilesOK' /\ count.mtime <= count'.mtime
  BY <1>3, <1>4 DEF Configure, ResetToDefaults
<1>00. \A mtime \in Times : mtime \in 0 .. MaxMtime /\ mtime \in Nat /\ count.mtime <= mtime
  BY <1>0 DEF Times
<1>5. ASSUME NEW i \in Inodes, NEW mtime \in Times, NEW text \in Text, text.mtime = mtime,
             node' = [node EXCEPT ![i] = text],
             count' \in [sets : 0 .. MaxSets, edits : 0 .. MaxEdits, mtime : {mtime}],
             file' = file, tmp' \in Inodes \cup {None}, last' = last
      PROVE  FilesOK' /\ count.mtime <= count'.mtime
  <2>1. count'.mtime = mtime /\ count'.mtime \in Nat /\ count.mtime <= mtime
        /\ count' \in [sets : 0 .. MaxSets, edits : 0 .. MaxEdits, mtime : 0 .. MaxMtime]
    BY <1>0, <1>00, <1>5
  <2>2. node' \in [Inodes -> Text] /\ \A j \in Inodes : node'[j] = IF j = i THEN text ELSE node[j]
    BY <1>5 DEF FilesOK
  <2>3. \A j \in Inodes : node[j].mtime \in Nat
    BY DEF FilesOK, Text
  <2>4. \A j \in Inodes : node'[j].mtime <= count'.mtime
    BY <1>0, <1>5, <2>1, <2>2, <2>3 DEF FilesOK
  <2>5. last' \in [Workers -> 0 .. count'.mtime]
    BY <1>0, <1>5, <2>1 DEF FilesOK
  <2> QED BY <1>0, <1>5, <2>1, <2>2, <2>4, <2>5 DEF FilesOK
<1>6. ASSUME NEW i \in Inodes, NEW state \in {"empty", "whole", "torn", "invalid"},
             NEW settings \in Settings, Modify(i, state, settings),
             file' = file, tmp' \in Inodes \cup {None}, last' = last
      PROVE  FilesOK' /\ count.mtime <= count'.mtime
  <2>0. PICK mtime \in Times :
           /\ node' = [node EXCEPT ![i] = [state |-> state, settings |-> settings, mtime |-> mtime]]
           /\ count' = [count EXCEPT !.mtime = mtime]
    BY <1>6 DEF Modify
  <2> DEFINE text == [state |-> state, settings |-> settings, mtime |-> mtime]
  <2>1. text \in Text /\ text.mtime = mtime
    BY <1>00 DEF Text
  <2>2. node' = [node EXCEPT ![i] = text] /\ count' = [count EXCEPT !.mtime = mtime]
    BY <2>0
  <2>3. count' \in [sets : 0 .. MaxSets, edits : 0 .. MaxEdits, mtime : {mtime}]
    BY <1>0, <2>2
  <2> HIDE DEF text
  <2> QED BY <1>5, <1>6, <2>1, <2>2, <2>3
<1>7. ASSUME NEW w \in Workers, OpenTemporary(w)
      PROVE  FilesOK' /\ count.mtime <= count'.mtime
  <2>1. Defaults \in Settings
    BY DEF Defaults, Settings
  <2>2. PICK i \in Inodes : tmp' = i /\ Modify(i, "empty", Defaults)
    BY <1>7 DEF OpenTemporary
  <2>3. file' = file /\ last' = last
    BY <1>7 DEF OpenTemporary
  <2> QED BY <1>6, <2>1, <2>2, <2>3
<1>8. ASSUME NEW w \in Workers, WriteTemporary(w)
      PROVE  FilesOK' /\ count.mtime <= count'.mtime
  <2>1. PICK state \in {"whole", "torn"} : Modify(fd[w], state, globals[w])
    BY <1>8 DEF WriteTemporary
  <2>2. fd[w] \in Inodes /\ globals[w] \in Settings
    BY <1>8 DEF WriteTemporary, StepOK, ValuesOK
  <2>3. file' = file /\ tmp' = tmp /\ last' = last
    BY <1>8 DEF WriteTemporary
  <2> QED BY <1>6, <2>1, <2>2, <2>3 DEF FilesOK
<1>9. ASSUME NEW w \in Workers, Rename(w)
      PROVE  FilesOK' /\ count.mtime <= count'.mtime
  BY <1>0, <1>9 DEF Rename, RenameWith, FilesOK
<1>10. CASE EditFile
  <2>0. PICK mtime \in Times :
           /\ node' = [node EXCEPT ![file].state = "invalid", ![file].mtime = mtime]
           /\ count' = [count EXCEPT !.mtime = mtime, !.edits = @ + 1]
    BY <1>10 DEF EditFile
  <2> DEFINE text == [node[file] EXCEPT !.state = "invalid", !.mtime = mtime]
  <2>1. text \in Text /\ text.mtime = mtime
    <3>1. node[file] \in Text /\ mtime \in 0 .. MaxMtime
      BY <1>00 DEF FilesOK
    <3> QED BY <3>1 DEF Text
  <2>2. /\ node' = [node EXCEPT ![file] = text]
        /\ count' = [count EXCEPT !.mtime = mtime, !.edits = @ + 1] /\ count.edits < MaxEdits
        /\ file' = file /\ tmp' = tmp /\ last' = last
    BY <1>10, <2>0 DEF EditFile, FilesOK
  <2>3. count' \in [sets : 0 .. MaxSets, edits : 0 .. MaxEdits, mtime : {mtime}]
    <3>1. /\ count.sets \in 0 .. MaxSets /\ count.edits + 1 \in 0 .. MaxEdits
          /\ count' = [sets |-> count.sets, edits |-> count.edits + 1, mtime |-> mtime]
      <4>1. /\ count.sets \in 0 .. MaxSets /\ count.edits \in 0 .. MaxEdits
            /\ count = [sets |-> count.sets, edits |-> count.edits, mtime |-> count.mtime]
        BY <1>0
      <4>2. count' = [sets |-> count.sets, edits |-> count.edits + 1, mtime |-> mtime]
        BY <2>2, <4>1, Zenon
      <4>3. count.edits + 1 \in 0 .. MaxEdits
        BY <2>2, <4>1
      <4> QED BY <4>1, <4>2, <4>3
    <3> QED BY <3>1
  <2> HIDE DEF text
  <2> QED BY <1>5, <2>1, <2>2, <2>3 DEF FilesOK
<1>11. CASE UNCHANGED configVars
  BY <1>0, <1>11 DEF configVars, FilesOK
<1> QED BY <1>2, <1>4, <1>7, <1>8, <1>9, <1>10, <1>11, WorkersAssumption DEF Next, Save, vars

\* The settings of a worker after it has changed "keys", all of them at a reset.
Changed(w, keys) == [k \in Keys |-> IF k \in keys THEN count.sets + 1 ELSE globals[w][k]]

\* A step of a worker's history.
HistOf(w, t) ==
    /\ hist' \in [Workers -> History]
    /\ \A v \in Workers \ {w} : hist'[v] = hist[v]
    /\ hist'[w].taken = t

LEMMA ChangeEffect ==
    ASSUME Typed, NEW w \in Workers,
           (\E keys \in SUBSET Keys : Configure(w, keys)) \/ ResetToDefaults(w)
    PROVE  /\ step[w] = "page" /\ count.sets < MaxSets /\ UNCHANGED <<last, fd, file, tmp, node>>
           /\ count' = [count EXCEPT !.sets = @ + 1]
           /\ \E keys \in SUBSET Keys : globals' = [globals EXCEPT ![w] = Changed(w, keys)]
           /\ under' = under \/ under' = [under EXCEPT ![w] = None]
           /\ \E on \in BOOLEAN : trace' = [trace EXCEPT ![w] = on]
           /\ HistOf(w, hist[w].taken) /\ hist'[w].changed /\ hist'[w].overtaken = hist[w].overtaken
           /\ To(w, "open") \/ (To(w, "page") /\ hist'[w].rejected)
<1>0. hist \in [Workers -> History] /\ hist[w] \in History /\ globals \in [Workers -> Settings]
  BY DEF Typed, HistOK, ValuesOK
<1>1. ASSUME hist' = [hist EXCEPT ![w].changed = TRUE]
      PROVE  HistOf(w, hist[w].taken) /\ hist'[w].changed /\ hist'[w].overtaken = hist[w].overtaken
  BY <1>0, <1>1 DEF HistOf, History
<1>2. ASSUME hist' = [hist EXCEPT ![w].rejected = TRUE, ![w].changed = TRUE]
      PROVE  HistOf(w, hist[w].taken) /\ hist'[w].changed /\ hist'[w].rejected
             /\ hist'[w].overtaken = hist[w].overtaken
  BY <1>0, <1>2 DEF HistOf, History
<1>3. ASSUME NEW keys \in SUBSET Keys, Configure(w, keys)
      PROVE  /\ globals' = [globals EXCEPT ![w] = Changed(w, keys)]
             /\ HistOf(w, hist[w].taken) /\ hist'[w].changed /\ hist'[w].overtaken = hist[w].overtaken
             /\ To(w, "open") \/ (To(w, "page") /\ hist'[w].rejected)
  <2>1. globals' = [globals EXCEPT ![w] = Changed(w, keys)]
    BY <1>0, <1>3 DEF Configure, Changed
  <2> QED BY <1>1, <1>2, <1>3, <2>1 DEF Configure
<1>4. ASSUME ResetToDefaults(w)
      PROVE  /\ globals' = [globals EXCEPT ![w] = Changed(w, Keys)]
             /\ HistOf(w, hist[w].taken) /\ hist'[w].changed /\ hist'[w].overtaken = hist[w].overtaken
             /\ To(w, "open")
  <2>1. globals' = [globals EXCEPT ![w] = Changed(w, Keys)]
    BY <1>0, <1>4 DEF ResetToDefaults, Changed
  <2> QED BY <1>1, <1>4, <2>1 DEF ResetToDefaults
<1>5. /\ step[w] = "page" /\ count.sets < MaxSets /\ UNCHANGED <<last, fd, file, tmp, node>>
      /\ count' = [count EXCEPT !.sets = @ + 1]
      /\ under' = under \/ under' = [under EXCEPT ![w] = None]
      /\ \E on \in BOOLEAN : trace' = [trace EXCEPT ![w] = on]
  BY DEF Configure, ResetToDefaults, SetTrace, ClearCaches
<1> QED BY <1>3, <1>4, <1>5

\* The file has been read, or was found not to be JSON.
LEMMA ReadEffect ==
    ASSUME Typed, NEW w \in Workers, ReadFile(w)
    PROVE  /\ step[w] = "load" /\ UNCHANGED <<last, fd, files>>
           /\ \/ /\ Parses /\ To(w, "loaded")
                 /\ under' = under \/ under' = [under EXCEPT ![w] = None]
                 /\ trace' = [trace EXCEPT ![w] = FALSE]
                 /\ globals' = [globals EXCEPT ![w] = node[file].settings]
                 /\ HistOf(w, FileMtime) /\ ~hist'[w].rejected /\ ~hist'[w].changed
              \/ /\ ~Parses /\ To(w, "page") /\ under' = [under EXCEPT ![w] = None]
                 /\ UNCHANGED <<globals, trace>>
                 /\ HistOf(w, hist[w].taken) /\ hist'[w].rejected = hist[w].rejected
                 /\ hist'[w].overtaken = hist[w].overtaken
<1>0. hist \in [Workers -> History] /\ hist[w] \in History /\ FileMtime \in 0 .. MaxMtime
  BY DEF Typed, HistOK, FilesOK, FileMtime, Text
<1>1. ASSUME hist' = [hist EXCEPT ![w] = Took(FileMtime)]
      PROVE  HistOf(w, FileMtime) /\ ~hist'[w].rejected /\ ~hist'[w].changed
  BY <1>0, <1>1 DEF HistOf, History, Took
<1>2. ASSUME hist' = [hist EXCEPT ![w].changed = FALSE]
      PROVE  HistOf(w, hist[w].taken) /\ hist'[w].rejected = hist[w].rejected
             /\ hist'[w].overtaken = hist[w].overtaken
  BY <1>0, <1>2 DEF HistOf, History
<1> QED BY <1>1, <1>2 DEF ReadFile, SetTrace, ClearAfterLoad, ClearCaches

\* A call of save has failed.
LEMMA WarnEffect ==
    ASSUME Typed, NEW w \in Workers, OpenFails(w) \/ WriteFails(w) \/ RenameFails(w)
    PROVE  /\ step[w] \in {"open", "write", "rename"} /\ To(w, "page")
           /\ fd' = [fd EXCEPT ![w] = None] /\ UNCHANGED <<globals, trace, last, files, under>>
           /\ HistOf(w, hist[w].taken) /\ hist'[w].rejected /\ hist'[w].changed = hist[w].changed
<1>1. hist' = [hist EXCEPT ![w].rejected = TRUE]
  BY DEF OpenFails, WriteFails, RenameFails, Warn
<1>2. HistOf(w, hist[w].taken) /\ hist'[w].rejected /\ hist'[w].changed = hist[w].changed
  BY <1>1 DEF HistOf, History, Typed, HistOK
<1> QED BY <1>2 DEF OpenFails, WriteFails, RenameFails, Warn

\* Another text is put in place: nobody who has taken one of its time is reckoned to have it.
PutInPlace(v, t) ==
    /\ hist'[v].taken = hist[v].taken /\ hist'[v].rejected = hist[v].rejected
    /\ hist'[v].changed = hist[v].changed
    /\ hist[v].overtaken \/ hist[v].taken = t => hist'[v].overtaken

LEMMA OvertakenEffect ==
    ASSUME Typed, NEW t
    PROVE  /\ Overtaken(t) \in [Workers -> History]
           /\ \A v \in Workers :
                 /\ Overtaken(t)[v].taken = hist[v].taken /\ Overtaken(t)[v].rejected = hist[v].rejected
                 /\ Overtaken(t)[v].changed = hist[v].changed
                 /\ hist[v].overtaken \/ hist[v].taken = t => Overtaken(t)[v].overtaken
<1> SUFFICES ASSUME NEW v \in Workers
             PROVE  /\ Overtaken(t)[v] \in History
                    /\ Overtaken(t)[v].taken = hist[v].taken /\ Overtaken(t)[v].rejected = hist[v].rejected
                    /\ Overtaken(t)[v].changed = hist[v].changed
                    /\ hist[v].overtaken \/ hist[v].taken = t => Overtaken(t)[v].overtaken
  BY DEF Overtaken
<1>1. hist[v] \in History
  BY DEF Typed, HistOK
<1>2. Overtaken(t)[v] = IF hist[v].taken = t THEN [hist[v] EXCEPT !.overtaken = TRUE] ELSE hist[v]
  BY DEF Overtaken
<1> QED BY <1>1, <1>2 DEF History

LEMMA RenameEffect ==
    ASSUME Typed, NEW w \in Workers, Rename(w)
    PROVE  /\ step[w] = "rename" /\ To(w, "renamed") /\ tmp \in Inodes
           /\ fd' = [fd EXCEPT ![w] = None] /\ file' = tmp /\ tmp' = None
           /\ UNCHANGED <<globals, trace, last, node, count, under>>
           /\ hist' \in [Workers -> History] /\ hist'[w].taken = node[tmp].mtime
           /\ \A v \in Workers \ {w} : PutInPlace(v, node[tmp].mtime)
           /\ \A v \in Workers : hist'[v].changed = hist[v].changed
<1> DEFINE old == Overtaken(node[tmp].mtime)
<1>1. /\ hist' = [old EXCEPT ![w].taken = node[tmp].mtime, ![w].overtaken = FALSE]
      /\ tmp \in Inodes
  BY DEF Rename, RenameWith, Typed, FilesOK
<1>2. node[tmp].mtime \in 0 .. MaxMtime
  BY <1>1 DEF Typed, FilesOK, Text
<1>3. /\ old \in [Workers -> History]
      /\ \A v \in Workers :
            /\ old[v].taken = hist[v].taken /\ old[v].rejected = hist[v].rejected
            /\ old[v].changed = hist[v].changed
            /\ hist[v].overtaken \/ hist[v].taken = node[tmp].mtime => old[v].overtaken
  BY OvertakenEffect
<1> HIDE DEF old
<1>4. /\ \A v \in Workers \ {w} : hist'[v] = old[v]
      /\ hist'[w] = [old[w] EXCEPT !.taken = node[tmp].mtime, !.overtaken = FALSE]
      /\ hist' \in [Workers -> History] /\ hist'[w].taken = node[tmp].mtime
      /\ hist'[w].changed = old[w].changed
  BY <1>1, <1>2, <1>3 DEF History
<1>5. \A v \in Workers \ {w} : PutInPlace(v, node[tmp].mtime)
  BY <1>3, <1>4 DEF PutInPlace
<1> QED BY <1>1, <1>3, <1>4, <1>5 DEF Rename, RenameWith

LEMMA NoteSavedEffect ==
    ASSUME Typed, NEW w \in Workers, NoteSaved(w)
    PROVE  /\ step[w] = "renamed" /\ To(w, "page") /\ last' = [last EXCEPT ![w] = FileMtime]
           /\ UNCHANGED <<globals, trace, fd, files, under>>
           /\ HistOf(w, hist[w].taken) /\ hist'[w].changed = hist[w].changed
           /\ hist'[w].overtaken = hist[w].overtaken
<1>1. hist' = [hist EXCEPT ![w].rejected = FALSE]
  BY DEF NoteSaved, Noting
<1>2. /\ HistOf(w, hist[w].taken) /\ hist'[w].changed = hist[w].changed
      /\ hist'[w].overtaken = hist[w].overtaken
  BY <1>1 DEF HistOf, History, Typed, HistOK
<1> QED BY <1>2 DEF NoteSaved, Noting

\* Every other step of a worker leaves what it has of the settings alone.
OtherStep ==
    \/ \E w \in Workers :
          \/ BeginRequest(w) \/ NoteLoaded(w) \/ UseDatasource(w) \/ EndRequest(w)
          \/ OpenTemporary(w) \/ WriteTemporary(w) \/ TraceControl(w)
    \/ UNCHANGED configVars

LEMMA NextSteps ==
    [Next]_vars =>
        \/ \E w \in Workers :
              \/ ReadFile(w) \/ OpenFails(w) \/ WriteFails(w) \/ RenameFails(w) \/ Rename(w)
              \/ NoteSaved(w)
        \/ \E w \in Admins :
              (\E keys \in SUBSET Keys : Configure(w, keys)) \/ ResetToDefaults(w)
        \/ EditFile \/ OtherStep
  BY WorkersAssumption DEF Next, Save, OtherStep, vars

LEMMA OtherEffect ==
    ASSUME OtherStep
    PROVE  UNCHANGED <<globals, hist>>
  BY DEF OtherStep, BeginRequest, NoteLoaded, UseDatasource, EndRequest, OpenTemporary,
         WriteTemporary, TraceControl, configVars

LEMMA ChangedTyped ==
    ASSUME Typed, NEW w \in Workers, NEW keys \in SUBSET Keys, count.sets < MaxSets
    PROVE  /\ Changed(w, keys) \in Settings
           /\ \A k \in Keys : Changed(w, keys)[k] = IF k \in keys THEN count.sets + 1 ELSE globals[w][k]
<1>1. globals[w] \in Settings /\ count.sets \in 0 .. MaxSets
  BY DEF Typed, ValuesOK, FilesOK
<1> QED BY <1>1, SetBounds DEF Changed, Settings

LEMMA ValuesPart ==
    ASSUME Typed, [Next]_vars
    PROVE  ValuesOK'
<1>0. ValuesOK /\ Admins \subseteq Workers /\ node[file].settings \in Settings
  BY WorkersAssumption DEF Typed, FilesOK, Text
<1>1. ASSUME NEW w \in Workers, ReadFile(w)
      PROVE  ValuesOK'
  BY <1>0, <1>1, ReadEffect DEF ValuesOK
<1>2. ASSUME NEW w \in Workers,
             OpenFails(w) \/ WriteFails(w) \/ RenameFails(w) \/ Rename(w) \/ NoteSaved(w)
      PROVE  ValuesOK'
  <2>1. UNCHANGED <<globals, trace, under>>
    BY <1>2, WarnEffect, RenameEffect, NoteSavedEffect
  <2> QED BY <1>0, <2>1 DEF ValuesOK
<1>3. ASSUME NEW w \in Workers,
             (\E keys \in SUBSET Keys : Configure(w, keys)) \/ ResetToDefaults(w)
      PROVE  ValuesOK'
  <2>1. /\ count.sets < MaxSets
        /\ \E keys \in SUBSET Keys : globals' = [globals EXCEPT ![w] = Changed(w, keys)]
        /\ under' = under \/ under' = [under EXCEPT ![w] = None]
        /\ \E on \in BOOLEAN : trace' = [trace EXCEPT ![w] = on]
    BY <1>3, ChangeEffect
  <2>2. \A keys \in SUBSET Keys : Changed(w, keys) \in Settings
    BY <2>1, ChangedTyped
  <2> QED BY <1>0, <2>1, <2>2 DEF ValuesOK
<1>4. ASSUME OtherStep
      PROVE  ValuesOK'
  <2>1. globals' = globals
    BY <1>4, OtherEffect
  <2>2. under' = under \/ \E w \in Workers : under' = [under EXCEPT ![w] = None]
                                           \/ under' = [under EXCEPT ![w] = globals[w]]
    BY <1>4 DEF OtherStep, BeginRequest, NoteLoaded, ClearAfterLoad, ClearCaches, UseDatasource,
                EndRequest, OpenTemporary, WriteTemporary, TraceControl, configVars
  <2>3. trace' \in [Workers -> BOOLEAN]
    <3>1. trace' = trace \/ \E w \in Workers, on \in BOOLEAN : trace' = [trace EXCEPT ![w] = on]
      <4>1. \A w \in Workers : {FALSE, trace[w]} \subseteq BOOLEAN
        BY <1>0 DEF ValuesOK
      <4>2. ASSUME NEW w \in Workers, EndRequest(w)
            PROVE  \E on \in BOOLEAN : trace' = [trace EXCEPT ![w] = on]
        BY <4>1, <4>2 DEF EndRequest
      <4>3. ASSUME NEW w \in Workers, TraceControl(w)
            PROVE  \E on \in BOOLEAN : trace' = [trace EXCEPT ![w] = on]
        BY <4>3 DEF TraceControl
      <4>4. ASSUME NEW w \in Workers, BeginRequest(w) \/ NoteLoaded(w) \/ UseDatasource(w)
                                      \/ OpenTemporary(w) \/ WriteTemporary(w)
            PROVE  trace' = trace
        BY <4>4 DEF BeginRequest, NoteLoaded, UseDatasource, OpenTemporary, WriteTemporary
      <4> QED BY <1>4, <4>2, <4>3, <4>4 DEF OtherStep, configVars
    <3> QED BY <1>0, <3>1 DEF ValuesOK
  <2> QED BY <1>0, <2>1, <2>2, <2>3 DEF ValuesOK
<1>5. CASE EditFile
  BY <1>0, <1>5 DEF EditFile, ValuesOK
<1> QED BY <1>0, <1>1, <1>2, <1>3, <1>4, <1>5, NextSteps

LEMMA HistPart ==
    ASSUME Typed, [Next]_vars
    PROVE  HistOK'
<1>0. /\ Admins \subseteq Workers /\ hist \in [Workers -> History]
      /\ \A v \in Workers : hist[v].taken \in Nat /\ hist[v].taken <= count.mtime
      /\ \A i \in Inodes : node[i].mtime \in Nat /\ node[i].mtime <= count.mtime
  BY WorkersAssumption DEF Typed, HistOK, History, FilesOK, Text
<1>1. count.mtime <= count'.mtime /\ count.mtime \in Nat /\ count'.mtime \in Nat
  BY FilesPart DEF Typed, FilesOK
<1>2. ASSUME NEW w \in Workers, NEW t \in Nat, HistOf(w, t), t <= count.mtime
      PROVE  HistOK'
  BY <1>0, <1>1, <1>2 DEF HistOK, HistOf
<1>3. ASSUME NEW w \in Workers,
             \/ ReadFile(w) \/ OpenFails(w) \/ WriteFails(w) \/ RenameFails(w)
             \/ NoteSaved(w) \/ (\E keys \in SUBSET Keys : Configure(w, keys))
             \/ ResetToDefaults(w)
      PROVE  HistOK'
  <2>1. HistOf(w, hist[w].taken) \/ HistOf(w, FileMtime)
    BY <1>3, ReadEffect, WarnEffect, NoteSavedEffect, ChangeEffect
  <2>2. FileMtime \in Nat /\ FileMtime <= count.mtime
    BY <1>0 DEF FileMtime, Typed, FilesOK
  <2> QED BY <1>0, <1>2, <2>1, <2>2
<1>4. ASSUME OtherStep
      PROVE  HistOK'
  BY <1>0, <1>1, <1>4, OtherEffect DEF HistOK
<1>5. ASSUME NEW w \in Workers, Rename(w)
      PROVE  HistOK'
  <2>1. /\ hist' \in [Workers -> History] /\ hist'[w].taken = node[tmp].mtime /\ tmp \in Inodes
        /\ \A v \in Workers \ {w} : hist'[v].taken = hist[v].taken
    BY <1>5, RenameEffect DEF PutInPlace
  <2>2. \A v \in Workers : hist'[v].taken \in Nat /\ hist'[v].taken <= count.mtime
    BY <1>0, <2>1
  <2> QED BY <1>1, <2>1, <2>2 DEF HistOK
<1>6. CASE EditFile
  <2>1. PICK t : hist' = Overtaken(t)
    BY <1>6 DEF EditFile
  <2>2. hist' \in [Workers -> History] /\ \A v \in Workers : hist'[v].taken = hist[v].taken
    BY <2>1, OvertakenEffect
  <2> QED BY <1>0, <1>1, <2>2 DEF HistOK
<1> QED BY <1>0, <1>3, <1>4, <1>5, <1>6, NextSteps

LEMMA TypedStep ==
    ASSUME Typed, [Next]_vars
    PROVE  Typed'
  BY StepPart, FilesPart, ValuesPart, HistPart DEF Typed

LEMMA TypedAlways == Spec => []Typed
  BY TypedInit, TypedStep, PTL DEF Spec

\* A worker has the temporary file open exactly while config::save is between fopen and
\* fclose, whatever fails, and never notes a time the file has not had.
THEOREM ConfigurationTypeCorrect == Spec => []TypeOK
  BY TypedIsTypeOK, TypedAlways, TemplatePart, PTL

-------------------------------------------------------------------------------
(* Connections of earlier settings.                                        *)

\* Between the reading of the file and the clearing a worker may have any.
Lingers ==
    \A w \in Workers : step[w] # "loaded" /\ under[w] \notin {None, globals[w]} => hist[w].changed

LEMMA LingersStep ==
    ASSUME Typed, Lingers, [Next]_vars
    PROVE  Lingers'
<1> USE DEF Lingers
<1>0. /\ step \in [Workers -> Steps] /\ globals \in [Workers -> Settings]
      /\ under \in [Workers -> Settings \cup {None}] /\ Admins \subseteq Workers
  BY WorkersAssumption DEF Typed, StepOK, ValuesOK
<1>1. ASSUME NEW w \in Workers, NEW next \in Steps, To(w, next),
             globals' = globals \/ \E s : globals' = [globals EXCEPT ![w] = s],
             under' = under \/ \E s : under' = [under EXCEPT ![w] = s],
             \A v \in Workers \ {w} : hist'[v] = hist[v],
             next # "loaded" /\ under'[w] \notin {None, globals'[w]} => hist'[w].changed
      PROVE  Lingers'
  BY <1>0, <1>1 DEF To
<1>2. ASSUME NEW w \in Workers, ReadFile(w)
      PROVE  Lingers'
  <2>1. /\ To(w, "loaded") \/ (To(w, "page") /\ under' = [under EXCEPT ![w] = None])
        /\ globals' = globals \/ \E s : globals' = [globals EXCEPT ![w] = s]
        /\ under' = under \/ \E s : under' = [under EXCEPT ![w] = s]
        /\ \A v \in Workers \ {w} : hist'[v] = hist[v]
    BY <1>2, ReadEffect DEF HistOf
  <2> QED BY <1>0, <1>1, <2>1 DEF Steps
<1>3. ASSUME NEW w \in Workers,
             OpenFails(w) \/ WriteFails(w) \/ RenameFails(w) \/ Rename(w) \/ NoteSaved(w)
      PROVE  Lingers'
  <2>1. /\ UNCHANGED <<globals, under>>
        /\ \A v \in Workers : hist'[v].changed = hist[v].changed
        /\ To(w, "page") \/ To(w, "renamed")
        /\ step[w] \in {"open", "write", "rename", "renamed"}
    BY <1>3, WarnEffect, RenameEffect, NoteSavedEffect DEF HistOf
  <2> QED BY <1>0, <2>1 DEF To
<1>4. ASSUME NEW w \in Workers,
             (\E keys \in SUBSET Keys : Configure(w, keys)) \/ ResetToDefaults(w)
      PROVE  Lingers'
  <2>1. /\ hist'[w].changed /\ \A v \in Workers \ {w} : hist'[v] = hist[v]
        /\ \E s : globals' = [globals EXCEPT ![w] = s]
        /\ under' = under \/ \E s : under' = [under EXCEPT ![w] = s]
        /\ To(w, "page") \/ To(w, "open")
    BY <1>4, ChangeEffect DEF HistOf
  <2> QED BY <1>1, <2>1 DEF Steps
<1>5. ASSUME OtherStep
      PROVE  Lingers'
  <2>1. UNCHANGED <<globals, hist>>
    BY <1>5, OtherEffect
  <2>2. ASSUME NEW w \in Workers, NoteLoaded(w)
        PROVE  Lingers'
    BY <1>0, <2>1, <2>2 DEF NoteLoaded, ClearAfterLoad, ClearCaches, To
  <2>3. ASSUME NEW w \in Workers, UseDatasource(w)
        PROVE  Lingers'
    BY <1>0, <2>1, <2>3 DEF UseDatasource
  <2>4. ASSUME NEW w \in Workers, \/ BeginRequest(w) \/ EndRequest(w) \/ OpenTemporary(w)
                                  \/ WriteTemporary(w) \/ TraceControl(w)
        PROVE  Lingers'
    <3>1. /\ under' = under /\ step[w] # "loaded"
          /\ \A v \in Workers \ {w} : step'[v] = step[v]
      BY <1>0, <2>4 DEF BeginRequest, EndRequest, OpenTemporary, WriteTemporary, TraceControl, To
    <3> QED BY <2>1, <3>1
  <2>5. CASE UNCHANGED configVars
    BY <2>1, <2>5 DEF configVars
  <2> QED BY <1>5, <2>2, <2>3, <2>4, <2>5 DEF OtherStep
<1>6. CASE EditFile
  <2>1. UNCHANGED <<step, globals, under>> /\ \E t : hist' = Overtaken(t)
    BY <1>6 DEF EditFile
  <2>2. \A v \in Workers : hist'[v].changed = hist[v].changed
    BY <2>1, OvertakenEffect
  <2> QED BY <2>1, <2>2
<1> QED BY <1>0, <1>2, <1>3, <1>4, <1>5, <1>6, NextSteps

\* process_request clears the connections and the compiled forms whenever reloadIfChanged has
\* tried to read the file: a page works with a connection of other settings only where the
\* worker's own administrator page has changed them.
THEOREM OnlyOwnLinger == Spec => []OnlyOwnChangesLinger
<1>1. Init => Lingers
  BY DEF Init, Lingers
<1>2. Lingers => OnlyOwnChangesLinger
  BY DEF Lingers, OnlyOwnChangesLinger
<1> QED BY <1>1, <1>2, LingersStep, TypedInit, TypedStep, PTL DEF Spec

-------------------------------------------------------------------------------
(* One administrator at a time.                                            *)

OneAdministrator == \A v, w \in Admins : v = w

Saving(w) == step[w] \in {"open", "write", "rename"}

AdminsSave == \A w \in Workers : Saving(w) \/ step[w] = "renamed" => w \in Admins

\* Nobody else has the temporary file, and what it says when it is renamed is what the
\* administrator's worker has.
OwnTemporary ==
    /\ file # tmp
    /\ \A w \in Workers : fd[w] # None =>
          /\ fd[w] = tmp
          /\ step[w] = "write" => node[tmp].state = "empty"
          /\ step[w] = "rename" => node[tmp].state = "whole" /\ node[tmp].settings = globals[w]

SaveInv == AdminsSave /\ OwnTemporary /\ FileWhole

LEMMA OpenEffect ==
    ASSUME Typed, SaveInv, NEW w \in Workers, OpenTemporary(w)
    PROVE  /\ step[w] = "open" /\ To(w, "write") /\ UNCHANGED <<globals, last, file, under, hist>>
           /\ \E i \in Inodes \ {file} :
                 /\ tmp' = i /\ fd' = [fd EXCEPT ![w] = i]
                 /\ \A j \in Inodes \ {i} : node'[j] = node[j]
                 /\ node'[i].state = "empty" /\ count'.sets = count.sets
<1>1. PICK i \in Inodes : /\ IF tmp = None THEN Free(i) ELSE i = tmp
                          /\ tmp' = i /\ fd' = [fd EXCEPT ![w] = i] /\ Modify(i, "empty", Defaults)
  BY DEF OpenTemporary
<1>2. i # file
  BY <1>1 DEF Free, SaveInv, OwnTemporary
<1>3. node \in [Inodes -> Text] /\ count \in [sets : 0 .. MaxSets, edits : 0 .. MaxEdits, mtime : 0 .. MaxMtime]
  BY DEF Typed, FilesOK
<1>4. /\ \A j \in Inodes \ {i} : node'[j] = node[j]
      /\ node'[i].state = "empty" /\ count'.sets = count.sets
  BY <1>1, <1>3 DEF Modify
<1> QED BY <1>1, <1>2, <1>4 DEF OpenTemporary

LEMMA WriteEffect ==
    ASSUME Typed, SaveInv, NEW w \in Workers, WriteTemporary(w)
    PROVE  /\ step[w] = "write" /\ To(w, "rename")
           /\ UNCHANGED <<globals, last, file, tmp, fd, under, hist>>
           /\ fd[w] = tmp /\ tmp \in Inodes \ {file}
           /\ \A j \in Inodes \ {tmp} : node'[j] = node[j]
           /\ node'[tmp].state = "whole" /\ node'[tmp].settings = globals[w]
           /\ count'.sets = count.sets
<1>1. step[w] = "write" /\ fd[w] \in Inodes /\ fd[w] # None
  BY SetBounds DEF WriteTemporary, Typed, StepOK
<1>2. fd[w] = tmp /\ tmp # file /\ node[tmp].state = "empty"
  BY <1>1 DEF SaveInv, OwnTemporary
<1>3. Modify(tmp, "whole", globals[w])
  BY <1>2 DEF WriteTemporary
<1>4. node \in [Inodes -> Text] /\ count \in [sets : 0 .. MaxSets, edits : 0 .. MaxEdits, mtime : 0 .. MaxMtime]
  BY DEF Typed, FilesOK
<1>5. /\ \A j \in Inodes \ {tmp} : node'[j] = node[j]
      /\ node'[tmp].state = "whole" /\ node'[tmp].settings = globals[w]
      /\ count'.sets = count.sets
  BY <1>1, <1>2, <1>3, <1>4 DEF Modify
<1> QED BY <1>1, <1>2, <1>5 DEF WriteTemporary

LEMMA EditEffect ==
    ASSUME Typed, EditFile
    PROVE  /\ Whole /\ UNCHANGED <<step, globals, last, fd, file, tmp, under>>
           /\ \A j \in Inodes \ {file} : node'[j] = node[j]
           /\ node'[file].state = "invalid" /\ node'[file].settings = node[file].settings
           /\ count'.sets = count.sets
           /\ \A v \in Workers : PutInPlace(v, node'[file].mtime)
<1>1. /\ node \in [Inodes -> Text] /\ file \in Inodes /\ node[file] \in Text
      /\ count \in [sets : 0 .. MaxSets, edits : 0 .. MaxEdits, mtime : 0 .. MaxMtime]
  BY DEF Typed, FilesOK
<1>2. PICK t \in Times :
         /\ node' = [node EXCEPT ![file].state = "invalid", ![file].mtime = t]
         /\ count' = [count EXCEPT !.mtime = t, !.edits = @ + 1]
         /\ hist' = Overtaken(t)
  BY DEF EditFile
<1>3. count'.sets = count.sets
  BY <1>1, <1>2
<1>4. /\ \A j \in Inodes \ {file} : node'[j] = node[j]
      /\ node'[file].state = "invalid" /\ node'[file].settings = node[file].settings
      /\ node'[file].mtime = t
  BY <1>1, <1>2 DEF Text
<1>5. \A v \in Workers : PutInPlace(v, t)
  BY <1>2, OvertakenEffect DEF PutInPlace
<1> QED BY <1>3, <1>4, <1>5 DEF EditFile

\* The steps that touch no file.
QuietStep ==
    \E w \in Workers : \/ BeginRequest(w) \/ NoteLoaded(w) \/ UseDatasource(w) \/ EndRequest(w)
                       \/ TraceControl(w)

LEMMA OtherSteps ==
    OtherStep => \/ \E w \in Workers : OpenTemporary(w) \/ WriteTemporary(w)
                 \/ QuietStep \/ UNCHANGED configVars
  BY DEF OtherStep, QuietStep

LEMMA QuietEffect ==
    ASSUME Typed, QuietStep
    PROVE  /\ UNCHANGED <<globals, fd, files, hist>>
           /\ \A w \in Workers : \/ step'[w] = step[w]
                                 \/ /\ step'[w] \in {"page", "load", "idle"}
                                    /\ step[w] \in {"idle", "loaded", "page"}
<1>1. step \in [Workers -> Steps]
  BY DEF Typed, StepOK
<1> QED BY <1>1 DEF QuietStep, BeginRequest, NoteLoaded, UseDatasource, EndRequest, TraceControl, To

LEMMA SaveStep ==
    ASSUME OneAdministrator, Typed, SaveInv, [Next]_vars
    PROVE  SaveInv'
<1> USE DEF SaveInv
<1>0. /\ step \in [Workers -> Steps] /\ fd \in [Workers -> Inodes \cup {None}]
      /\ Admins \subseteq Workers /\ None \notin Inodes /\ file \in Inodes
      /\ \A w \in Workers : fd[w] # None <=> step[w] \in {"write", "rename"}
  BY WorkersAssumption, SetBounds DEF Typed, StepOK, FilesOK
<1>1. \A v, w \in Workers : (Saving(v) \/ step[v] = "renamed") /\ (Saving(w) \/ step[w] = "renamed")
                            => v = w
  BY DEF AdminsSave, OneAdministrator
<1>2. ASSUME NEW w \in Workers, ReadFile(w)
      PROVE  SaveInv'
  <2>1. UNCHANGED <<fd, files>> /\ step[w] = "load" /\ (To(w, "loaded") \/ To(w, "page"))
        /\ \A v \in Workers \ {w} : globals'[v] = globals[v]
    BY <1>2, ReadEffect DEF Typed, ValuesOK
  <2>2. AdminsSave'
    BY <1>0, <2>1 DEF AdminsSave, Saving, To
  <2>3. OwnTemporary'
    BY <1>0, <2>1 DEF OwnTemporary, files, To
  <2> QED BY <2>1, <2>2, <2>3 DEF files, FileWhole
<1>3. ASSUME NEW w \in Workers, OpenFails(w) \/ WriteFails(w) \/ RenameFails(w)
      PROVE  SaveInv'
  <2>1. fd' = [fd EXCEPT ![w] = None] /\ UNCHANGED <<globals, files>> /\ To(w, "page")
    BY <1>3, WarnEffect
  <2> QED BY <1>0, <2>1 DEF AdminsSave, Saving, OwnTemporary, FileWhole, files, To
<1>4. ASSUME NEW w \in Workers, Rename(w)
      PROVE  SaveInv'
  <2>1. /\ step[w] = "rename" /\ To(w, "renamed") /\ tmp \in Inodes
        /\ fd' = [fd EXCEPT ![w] = None] /\ file' = tmp /\ tmp' = None
        /\ UNCHANGED <<globals, node>>
    BY <1>4, RenameEffect
  <2>2. fd[w] # None /\ node[tmp].state = "whole"
    BY <1>0, <2>1 DEF OwnTemporary
  <2>3. \A v \in Workers : fd'[v] = None
    BY <1>0, <1>1, <2>1 DEF Saving
  <2>4. AdminsSave'
    BY <1>0, <2>1 DEF AdminsSave, Saving, To
  <2> QED BY <1>0, <2>1, <2>2, <2>3, <2>4 DEF OwnTemporary, FileWhole
<1>5. ASSUME NEW w \in Workers, NoteSaved(w)
      PROVE  SaveInv'
  <2>1. UNCHANGED <<globals, fd, files>> /\ To(w, "page") /\ step[w] = "renamed"
    BY <1>5, NoteSavedEffect
  <2> QED BY <1>0, <2>1 DEF AdminsSave, Saving, OwnTemporary, FileWhole, files, To
<1>6. ASSUME NEW w \in Admins,
             (\E keys \in SUBSET Keys : Configure(w, keys)) \/ ResetToDefaults(w)
      PROVE  SaveInv'
  <2>1. /\ UNCHANGED <<fd, file, tmp, node>> /\ step[w] = "page"
        /\ To(w, "open") \/ To(w, "page")
        /\ \A v \in Workers \ {w} : globals'[v] = globals[v]
    <3>1. w \in Workers /\ globals \in [Workers -> Settings]
      BY <1>0 DEF Typed, ValuesOK
    <3>2. /\ UNCHANGED <<fd, file, tmp, node>> /\ step[w] = "page"
          /\ To(w, "open") \/ To(w, "page")
          /\ \E keys \in SUBSET Keys : globals' = [globals EXCEPT ![w] = Changed(w, keys)]
      BY <1>6, <3>1, ChangeEffect
    <3> QED BY <3>1, <3>2
  <2>2. AdminsSave'
    BY <1>0, <2>1 DEF AdminsSave, Saving, To
  <2>3. OwnTemporary'
    BY <1>0, <2>1 DEF OwnTemporary, To
  <2> QED BY <2>1, <2>2, <2>3 DEF FileWhole
<1>7. ASSUME NEW w \in Workers, OpenTemporary(w)
      PROVE  SaveInv'
  <2>1. /\ step[w] = "open" /\ To(w, "write") /\ UNCHANGED <<globals, file>>
    BY <1>7, OpenEffect
  <2>2. PICK i \in Inodes \ {file} :
                 /\ tmp' = i /\ fd' = [fd EXCEPT ![w] = i]
                 /\ \A j \in Inodes \ {i} : node'[j] = node[j]
                 /\ node'[i].state = "empty"
    BY <1>7, OpenEffect
  <2>3. AdminsSave'
    BY <1>0, <2>1 DEF AdminsSave, Saving, To
  <2>4. \A v \in Workers : fd'[v] # None => v = w
    BY <1>0, <1>1, <2>1, <2>2 DEF Saving
  <2>5. fd'[w] = i /\ step'[w] = "write"
    BY <1>0, <2>1, <2>2 DEF To
  <2>6. OwnTemporary'
    BY <2>1, <2>2, <2>4, <2>5 DEF OwnTemporary
  <2> QED BY <1>0, <2>1, <2>2, <2>3, <2>6 DEF FileWhole
<1>8. ASSUME NEW w \in Workers, WriteTemporary(w)
      PROVE  SaveInv'
  <2>1. /\ step[w] = "write" /\ To(w, "rename") /\ UNCHANGED <<globals, file, tmp, fd>>
        /\ fd[w] = tmp /\ tmp \in Inodes \ {file}
        /\ \A j \in Inodes \ {tmp} : node'[j] = node[j]
        /\ node'[tmp].state = "whole" /\ node'[tmp].settings = globals[w]
    BY <1>8, WriteEffect
  <2>2. AdminsSave'
    BY <1>0, <2>1 DEF AdminsSave, Saving, To
  <2>3. \A v \in Workers : fd'[v] # None => v = w
    BY <1>0, <1>1, <2>1 DEF Saving
  <2>4. step'[w] = "rename"
    BY <1>0, <2>1 DEF To
  <2>5. OwnTemporary'
    BY <2>1, <2>3, <2>4 DEF OwnTemporary
  <2> QED BY <1>0, <2>1, <2>2, <2>5 DEF FileWhole
<1>9. ASSUME QuietStep
      PROVE  SaveInv'
  <2>1. /\ UNCHANGED <<globals, fd, files>>
        /\ \A w \in Workers : step'[w] = step[w] \/ step'[w] \in {"page", "load", "idle"}
    BY <1>9, QuietEffect
  <2> QED BY <2>1 DEF AdminsSave, Saving, OwnTemporary, FileWhole, files
<1>10. ASSUME EditFile
       PROVE  SaveInv'
  <2>1. /\ UNCHANGED <<step, globals, fd, file, tmp>> /\ node'[file].state = "invalid"
        /\ \A j \in Inodes \ {file} : node'[j] = node[j]
    BY <1>10, EditEffect
  <2>2. OwnTemporary'
    BY <1>0, <2>1 DEF OwnTemporary
  <2> QED BY <2>1, <2>2 DEF AdminsSave, Saving, FileWhole
<1>11. CASE UNCHANGED configVars
  BY <1>11 DEF configVars, AdminsSave, Saving, OwnTemporary, FileWhole
<1> QED BY <1>2, <1>3, <1>4, <1>5, <1>6, <1>7, <1>8, <1>9, <1>10, <1>11, NextSteps, OtherSteps

LEMMA SaveInvInit == Init => SaveInv
  BY SetBounds DEF Init, SaveInv, AdminsSave, Saving, OwnTemporary, FileWhole

\* With one administrator, config::save renames a file that is wholly written, whatever call
\* has failed before: the name config::load opens is never that of a half-written one.
THEOREM FileNeverTorn ==
    ASSUME OneAdministrator
    PROVE  Spec => []FileWhole
<1>1. SaveInv => FileWhole
  BY DEF SaveInv
<1> QED BY <1>1, SaveInvInit, SaveStep, TypedInit, TypedStep, PTL DEF Spec

\* What a worker took from the text there is now, it has, unless it is about to save others.
HeldInv ==
    \A w \in Workers :
        /\ ~Saving(w)
        /\ hist[w].taken = FileMtime /\ ~hist[w].overtaken
        /\ ~hist[w].rejected \/ step[w] = "renamed"
        => globals[w] = node[file].settings

LEMMA HeldStep ==
    ASSUME OneAdministrator, Typed, Typed', SaveInv, SaveInv', HeldInv, [Next]_vars
    PROVE  HeldInv'
<1> USE DEF HeldInv
<1>0. /\ step \in [Workers -> Steps] /\ fd \in [Workers -> Inodes \cup {None}]
      /\ globals \in [Workers -> Settings]
      /\ Admins \subseteq Workers /\ None \notin Inodes /\ file \in Inodes /\ tmp \in Inodes \cup {None}
      /\ \A w \in Workers : fd[w] # None <=> step[w] \in {"write", "rename"}
      /\ FileMtime = node[file].mtime
  BY WorkersAssumption, SetBounds DEF Typed, StepOK, ValuesOK, FilesOK, FileMtime
<1>1. \A v, w \in Workers : (Saving(v) \/ step[v] = "renamed") /\ (Saving(w) \/ step[w] = "renamed")
                            => v = w
  BY DEF SaveInv, AdminsSave, OneAdministrator
<1>2. ASSUME NEW w \in Workers, ReadFile(w)
      PROVE  HeldInv'
  <2>1. UNCHANGED <<fd, files>> /\ step[w] = "load"
    BY <1>2, ReadEffect
  <2>2. CASE /\ To(w, "loaded") /\ globals' = [globals EXCEPT ![w] = node[file].settings]
             /\ HistOf(w, FileMtime)
    BY <1>0, <2>1, <2>2 DEF Saving, To, HistOf, files, FileMtime
  <2>3. CASE /\ To(w, "page") /\ globals' = globals /\ hist'[w].overtaken = hist[w].overtaken
             /\ HistOf(w, hist[w].taken) /\ hist'[w].rejected = hist[w].rejected
    BY <1>0, <2>1, <2>3 DEF Saving, To, HistOf, files, FileMtime
  <2> QED BY <1>2, <2>2, <2>3, ReadEffect
<1>3. ASSUME NEW w \in Workers, OpenFails(w) \/ WriteFails(w) \/ RenameFails(w)
      PROVE  HeldInv'
  <2>1. /\ UNCHANGED <<globals, files>> /\ To(w, "page")
        /\ HistOf(w, hist[w].taken) /\ hist'[w].rejected
    BY <1>3, WarnEffect
  <2> QED BY <1>0, <2>1 DEF Saving, To, HistOf, files, FileMtime
<1>4. ASSUME NEW w \in Workers, Rename(w)
      PROVE  HeldInv'
  <2>1. /\ step[w] = "rename" /\ To(w, "renamed") /\ tmp \in Inodes /\ file' = tmp
        /\ UNCHANGED <<globals, node>>
        /\ \A v \in Workers \ {w} : PutInPlace(v, node[tmp].mtime)
    BY <1>4, RenameEffect
  <2>2. globals[w] = node[tmp].settings
    BY <1>0, <2>1 DEF SaveInv, OwnTemporary
  <2>3. \A v \in Workers \ {w} : hist'[v].taken = (FileMtime)' => hist'[v].overtaken
    BY <2>1 DEF PutInPlace, FileMtime
  <2> QED BY <2>1, <2>2, <2>3
<1>5. ASSUME NEW w \in Workers, NoteSaved(w)
      PROVE  HeldInv'
  <2>1. /\ UNCHANGED <<globals, files>> /\ To(w, "page") /\ step[w] = "renamed"
        /\ HistOf(w, hist[w].taken) /\ hist'[w].overtaken = hist[w].overtaken
    BY <1>5, NoteSavedEffect
  <2> QED BY <1>0, <2>1 DEF Saving, To, HistOf, files, FileMtime
<1>6. ASSUME NEW w \in Admins,
             (\E keys \in SUBSET Keys : Configure(w, keys)) \/ ResetToDefaults(w)
      PROVE  HeldInv'
  <2>1. w \in Workers
    BY <1>0
  <2>2. /\ UNCHANGED <<file, tmp, node>> /\ step[w] = "page"
        /\ HistOf(w, hist[w].taken)
        /\ To(w, "open") \/ (To(w, "page") /\ hist'[w].rejected)
        /\ \E keys \in SUBSET Keys : globals' = [globals EXCEPT ![w] = Changed(w, keys)]
    BY <1>6, <2>1, ChangeEffect
  <2> QED BY <1>0, <2>1, <2>2 DEF Saving, To, HistOf, FileMtime
<1>7. ASSUME NEW w \in Workers, OpenTemporary(w) \/ WriteTemporary(w)
      PROVE  HeldInv'
  <2>1. /\ UNCHANGED <<globals, file, hist>> /\ node'[file] = node[file]
        /\ To(w, "write") \/ To(w, "rename")
    BY <1>0, <1>7, OpenEffect, WriteEffect
  <2> QED BY <1>0, <2>1 DEF Saving, To, FileMtime
<1>8. ASSUME QuietStep
      PROVE  HeldInv'
  <2>1. /\ UNCHANGED <<globals, fd, files, hist>>
        /\ \A w \in Workers : step'[w] = step[w] \/ (step'[w] \in {"page", "load", "idle"}
                                                    /\ step[w] \in {"idle", "loaded", "page"})
    BY <1>8, QuietEffect
  <2>2. \A w \in Workers : ~Saving(w)' => ~Saving(w) /\ (step'[w] = "renamed" => step[w] = "renamed")
    BY <2>1 DEF Saving
  <2> QED BY <2>1, <2>2 DEF FileMtime, files
<1>9. ASSUME EditFile
      PROVE  HeldInv'
  <2>1. file' = file /\ \A v \in Workers : PutInPlace(v, node'[file].mtime)
    BY <1>9, EditEffect
  <2> QED BY <2>1 DEF PutInPlace, FileMtime
<1>10. CASE UNCHANGED configVars
  BY <1>10 DEF configVars, Saving, FileMtime
<1> QED BY <1>2, <1>3, <1>4, <1>5, <1>6, <1>7, <1>8, <1>9, <1>10, NextSteps, OtherSteps

\* With one administrator, a worker that reloadIfChanged gives no reason to read the file
\* again has its saved settings, though the time is noted only after the reading or the renaming,
\* and two texts may have one time: the exceptions SettingsCurrent names are all there are.
THEOREM SettingsAreCurrent ==
    ASSUME OneAdministrator
    PROVE  Spec => []SettingsCurrent
<1>1. Init => HeldInv
  BY DEF Init, HeldInv, FileMtime
<1>2. HeldInv => SettingsCurrent
  BY DEF HeldInv, Saving, SettingsCurrent
<1> QED BY <1>1, <1>2, HeldStep, SaveInvInit, SaveStep, TypedInit, TypedStep, PTL DEF Spec

-------------------------------------------------------------------------------
(* Settings never go back.                                                 *)

\* The administrator's worker has read the file, or written it.
AdminHas ==
    \A a \in Admins :
        /\ step[a] # "loaded"
        /\ Whole => step[a] = "renamed" \/ (step[a] # "load" /\ last[a] = FileMtime)

LEMMA AdminHasStep ==
    ASSUME OneAdministrator, Typed, SaveInv, SaveInv', AdminHas, [Next]_vars
    PROVE  AdminHas'
<1>0. /\ step \in [Workers -> Steps] /\ last \in [Workers -> 0 .. count.mtime]
      /\ Admins \subseteq Workers /\ file \in Inodes
  BY WorkersAssumption DEF Typed, StepOK, FilesOK
<1>1. ASSUME NEW w \in Workers, ReadFile(w)
      PROVE  AdminHas'
  <2>1. /\ step[w] = "load" /\ UNCHANGED <<last, files>>
        /\ (Parses /\ To(w, "loaded")) \/ (~Parses /\ To(w, "page"))
    BY <1>1, ReadEffect
  <2>2. Parses <=> Whole
    BY DEF Parses, Whole, SaveInv, FileWhole
  <2>3. w \in Admins => ~Whole
    BY <2>1 DEF AdminHas
  <2> QED BY <1>0, <2>1, <2>2, <2>3 DEF AdminHas, To, files, Whole, FileMtime
<1>2. ASSUME NEW w \in Workers, OpenFails(w) \/ WriteFails(w) \/ RenameFails(w)
      PROVE  AdminHas'
  <2>1. /\ step[w] \in {"open", "write", "rename"} /\ To(w, "page") /\ UNCHANGED <<last, files>>
    BY <1>2, WarnEffect
  <2> QED BY <1>0, <2>1 DEF AdminHas, To, files, Whole, FileMtime
<1>3. ASSUME NEW w \in Workers, Rename(w)
      PROVE  AdminHas'
  <2>1. step[w] = "rename" /\ To(w, "renamed")
    BY <1>3, RenameEffect
  <2>2. \A a \in Admins : a = w
    BY <2>1 DEF SaveInv, AdminsSave, Saving, OneAdministrator
  <2> QED BY <1>0, <2>1, <2>2 DEF AdminHas, To
<1>4. ASSUME NEW w \in Workers, NoteSaved(w)
      PROVE  AdminHas'
  <2>1. /\ To(w, "page") /\ last' = [last EXCEPT ![w] = FileMtime] /\ UNCHANGED files
    BY <1>4, NoteSavedEffect
  <2> QED BY <1>0, <2>1 DEF AdminHas, To, files, Whole, FileMtime
<1>5. ASSUME NEW w \in Admins,
             (\E keys \in SUBSET Keys : Configure(w, keys)) \/ ResetToDefaults(w)
      PROVE  AdminHas'
  <2>1. w \in Workers
    BY <1>0
  <2>2. /\ UNCHANGED <<file, node, last>> /\ step[w] = "page" /\ (To(w, "open") \/ To(w, "page"))
    BY <1>5, <2>1, ChangeEffect
  <2> QED BY <1>0, <2>2 DEF AdminHas, To, Whole, FileMtime
<1>6. ASSUME NEW w \in Workers, OpenTemporary(w)
      PROVE  AdminHas'
  <2>1. step[w] = "open" /\ To(w, "write") /\ UNCHANGED <<last, file>> /\ node'[file] = node[file]
    BY <1>0, <1>6, OpenEffect
  <2> QED BY <1>0, <2>1 DEF AdminHas, To, Whole, FileMtime
<1>7. ASSUME NEW w \in Workers, WriteTemporary(w)
      PROVE  AdminHas'
  <2>1. step[w] = "write" /\ To(w, "rename") /\ UNCHANGED <<last, file>> /\ node'[file] = node[file]
    BY <1>0, <1>7, WriteEffect
  <2> QED BY <1>0, <2>1 DEF AdminHas, To, Whole, FileMtime
<1>8. ASSUME QuietStep
      PROVE  AdminHas'
  <2>1. PICK w \in Workers : \/ BeginRequest(w) \/ NoteLoaded(w) \/ UseDatasource(w) \/ EndRequest(w)
                             \/ TraceControl(w)
    BY <1>8 DEF QuietStep
  <2>2. UNCHANGED files
    BY <2>1 DEF BeginRequest, NoteLoaded, UseDatasource, EndRequest, TraceControl
  <2>3. CASE BeginRequest(w)
    BY <1>0, <2>2, <2>3 DEF BeginRequest, AdminHas, To, files, Whole, FileMtime
  <2>4. CASE NoteLoaded(w)
    BY <1>0, <2>2, <2>4 DEF NoteLoaded, AdminHas, To, files, Whole, FileMtime
  <2>5. CASE UseDatasource(w) \/ EndRequest(w) \/ TraceControl(w)
    BY <1>0, <2>2, <2>5 DEF UseDatasource, EndRequest, TraceControl, AdminHas, To, files, Whole, FileMtime
  <2> QED BY <2>1, <2>3, <2>4, <2>5
<1>9. ASSUME EditFile
      PROVE  AdminHas'
  <2>1. UNCHANGED step /\ file' = file /\ node'[file].state = "invalid"
    BY <1>9, EditEffect
  <2> QED BY <2>1 DEF AdminHas, Whole
<1>10. CASE UNCHANGED configVars
  BY <1>10 DEF configVars, AdminHas, Whole, FileMtime
<1> QED BY <1>1, <1>2, <1>3, <1>4, <1>5, <1>6, <1>7, <1>8, <1>9, <1>10, NextSteps, OtherSteps

\* The changes so far are behind the administrator's settings, its settings are not behind
\* those of the file, and the file's not behind those of any other worker.
InOrder ==
    /\ \A k \in Keys : node[file].settings[k] <= count.sets
    /\ \A w \in Workers, k \in Keys :
          /\ globals[w][k] <= count.sets
          /\ IF w \in Admins THEN node[file].settings[k] <= globals[w][k]
                             ELSE globals[w][k] <= node[file].settings[k]

LEMMA SettingsAreNumbers ==
    ASSUME Typed
    PROVE  /\ \A w \in Workers, k \in Keys : globals[w][k] \in Nat
           /\ \A i \in Inodes, k \in Keys : node[i].settings[k] \in Nat
           /\ count.sets \in Nat /\ file \in Inodes
           /\ globals \in [Workers -> Settings] /\ Admins \subseteq Workers
<1>1. /\ globals \in [Workers -> Settings] /\ \A i \in Inodes : node[i].settings \in Settings
      /\ count.sets \in 0 .. MaxSets /\ file \in Inodes
  BY DEF Typed, ValuesOK, FilesOK, Text
<1> QED BY <1>1, SetBounds, WorkersAssumption DEF Settings

\* What a step does to the settings the workers and the file have.
LEMMA OrderStep ==
    ASSUME OneAdministrator, Typed, SaveInv, AdminHas, InOrder, [Next]_vars
    PROVE  /\ InOrder'
           /\ \A w \in Workers, k \in Keys : globals'[w][k] >= globals[w][k]
<1> USE DEF InOrder
<1>0. /\ \A w \in Workers, k \in Keys : globals[w][k] \in Nat
      /\ \A i \in Inodes, k \in Keys : node[i].settings[k] \in Nat
      /\ count.sets \in Nat /\ file \in Inodes
      /\ globals \in [Workers -> Settings] /\ Admins \subseteq Workers
  BY SettingsAreNumbers
<1> DEFINE Advances == \A w \in Workers, k \in Keys : globals'[w][k] >= globals[w][k]
<1>1. ASSUME globals' = globals, count'.sets = count.sets,
             \A k \in Keys : (node[file].settings[k])' = node[file].settings[k]
      PROVE  InOrder' /\ Advances
  BY <1>0, <1>1
<1>2. ASSUME NEW w \in Workers, ReadFile(w)
      PROVE  InOrder' /\ Advances
  <2>1. UNCHANGED files
    BY <1>2, ReadEffect
  <2>2. CASE Parses
    <3>1. globals' = [globals EXCEPT ![w] = node[file].settings] /\ step[w] = "load"
      BY <1>2, <2>2, ReadEffect
    <3>2. w \notin Admins
      BY <2>2, <3>1 DEF Parses, Whole, SaveInv, FileWhole, AdminHas
    <3>3. \A v \in Workers, k \in Keys :
             globals'[v][k] = IF v = w THEN node[file].settings[k] ELSE globals[v][k]
      BY <1>0, <3>1
    <3> QED BY <1>0, <2>1, <3>2, <3>3 DEF files
  <2>3. CASE ~Parses
    <3>1. globals' = globals
      BY <1>2, <2>3, ReadEffect
    <3> QED BY <1>1, <2>1, <3>1 DEF files
  <2> QED BY <2>2, <2>3
<1>3. ASSUME NEW w \in Workers, OpenFails(w) \/ WriteFails(w) \/ RenameFails(w) \/ NoteSaved(w)
      PROVE  InOrder' /\ Advances
  <2>1. UNCHANGED <<globals, files>>
    BY <1>3, WarnEffect, NoteSavedEffect
  <2> QED BY <1>1, <2>1 DEF files
<1>4. ASSUME NEW w \in Workers, Rename(w)
      PROVE  InOrder' /\ Advances
  <2>1. /\ step[w] = "rename" /\ tmp \in Inodes /\ file' = tmp /\ UNCHANGED <<globals, node, count>>
    BY <1>4, RenameEffect
  <2>2. node[tmp].settings = globals[w]
    BY <2>1 DEF Typed, StepOK, SaveInv, OwnTemporary
  <2>3. w \in Admins /\ \A v \in Admins : v = w
    BY <2>1 DEF SaveInv, AdminsSave, Saving, OneAdministrator
  <2>4. \A v \in Workers, k \in Keys : v # w => globals[v][k] <= globals[w][k]
    <3> SUFFICES ASSUME NEW v \in Workers, NEW k \in Keys, v # w
                 PROVE  globals[v][k] <= globals[w][k]
      OBVIOUS
    <3>1. globals[v][k] <= node[file].settings[k] /\ node[file].settings[k] <= globals[w][k]
      BY <2>3
    <3>2. globals[v][k] \in Nat /\ node[file].settings[k] \in Nat /\ globals[w][k] \in Nat
      BY <1>0
    <3> QED BY <3>1, <3>2
  <2>5. \A k \in Keys : (node[file].settings[k])' = globals[w][k]
    BY <2>1, <2>2
  <2> QED BY <1>0, <2>1, <2>3, <2>4, <2>5
<1>5. ASSUME NEW w \in Admins,
             (\E keys \in SUBSET Keys : Configure(w, keys)) \/ ResetToDefaults(w)
      PROVE  InOrder' /\ Advances
  <2>0. w \in Workers
    BY <1>0
  <2>1. /\ count.sets < MaxSets /\ UNCHANGED <<file, node>> /\ count' = [count EXCEPT !.sets = @ + 1]
        /\ \E keys \in SUBSET Keys : globals' = [globals EXCEPT ![w] = Changed(w, keys)]
    BY <1>5, <2>0, ChangeEffect
  <2>2. PICK keys \in SUBSET Keys : globals' = [globals EXCEPT ![w] = Changed(w, keys)]
    BY <2>1
  <2>3. \A v \in Workers, k \in Keys :
           globals'[v][k] = IF v = w /\ k \in keys THEN count.sets + 1 ELSE globals[v][k]
    BY <1>0, <2>0, <2>1, <2>2, ChangedTyped
  <2>4. count'.sets = count.sets + 1
    BY <2>1 DEF Typed, FilesOK
  <2>5. \A v \in Workers, k \in Keys : globals'[v][k] >= globals[v][k] /\ globals'[v][k] <= count'.sets
    BY <1>0, <2>3, <2>4
  <2>6. \A k \in Keys : (node[file].settings[k])' <= count'.sets
    BY <1>0, <2>1, <2>4
  <2>7. \A v \in Workers, k \in Keys :
           IF v \in Admins THEN (node[file].settings[k])' <= globals'[v][k]
                           ELSE globals'[v][k] <= (node[file].settings[k])'
    BY <1>0, <1>5, <2>1, <2>3
  <2> QED BY <2>5, <2>6, <2>7
<1>6. ASSUME NEW w \in Workers, OpenTemporary(w) \/ WriteTemporary(w)
      PROVE  InOrder' /\ Advances
  <2>1. globals' = globals /\ file' = file /\ node'[file] = node[file] /\ count'.sets = count.sets
    BY <1>0, <1>6, OpenEffect, WriteEffect
  <2> QED BY <1>1, <2>1
<1>7. ASSUME QuietStep
      PROVE  InOrder' /\ Advances
  <2>1. UNCHANGED <<globals, files>>
    BY <1>7, QuietEffect
  <2> QED BY <1>1, <2>1 DEF files
<1>8. ASSUME EditFile
      PROVE  InOrder' /\ Advances
  <2>1. /\ globals' = globals /\ file' = file /\ count'.sets = count.sets
        /\ node'[file].settings = node[file].settings
    BY <1>8, EditEffect
  <2> QED BY <1>1, <2>1
<1>9. CASE UNCHANGED configVars
  BY <1>1, <1>9 DEF configVars
<1> QED BY <1>2, <1>3, <1>4, <1>5, <1>6, <1>7, <1>8, <1>9, NextSteps, OtherSteps

\* With one administrator, no worker ever goes back to an earlier value of a saved setting: the
\* worker that saved notes the time, so it does not read its own file (config::save), and
\* every other one reads what the renames have put there in their order.
THEOREM SettingsOnlyAdvance ==
    ASSUME OneAdministrator
    PROVE  Spec => SettingsAdvance
<1>1. Init => AdminHas /\ InOrder
  <2> SUFFICES ASSUME Init PROVE AdminHas /\ InOrder
    OBVIOUS
  <2>1. /\ \A w \in Workers : step[w] = "idle" /\ last[w] = 0 /\ globals[w] = Defaults
        /\ node[file].settings = Defaults /\ node[file].mtime = 0 /\ count.sets = 0
    BY DEF Init
  <2> QED BY <2>1, WorkersAssumption DEF AdminHas, InOrder, FileMtime, Defaults
<1>2. ASSUME Typed, SaveInv, AdminHas, InOrder, [Next]_vars
      PROVE  [\A w \in Workers, k \in Keys : globals'[w][k] >= globals[w][k]]_vars
  BY <1>2, OrderStep
<1> QED BY <1>1, <1>2, OrderStep, AdminHasStep, SaveInvInit, SaveStep, TypedInit, TypedStep, PTL
      DEF Spec, SettingsAdvance
===============================================================================
