----------------------------- MODULE TemplateCache -----------------------------
(***************************************************************************)
(* The compiled form of one file, a template or a component, in the cache of *)
(* each worker, while the file is rewritten by somebody else.  A compiled    *)
(* form is used as long as the file's modification time, in seconds, is the  *)
(* one noted for it: for a template noted after the compilation, for a       *)
(* component before it.                                                      *)
(***************************************************************************)
EXTENDS Naturals, Sequences

CONSTANTS Users,      \* the workers that serve the file
          None,
          MaxTime,    \* bound on the clock
          MaxWrites   \* bound on the forms of the file

ASSUME TemplateBounds == MaxTime \in Nat /\ MaxWrites \in Nat \ {0}

VARIABLES now,     \* the clock, in seconds
          kind,    \* what the file is
          writes,  \* the second each form of the file was written in
          entry,   \* m_templates and m_timestamps of a worker
          compile  \* what the worker is compiling

templateVars == <<now, kind, writes, entry, compile>>

Form == Len(writes)
Mtime == writes[Form]

\* "read" and "noted" are the seconds in which the file was read and "stamp" was noted.
Compiled == [form : 1 .. MaxWrites, stamp : 0 .. MaxTime, read : 0 .. MaxTime, noted : 0 .. MaxTime]

ASSUME NoneIsNoCompiled == None \notin Compiled

TemplateTypeOK ==
    /\ now \in 0 .. MaxTime
    /\ kind \in {"template", "component"}
    /\ writes \in Seq(0 .. MaxTime) /\ Form \in 1 .. MaxWrites
    /\ entry \in [Users -> Compiled \cup {None}]
    /\ compile \in [Users -> Compiled \cup {None}]

TemplateInit ==
    /\ now = 0
    /\ kind \in {"template", "component"}
    /\ writes = <<0>>
    /\ entry = [w \in Users |-> None]
    /\ compile = [w \in Users |-> None]

\* The environment.
Tick == now < MaxTime /\ now' = now + 1 /\ UNCHANGED <<kind, writes, entry, compile>>

Rewrite ==
    /\ Form < MaxWrites
    /\ writes' = Append(writes, now)
    /\ UNCHANGED <<now, kind, entry, compile>>

\* The mutated form: whatever has been compiled is used.
HitsAlways(w) == entry[w] # None

Hits(w) == entry[w] # None /\ entry[w].stamp = Mtime

\* The modification time a component will have, noted before it is compiled.
Noted == [form |-> Form, stamp |-> Mtime, read |-> now, noted |-> now]

\* The page needs the file: what is there is not current, and the file is read.
ReadSource(w) ==
    /\ compile[w] = None /\ ~Hits(w)
    /\ compile' = [compile EXCEPT ![w] = Noted]
    /\ entry' = [entry EXCEPT ![w] = None]
    /\ UNCHANGED <<now, kind, writes>>

\* The source of a component is read some time after its modification time.
ReadComponent(w) ==
    /\ kind = "component"
    /\ compile[w] # None /\ compile[w].form # Form
    /\ compile' = [compile EXCEPT ![w].form = Form, ![w].read = now]
    /\ UNCHANGED <<now, kind, writes, entry>>

Insert(w, compiled) ==
    /\ compile[w] # None
    /\ entry' = [entry EXCEPT ![w] = compiled]
    /\ compile' = [compile EXCEPT ![w] = None]
    /\ UNCHANGED <<now, kind, writes>>

StampedAfter(w) == [compile[w] EXCEPT !.stamp = Mtime, !.noted = now]

\* The mutated form: the time of a component is noted as that of a template.
FinishStampedAfter(w) == Insert(w, StampedAfter(w))

FinishCompile(w) ==
    Insert(w, IF kind = "template" THEN StampedAfter(w) ELSE compile[w])

\* An error in the source is thrown to the page.
CompileFails(w) ==
    /\ compile[w] # None
    /\ compile' = [compile EXCEPT ![w] = None]
    /\ UNCHANGED <<now, kind, writes, entry>>

\* Not a step of its own: whoever clears the caches says when.
ClearTemplates(w) ==
    /\ entry' = [v \in Users |-> IF v = w THEN None ELSE entry[v]]
    /\ UNCHANGED <<now, kind, writes, compile>>

-------------------------------------------------------------------------------
(* Properties.                                                             *)

Stale(w) == Hits(w) /\ entry[w].form # Form

\* An old form of a template is served only if the file was written while it was being
\* compiled, or in the second it was read or noted in.
TemplateCurrent ==
    \A w \in Users : kind = "template" /\ Stale(w) =>
        \E v \in entry[w].form + 1 .. Form : writes[v] \in entry[w].read .. entry[w].noted

\* An old form of a component is served only if the file was written twice within the
\* same second, however long the compilation takes.
ComponentCurrent ==
    \A w \in Users : kind = "component" /\ Stale(w) =>
        \E u \in 1 .. Form, v \in 1 .. Form : u # v /\ writes[u] = Mtime /\ writes[v] = Mtime
===============================================================================
