------------------------------ MODULE RunnerCache ------------------------------
(***************************************************************************)
(* The runners of one function version (sandbox/runner.py) when they are   *)
(* started in the container of the worker (SANDBOX_ENABLED=false, at the   *)
(* end of sandbox/k8s_sandbox.py).  They share a directory that outlives   *)
(* them: src holds the members of the archive, deps what pip installed,    *)
(* and a marker in each says that it is complete.  There is no lock.       *)
(*                                                                         *)
(* A runner may be killed at any moment, timeout + 5 s after its start.    *)
(* Then the pip that it started goes on without it.  A runner of inline    *)
(* source has a directory of its own, and so has every runner in           *)
(* Kubernetes, where the container is new.                                 *)
(*                                                                         *)
(* No member of the archive has the name of the marker.  The source does   *)
(* not forbid one: it would be extracted beside the others and be taken    *)
(* for the marker by every later runner, before the last member is there.  *)
(***************************************************************************)
EXTENDS FiniteSets, Naturals

CONSTANTS
  Runners,       \* executions of the version
  Inline,        \* those that bring their source
  Members,       \* of the archive
  Requirements,  \* requirements.txt, which may be one of them
  Packages       \* what it asks for

VARIABLES
  pc,         \* where a runner stands
  todo,       \* what it has still to extract or to remove
  open,       \* the member it has opened for writing
  src,        \* how a member stands in src: written in part, when a runner
              \* opened it last and has not ended
  extracted,  \* .sopm-extracted
  deps,       \* what is in deps, .sopm-installed included
  pip,        \* the pip that a runner has started
  left,       \* what it has still to install
  crowded     \* history: "yes" once a runner began to change the directory
              \* while another one was at work in it

cache == <<src, extracted, deps>>
installer == <<pip, left>>
vars == <<pc, todo, open, cache, installer, crowded>>

Installed == "sopm_installed"

None == "none"

ASSUME RunnerAssumption ==
  /\ Inline \subseteq Runners
  /\ None \notin Members
  /\ Installed \notin Packages
  /\ {"absent", "whole"} \cap Runners = {}

HasRequirements == Requirements \in Members

Preparing == {"check", "download", "extract", "deps", "clear", "remove", "install"}

Executing == {"load", "handler"}

Alive(r) == pc[r] \in Preparing \cup Executing

Init ==
  /\ pc = [r \in Runners |-> "idle"]
  /\ todo = [r \in Runners |-> {}]
  /\ open = [r \in Runners |-> None]
  /\ src = [m \in Members |-> "absent"]
  /\ extracted = "no"
  /\ deps = {}
  /\ pip = [r \in Runners |-> None]
  /\ left = [r \in Runners |-> {}]
  /\ crowded = "no"

-----------------------------------------------------------------------------
(* main                                                                    *)

Goes(r, to) == pc' = [pc EXCEPT ![r] = to]

\* The runner prints an error and returns 1.
Fails(r) ==
  /\ Goes(r, "exit_1")
  /\ UNCHANGED <<todo, open, cache, installer, crowded>>

\* r is about to change what another runner uses or changes.
Crowds(r) ==
  crowded' = IF \E q \in Runners \ ({r} \cup Inline) : Alive(q) THEN "yes" ELSE crowded

\* The worker starts the process.  Inline source is written to its own place,
\* where there is no requirements.txt.
Start(r) ==
  /\ pc[r] = "idle"
  /\ Goes(r, IF r \in Inline THEN "load" ELSE "check")
  /\ UNCHANGED <<todo, open, cache, installer, crowded>>

CheckExtracted(r) ==
  /\ pc[r] = "check"
  /\ IF extracted = "yes"
     THEN Goes(r, "deps") /\ UNCHANGED crowded
     ELSE Goes(r, "download") /\ Crowds(r)
  /\ UNCHANGED <<todo, open, cache, installer>>

\* The archive is complete when it is there, whoever else downloads it.
Download(r) ==
  /\ pc[r] = "download"
  /\ Goes(r, "extract")
  /\ todo' = [todo EXCEPT ![r] = Members]
  /\ UNCHANGED <<open, cache, installer, crowded>>

\* zipfile opens the next member for writing, which empties it.
OpenMember(r, m) ==
  /\ pc[r] = "extract" /\ open[r] = None /\ m \in todo[r]
  /\ open' = [open EXCEPT ![r] = m]
  /\ src' = [src EXCEPT ![m] = r]
  /\ UNCHANGED <<pc, todo, extracted, deps, installer, crowded>>

\* It is written.  What one who opened it earlier writes last may have a hole.
WriteMember(r, m) ==
  /\ pc[r] = "extract" /\ open[r] = m
  /\ open' = [open EXCEPT ![r] = None]
  /\ todo' = [todo EXCEPT ![r] = @ \ {m}]
  /\ \/ src' = [src EXCEPT ![m] = "whole"]
     \/ src[m] \in Runners \ {r} /\ UNCHANGED src
  /\ UNCHANGED <<pc, extracted, deps, installer, crowded>>

\* Mutant: the marker is written when the archive has arrived.
MarkArchive(r) ==
  /\ pc[r] = "extract" /\ open[r] = None
  /\ extracted' = "yes"
  /\ IF todo[r] = {} THEN Goes(r, "deps") ELSE UNCHANGED pc
  /\ UNCHANGED <<todo, open, src, deps, installer, crowded>>

MarkExtracted(r) ==
  /\ pc[r] = "extract" /\ open[r] = None /\ todo[r] = {}
  /\ extracted' = "yes"
  /\ Goes(r, "deps")
  /\ UNCHANGED <<todo, open, src, deps, installer, crowded>>

-----------------------------------------------------------------------------
(* _install_requirements_if_needed                                         *)

\* Mutant: what is there is taken for what is needed.
CheckDirectory(r) ==
  /\ pc[r] = "deps"
  /\ IF HasRequirements /\ deps = {}
     THEN Goes(r, "clear") /\ Crowds(r)
     ELSE Goes(r, "load") /\ UNCHANGED crowded
  /\ UNCHANGED <<todo, open, cache, installer>>

CheckInstalled(r) ==
  /\ pc[r] = "deps"
  /\ IF HasRequirements /\ Installed \notin deps
     THEN Goes(r, "clear") /\ Crowds(r)
     ELSE Goes(r, "load") /\ UNCHANGED crowded
  /\ UNCHANGED <<todo, open, cache, installer>>

\* rmtree lists deps, removes what it found, and then deps itself.
List(r) ==
  /\ pc[r] = "clear"
  /\ Goes(r, "remove")
  /\ todo' = [todo EXCEPT ![r] = deps]
  /\ UNCHANGED <<open, cache, installer, crowded>>

Remove(r, x) ==
  /\ pc[r] = "remove" /\ x \in todo[r] /\ x \in deps
  /\ deps' = deps \ {x}
  /\ todo' = [todo EXCEPT ![r] = @ \ {x}]
  /\ UNCHANGED <<pc, open, src, extracted, installer, crowded>>

\* It is not there any more, or something else is.
RemoveRaises(r) ==
  /\ pc[r] = "remove"
  /\ ~(todo[r] \subseteq deps) \/ (todo[r] = {} /\ deps # {})
  /\ Fails(r)

\* deps is made anew, and pip is started.  It reads requirements.txt, and what
\* is being written may ask for less.
StartPip(r) ==
  /\ pc[r] = "remove" /\ todo[r] = {} /\ deps = {}
  /\ Goes(r, "install")
  /\ pip' = [pip EXCEPT ![r] = "running"]
  /\ \E asked \in SUBSET Packages :
       /\ src[Requirements] = "whole" => asked = Packages
       /\ left' = [left EXCEPT ![r] = asked]
  /\ UNCHANGED <<todo, open, cache, crowded>>

MarkInstalled(r) ==
  /\ pc[r] = "install" /\ pip[r] = "ok"
  /\ deps' = deps \cup {Installed}
  /\ Goes(r, "load")
  /\ UNCHANGED <<todo, open, src, extracted, installer, crowded>>

\* pip has failed, or has exceeded its limit and is killed.
InstallFails(r) ==
  /\ pc[r] = "install" /\ pip[r] \in {"running", "failed"}
  /\ pip' = [pip EXCEPT ![r] = None]
  /\ Goes(r, "exit_1")
  /\ UNCHANGED <<todo, open, cache, left, crowded>>

-----------------------------------------------------------------------------
(* pip, which outlives the runner that is killed                           *)

\* Mutant: pip is called with --upgrade and replaces what is there.
PipReplaces(r, p) ==
  /\ pip[r] = "running" /\ p \in left[r]
  /\ IF p \in deps
     THEN deps' = deps \ {p} /\ UNCHANGED left
     ELSE deps' = deps \cup {p} /\ left' = [left EXCEPT ![r] = @ \ {p}]
  /\ UNCHANGED <<pc, todo, open, src, extracted, pip, crowded>>

\* A package that is there is left alone.
PipInstalls(r, p) ==
  /\ pip[r] = "running" /\ p \in left[r]
  /\ deps' = deps \cup {p}
  /\ left' = [left EXCEPT ![r] = @ \ {p}]
  /\ UNCHANGED <<pc, todo, open, src, extracted, pip, crowded>>

PipEnds(r) ==
  /\ pip[r] = "running"
  /\ \/ left[r] = {} /\ pip' = [pip EXCEPT ![r] = "ok"]
     \/ pip' = [pip EXCEPT ![r] = "failed"]
  /\ UNCHANGED <<pc, todo, open, cache, left, crowded>>

-----------------------------------------------------------------------------
(* The handler, and the end                                                *)

Load(r) ==
  /\ pc[r] = "load"
  /\ Goes(r, "handler")
  /\ UNCHANGED <<todo, open, cache, installer, crowded>>

\* The handler returns; or it raises, or the alarm raises in it: both exit with 1.
HandlerEnds(r) ==
  /\ pc[r] = "handler"
  /\ Goes(r, "exit_0") \/ Goes(r, "exit_1")
  /\ UNCHANGED <<todo, open, cache, installer, crowded>>

\* A download, an archive, a file or a handler is not what it should be.
PreparationRaises(r) ==
  /\ pc[r] \in {"download", "extract", "load"}
  /\ Fails(r)

\* communicate() lasts longer than timeout + 5 s.  A worker that is shut down does
\* not kill the process but forgets it.
Kill(r) ==
  /\ Alive(r)
  /\ Goes(r, "killed")
  /\ UNCHANGED <<todo, open, cache, installer, crowded>>

\* The container restarts: every process dies, and its files stay.
Restart ==
  /\ pc' = [r \in Runners |-> IF Alive(r) THEN "killed" ELSE pc[r]]
  /\ pip' = [r \in Runners |-> None]
  /\ UNCHANGED <<todo, open, cache, left, crowded>>

Next ==
  \/ Restart
  \/ \E r \in Runners :
       \/ Start(r) \/ CheckExtracted(r) \/ Download(r) \/ MarkExtracted(r)
       \/ \E m \in Members : OpenMember(r, m) \/ WriteMember(r, m)
       \/ CheckInstalled(r) \/ List(r) \/ RemoveRaises(r) \/ StartPip(r)
       \/ \E x \in Packages \cup {Installed} : Remove(r, x)
       \/ MarkInstalled(r) \/ InstallFails(r)
       \/ PipEnds(r) \/ \E p \in Packages : PipInstalls(r, p)
       \/ Load(r) \/ HandlerEnds(r) \/ PreparationRaises(r)
       \/ Kill(r)

Spec == Init /\ [][Next]_vars

-----------------------------------------------------------------------------
(* Properties                                                              *)

SourceComplete == \A m \in Members : src[m] = "whole"

DepsComplete == HasRequirements => Packages \subseteq deps

\* As long as no two runners were at work in the directory while one of them
\* changed it, a marker says the truth: whichever step a runner was killed in or
\* failed in, and although its pip may still be running, nothing that is not
\* complete is taken for complete (runner.py:65, runner.py:169).
MarkersTellTheTruth ==
  crowded = "no" =>
    /\ extracted = "yes" => SourceComplete
    /\ Installed \in deps => DepsComplete

\* Under the same condition a runner that loads or runs a handler has all of the
\* source and all of the packages before it until it ends, whatever the pip of a
\* killed runner still does (runner.py:69-71, runner.py:210-228).
HandlersFindAll ==
  crowded = "no" =>
    \A r \in Runners \ Inline :
      pc[r] \in Executing => SourceComplete /\ DepsComplete

\* Both markers are there and tell the truth, and no runner has seen one missing.
Warm ==
  /\ extracted = "yes" /\ SourceComplete
  /\ HasRequirements => {Installed} \cup Packages \subseteq deps
  /\ \A r \in Runners : pc[r] \notin {"download", "extract", "clear", "remove", "install"}

\* However many runners share it from then on, and whatever the directory went
\* through before, what is complete stays complete: a runner that finds the
\* markers changes nothing, and a pip left over by a killed one only adds
\* (runner.py:65-67, runner.py:75-89, runner.py:204).
WarmStaysWarm == [][Warm => Warm']_vars

=============================================================================
