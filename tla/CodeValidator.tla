---------------------------- MODULE CodeValidator ----------------------------
(***************************************************************************)
(* What becomes of an archive that create_version of                       *)
(* api/routers/functions.py hands to shared/security/code_validator.py:    *)
(* the archive is examined, then each Python file in it, until the first   *)
(* error or until enough violations are found.                             *)
(*                                                                         *)
(* An archive is a zip or not, and its entries are a sequence: a name may  *)
(* occur twice, and then both getinfo and an extraction take the last of   *)
(* them.  An entry has two readings, each a tree of ast nodes: its bytes   *)
(* decoded as UTF-8, which is what the validator parses, and the program   *)
(* that the interpreter reads when it imports the file, which need not be  *)
(* the same.  Nor is the name of an entry the path it is extracted to.     *)
(***************************************************************************)
EXTENDS Naturals, Sequences, FiniteSets

CONSTANTS
  Archives,       \* the archives that may be uploaded
  Files,          \* their entries
  Nodes,          \* the ast nodes of these files
  MaxUpload,      \* settings.max_function_size_bytes
  MaxFiles,       \* MAX_FILES
  MaxFileSize,    \* MAX_FILE_SIZE
  Enough,         \* violations after which no further file is examined
  Suspicious,     \* names that are absolute or contain ".."
  PyNames,        \* names and paths that end in ".py"
  Path(_)         \* the path zipfile.extract gives an entry of that name

\* What is used of zipfile and ast: the function of a Call is a child of it.
ASSUME ValidatorAssumption ==
  /\ {MaxUpload, MaxFiles, MaxFileSize, Enough} \subseteq Nat
  /\ \A a \in Archives : a.size \in Nat /\ a.entries \in Seq(Files)
  /\ \A f \in Files : f.size \in Nat /\ (f.parses => f.tree \in Nodes) /\ f.program \in Nodes
  /\ \A n \in Nodes :
       /\ n.children \in Seq(Nodes)
       /\ IsFiniteSet(DOMAIN n.names)
       /\ n.kind = "Call" => n.children # <<>>

VARIABLES
  archive,     \* the bytes that were uploaded
  pc,          \* "read", "open", "files", "walk", "report" or "done"
  next,        \* the position of the file that is examined
  todo,        \* the nodes of it that are still to be visited, the next one first
  is_valid, violations, error,   \* the ValidationResult
  answer       \* the status code of a refusal and whether its detail says why

result == <<is_valid, violations, error>>
vars == <<archive, pc, next, todo, result, answer>>

DENIED_BUILTINS == {"eval", "exec", "compile", "__import__", "open", "input"}

DENIED_MODULES ==
  {"subprocess", "socket", "os", "sys", "ctypes", "cffi", "importlib", "imp", "builtins",
   "shutil", "pathlib", "glob", "tempfile", "pty", "atexit", "signal", "multiprocessing",
   "threading", "concurrent", "asyncio", "ssl", "http", "urllib", "ftplib", "smtplib",
   "telnetlib", "xmlrpc", "pickle", "shelve", "marshal", "copyreg", "code", "codeop", "dis",
   "inspect", "gc", "weakref"}

DENIED_ATTRIBUTES ==
  {"system", "popen", "spawn", "exec", "execve", "execvp", "fork", "kill", "listdir",
   "getcwd", "chdir", "environ", "__dict__", "__class__", "__bases__", "__subclasses__",
   "__mro__", "__globals__", "__builtins__", "__code__", "__closure__"}

-----------------------------------------------------------------------------
(* _ASTValidator.  A node has a kind, the names it mentions (of a module,  *)
(* the part before the first dot) and its children, of a Call the function *)
(* first.                                                                  *)

Mentions(node, denied) == {i \in DOMAIN node.names : node.names[i] \in denied}

\* The violations that the visit method of the node itself flags, by position of
\* the name; a dynamic import has one more.
Flags(node) ==
  LET callee == Head(node.children) IN
    IF node.kind \in {"Import", "ImportFrom"} THEN Mentions(node, DENIED_MODULES)
    ELSE IF node.kind = "Attribute" THEN Mentions(node, DENIED_ATTRIBUTES)
    ELSE IF node.kind = "Name" THEN Mentions(node, DENIED_BUILTINS)
    ELSE IF node.kind = "Global" THEN Mentions(node, {"__builtins__"})
    ELSE IF node.kind # "Call" THEN {}
    ELSE IF callee.kind = "Attribute" THEN Mentions(callee, DENIED_ATTRIBUTES)
    ELSE IF callee.kind = "Name"
         THEN Mentions(callee, DENIED_BUILTINS)
                \cup {0 : i \in Mentions(callee, {"__import__"})}
         ELSE {}

\* Mutant: visit_Call without its generic_visit.
VisitedUnlessCall(node) == IF node.kind = "Call" THEN <<>> ELSE node.children

\* generic_visit, at the end of every visit method.
Visited(node) == node.children

-----------------------------------------------------------------------------
(* validate_archive                                                        *)

Init ==
  /\ archive \in Archives
  /\ pc = "read"
  /\ next = 0
  /\ todo = <<>>
  /\ is_valid = TRUE
  /\ violations = 0
  /\ error = "none"
  /\ answer = "none"

Name(i) == archive.entries[i].name

py_files == {i \in DOMAIN archive.entries : Name(i) \in PyNames}

Copies(i) == {j \in DOMAIN archive.entries : Name(j) = Name(i)}

First(S) == CHOOSE i \in S : \A j \in S : i <= j
Last(S) == CHOOSE i \in S : \A j \in S : j <= i

\* zf.getinfo and zf.read, by the name at position i.
Entry(i) == archive.entries[Last(Copies(i))]

File == Entry(next)

\* create_version reads the archive, or answers 413.
Reads ==
  /\ pc = "read"
  /\ IF archive.size > MaxUpload THEN pc' = "done" /\ answer' = "413"
     ELSE pc' = "open" /\ UNCHANGED answer
  /\ UNCHANGED <<archive, next, todo, result>>

Rejects(why) ==
  /\ pc' = "report"
  /\ is_valid' = FALSE
  /\ error' = why
  /\ UNCHANGED <<archive, next, todo, violations, answer>>

\* What is wrong with the archive as a whole, by the first check that fails.
Objection ==
  IF ~archive.zip THEN "not_a_zip"
  ELSE IF Len(archive.entries) > MaxFiles THEN "too_many_files"
  ELSE IF \E i \in DOMAIN archive.entries : Name(i) \in Suspicious THEN "suspicious_path"
  ELSE IF py_files = {} THEN "no_Python_files"
  ELSE "none"

RejectsArchive == pc = "open" /\ Objection # "none" /\ Rejects(Objection)

OpensArchive ==
  /\ pc = "open"
  /\ Objection = "none"
  /\ pc' = "files"
  /\ next' = First(py_files)
  /\ UNCHANGED <<archive, todo, result, answer>>

RejectsLargeFile ==
  /\ pc = "files"
  /\ File.size > MaxFileSize
  /\ Rejects("file_too_large")

\* n times add_violation.
Adds(n) ==
  /\ violations' = violations + n
  /\ is_valid' = (is_valid /\ n = 0)
  /\ UNCHANGED error

\* _validate_source, of the bytes decoded with replacement: a syntax error is one
\* violation, a tree is visited.
ParsesFile ==
  /\ pc = "files"
  /\ File.size <= MaxFileSize
  /\ IF File.parses THEN todo' = <<File.tree>> /\ Adds(0)
     ELSE todo' = <<>> /\ Adds(1)
  /\ pc' = "walk"
  /\ UNCHANGED <<archive, next, answer>>

\* One visit method: it flags what its node says and goes on to the children,
\* before the siblings of the node.
Visits ==
  /\ pc = "walk"
  /\ todo # <<>>
  /\ Adds(Cardinality(Flags(Head(todo))))
  /\ todo' = Visited(Head(todo)) \o Tail(todo)
  /\ UNCHANGED <<archive, pc, next, answer>>

Later == {i \in py_files : i > next}

\* The file is done: the next one, unless there is none or enough was found.
FileEnds ==
  /\ pc = "walk"
  /\ todo = <<>>
  /\ IF Later = {} \/ (~is_valid /\ violations > Enough)
     THEN pc' = "report" /\ UNCHANGED next
     ELSE pc' = "files" /\ next' = First(Later)
  /\ UNCHANGED <<archive, todo, result, answer>>

\* create_version goes on, or answers 422 with the first violations for a
\* detail, or with the error if there is no violation.
Reports ==
  /\ pc = "report"
  /\ pc' = "done"
  /\ answer' = IF is_valid THEN "validated"
               ELSE IF violations > 0 THEN "422_violations"
               ELSE IF error # "none" THEN "422_error" ELSE "422_None"
  /\ UNCHANGED <<archive, next, todo, result>>

Done == pc = "done" /\ UNCHANGED vars

Next == \/ Reads \/ RejectsArchive \/ OpensArchive
        \/ RejectsLargeFile \/ ParsesFile \/ Visits \/ FileEnds
        \/ Reports \/ Done

Spec == Init /\ [][Next]_vars

-----------------------------------------------------------------------------
(* sandbox/runner.py: _extract_archive                                     *)

\* The members that it does not skip.
Members == {i \in DOMAIN archive.entries : Name(i) \notin Suspicious}

\* It goes through the names; of the entries that come to one path the last stays.
OnDisk(path) == Entry(Last({i \in Members : Path(Name(i)) = path}))

-----------------------------------------------------------------------------
(* The property                                                            *)

\* A node and all that is within it.
Within[node \in Nodes] ==
  {node} \cup UNION {Within[node.children[i]] : i \in DOMAIN node.children}

\* Trees are finite, so that the recursion ends.
ASSUME TreesAssumption ==
  \A node \in Nodes :
    Within[node] =
      {node} \cup UNION {Within[node.children[i]] : i \in DOMAIN node.children}

\* "These names are NEVER allowed in user code", wherever they occur.
Dangerous(node) ==
  \E i \in DOMAIN node.names :
    \/ node.kind \in {"Import", "ImportFrom"} /\ node.names[i] \in DENIED_MODULES
    \/ node.kind = "Attribute" /\ node.names[i] \in DENIED_ATTRIBUTES
    \/ node.kind = "Name" /\ node.names[i] \in DENIED_BUILTINS
    \/ node.kind = "Global" /\ node.names[i] = "__builtins__"

Clean(tree) == \A node \in Within[tree] : ~Dangerous(node)

\* What the validator is to say of a file: its size, and the text that it reads.
Harmless(file) ==
  /\ file.size <= MaxFileSize
  /\ file.parses
  /\ Clean(file.tree)

\* An archive gets through if and only if each entry named as a Python file is
\* harmless as the validator reads it, however deep a name is buried, whichever
\* file is examined when the examination is cut short, and whichever of two
\* entries of one name counts; and a refusal says why.  Of what a runner then
\* finds on the disk the verdict is worth this much: a file that came from an entry
\* of such a name, and that the interpreter reads as the validator did, runs
\* nothing dangerous, also where two names come to one path.  Nothing is
\* said of a file that comes to a Python path from another name, nor of one that
\* the interpreter decodes differently.
ValidationDecides ==
  pc = "done" =>
    /\ answer # "422_None"
    /\ answer = "validated" <=>
         /\ archive.size <= MaxUpload /\ archive.zip /\ Len(archive.entries) <= MaxFiles
         /\ \A i \in DOMAIN archive.entries : Name(i) \notin Suspicious
         /\ py_files # {}
         /\ \A i \in py_files : Harmless(Entry(i))
    /\ answer = "validated" =>
         \A i \in Members :
           LET file == OnDisk(Path(Name(i))) IN
           file.name \in PyNames /\ file.program = file.tree => Clean(file.program)

=============================================================================
