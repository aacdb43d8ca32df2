------------------------- MODULE CodeValidatorProofs -------------------------
(***************************************************************************)
(* validate_archive decides what it is meant to, for any archive, any      *)
(* trees and any limits.                                                   *)
(***************************************************************************)
EXTENDS CodeValidator, FiniteSetTheorems, SequenceTheorems, WellFoundedInduction, TLAPS

Errors ==
  {"none", "not_a_zip", "too_many_files", "suspicious_path", "no_Python_files",
   "file_too_large"}

TypeOK ==
  /\ archive \in Archives
  /\ pc \in {"read", "open", "files", "walk", "report", "done"}
  /\ todo \in Seq(Nodes)
  /\ is_valid \in BOOLEAN
  /\ violations \in Nat
  /\ error \in Errors

AllClean(nodes) == \A i \in DOMAIN nodes : Clean(nodes[i])

Fine(i) == Harmless(Entry(i))

\* What makes an archive acceptable.
Acceptable == Objection = "none" /\ \A i \in py_files : Fine(i)

\* Nothing is found before the archive is opened.
Fresh == pc \in {"read", "open"} => is_valid /\ violations = 0 /\ error = "none"

\* The files are examined one after another, in an archive that was opened.
Opened ==
  pc \in {"files", "walk"} =>
    /\ Objection = "none"
    /\ next \in py_files
    /\ error = "none"
    /\ is_valid <=> violations = 0

\* The verdict is about the files that were examined; in the middle of one it
\* takes the nodes that are still to be visited to say what is wrong with it.
VerdictSoFar ==
  /\ pc = "files" => (is_valid <=> \A i \in py_files : i < next => Fine(i))
  /\ pc = "walk" =>
       (is_valid /\ AllClean(todo) <=> \A i \in py_files : i <= next => Fine(i))

\* At the end it is about all of them, though not all may have been examined.
FinalVerdict ==
  pc = "report" =>
    /\ is_valid <=> Acceptable
    /\ is_valid \/ violations > 0 \/ error # "none"

Sized == pc \notin {"read", "done"} => archive.size <= MaxUpload

\* What was answered.
Answered ==
  pc = "done" =>
    /\ answer # "422_None"
    /\ answer = "validated" <=> archive.size <= MaxUpload /\ Acceptable

Inv ==
  /\ TypeOK /\ Fresh /\ Opened /\ VerdictSoFar
  /\ FinalVerdict /\ Sized /\ Answered

-----------------------------------------------------------------------------
(* The first and the last of some positions, and the entries there         *)

\* A set of positions has a first one.
LEMMA LeastExists ==
  ASSUME NEW S \in SUBSET Nat, S # {}
  PROVE  First(S) \in S /\ \A j \in S : First(S) <= j
<1> DEFINE Less == {p \in Nat \X Nat : p[1] < p[2]}
<1>1. IsWellFoundedOn(Less, Nat)
  BY NatLessThanWellFounded, Zenon DEF OpToRel
<1>2. PICK i \in S : \A j \in S : ~(<<j, i>> \in Less)
  <2> HIDE DEF Less
  <2>1. QED BY <1>1, WFMin, Zenon
<1>3. \A j \in S : i <= j
  <2>1. \A j \in S : i \in Nat /\ j \in Nat /\ ~(<<j, i>> \in Less) BY <1>2
  <2>2. \A j, k \in Nat : j < k => <<j, k>> \in Less BY SMT
  <2> HIDE DEF Less
  <2>3. \A j \in S : i \in Nat /\ j \in Nat /\ ~(j < i) BY <2>1, <2>2, Zenon
  <2>4. QED BY <2>3, SMT
<1>4. QED BY <1>3, Zenon DEF First

\* A set of positions in a sequence has a last one.
LEMMA GreatestExists ==
  ASSUME NEW n \in Nat, NEW S \in SUBSET (1 .. n), S # {}
  PROVE  Last(S) \in S /\ \A j \in S : j <= Last(S)
<1> DEFINE Distances == {n - j : j \in S}
<1>1. Distances \in SUBSET Nat /\ Distances # {}
  <2>1. \A j \in S : n - j \in Nat BY SMT
  <2>2. QED BY <2>1, Zenon
<1>2. First(Distances) \in Distances /\ \A d \in Distances : First(Distances) <= d
  BY <1>1, LeastExists
<1>3. PICK i \in S : First(Distances) = n - i BY <1>2
<1>4. \A j \in S : n - i <= n - j BY <1>2, <1>3
<1>5. \A j \in S : j <= i BY <1>4, SMT
<1>6. QED BY <1>5, Zenon DEF Last

\* The positions in an archive.
LEMMA Positions ==
  ASSUME archive \in Archives
  PROVE  /\ Len(archive.entries) \in Nat
         /\ DOMAIN archive.entries = 1 .. Len(archive.entries)
         /\ \A i \in DOMAIN archive.entries : archive.entries[i] \in Files
<1>1. archive.entries \in Seq(Files) BY ValidatorAssumption DEF ValidatorAssumption
<1>2. QED BY <1>1, LenProperties, ElementOfSeq

\* What is read by a name has that name.
LEMMA EntryHasName ==
  ASSUME archive \in Archives, NEW i \in DOMAIN archive.entries
  PROVE  Entry(i) \in Files /\ Entry(i).name = Name(i)
<1>1. Copies(i) \in SUBSET (1 .. Len(archive.entries)) /\ i \in Copies(i)
  BY Positions DEF Copies
<1>2. Last(Copies(i)) \in Copies(i)
  BY <1>1, Positions, GreatestExists
<1>3. QED BY <1>2, Positions DEF Copies, Entry, Name

-----------------------------------------------------------------------------
(* Nodes                                                                   *)

LEMMA NodeFacts ==
  ASSUME NEW node \in Nodes
  PROVE  /\ node.children \in Seq(Nodes)
         /\ IsFiniteSet(DOMAIN node.names)
         /\ \A i \in DOMAIN node.children : node.children[i] \in Nodes
<1>1. node.children \in Seq(Nodes) /\ IsFiniteSet(DOMAIN node.names)
  BY ValidatorAssumption DEF ValidatorAssumption
<1>2. QED BY <1>1, LenProperties, ElementOfSeq

\* What is within a node is the node, and what is within its children.
LEMMA CleanWithin ==
  ASSUME NEW node \in Nodes
  PROVE  Clean(node) <=> ~Dangerous(node) /\ AllClean(node.children)
<1>1. Within[node] =
        {node} \cup UNION {Within[node.children[i]] : i \in DOMAIN node.children}
  BY TreesAssumption DEF TreesAssumption
<1>2. Clean(node) <=>
        /\ ~Dangerous(node)
        /\ \A i \in DOMAIN node.children : \A n \in Within[node.children[i]] : ~Dangerous(n)
  BY <1>1, Zenon DEF Clean
<1>3. QED BY <1>2, Zenon DEF AllClean, Clean

\* The function of a call is a child of it.
LEMMA CalleeIsChild ==
  ASSUME NEW node \in Nodes, node.kind = "Call"
  PROVE  /\ Head(node.children) \in Nodes
         /\ 1 \in DOMAIN node.children
         /\ Head(node.children) = node.children[1]
<1>1. node.children # <<>> BY ValidatorAssumption DEF ValidatorAssumption
<1>2. Len(node.children) \in Nat \ {0} BY <1>1, NodeFacts, EmptySeq
<1>3. 1 \in DOMAIN node.children BY <1>2, NodeFacts, LenProperties, SMT
<1>4. Head(node.children) = node.children[1] BY <1>1, NodeFacts, SMT
<1>5. QED BY <1>3, <1>4, NodeFacts

LEMMA MentionsFinite ==
  ASSUME NEW node \in Nodes, NEW denied
  PROVE  IsFiniteSet(Mentions(node, denied))
BY NodeFacts, FS_Subset DEF Mentions

\* A node is flagged finitely often.
LEMMA FlagsFinite ==
  ASSUME NEW node \in Nodes
  PROVE  IsFiniteSet(Flags(node))
<1> DEFINE callee == Head(node.children)
           dynamic == {0 : i \in Mentions(callee, {"__import__"})}
<1>1. CASE node.kind = "Call"
  <2>1. callee \in Nodes BY <1>1, CalleeIsChild
  <2>2. IsFiniteSet({0}) /\ IsFiniteSet({}) BY FS_Singleton, FS_EmptySet
  <2>3. dynamic \in SUBSET {0} BY Zenon
  <2>4. IsFiniteSet(dynamic) BY <2>2, <2>3, FS_Subset
  <2>5. IsFiniteSet(Mentions(callee, DENIED_BUILTINS) \cup dynamic)
    BY <2>1, <2>4, MentionsFinite, FS_Union
  <2>6. IsFiniteSet(Mentions(callee, DENIED_ATTRIBUTES)) BY <2>1, MentionsFinite
  <2>7. QED BY <1>1, <2>2, <2>5, <2>6 DEF Flags
<1>2. CASE node.kind # "Call"
  BY <1>2, MentionsFinite, FS_EmptySet DEF Flags
<1>3. QED BY <1>1, <1>2

\* What is flagged is dangerous, in the node or in the function that it calls.
LEMMA FlaggedIsDangerous ==
  ASSUME NEW node \in Nodes, Flags(node) # {}
  PROVE  ~Clean(node)
<1> DEFINE callee == Head(node.children)
<1>1. CASE node.kind = "Call"
  <2>1. \/ callee.kind = "Attribute" /\ Mentions(callee, DENIED_ATTRIBUTES) # {}
        \/ callee.kind = "Name" /\ Mentions(callee, DENIED_BUILTINS) # {}
    BY <1>1 DEF Flags, Mentions, DENIED_BUILTINS
  <2>2. Dangerous(callee) BY <2>1 DEF Mentions, Dangerous
  <2>3. callee \in Nodes /\ 1 \in DOMAIN node.children /\ callee = node.children[1]
    BY <1>1, CalleeIsChild
  <2>4. ~Clean(callee) BY <2>2, <2>3, CleanWithin
  <2>5. ~AllClean(node.children) BY <2>3, <2>4 DEF AllClean
  <2>6. QED BY <2>5, CleanWithin
<1>2. CASE node.kind # "Call"
  <2>1. Dangerous(node) BY <1>2 DEF Flags, Mentions, Dangerous
  <2>2. QED BY <2>1, CleanWithin
<1>3. QED BY <1>1, <1>2

\* A node is clean if it has no flags and its children are clean: the visit and
\* generic_visit between them miss nothing, and flag nothing else.
LEMMA CleanByVisit ==
  ASSUME NEW node \in Nodes
  PROVE  Clean(node) <=> Cardinality(Flags(node)) = 0 /\ AllClean(Visited(node))
<1>1. Cardinality(Flags(node)) = 0 <=> Flags(node) = {}
  BY FlagsFinite, FS_EmptySet
<1>2. Flags(node) = {} => ~Dangerous(node)
  BY DEF Flags, Mentions, Dangerous
<1>3. QED BY <1>1, <1>2, CleanWithin, FlaggedIsDangerous DEF Visited

\* The nodes on the stack before and after the first one is visited.
LEMMA CleanStack ==
  ASSUME NEW stack \in Seq(Nodes), stack # <<>>
  PROVE  /\ Head(stack) \in Nodes
         /\ Visited(Head(stack)) \o Tail(stack) \in Seq(Nodes)
         /\ AllClean(stack) <=> Clean(Head(stack)) /\ AllClean(Tail(stack))
         /\ AllClean(Visited(Head(stack)) \o Tail(stack))
              <=> AllClean(Visited(Head(stack))) /\ AllClean(Tail(stack))
<1> DEFINE first == Head(stack)
           rest == Tail(stack)
           below == Visited(first)
<1>1. /\ first \in Nodes /\ rest \in Seq(Nodes)
      /\ Len(rest) = Len(stack) - 1
      /\ \A i \in 1 .. Len(rest) : rest[i] = stack[i + 1]
  BY HeadTailProperties
<1>2. below \in Seq(Nodes) BY <1>1, NodeFacts DEF Visited
<1>3. /\ below \o rest \in Seq(Nodes)
      /\ Len(below \o rest) = Len(below) + Len(rest)
      /\ \A i \in 1 .. Len(below) + Len(rest) :
           (below \o rest)[i] = IF i <= Len(below) THEN below[i] ELSE rest[i - Len(below)]
  BY <1>1, <1>2, ConcatProperties
<1>4. /\ DOMAIN stack = 1 .. Len(stack) /\ Len(stack) \in Nat
      /\ DOMAIN rest = 1 .. Len(rest) /\ Len(rest) \in Nat
      /\ DOMAIN below = 1 .. Len(below) /\ Len(below) \in Nat
      /\ DOMAIN (below \o rest) = 1 .. Len(below) + Len(rest)
  BY <1>1, <1>2, <1>3, LenProperties
<1>5. first = stack[1] OBVIOUS
<1>6. AllClean(stack) <=> Clean(first) /\ AllClean(rest)
  <2>1. ASSUME AllClean(stack) PROVE Clean(first) /\ AllClean(rest)
    <3>1. 1 \in DOMAIN stack BY <1>1, <1>4, SMT
    <3>2. Clean(first) BY <2>1, <3>1, <1>5 DEF AllClean
    <3>3. \A i \in DOMAIN rest : i + 1 \in DOMAIN stack /\ rest[i] = stack[i + 1]
      BY <1>1, <1>4, SMT
    <3>4. QED BY <2>1, <3>2, <3>3 DEF AllClean
  <2>2. ASSUME Clean(first), AllClean(rest) PROVE AllClean(stack)
    <3> SUFFICES ASSUME NEW i \in DOMAIN stack PROVE Clean(stack[i])
      BY DEF AllClean
    <3>1. CASE i = 1 BY <2>2, <3>1, <1>5
    <3>2. CASE i # 1
      <4>1. i - 1 \in DOMAIN rest /\ rest[i - 1] = stack[i]
        BY <3>2, <1>1, <1>4, SMT
      <4>2. QED BY <2>2, <4>1 DEF AllClean
    <3>3. QED BY <3>1, <3>2
  <2>3. QED BY <2>1, <2>2
<1>7. AllClean(below \o rest) <=> AllClean(below) /\ AllClean(rest)
  <2>1. ASSUME AllClean(below \o rest) PROVE AllClean(below) /\ AllClean(rest)
    <3>1. \A i \in DOMAIN below : i \in DOMAIN (below \o rest) /\ (below \o rest)[i] = below[i]
      BY <1>3, <1>4, SMT
    <3>2. \A i \in DOMAIN rest : /\ i + Len(below) \in DOMAIN (below \o rest)
                                 /\ (below \o rest)[i + Len(below)] = rest[i]
      BY <1>3, <1>4, SMT
    <3>3. QED BY <2>1, <3>1, <3>2 DEF AllClean
  <2>2. ASSUME AllClean(below), AllClean(rest) PROVE AllClean(below \o rest)
    <3> SUFFICES ASSUME NEW i \in DOMAIN (below \o rest) PROVE Clean((below \o rest)[i])
      BY DEF AllClean
    <3>1. \/ i \in DOMAIN below /\ (below \o rest)[i] = below[i]
          \/ i - Len(below) \in DOMAIN rest /\ (below \o rest)[i] = rest[i - Len(below)]
      BY <1>3, <1>4, SMT
    <3>2. QED BY <2>2, <3>1 DEF AllClean
  <2>3. QED BY <2>1, <2>2
<1>8. QED BY <1>1, <1>3, <1>6, <1>7

-----------------------------------------------------------------------------
(* The steps                                                               *)

\* Positions of Python files are natural numbers.
LEMMA PyPositions ==
  ASSUME archive \in Archives
  PROVE  py_files \in SUBSET Nat /\ py_files \subseteq DOMAIN archive.entries
<1>1. DOMAIN archive.entries \in SUBSET Nat BY Positions, SMT
<1>2. QED BY <1>1 DEF py_files

\* What is said of the archive alone stays true of it.
LEMMA ArchiveStays ==
  ASSUME archive' = archive
  PROVE  /\ py_files' = py_files
         /\ Objection' = Objection
         /\ \A i : Fine(i)' <=> Fine(i)
         /\ Acceptable' <=> Acceptable
<1>1. \A i : Name(i)' = Name(i) BY DEF Name
<1>2. py_files' = py_files BY DEF py_files, Name
<1>3. Objection' = Objection BY <1>2 DEF Objection, Name
<1>4. \A i : Entry(i)' = Entry(i) BY DEF Entry, Copies, Name
<1>5. \A i : Fine(i)' <=> Fine(i)
  BY DEF Fine, Entry, Copies, Name
<1>6. QED BY <1>2, <1>3, <1>5 DEF Acceptable

LEMMA InvInit == Init => Inv
<1> SUFFICES ASSUME Init PROVE Inv OBVIOUS
<1>1. <<>> \in Seq(Nodes) BY EmptySeq
<1>2. TypeOK BY <1>1 DEF Init, TypeOK, Errors
<1>3. QED
  BY <1>2 DEF Init, Inv, Fresh, Opened, VerdictSoFar, FinalVerdict, Sized, Answered

LEMMA InvReads == Inv /\ Reads => Inv'
<1> SUFFICES ASSUME Inv, Reads PROVE Inv' OBVIOUS
<1>1. archive.size \in Nat /\ MaxUpload \in Nat
  BY ValidatorAssumption DEF ValidatorAssumption, Inv, TypeOK
<1>2. TypeOK' BY DEF Inv, TypeOK, Reads, result
<1>3. Fresh' BY DEF Inv, Fresh, Reads, result
<1>4. Opened' /\ VerdictSoFar' /\ FinalVerdict'
  BY DEF Reads, Opened, VerdictSoFar, FinalVerdict
<1>5. Sized' BY <1>1 DEF Reads, Sized
<1>6. Answered'
  <2> SUFFICES ASSUME pc' = "done" PROVE answer' = "413" /\ ~(archive'.size <= MaxUpload)
    BY DEF Answered
  <2>1. archive.size > MaxUpload /\ answer' = "413" BY DEF Reads
  <2>2. ~(archive.size <= MaxUpload) BY <1>1, <2>1, SMT
  <2>3. QED BY <2>1, <2>2 DEF Reads
<1>7. QED BY <1>2, <1>3, <1>4, <1>5, <1>6 DEF Inv

LEMMA InvRejects ==
  ASSUME Inv, NEW why \in Errors \ {"none"}, Rejects(why),
         pc \in {"open", "files"}, ~Acceptable
  PROVE  Inv'
<1>1. archive' = archive /\ pc' = "report" BY DEF Rejects
<1>2. TypeOK' BY DEF Inv, TypeOK, Rejects
<1>3. Fresh' /\ Opened' /\ VerdictSoFar' /\ Answered'
  BY <1>1 DEF Fresh, Opened, VerdictSoFar, Answered
<1>4. FinalVerdict' BY <1>1, ArchiveStays DEF FinalVerdict, Rejects
<1>5. Sized' BY <1>1 DEF Inv, Sized
<1>6. QED BY <1>2, <1>3, <1>4, <1>5 DEF Inv

LEMMA InvRejectsArchive == Inv /\ RejectsArchive => Inv'
<1> SUFFICES ASSUME Inv, RejectsArchive PROVE Inv' OBVIOUS
<1>1. Objection \in Errors \ {"none"} BY DEF RejectsArchive, Objection, Errors
<1>2. ~Acceptable BY <1>1 DEF Acceptable, Errors
<1>3. QED BY <1>1, <1>2, InvRejects DEF RejectsArchive

LEMMA InvOpensArchive == Inv /\ OpensArchive => Inv'
<1> SUFFICES ASSUME Inv, OpensArchive PROVE Inv' OBVIOUS
<1>1. archive' = archive /\ pc' = "files" /\ archive \in Archives
  BY DEF OpensArchive, Inv, TypeOK
<1>2. py_files # {} BY DEF OpensArchive, Objection
<1>3. next' \in py_files /\ \A i \in py_files : next' <= i
  BY <1>1, <1>2, PyPositions, LeastExists DEF OpensArchive
<1>4. TypeOK' BY DEF Inv, TypeOK, OpensArchive, result
<1>5. Fresh' /\ FinalVerdict' /\ Answered'
  BY <1>1 DEF Fresh, FinalVerdict, Answered
<1>6. Opened'
  <2>1. py_files' = py_files /\ Objection' = Objection BY <1>1, ArchiveStays
  <2>2. is_valid' /\ violations' = 0 /\ error' = "none"
    BY DEF Inv, Fresh, OpensArchive, result
  <2>3. QED BY <1>3, <2>1, <2>2 DEF Opened, OpensArchive
<1>7. VerdictSoFar'
  <2>1. is_valid' BY DEF Inv, Fresh, OpensArchive, result
  <2>2. \A i \in py_files : ~(i < next') BY <1>1, <1>3, PyPositions, SMT
  <2>3. py_files' = py_files BY <1>1, ArchiveStays
  <2>4. QED BY <1>1, <2>1, <2>2, <2>3 DEF VerdictSoFar
<1>8. Sized' BY <1>1 DEF Inv, Sized, OpensArchive
<1>9. QED BY <1>4, <1>5, <1>6, <1>7, <1>8 DEF Inv

LEMMA InvRejectsLargeFile == Inv /\ RejectsLargeFile => Inv'
<1> SUFFICES ASSUME Inv, RejectsLargeFile PROVE Inv' OBVIOUS
<1>1. archive \in Archives /\ pc = "files" /\ next \in py_files
  BY DEF RejectsLargeFile, Inv, TypeOK, Opened
<1>2. File \in Files BY <1>1, PyPositions, EntryHasName DEF File
<1>3. File.size \in Nat /\ MaxFileSize \in Nat
  BY <1>2, ValidatorAssumption DEF ValidatorAssumption
<1>4. ~(File.size <= MaxFileSize)
  <2>1. File.size > MaxFileSize BY DEF RejectsLargeFile
  <2>2. QED BY <1>3, <2>1, SMT
<1>5. ~Fine(next) BY <1>4 DEF Fine, File, Harmless
<1>6. ~Acceptable BY <1>1, <1>5 DEF Acceptable
<1>7. "file_too_large" \in Errors \ {"none"} BY DEF Errors
<1>8. QED BY <1>1, <1>6, <1>7, InvRejects DEF RejectsLargeFile

\* One node, alone on the stack.
LEMMA CleanSingle ==
  ASSUME NEW node \in Nodes
  PROVE  <<node>> \in Seq(Nodes) /\ (AllClean(<<node>>) <=> Clean(node))
<1>1. <<node>> \in Seq(Nodes) /\ DOMAIN <<node>> = {1} /\ <<node>>[1] = node BY SMT
<1>2. QED BY <1>1 DEF AllClean

LEMMA InvParsesFile == Inv /\ ParsesFile => Inv'
<1> SUFFICES ASSUME Inv, ParsesFile PROVE Inv' OBVIOUS
<1>1. /\ archive \in Archives /\ pc = "files" /\ next \in py_files
      /\ archive' = archive /\ pc' = "walk" /\ next' = next
      /\ violations \in Nat /\ is_valid \in BOOLEAN
  BY DEF ParsesFile, Inv, TypeOK, Opened
<1>2. File \in Files BY <1>1, PyPositions, EntryHasName DEF File
<1>3. Fine(next) <=> File.parses /\ Clean(File.tree)
  BY DEF Fine, File, Harmless, ParsesFile
<1>4. py_files' = py_files /\ Objection' = Objection /\ \A i : Fine(i)' <=> Fine(i)
  BY <1>1, ArchiveStays
<1>5. /\ todo' \in Seq(Nodes) /\ violations' \in Nat
      /\ is_valid' \in BOOLEAN /\ error' = error
      /\ is_valid' <=> violations' = 0
      /\ is_valid' /\ AllClean(todo') <=> is_valid /\ Fine(next)
  <2>1. is_valid <=> violations = 0 BY <1>1 DEF Inv, Opened
  <2>2. CASE File.parses
    <3>1. File.tree \in Nodes
      BY <1>2, <2>2, ValidatorAssumption DEF ValidatorAssumption
    <3>2. /\ todo' = <<File.tree>> /\ violations' = violations
          /\ is_valid' = is_valid /\ error' = error
      BY <1>1, <2>2 DEF ParsesFile, Adds
    <3>3. todo' \in Seq(Nodes) /\ (AllClean(todo') <=> Fine(next))
      BY <1>3, <2>2, <3>1, <3>2, CleanSingle
    <3>4. QED BY <1>1, <2>1, <3>2, <3>3
  <2>3. CASE ~File.parses
    <3>1. /\ todo' = <<>> /\ violations' = violations + 1
          /\ is_valid' = FALSE /\ error' = error
      <4>1. /\ todo' = <<>> /\ violations' = violations + 1
            /\ is_valid' = (is_valid /\ 1 = 0) /\ error' = error
        BY <1>1, <2>3, Zenon DEF ParsesFile, Adds
      <4>2. 1 # 0 BY SMT
      <4>3. QED BY <4>1, <4>2, Zenon
    <3>2. todo' \in Seq(Nodes) BY <3>1, EmptySeq
    <3>3. violations' \in Nat /\ violations' # 0 BY <1>1, <3>1, SMT
    <3>4. QED BY <1>3, <2>3, <3>1, <3>2, <3>3
  <2>4. QED BY <2>2, <2>3
<1>6. TypeOK' BY <1>1, <1>5 DEF Inv, TypeOK
<1>7. Fresh' /\ FinalVerdict' /\ Answered'
  BY <1>1 DEF Fresh, FinalVerdict, Answered
<1>8. Opened' BY <1>1, <1>4, <1>5 DEF Inv, Opened
<1>9. VerdictSoFar'
  <2>1. is_valid <=> \A i \in py_files : i < next => Fine(i)
    BY <1>1 DEF Inv, VerdictSoFar
  <2>2. \A i \in py_files : i <= next <=> i < next \/ i = next
    BY <1>1, PyPositions, SMT
  <2>3. is_valid' /\ AllClean(todo') <=> \A i \in py_files : i <= next => Fine(i)
    BY <1>1, <1>5, <2>1, <2>2, Zenon
  <2>4. QED BY <1>1, <1>4, <2>3 DEF VerdictSoFar
<1>10. Sized' BY <1>1 DEF Inv, Sized
<1>11. QED BY <1>6, <1>7, <1>8, <1>9, <1>10 DEF Inv

LEMMA InvVisits == Inv /\ Visits => Inv'
<1> SUFFICES ASSUME Inv, Visits PROVE Inv' OBVIOUS
<1> DEFINE node == Head(todo)
           found == Cardinality(Flags(node))
<1>1. /\ archive \in Archives /\ pc = "walk" /\ next \in py_files
      /\ archive' = archive /\ pc' = "walk" /\ next' = next
      /\ todo \in Seq(Nodes) /\ todo # <<>>
      /\ violations \in Nat /\ is_valid \in BOOLEAN
      /\ is_valid <=> violations = 0
  BY DEF Visits, Inv, TypeOK, Opened
<1>2. /\ todo' = Visited(node) \o Tail(todo)
      /\ violations' = violations + found
      /\ is_valid' = (is_valid /\ found = 0)
      /\ error' = error
  BY DEF Visits, Adds
<1>3. /\ node \in Nodes /\ todo' \in Seq(Nodes)
      /\ AllClean(todo) <=> Clean(node) /\ AllClean(Tail(todo))
      /\ AllClean(todo') <=> AllClean(Visited(node)) /\ AllClean(Tail(todo))
  BY <1>1, <1>2, CleanStack
<1>4. found \in Nat BY <1>3, FlagsFinite, FS_CardinalityType
<1>5. Clean(node) <=> found = 0 /\ AllClean(Visited(node))
  BY <1>3, CleanByVisit
<1>6. is_valid' /\ AllClean(todo') <=> is_valid /\ AllClean(todo)
  BY <1>2, <1>3, <1>5
<1>7. /\ violations' \in Nat /\ is_valid' \in BOOLEAN
      /\ is_valid' <=> violations' = 0
  <2> HIDE DEF found
  <2>1. violations' \in Nat /\ (violations' = 0 <=> violations = 0 /\ found = 0)
    BY <1>1, <1>2, <1>4, SMT
  <2>2. QED BY <1>1, <1>2, <2>1, Zenon
<1>8. py_files' = py_files /\ Objection' = Objection /\ \A i : Fine(i)' <=> Fine(i)
  BY <1>1, ArchiveStays
<1>9. TypeOK' BY <1>1, <1>2, <1>3, <1>7 DEF Inv, TypeOK
<1>10. Fresh' /\ FinalVerdict' /\ Answered'
  BY <1>1 DEF Fresh, FinalVerdict, Answered
<1>11. Opened' BY <1>1, <1>2, <1>7, <1>8 DEF Inv, Opened
<1>12. VerdictSoFar'
  <2>1. is_valid /\ AllClean(todo) <=> \A i \in py_files : i <= next => Fine(i)
    BY <1>1 DEF Inv, VerdictSoFar
  <2>2. is_valid' /\ AllClean(todo') <=> \A i \in py_files : i <= next => Fine(i)
    BY <1>6, <2>1, Zenon
  <2>3. QED BY <1>1, <1>8, <2>2 DEF VerdictSoFar
<1>13. Sized' BY <1>1 DEF Inv, Sized
<1>14. QED BY <1>9, <1>10, <1>11, <1>12, <1>13 DEF Inv

LEMMA InvFileEnds == Inv /\ FileEnds => Inv'
<1> SUFFICES ASSUME Inv, FileEnds PROVE Inv' OBVIOUS
<1>1. /\ archive \in Archives /\ pc = "walk" /\ next \in py_files
      /\ archive' = archive /\ todo = <<>>
      /\ todo' = todo /\ UNCHANGED result
      /\ Objection = "none"
  BY DEF FileEnds, Inv, TypeOK, Opened
<1>2. is_valid <=> \A i \in py_files : i <= next => Fine(i)
  <2>1. AllClean(todo) BY <1>1 DEF AllClean
  <2>2. QED BY <1>1, <2>1 DEF Inv, VerdictSoFar
<1>3. /\ py_files' = py_files /\ Objection' = Objection
      /\ \A i : Fine(i)' <=> Fine(i)
      /\ Acceptable' <=> Acceptable
  BY <1>1, ArchiveStays
<1>4. pc' \in {"files", "report"} BY DEF FileEnds
<1>5. TypeOK' BY <1>1, <1>4 DEF Inv, TypeOK, result
<1>6. Fresh' /\ Answered' BY <1>4 DEF Fresh, Answered
<1>7. Sized' BY <1>1, <1>4 DEF Inv, Sized
<1>8. CASE pc' = "report"
  <2>1. Later = {} \/ ~is_valid BY <1>8 DEF FileEnds
  <2>2. is_valid <=> Acceptable
    <3>1. CASE Later = {}
      <4>1. \A i \in py_files : i <= next
        BY <1>1, <3>1, PyPositions, SMT DEF Later
      <4>2. QED BY <1>1, <1>2, <4>1 DEF Acceptable
    <3>2. CASE ~is_valid BY <1>2, <3>2 DEF Acceptable
    <3>3. QED BY <2>1, <3>1, <3>2
  <2>3. is_valid <=> violations = 0 BY <1>1 DEF Inv, Opened
  <2>4. is_valid \/ violations > 0
    <3>1. violations \in Nat BY DEF Inv, TypeOK
    <3>2. violations = 0 \/ violations > 0 BY <3>1, SMT
    <3>3. QED BY <2>3, <3>2, Zenon
  <2>5. FinalVerdict' BY <1>1, <1>3, <2>2, <2>4 DEF FinalVerdict, result
  <2>6. Opened' /\ VerdictSoFar' BY <1>8 DEF Opened, VerdictSoFar
  <2>7. QED BY <1>5, <1>6, <1>7, <2>5, <2>6 DEF Inv
<1>9. CASE pc' = "files"
  <2>1. Later # {} /\ next' = First(Later) BY <1>9 DEF FileEnds
  <2>2. Later \in SUBSET Nat BY <1>1, PyPositions DEF Later
  <2>3. next' \in Later /\ \A i \in Later : next' <= i
    BY <2>1, <2>2, LeastExists
  <2>4. next' \in py_files /\ next' > next BY <2>3 DEF Later
  <2>5. \A i \in py_files : i < next' <=> i <= next
    <3>1. \A i \in py_files : i > next => next' <= i BY <2>3 DEF Later
    <3>2. QED BY <1>1, <2>4, <3>1, PyPositions, SMT
  <2>6. VerdictSoFar'
    <3>1. is_valid' <=> \A i \in py_files : i < next' => Fine(i)
      BY <1>1, <1>2, <2>5, Zenon DEF result
    <3>2. QED BY <1>3, <1>9, <3>1 DEF VerdictSoFar
  <2>7. Opened' BY <1>1, <1>3, <2>4 DEF Inv, Opened, result
  <2>8. FinalVerdict' BY <1>9 DEF FinalVerdict
  <2>9. QED BY <1>5, <1>6, <1>7, <2>6, <2>7, <2>8 DEF Inv
<1>10. QED BY <1>4, <1>8, <1>9

LEMMA InvReports == Inv /\ Reports => Inv'
<1> SUFFICES ASSUME Inv, Reports PROVE Inv' OBVIOUS
<1>1. archive' = archive /\ pc = "report" /\ pc' = "done" BY DEF Reports
<1>2. TypeOK' BY <1>1 DEF Inv, TypeOK, Reports, result
<1>3. Fresh' /\ Opened' /\ VerdictSoFar' /\ FinalVerdict' /\ Sized'
  BY <1>1 DEF Fresh, Opened, VerdictSoFar, FinalVerdict, Sized
<1>4. Answered'
  <2>1. is_valid <=> Acceptable BY <1>1 DEF Inv, FinalVerdict
  <2>2. is_valid \/ violations > 0 \/ error # "none"
    BY <1>1 DEF Inv, FinalVerdict
  <2>3. archive.size <= MaxUpload BY <1>1 DEF Inv, Sized
  <2>4. answer' # "422_None" BY <2>2, Zenon DEF Reports
  <2>5. answer' = "validated" <=> is_valid BY Zenon DEF Reports
  <2>6. Acceptable' <=> Acceptable BY <1>1, ArchiveStays
  <2>7. QED BY <1>1, <2>1, <2>3, <2>4, <2>5, <2>6 DEF Answered
<1>5. QED BY <1>2, <1>3, <1>4 DEF Inv

LEMMA InvStutters == Inv /\ UNCHANGED vars => Inv'
<1> SUFFICES ASSUME Inv, UNCHANGED vars PROVE Inv' OBVIOUS
<1>1. /\ archive' = archive /\ pc' = pc /\ next' = next /\ todo' = todo
      /\ is_valid' = is_valid /\ violations' = violations
      /\ error' = error /\ answer' = answer
  BY DEF vars, result
<1>2. /\ py_files' = py_files /\ Objection' = Objection
      /\ \A i : Fine(i)' <=> Fine(i)
      /\ Acceptable' <=> Acceptable
  BY <1>1, ArchiveStays
<1>3. TypeOK' /\ Fresh' /\ Sized' BY <1>1 DEF Inv, TypeOK, Fresh, Sized
<1>4. Opened' /\ VerdictSoFar'
  BY <1>1, <1>2 DEF Inv, Opened, VerdictSoFar
<1>5. FinalVerdict' /\ Answered' BY <1>1, <1>2 DEF Inv, FinalVerdict, Answered
<1>6. QED BY <1>3, <1>4, <1>5 DEF Inv

LEMMA InvNext == Inv /\ [Next]_vars => Inv'
BY InvReads, InvRejectsArchive, InvOpensArchive, InvRejectsLargeFile, InvParsesFile,
   InvVisits, InvFileEnds, InvReports, InvStutters DEF Next, Done

-----------------------------------------------------------------------------
(* The theorem                                                             *)

\* What an extraction leaves on the disk are entries of the archive, and those
\* with the name of a Python file are the ones that were examined.
LEMMA OnDiskIsExamined ==
  ASSUME archive \in Archives, NEW i \in Members, OnDisk(Path(Name(i))).name \in PyNames
  PROVE  \E j \in py_files : OnDisk(Path(Name(i))) = Entry(j)
<1> DEFINE S == {k \in Members : Path(Name(k)) = Path(Name(i))}
           j == Last(S)
<1>1. S \in SUBSET (1 .. Len(archive.entries)) /\ i \in S
  BY Positions DEF Members
<1>2. j \in S
  <2> HIDE DEF S
  <2>1. QED BY <1>1, Positions, GreatestExists
<1>3. j \in DOMAIN archive.entries /\ OnDisk(Path(Name(i))) = Entry(j)
  BY <1>2 DEF OnDisk, Members
<1>4. Entry(j).name = Name(j) BY <1>3, EntryHasName
<1>5. j \in py_files BY <1>3, <1>4 DEF py_files
<1>6. QED BY <1>3, <1>5

LEMMA InvDecides == Inv => ValidationDecides
<1> SUFFICES ASSUME Inv, pc = "done" PROVE ValidationDecides
  BY DEF ValidationDecides
<1>1. archive \in Archives BY DEF Inv, TypeOK
<1>2. /\ answer # "422_None"
      /\ answer = "validated" <=> archive.size <= MaxUpload /\ Acceptable
  BY DEF Inv, Answered
<1>3. Len(archive.entries) > MaxFiles <=> ~(Len(archive.entries) <= MaxFiles)
  <2>1. Len(archive.entries) \in Nat /\ MaxFiles \in Nat
    BY <1>1, Positions, ValidatorAssumption DEF ValidatorAssumption
  <2>2. QED BY <2>1, SMT
<1>4. Objection = "none" <=>
        /\ archive.zip /\ Len(archive.entries) <= MaxFiles
        /\ \A i \in DOMAIN archive.entries : Name(i) \notin Suspicious
        /\ py_files # {}
  BY <1>3, Zenon DEF Objection
<1>5. ASSUME answer = "validated", NEW i \in Members,
             OnDisk(Path(Name(i))).name \in PyNames,
             OnDisk(Path(Name(i))).program = OnDisk(Path(Name(i))).tree
      PROVE  Clean(OnDisk(Path(Name(i))).program)
  <2>1. PICK j \in py_files : OnDisk(Path(Name(i))) = Entry(j)
    BY <1>1, <1>5, OnDiskIsExamined
  <2>2. Harmless(Entry(j)) BY <1>2, <1>5 DEF Acceptable, Fine
  <2>3. QED BY <1>5, <2>1, <2>2 DEF Harmless
<1>6. Acceptable <=> Objection = "none" /\ \A i \in py_files : Harmless(Entry(i))
  BY DEF Acceptable, Fine
<1>7. QED BY <1>2, <1>4, <1>5, <1>6, Zenon DEF ValidationDecides

\* An archive is validated if and only if each entry named as a Python file is
\* harmless as validate_archive reads it, however many and however deep they are;
\* and what _extract_archive leaves of such entries under any path runs nothing
\* dangerous, as far as the interpreter reads them alike.
THEOREM ArchivesDecided == Spec => []ValidationDecides
<1>1. Init => Inv BY InvInit
<1>2. Inv /\ [Next]_vars => Inv' BY InvNext
<1>3. Inv => ValidationDecides BY InvDecides
<1>4. QED BY <1>1, <1>2, <1>3, PTL DEF Spec
=============================================================================
