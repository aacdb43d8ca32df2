--------------------------- MODULE MCCodeValidator ---------------------------
(* An instance of CodeValidator for TLC: archives of up to four entries.    *)
EXTENDS CodeValidator

Node(kind, names, children) == [kind |-> kind, names |-> names, children |-> children]

Id(id) == Node("Name", <<id>>, <<>>)

\* One statement or expression for each visit method, harmless and not.
Simple ==
  {Id("x"), Id("eval"), Id("__import__"),
   Node("Import", <<"json">>, <<>>), Node("Import", <<"json", "os">>, <<>>),
   Node("ImportFrom", <<"">>, <<>>), Node("ImportFrom", <<"http">>, <<>>),
   Node("Attribute", <<"strip">>, <<Id("x")>>),
   Node("Attribute", <<"system">>, <<Id("x")>>),
   Node("Global", <<"y", "__builtins__">>, <<>>)}

Expressions == {e \in Simple : e.kind \in {"Name", "Attribute"}}

\* A call of anything, with anything for an argument; and what surrounds them.
Calls == {Node("Call", <<>>, <<f, e>>) : f, e \in Expressions}

Trees ==
  {Node("Module", <<>>, <<Id("x"), t>>) : t \in Simple \cup Calls}
    \cup {Node("Module", <<>>, <<Node("Call", <<>>, <<Id("x"), c>>)>>) : c \in Calls}
    \cup {Node("Module", <<>>, <<Node("Call", <<>>, <<c, Id("x")>>)>>) : c \in Calls}

Blank == Node("Module", <<>>, <<>>)

Read(name, size, parses, tree, program) ==
  [name |-> name, size |-> size, parses |-> parses, tree |-> tree, program |-> program]

Of(name, size, parses, tree) == Read(name, size, parses, tree, tree)

Says(id) == Node("Module", <<>>, <<Id(id)>>)

OfTree == {Of("a.py", 1, TRUE, t) : t \in Trees}

\* The kinds of entries whose order and number matter.
Kinds ==
  {Of(n, 1, TRUE, Says(id)) : n \in {"a.py", "b.py"}, id \in {"x", "eval"}}
    \cup {Of("./a.py", 1, TRUE, Says("x")), Of("becomes_b", 1, TRUE, Says("eval")),
          Read("a.py", 1, TRUE, Says("x"), Says("eval"))}
    \cup {Of("a.py", 2, TRUE, Blank), Of("b.py", 1, FALSE, Blank),
          Of("notes", 2, FALSE, Blank), Of("../c.py", 1, TRUE, Blank)}

Archive(entries) == [zip |-> TRUE, size |-> 1, entries |-> entries]

MCArchives ==
  {Archive(<<f>>) : f \in OfTree}
    \cup {Archive(s) : s \in UNION {[1 .. n -> Kinds] : n \in 0 .. 3}}
    \cup {Archive([i \in 1 .. 4 |-> f]) : f \in Kinds}
    \cup {[zip |-> FALSE, size |-> 1, entries |-> <<>>],
          [zip |-> TRUE, size |-> 2, entries |-> <<>>]}

MCFiles == OfTree \cup Kinds

\* Nodes, and nodes within them, to the depth of the trees above.
Down(S) == S \cup UNION {{n.children[i] : i \in DOMAIN n.children} : n \in S}

MCNodes == Down(Down(Down({f.tree : f \in MCFiles} \cup {f.program : f \in MCFiles})))

MCSuspicious == {"../c.py"}
MCPyNames == {"a.py", "./a.py", "b.py", "../c.py"}

\* Two names may come to one path, and a path may end in ".py" where the name
\* does not.
MCPath(name) ==
  IF name = "./a.py" THEN "a.py" ELSE IF name = "becomes_b" THEN "b.py" ELSE name

=============================================================================
