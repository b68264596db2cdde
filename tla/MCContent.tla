------------------------------ MODULE MCContent ------------------------------
EXTENDS Content

CONSTANTS i1, i2, i3, s, t, w1, w2,     \* tables
          c1, c2, f1, f2, p1, p2        \* workflows

TagSets == {{}, {w1}}
Texts == {<<>>, <<Short>>, <<w1>>, <<w1, w2>>, <<w1, w1, w2>>, <<w1, Short>>}

Field(type, parts) == parts @@ [type |-> type, default |-> None, optional |-> FALSE,
                                min |-> None, max |-> None, units |-> None,
                                choices |-> {}, maxlen |-> 0, shape |-> <<>>]
I(n) == [int |-> n]
F(x) == [float |-> x]
Word(w) == [text |-> w]
Of(m, u) == [magnitude |-> m, units |-> u]

\* x has any type; y is a text or a number, so that an assignment may fail half-way.
AFields ==
  {Field("Integer", [min |-> 6]), Field("Integer", [max |-> 6, default |-> I(2)]),
   Field("Number", [optional |-> TRUE]), Field("Number", [units |-> "K", max |-> 18]),
   Field("Number", [units |-> "degC"]),
   Field("Number", [min |-> 6, default |-> Word("x")]), Field("Text", [maxlen |-> 1]),
   Field("Text", [choices |-> {"1", "x"}, default |-> Word("1")]), Field("Array", [shape |-> <<2>>]),
   Field("Array", [default |-> [list |-> <<I(1)>>]]), Field("Array", [shape |-> <<None>>]),
   Field("Boolean", [default |-> [bool |-> TRUE]]), Field("Image", [default |-> Word("p")]),
   Field("Element", [choices |-> {"Si"}]), Field("Element", [choices |-> {"Silicon"}]),
   Field("List", [optional |-> TRUE]), Field("Dict", [optional |-> TRUE])}
BFields == {Field("Text", [optional |-> TRUE]), Field("Integer", [max |-> 6, default |-> I(2)]),
            Field("Number", [default |-> F(6)])}

ARaws == {None, I(1), I(2), F(9), F(-3), F(13), F(14), F(NaN), Word("1"), Word("nan"), Word("yes"),
          Word("x"), Word("x\nb z"), Word("Si"), Word("Silicon"), Word("p"), Word("q"), [bool |-> TRUE],
          Of(4, "K"), Of(4, "dK"), Of(4, "degC"), Of(6, "s"), Of(NaN, "dK"), [list |-> <<I(1), F(13)>>], [list |-> <<F(14)>>],
          [array |-> <<13, 14>>, shape |-> <<2, 1>>], [dict |-> [k |-> "v"]]}
BRaws == {None, I(1), Word("z"), Word("z\nb z"), F(6)}

Dicts == {<<>>} \cup {[a |-> v]: v \in ARaws} \cup {[b |-> v]: v \in BRaws}
         \cup {[a |-> v, b |-> w]: v \in ARaws, w \in BRaws} \cup {[a |-> v, c |-> v]: v \in ARaws}
Returned == {<<>>, [a |-> I(1)], [a |-> I(2), b |-> Word("z")], [a |-> Word("Si"), c |-> I(1)],
             [a |-> [list |-> <<I(1), F(13)>>]], [a |-> [dict |-> [k |-> "v"]]]}

FieldSpecs == [a |-> AFields, b |-> BFields]
Order == <<"a", "b">>
RawValues == [a |-> ARaws, b |-> BRaws]
PlainDicts == {[k |-> "v"]}
Sizes == [K |-> 2, dK |-> 1, degC |-> 2]
Zeros == [K |-> 0, dK |-> 0, degC |-> 6]
Names == [x \in {"Si", "C", "Silicon"} |-> IF x = "Silicon" THEN "Si" ELSE x]
Broken == [x \in {"x\nb z", "z\nb z"} |-> IF x = "x\nb z" THEN <<"x", <<"b", "z">>>>
                                          ELSE <<"z", <<"b", "z">>>>]

Cell(magic, schema1) == [magic |-> magic, schema |-> schema1]
File(path, content) == [path |-> path, content |-> content]
Both(schema1) == [side \in {"input", "output"} |-> schema1]
OneSide == [input |-> p1, output |-> None]
FileLists == {<<>>, <<File("other", c1), File("workflow.py", c2)>>, <<File("workflow.py", None)>>,
              <<File("workflow.py", f1), File("workflow.py", c2)>>, <<File("workflow.ipynb", c1)>>}
Nothing == [type |-> None, entrypoint |-> None, bundle |-> None, files |-> None, data |-> None,
            dockerfile |-> None, context |-> <<>>, hash |-> None, schema |-> Both(None)]
Sent == {[Nothing EXCEPT !.type = type, !.entrypoint = path, !.files = files]:
           type \in {None, "function", "python"}, path \in {None, "other"}, files \in FileLists}
        \cup {[Nothing EXCEPT !.type = type, !.entrypoint = path, !.data = data, !.dockerfile = c2, !.context = context]:
                type \in {None, "docker", "dag"}, path \in {None, "Dockerfile"}, data \in {None, c1},
                context \in {<<>>, <<File("other", f1)>>}}
        \cup {[Nothing EXCEPT !.type = type, !.entrypoint = path, !.bundle = bundle]:
                type \in {None, "function"}, path \in {None, "other"},
                bundle \in [type: {None, "python"}, entrypoint: {None, "workflow.py"},
                            files: FileLists, schema: {Both(None), Both(p2)}]}
        \cup {Nothing, [Nothing EXCEPT !.data = c1, !.hash = c2]}
Payload == {[p EXCEPT !.schema = schema1]: p \in Sent, schema1 \in {Both(None), Both(p1)}}
           \cup {[Nothing EXCEPT !.schema = OneSide]}
Change == {[Nothing EXCEPT !.type = type, !.entrypoint = path, !.files = files, !.schema = schema1]:
             type \in {None, "function"}, path \in {None, "other"},
             files \in {None, <<File("other", c1), File("workflow.py", c2)>>},
             schema1 \in {Both(None), OneSide}}
          \cup {[Nothing EXCEPT !.hash = c1]}

NotebookCells == {<<>>, <<Cell("input", p1), Cell("output", p2)>>,
                  <<Cell("input", p1), Cell("other", p1), Cell("output", p2), Cell("input", p2)>>,
                  <<Cell("output", p1), Cell("output", p2)>>}

FileContents == {c1, c2, f1, f2} \cup NotebookCells

Symmetry == Permutations({i1, i2, i3}) \cup Permutations({s, t})
=============================================================================
