------------------------ MODULE MCRequiredStructure ------------------------
(* Small schemas and every short document over their headings. *)
EXTENDS RequiredStructure

Scope(heading, texts, min, max, sections) ==
  [heading |-> heading, texts |-> texts, field |-> "", any |-> FALSE, preamble |-> FALSE, min |-> min,
   max |-> max, sequential |-> FALSE, closed |-> FALSE, sections |-> sections, content |-> <<>>,
   rules |-> <<>>]
A(min, max) == Scope("A", {"A"}, min, max, <<>>)
B(min, max) == Scope("B", {"B"}, min, max, <<>>)
AorB(min, max) == Scope("A|B", {"A", "B"}, min, max, <<>>)
Parent(sections) == [A(1, 1) EXCEPT !.sections = sections, !.closed = TRUE]
One == [Scope("?", {}, 1, 1, <<>>) EXCEPT !.any = TRUE]
Slot == [One EXCEPT !.min = 0, !.max = 0]
Holding(sc, content) == [sc EXCEPT !.content = content, !.closed = TRUE]
Entry(kind, required) == [kind |-> kind, required |-> required, shapes |-> {}]

Lists ==
  {<<A(1, 1), B(1, 1)>>, <<A(0, 1), B(1, 1)>>, <<A(0, 1), B(0, 0)>>, <<A(1, 2), B(0, 1)>>,
   <<A(2, 0), B(1, 1)>>, <<A(1, 1), Slot, B(1, 1)>>, <<A(0, 1), Slot, B(0, 1)>>,
   <<Slot, A(1, 1)>>, <<One, A(1, 1)>>, <<One, B(0, 1)>>, <<B(0, 1), One>>, <<AorB(1, 1), B(1, 1)>>,
   <<AorB(0, 0), B(1, 1)>>, <<[A(1, 0) EXCEPT !.sequential = TRUE], B(0, 1)>>,
   <<Parent(<<B(1, 1)>>)>>, <<Parent(<<B(0, 0)>>), B(0, 1)>>, <<B(0, 1), Parent(<<B(1, 1)>>)>>}

Schema(list, closed) == [Empty EXCEPT !.sections = list, !.closed = closed]
Inline(s) == [inline |-> TRUE, schema |-> s]

\* What is there beside the text: nothing, but for one thing at a time.
Plain0 == [layers |-> <<>>, files |-> <<>>, fm |-> <<>>, yaml |-> TRUE, name |-> "doc.md", paths |-> {},
           stray |-> FALSE, mode |-> "check", writable |-> TRUE, edits |-> <<>>]
NoFile == [there |-> FALSE, readable |-> TRUE, holds |-> NoData, failed |-> FALSE]
Of(cases, about) ==
  {[sources |-> p[1], doc |-> p[2], file |-> about, disk |-> NoFile] : p \in cases}

\* A schema file of headings alone, and one with a front matter.
Head0(level, text, field) ==
  [kind |-> "heading", level |-> level, text |-> text, field |-> field, says |-> <<>>, to |-> ""]
TextLine(says) == [kind |-> "line", level |-> 0, text |-> "", field |-> "", says |-> says, to |-> ""]
Including(to) == [kind |-> "include", level |-> 0, text |-> "", field |-> "", says |-> <<>>, to |-> to]
SchemaText(items, require, fields) == [items |-> items, require |-> require, fields |-> fields]
From(path, files, self) ==
  [inline |-> FALSE, path |-> path, files |-> files, self |-> self, atRoot |-> TRUE]
File(flat, self) ==
  From("s.md", ("s.md" :> SchemaText([i \in DOMAIN flat |-> Head0(flat[i].level, flat[i].text, "")], {}, {})), self)

H(level, text, digits) == [level |-> level, text |-> text, digits |-> digits, says |-> <<>>]
Block(kind) == H(0, kind, 0)
Heads == {H(2, "A", 1), H(2, "A", 2), H(2, "B", 0), H(2, "C", 0),
          H(3, "B", 0), H(3, "A", 1), H(3, "C", 0)}
Docs(items, n) == UNION {[1 .. k -> items] : k \in 0 .. n}

\* One schema at a time, every list open and closed.
HeadingCases == {<<Inline(Schema(l, c))>> : l \in Lists, c \in BOOLEAN} \X Docs(Heads, 4)

\* Every list of up to three of these scopes, on documents of one level.
Scopes == {A(1, 1), A(0, 1), A(2, 0), B(0, 0), B(1, 2), AorB(1, 1), One, Slot}
ListCases ==
  {<<Inline(Schema(l, c))>> : l \in Docs(Scopes, 3) \ {<<>>}, c \in BOOLEAN}
    \X Docs({H(2, "A", 0), H(2, "B", 0), H(2, "C", 0)}, 4)

\* Schemas of two kinds, one of which may be the schema file itself.
Pairs == {<<Inline(Schema(l, FALSE)), Inline(Schema(m, TRUE))>> :
            l \in Lists, m \in {<<A(1, 2)>>, <<A(0, 0), B(1, 1)>>, <<B(2, 2)>>, <<Parent(<<B(1, 2)>>)>>}}
ComposeCases == Pairs \X Docs(Heads, 3)

\* Blocks below a preamble and two sections, one inside the other.
Code == Entry("code", TRUE)
Table == Entry("table", FALSE)
Free == Entry("unlisted", FALSE)
Preamble(content) == [Holding(A(0, 0), content) EXCEPT !.preamble = TRUE, !.heading = "", !.texts = {}]
ContentLists ==
  {<<Holding(A(1, 1), c)>> : c \in {<<Code>>, <<Table, Code>>, <<Code, Table, Code>>,
                                    <<Free, Code, Table>>, <<Table, Free, Code>>}}
  \union {<<Preamble(<<Code>>), Holding(A(0, 2), <<Table, Code>>)>>,
          <<[Holding(A(1, 1), <<Code>>) EXCEPT !.sections = <<Holding(B(0, 1), <<Code, Table>>)>>]>>}
Items == {H(2, "A", 0), H(3, "B", 0), Block("code"), Block("table"), Block("text")}
ContentCases == {<<Inline(Schema(l, FALSE))>> : l \in ContentLists} \X Docs(Items, 5)

\* A schema file on its own, and next to another schema.
Flats == {<<H(2, "A", 0), H(2, "B", 0)>>, <<H(2, "?", 0), H(3, "B", 0)>>,
          <<H(2, "A", 0), H(2, "...", 0), H(2, "B", 0)>>, <<H(2, "...", 0), H(3, "A", 0), H(2, "B", 0)>>,
          <<H(2, "A", 0), H(3, "...", 0), H(2, "A", 0), H(3, "B", 0)>>}
FileCases == {<<File(f, self)>> : f \in Flats, self \in BOOLEAN} \X Docs(Heads, 4)
BothCases == {<<File(f, self), Inline(Schema(<<A(0, 0)>>, FALSE))>> :
                f \in Flats, self \in BOOLEAN} \X Docs(Heads, 3)

-----------------------------------------------------------------------------
\* What is asked beside the headings, on documents made for it.
Line(words) == [H(0, "text", 0) EXCEPT !.says = words]
CodeLine(words) == [H(0, "code", 1) EXCEPT !.says = words]
Sec == H(2, "A", 0)
Sec2 == H(2, "B", 0)
Just(schemas, docs, abouts, disks) ==
  {[sources |-> [k \in DOMAIN ss |-> Inline(ss[k])], doc |-> d, file |-> f, disk |-> x] :
     ss \in schemas, d \in docs, f \in abouts, x \in disks}

Field(name, optional, values) == [name |-> name, optional |-> optional, expr |-> "cue", values |-> values]
WithFields(fields) == [Empty EXCEPT !.fields = fields]
Demands == {{}, {Field("title", FALSE, {"x", "y"})}, {Field("title", TRUE, {"y", "z"})}, {Field("title", FALSE, {"y"})},
            {Field("id", FALSE, {"x"}), Field("title", FALSE, {"y", "z"})},
            {[Field("title", FALSE, {"x"}) EXCEPT !.expr = "broken"]}}
Matters == {<<>>, ("title" :> "x"), ("title" :> "y"), ("title" :> "y") @@ ("id" :> "x"), ("id" :> "z")}
FmCases ==
  Just({<<WithFields(d), WithFields(e)>> : d, e \in Demands}
         \union {<<[WithFields(d) EXCEPT !.filename = n]>> : d \in Demands, n \in {{}, {"doc.md"}, {"x.md"}}}
         \union {<<[Empty EXCEPT !.filename = n], [Empty EXCEPT !.filename = m]>> :
                    n, m \in {{}, {"doc.md"}, {"doc.md", "x.md"}}},
       {<<>>, <<Sec>>},
       {[Plain0 EXCEPT !.fm = m, !.yaml = y, !.stray = t] : m \in Matters, y, t \in BOOLEAN}, {NoFile})

\* A heading that quotes the title, or numbers itself, as the front matter changes.
Quoting(field) == [Scope("{" \o field \o "}", {}, 1, 1, <<>>) EXCEPT !.field = field]
Edits == [1 .. 2 -> {<<>>, ("title" :> "A"), ("title" :> "B"), ("id" :> "B")}]
QuoteCases ==
  Just({<<Schema(l, TRUE)>> : l \in {<<Quoting("title")>>, <<Quoting("n"), Quoting("title")>>,
                                     <<[A(1, 1) EXCEPT !.sections = <<Quoting("id")>>], Quoting("title")>>}},
       Docs({H(2, "A", 0), H(2, "B", 0), H(3, "B", 0), H(2, "1", 0)}, 2),
       {[Plain0 EXCEPT !.mode = "editor", !.fm = ("title" :> "A"), !.edits = e] : e \in Edits}, {NoFile})

\* Cross-references, acronyms and the rules of a section.
Ref(to, skip) == [to |-> to, skip |-> skip, valid |-> TRUE]
RefLists == {<<Ref(("see-A" :> "A") @@ ("see-B" :> "B"), {"old"})>>, <<Ref(("see-A" :> ""), {})>>,
             <<[Ref(("see-A" :> "A"), {}) EXCEPT !.valid = FALSE]>>}
Prose == {Line(<<"see-A">>), Line(<<"see-B", "old">>), CodeLine(<<"see-B">>), Sec, Line(<<>>)}
Acro(known, scope) == [on |-> TRUE, known |-> known, scope |-> scope]
Uses0 == {Line(<<"API">>), Line(<<"API", "()">>), Line(<<"DNS", "API", "()">>), Sec, Sec2}
Strict == ("r1" :> "strict")
ProseCases ==
  Just({<<[Empty EXCEPT !.refs = r]>> : r \in RefLists} \union {<<[Empty EXCEPT !.refs = r], Schema(<<A(0, 1)>>, TRUE)>> : r \in RefLists},
       Docs(Prose, 3), {Plain0}, {NoFile})
  \union
  Just({<<[Schema(<<A(0, 0), B(0, 1)>>, FALSE) EXCEPT !.acronyms = Acro(k, c)]>> : k \in {{}, {"DNS"}}, c \in {{}, {"A"}, {"A", "B"}}}
         \union {<<[Empty EXCEPT !.acronyms = Acro({"DNS"}, c)], [Schema(<<A(0, 0)>>, FALSE) EXCEPT !.acronyms = Acro({}, {"A"})]>> :
                    c \in {{}, {"B"}}},
       Docs(Uses0, 4), {Plain0}, {NoFile})
  \union
  Just({<<Schema(<<[A(0, 0) EXCEPT !.rules = r], B(0, 1)>>, FALSE)>> :
          r \in {Strict, ("r1" :> ""), ("r2" :> "strict"), ("r2" :> ""), ("r3" :> ""), ("r1" :> "wrong")}}
         \union {<<Schema(<<[A(0, 0) EXCEPT !.rules = Strict]>>, FALSE), Schema(<<[A(0, 0) EXCEPT !.rules = ("r1" :> "")]>>, FALSE)>>},
       Docs({Line(<<"weak">>), Line(<<"bad">>), Sec, Sec2}, 3), {Plain0}, {NoFile})

\* The shapes of content entries.
ShapeCases ==
  Just({<<Schema(<<Holding(A(1, 1), <<[Entry("list", TRUE) EXCEPT !.shapes = {2, 3}], [Entry("code", o) EXCEPT !.shapes = {1}]>>)>>, FALSE)>> :
          o \in BOOLEAN},
       {<<Sec>> \o d : d \in Docs({H(0, "list", 2), H(0, "list", -2), H(0, "code", 1), H(0, "code", 2), Line(<<"w">>)}, 3)},
       {Plain0}, {NoFile})

\* The index: of a good and a refused place, on a disk that can be written or not.
Index(output, include) == [on |-> TRUE, output |-> output, include |-> include]
Disks == {NoFile, [NoFile EXCEPT !.there = TRUE], [NoFile EXCEPT !.failed = TRUE],
          [NoFile EXCEPT !.there = TRUE, !.readable = FALSE],
          [NoFile EXCEPT !.there = TRUE, !.holds = [NoData EXCEPT !.headings = <<[level |-> 2, text |-> "A", digits |-> 0, line |-> 1]>>]]}
Kept == [Empty EXCEPT !.refs = <<Ref(("see-A" :> "A"), {}), Ref(("see-A" :> "B"), {})>>]
IndexCases ==
  Just({<<[Kept EXCEPT !.index = Index(o, i)]>> :
          o \in {"i.json", "../index"}, i \in {{"headings"}, {"step-map", "word-counts"}, {"cross-ref-graph"}}}
         \union {<<[Empty EXCEPT !.index = Index("i.json", {"headings"})], [Kept EXCEPT !.index = Index(o, {"word-counts"})]>> :
                    o \in {"i.json", "j.json"}}
         \union {<<[Kept EXCEPT !.index = Index("i.json", {"cross-ref-graph"}), !.refs[1].valid = FALSE]>>, <<Schema(<<A(1, 1)>>, FALSE)>>},
       {<<>>, <<Sec>>, <<Sec, Line(<<"see-A">>), H(3, "B", 0), Sec2>>},
       {[Plain0 EXCEPT !.mode = m, !.writable = w, !.edits = <<<<>>>>] : m \in {"check", "fix", "editor"}, w \in BOOLEAN}, Disks)

-----------------------------------------------------------------------------
\* Schema files: templates, broken ones, and ones that include others.
Lit(w) == [lit |-> w, field |-> ""]
Quote(f) == [lit |-> "", field |-> f]
OneFile(items, require, fields) == From("s.md", ("s.md" :> SchemaText(items, require, fields)), FALSE)
Templates ==
  {<<Head0(1, "?", "title"), TextLine(<<Lit("id:"), Quote("id")>>)>>,
   <<Head0(1, "?", ""), TextLine(<<Lit("id:"), Quote("id")>>), Head0(2, "...", ""), Head0(2, "B", ""), TextLine(<<Quote("title")>>)>>,
   <<Head0(1, "?", ""), TextLine(<<Lit("id:"), Quote("id")>>), TextLine(<<Quote("title"), Lit("end")>>)>>}
Written == {H(1, "x", 0), Line(<<"id:", "x">>), Line(<<"id:", "y", "y">>), Line(<<"y", "end">>), Line(<<"y">>), H(0, "blank", 0), Sec2}
SyncCases ==
  {[sources |-> <<OneFile(t, {}, {})>>, doc |-> <<H(1, "x", 0)>> \o d, file |-> [Plain0 EXCEPT !.mode = "fix", !.fm = m], disk |-> NoFile] :
     t \in Templates, d \in Docs(Written, 3), m \in {("title" :> "x") @@ ("id" :> "y"), ("title" :> "y"), <<>>}}

Texts == ("s.md" :> SchemaText(<<Head0(2, "A", ""), Including("a.md")>>, {}, {Field("title", TRUE, {"x"})}))
         @@ ("a.md" :> SchemaText(<<Head0(2, "B", "")>>, {"doc.md"}, {}))
         @@ ("loop.md" :> SchemaText(<<Head0(2, "A", ""), Including("loop.md")>>, {}, {}))
         @@ ("deep.md" :> SchemaText(<<Including("s.md"), Including("s.md")>>, {"x.md"}, {}))
         @@ ("deepest.md" :> SchemaText(<<Including("deep.md")>>, {}, {}))
         @@ ("gone.md" :> SchemaText(<<Including("none.md")>>, {}, {}))
         @@ ("named.md" :> SchemaText(<<Head0(2, "A", "")>>, {}, {[Field("title", TRUE, {"x"}) EXCEPT !.expr = "shortcut"]}))
         @@ ("bad.md" :> SchemaText(<<Head0(2, "A", "")>>, {}, {[Field("title", TRUE, {"x"}) EXCEPT !.expr = "unknown"]}))
IncludeCases ==
  {[sources |-> ss, doc |-> d, file |-> [Plain0 EXCEPT !.fm = ("title" :> "x"), !.mode = m, !.stray = (m = "check")], disk |-> NoFile] :
     d \in Docs({Sec, Sec2}, 2), m \in {"check", "fix"},
     ss \in UNION {{<<f>>, <<f, Inline(Schema(<<A(0, 1)>>, FALSE))>>, <<f, Inline([Kept EXCEPT !.index = Index("i.json", {"headings"})])>>} :
                     f \in {[From(p, Texts, s) EXCEPT !.atRoot = r] :
                             p \in {"none.md", "/abs.md"} \union DOMAIN Texts, s, r \in BOOLEAN}}}

-----------------------------------------------------------------------------
\* Settings: one thing changed at a time in a schema that uses everything.
Re(regex, more) == Mapping(("regex" :> Str(regex)) @@ more)
Rep(min, max) == Mapping(("min" :> Num(min)) @@ ("max" :> Num(max)))
Sections0(list) == Mapping(("sections" :> List(list)))
Raw(heading, more) == Mapping(("heading" :> heading) @@ more)
ContentOf(list) == ("content" :> List([k \in DOMAIN list |-> Mapping(list[k])]))
Kind(k) == ("kind" :> Str(k))
MCPatterns ==
  (".+" :> [valid |-> TRUE, digits |-> 0, capture |-> FALSE, texts |-> {}, field |-> "", words |-> {}])
  @@ ("#n" :> [valid |-> TRUE, digits |-> 1, capture |-> FALSE, texts |-> {"A"}, field |-> "", words |-> {}])
  @@ ("#n#n" :> [valid |-> TRUE, digits |-> 2, capture |-> FALSE, texts |-> {"A"}, field |-> "", words |-> {}])
  @@ ("?P<n>" :> [valid |-> TRUE, digits |-> 0, capture |-> TRUE, texts |-> {"A"}, field |-> "", words |-> {}])
  @@ ("A(" :> [valid |-> FALSE, digits |-> 0, capture |-> FALSE, texts |-> {}, field |-> "", words |-> {}])
  @@ ("{title}" :> [valid |-> TRUE, digits |-> 0, capture |-> FALSE, texts |-> {}, field |-> "title", words |-> {}])
MCConstraints ==
  [e \in {"date", "string", "isodate", "x|y", "x"} |->
     [bare |-> e \in {"date", "string", "isodate"}, broken |-> e = "x",
      values |-> CASE e = "x|y" -> {"x", "y"} [] e = "date" -> {"2024"} [] OTHER -> {"x", "y", "2024"}]]
MCLinks == (<<"see", "A">> :> ("see" :> "A"))
MCRegistry ==
  ("r1" :> [configurable |-> TRUE, flags |-> ("" :> {"bad"}) @@ ("strict" :> {"bad", "weak"})])
  @@ ("r2" :> [configurable |-> FALSE, flags |-> ("" :> {"weak"}) @@ ("strict" :> {})])

Headings0 ==
  {Null, Str("A"), Str(""), Str("..."), Num(1), Mapping(<<>>), Re("A", <<>>), Re("", <<>>), Re(".+", <<>>), Re("{title}", <<>>),
   Re("A(", <<>>), Re("#n#n", <<>>), Re("?P<n>", <<>>), Re("A", ("repeat" :> Mapping(<<>>))), Re("A", ("repeat" :> Rep(0, 2))),
   Re("A", ("repeat" :> Rep(2, 1))), Re("A", ("repeat" :> Rep(0, 0))), Re("A", ("repeat" :> Rep(-1, 1))),
   Re("A", ("repeat" :> Mapping(("min" :> Num(0))))), Re("A", ("repeat" :> Mapping(("max" :> Num(2))))), Re("A", ("repeat" :> Str("2"))),
   Re(".+", ("repeat" :> Mapping(("min" :> Num(0))))), Re("A", ("sequential" :> Bool(TRUE))),
   Re("#n", ("sequential" :> Bool(TRUE)) @@ ("repeat" :> Mapping(("min" :> Num(1))))),
   Re("A", ("unlisted" :> Bool(TRUE))), Mapping(("repeat" :> Rep(0, 1)))}
Mores ==
  {<<>>, ("closed" :> Bool(TRUE)), ("closed" :> Str("yes")), ("required" :> Bool(TRUE)), ("rules" :> Mapping(("r1" :> Mapping(("mode" :> Str("strict")))))),
   ("rules" :> Mapping(("r1" :> Str("strict")))), ("sections" :> List(<<Raw(Str("B"), <<>>)>>)), ("sections" :> Str("B")),
   ("sections" :> List(<<Raw(Str("B"), <<>>), Raw(Null, <<>>)>>)),
   ContentOf(<<Kind("code") @@ ("lang" :> Str("go"))>>), ContentOf(<<Kind("list") @@ ("min-items" :> Num(2)) @@ ("max-items" :> Num(1))>>),
   ContentOf(<<Kind("list") @@ ("min-items" :> Num(2)) @@ ("ordered" :> Bool(TRUE)) @@ ("required" :> Bool(FALSE))>>),
   ContentOf(<<Kind("unlisted"), Kind("table") @@ ("columns" :> List(<<Str("c")>>))>>), ContentOf(<<Kind("unlisted") @@ ("required" :> Bool(FALSE))>>),
   ContentOf(<<Kind("text") @@ ("lang" :> Str("go"))>>), ContentOf(<<("lang" :> Str("go"))>>), ContentOf(<<Kind("image")>>)}
Tops ==
  {("closed" :> Bool(TRUE)), ("require" :> Str("doc.md")), ("filename" :> Str("doc.md")), ("filename" :> Num(1)), ("frontmatter" :> Str("x")),
   ("acronyms" :> Mapping(("known-safe" :> List(<<Str("API")>>)) @@ ("scope" :> List(<<Str("A")>>)))), ("acronyms" :> Mapping(("known" :> List(<<>>)))),
   ("acronyms" :> Mapping(("scope" :> List(<<Num(1)>>)))), ("cross-references" :> List(<<Mapping(("pattern" :> Str("see")) @@ ("must-match" :> Str("A")))>>)),
   ("cross-references" :> List(<<Mapping(("pattern" :> Str("see")))>>)), ("cross-references" :> Str("see")),
   ("index" :> Mapping(("output" :> Str("i.json")) @@ ("include" :> List(<<Str("headings")>>)))), ("index" :> Mapping(("output" :> Str("i.json")))),
   ("index" :> Mapping(("output" :> Str("i.json")) @@ ("include" :> List(<<Str("toc")>>)))),
   ("index" :> Mapping(("output" :> Str("")) @@ ("include" :> List(<<Str("headings")>>))))}
  \union {("frontmatter" :> Mapping((k :> v))) : k \in {"title", "title?"},
             v \in {Str("date"), Str("string"), Str("isodate"), Str("x|y"), Str("x"), Str(""), Null, List(<<>>)}}
Raws ==
  {Sections0(<<Raw(h, m)>>) : h \in Headings0, m \in Mores}
  \union {Sections0(<<Raw(h, <<>>), Raw(g, <<>>)>>) : h \in {Null, Str("B")}, g \in {Null, Str("A")}}
  \union {Mapping(t) : t \in Tops} \union {Mapping(t @@ ("sections" :> List(<<Raw(Str("A"), <<>>)>>))) : t \in Tops}
  \union {Sections0(<<Str("A")>>), Sections0(<<Mapping(("closed" :> Bool(TRUE)))>>)}

Inlined(raw) == Mapping(("inline-schema" :> raw))
Named0(path) == Mapping(("schema" :> Str(path)))
Listed0(list) == Mapping(("schema-sources" :> List(list)))
Layers ==
  {<<Inlined(r)>> : r \in Raws}
  \union {<<v, w>> : v, w \in {Mapping(<<>>), Named0("s.md"), Named0(""), Named0("prd"), Mapping(("schema" :> Num(1))),
                               Inlined(Sections0(<<Raw(Str("A"), <<>>)>>)), Inlined(Mapping(<<>>)),
                               Mapping(("schema" :> Str("s.md")) @@ ("inline-schema" :> Sections0(<<Raw(Str("A"), <<>>)>>))),
                               Mapping(("schema-sources" :> List(<<Mapping(("file" :> Str("named.md")))>>)) @@ ("inline-schema" :> Sections0(<<Raw(Str("B"), <<>>)>>))),
                               Listed0(<<Mapping(("file" :> Str("a.md")) @@ ("inline" :> Mapping(<<>>)))>>), Listed0(<<Mapping(("inline" :> Mapping(<<>>)))>>),
                               Listed0(<<Str("a.md")>>), Mapping(("schema-sources" :> Str("a.md"))), Mapping(("archetype" :> Str("prd"))),
                               Mapping(("placeholders" :> List(<<Str("cue-frontmatter")>>))), Mapping(("placeholders" :> List(<<Str("any")>>))),
                               Mapping(("path-patterns" :> List(<<Mapping(("kind" :> Str("k")) @@ ("pattern" :> Str("docs")))>>))),
                               Mapping(("path-patterns" :> List(<<Mapping(("kind" :> Str("k")) @@ ("pattern" :> Str("A(")))>>))),
                               Mapping(("path-patterns" :> List(<<Mapping(("pattern" :> Str("docs")))>>)))}}
LayerFiles == [p \in {"s.md", "prd", "a.md", "named.md"} |-> From(IF p = "prd" THEN "none.md" ELSE p, Texts, FALSE)]
LayerCases ==
  {[sources |-> <<>>, doc |-> d, disk |-> NoFile,
    file |-> [Plain0 EXCEPT !.layers = l, !.files = LayerFiles, !.fm = ("title" :> "A"), !.paths = t]] :
     l \in Layers, d \in {<<>>, <<Sec>>, <<Sec, H(0, "list", -2), H(3, "B", 0)>>, <<Sec2>>}, t \in {{}, {"docs"}}}

MCCases ==
  <<Of(HeadingCases, Plain0), Of(ListCases, Plain0), Of(ComposeCases, Plain0), Of(ContentCases, Plain0),
    Of(FileCases, Plain0), Of(BothCases, Plain0), FmCases, QuoteCases, ProseCases, ShapeCases, IndexCases,
    SyncCases, IncludeCases, LayerCases>>
=============================================================================
