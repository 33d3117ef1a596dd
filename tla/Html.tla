---------------------------------- MODULE Html ----------------------------------
(***************************************************************************)
(* The browser's renderer (kernel/html.c, kernel/css.c): style sheets and  *)
(* their cascade, the walk over a page, and the wrapping into lines.       *)
(*                                                                         *)
(* A page is a sequence of its tokens: a character of text (an entity is   *)
(* the character it stands for), a space, a tag.  A style sheet is a       *)
(* sequence of names, declarations, comments and its punctuation, with     *)
(* blanks between them, except that a closing brace may be written right   *)
(* at the end of a word: such a word is a token of its own, "name}".       *)
(*                                                                         *)
(* Next to some definitions stands a variant with a slip in it; nothing    *)
(* uses the variants except the runs that show a property would notice.    *)
(***************************************************************************)
EXTENDS Integers, Sequences, SequencesExt, FiniteSets, Functions

-----------------------------------------------------------------------------
(* css.c *)

Props == {"color", "background", "bold", "align"}
Colors == {"red", "blue"}
Aligns == {"left", "center", "right"}
HeavyNumbers == {"700", "800", "900"}  \* of the numbers, those from 700 on
Nothing == [p \in {} |-> ""]

Selector(kind, name) == [t |-> "name", kind |-> kind, name |-> name]
Declares(prop, value) == [t |-> "decl", prop |-> prop, value |-> value]
Mark(m) == [t |-> m]
Is(tokens, i, m) == i <= Len(tokens) /\ tokens[i].t = m
First(s, n) == SubSeq(s, 1, IF Len(s) < n THEN Len(s) ELSE n)

Set(decl, prop, value) == [p \in DOMAIN decl \cup {prop} |-> IF p = prop THEN value ELSE decl[p]]

(* Values that are not understood leave the property alone, except that    *)
(* any weight which is not bold is a normal one.                           *)
css_apply_property(decl, d) ==
    CASE d.prop = "color" /\ d.value \in Colors -> Set(decl, "color", d.value)
      [] d.prop \in {"background", "background-color"} /\ d.value \in Colors ->
           Set(decl, "background", d.value)
      [] d.prop = "font-weight" -> Set(decl, "bold", d.value \in {"bold", "bolder"} \cup HeavyNumbers)
      [] d.prop = "text-align" /\ d.value \in Aligns -> Set(decl, "align", d.value)
      [] OTHER -> decl

(* What stands between two declarations spoils the name of the second.     *)
css_parse_declarations(tokens) ==
    FoldLeft(LAMBDA decl, i :
                 IF tokens[i].t = "decl" /\ (i = 1 \/ Is(tokens, i - 1, "decl"))
                 THEN css_apply_property(decl, tokens[i]) ELSE decl,
             Nothing, [i \in DOMAIN tokens |-> i])

(* The first closing brace from i on, or the end *)
Closes(css, j) == Is(css, j, "}") \/ Is(css, j, "name}")
BlockEnd(css, i) ==
    CHOOSE j \in i .. Len(css) + 1 :
        /\ j = Len(css) + 1 \/ Closes(css, j)
        /\ \A k \in i .. j - 1 : ~Closes(css, k)

(* Where a rule that is malformed at i is left                             *)
StopsAtBrace(css, i) == IF Is(css, i, "{") THEN i + 1 ELSE BlockEnd(css, i) + 1
Resync(css, i) == BlockEnd(css, i) + 1

(* Anything up to the next comma, blank or opening brace is taken for a    *)
(* name, with a closing brace that stands at its end: that brace closes    *)
(* nothing.  One group keeps the first sixteen names.                      *)
MaxGroup == 16
NameOf(tok) == IF tok.t = "name" THEN tok ELSE Selector("tag", "junk")

RECURSIVE SelectorGroup(_, _, _)
SelectorGroup(css, i, sels) ==
    IF i > Len(css) \/ Is(css, i, "{") \/ Is(css, i, "}")
    THEN [ok |-> FALSE, at |-> i, sels |-> sels]
    ELSE LET named == ~Is(css, i, ",")
             more == IF named /\ Len(sels) < MaxGroup THEN Append(sels, NameOf(css[i])) ELSE sels
             next == IF named THEN i + 1 ELSE i
         IN  IF Is(css, next, ",") THEN SelectorGroup(css, next + 1, more)
             ELSE [ok |-> TRUE, at |-> next, sels |-> more]

RECURSIVE RulesFrom(_, _, _, _)
RulesFrom(css, i, sheet, maxRules) ==
    IF i > Len(css) \/ Len(sheet) >= maxRules THEN sheet
    ELSE IF Is(css, i, "comment") THEN RulesFrom(css, i + 1, sheet, maxRules)
    ELSE LET group == SelectorGroup(css, i, <<>>) IN
         IF ~group.ok \/ ~Is(css, group.at, "{")
         THEN RulesFrom(css, Resync(css, group.at), sheet, maxRules)
         ELSE LET end == BlockEnd(css, group.at + 1)
                  decl == css_parse_declarations(SubSeq(css, group.at + 1, end - 1))
                  rules == [s \in DOMAIN group.sels |->
                               [kind |-> group.sels[s].kind, name |-> group.sels[s].name, decl |-> decl]]
              IN  RulesFrom(css, end + 1, First(sheet \o rules, maxRules), maxRules)

css_parse_stylesheet(css, sheet, maxRules) == RulesFrom(css, 1, sheet, maxRules)

css_specificity(kind) == CASE kind = "id" -> 100 [] kind = "class" -> 10 [] kind = "tag" -> 1

Matches(rule, el) ==
    \/ rule.kind = "tag" /\ rule.name = el.tag
    \/ rule.kind = "id" /\ rule.name = el.id
    \/ rule.kind = "class" /\ rule.name \in el.classes

(* Whether rule j of a sheet takes a property from rule i before it        *)
LaterOnlyIfStronger(sheet, i, j) == css_specificity(sheet[j].kind) > css_specificity(sheet[i].kind)
Overrides(sheet, i, j) == css_specificity(sheet[j].kind) >= css_specificity(sheet[i].kind)

css_resolve_style(sheet, el) ==
    LET best(p) == FoldLeft(LAMBDA i, j :
                       IF Matches(sheet[j], el) /\ p \in DOMAIN sheet[j].decl /\ (i = 0 \/ Overrides(sheet, i, j))
                       THEN j ELSE i, 0, [j \in DOMAIN sheet |-> j])
        given == {p \in Props : best(p) # 0}
    IN  [p \in given \cup DOMAIN el.style |-> IF p \in DOMAIN el.style THEN el.style[p] ELSE sheet[best(p)].decl[p]]

-----------------------------------------------------------------------------
(* html_walk *)

Char(c) == [t |-> "char", c |-> c]
Space == [t |-> "space"]
Open(el) == [t |-> "open", el |-> el]
Close(tag) == [t |-> "close", el |-> [tag |-> tag]]

Blocks == {"br", "p", "div", "li", "tr", "h1", "h2", "h3", "h4", "h5", "h6"}
Strong == {"strong", "b", "h1", "h2", "h3", "h4", "h5", "h6"}
Raw == {"script", "style"}

(* The frame at the bottom of the style stack: the desktop's text          *)
BodyStyle == [color |-> "text", background |-> "none", bold |-> FALSE, align |-> "left"]

(* The built-in look of a tag is under the cascade, the cascade over what  *)
(* is inherited.                                                           *)
Frame(sheet, el, parent) ==
    LET look == IF el.tag \in Strong THEN [parent EXCEPT !.bold = TRUE] ELSE parent
        given == css_resolve_style(sheet, el)
    IN  [p \in Props |-> IF p \in DOMAIN given THEN given[p] ELSE look[p]]

Span(text, frame) == [text |-> text, break |-> FALSE, style |-> frame]
Break(frame) == [text |-> <<>>, break |-> TRUE, style |-> frame]

FlushWord(s, maxSpans) ==
    [s EXCEPT !.spans = IF s.word # <<>> /\ Len(@) < maxSpans THEN Append(@, Span(s.word, Last(s.stack))) ELSE @,
              !.word = <<>>]
EmitBreak(s, maxSpans) ==
    LET f == FlushWord(s, maxSpans)
    IN  [f EXCEPT !.spans = IF Len(@) < maxSpans THEN Append(@, Break(Last(s.stack))) ELSE @, !.spaced = TRUE]

StylePopped(s, maxSpans) == [FlushWord(s, maxSpans) EXCEPT !.stack = Front(@)]

(* One tag: the nesting first, then the line break it makes.               *)
WalkTag(s, tok, sheet, lim) ==
    LET tag == tok.el.tag
        closing == tok.t = "close"
        nested ==
          CASE tag \in Raw -> IF closing THEN s ELSE [s EXCEPT !.skip = tag]
            [] tag = "title" -> [s EXCEPT !.inTitle = ~closing]
            [] tag \notin Raw \cup {"title"} /\ ~closing /\ tag # "br" /\ Len(s.stack) < lim.stack ->
                 [s EXCEPT !.stack = Append(@, Frame(sheet, tok.el, Last(@)))]
            [] tag \notin Raw \cup {"title"} /\ closing /\ Len(s.stack) > 1 -> StylePopped(s, lim.spans)
            [] OTHER -> s
    IN  IF tag \in Blocks THEN EmitBreak(nested, lim.spans) ELSE nested

WalkText(s, tok, lim) ==
    CASE s.inTitle ->
           [s EXCEPT !.title = IF Len(@) < lim.title THEN Append(@, IF tok.t = "char" THEN tok.c ELSE " ") ELSE @]
      [] ~s.inTitle /\ tok.t = "space" ->
           IF s.spaced THEN s ELSE [FlushWord(s, lim.spans) EXCEPT !.spaced = TRUE]
      [] ~s.inTitle /\ tok.t = "char" ->
           [s EXCEPT !.word = IF Len(@) < lim.word THEN Append(@, tok.c) ELSE @, !.spaced = FALSE]

Walk(s, tok, sheet, lim) ==
    CASE s.skip # "" ->
           IF tok.t = "close" /\ tok.el.tag = s.skip THEN [s EXCEPT !.skip = ""] ELSE s
      [] s.skip = "" /\ tok.t \in {"open", "close"} -> WalkTag(s, tok, sheet, lim)
      [] s.skip = "" /\ tok.t \notin {"open", "close"} -> WalkText(s, tok, lim)

html_walk(html, sheet, lim) ==
    LET start == [spans |-> <<>>, stack |-> <<BodyStyle>>, word |-> <<>>, spaced |-> TRUE,
                  inTitle |-> FALSE, title |-> <<>>, skip |-> ""]
    IN  FlushWord(FoldLeft(LAMBDA s, tok : Walk(s, tok, sheet, lim), start, html), lim.spans)

(* html_collect_stylesheets: the contents of every style element, wherever *)
(* it stands                                                               *)
html_collect_stylesheets(html, sheet, lim) ==
    FoldLeft(LAMBDA acc, tok :
                 IF tok.t = "open" /\ tok.el.tag = "style" THEN css_parse_stylesheet(tok.el.css, acc, lim.rules) ELSE acc,
             sheet, html)

-----------------------------------------------------------------------------
(* html_layout *)

SameLook(run, style) ==
    /\ run.color = style.color /\ run.bold = style.bold /\ run.background = style.background

FitsBareWord(col, len, cols) == col = 0 \/ col + len <= cols
FitsLine(col, len, cols) == col = 0 \/ col + 1 + len <= cols

(* A word goes to the line's last run, to a new one, or nowhere.           *)
AddWord(line, word, style, col, lim) ==
    LET text == (IF col > 0 THEN <<" ">> ELSE <<>>) \o word
        n == Len(line.runs)
        extends == n > 0 /\ SameLook(line.runs[n].style, style) /\ Len(line.runs[n].text) + Len(text) < lim.run - 1
    IN  CASE extends -> [line EXCEPT !.runs[n].text = @ \o text]
          [] ~extends /\ n < lim.runs ->
               [line EXCEPT !.runs = Append(@, [text |-> First(text, lim.run - 1), style |-> style])]
          [] OTHER -> line

RECURSIVE FillLine(_, _, _, _, _, _)
FillLine(spans, i, line, col, cols, lim) ==
    IF i > Len(spans) \/ spans[i].break THEN [line |-> line, at |-> i]
    ELSE LET word == First(spans[i].text, cols) IN
         IF ~FitsLine(col, Len(word), cols) THEN [line |-> line, at |-> i]
         ELSE FillLine(spans, i + 1, AddWord(line, word, spans[i].style, col, lim),
                       col + Len(word) + (IF col > 0 THEN 1 ELSE 0), cols, lim)

RECURSIVE LinesFrom(_, _, _, _, _)
LinesFrom(spans, i, lines, cols, lim) ==
    IF i > Len(spans) \/ Len(lines) >= lim.lines - 1 THEN lines
    ELSE IF spans[i].break THEN LinesFrom(spans, i + 1, lines, cols, lim)
    ELSE LET filled == FillLine(spans, i, [align |-> spans[i].style.align, runs |-> <<>>], 0, cols, lim)
         IN  LinesFrom(spans, filled.at, Append(lines, filled.line), cols, lim)

(* A line is never narrower than a minimum, nor wider than the buffer that *)
(* a word is collected in.                                                 *)
Columns(wrap, lim) ==
    CASE wrap < lim.narrow -> lim.narrow [] wrap > lim.word -> lim.word [] OTHER -> wrap

html_layout_with_css(html, extra, wrap, lim) ==
    LET cols == Columns(wrap, lim)
        linked == css_parse_stylesheet(extra, <<>>, lim.rules)
        sheet == html_collect_stylesheets(html, linked, lim)
        walk == html_walk(html, sheet, lim)
    IN  [title |-> walk.title, lines |-> LinesFrom(walk.spans, 1, <<>>, cols, lim)]
=============================================================================
