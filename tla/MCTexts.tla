-------------------------------- MODULE MCTexts --------------------------------
(***************************************************************************)
(* The text editor's buffer and the browser's renderer, called with every  *)
(* input of a small set, each against a reference definition.              *)
(***************************************************************************)
EXTENDS Integers, Sequences, SequencesExt, FiniteSets, FiniteSetsExt, Calls

CONSTANTS MaxLines, MaxLineLen

N == INSTANCE NoteEdit
W == INSTANCE Html

-----------------------------------------------------------------------------
(* The editor: every buffer of a few short lines, and every file.          *)
LineOf == BoundedSeq({"a"}, MaxLineLen - 1)
Buffers ==
    {N!Buffer(lines, l, c) : lines \in UNION {TupleOf(LineOf, m) : m \in 1 .. MaxLines},
                             l \in 1 .. MaxLines, c \in 0 .. MaxLineLen - 1}
Usable(nb) ==
    /\ Len(nb.lines) <= MaxLines /\ \A l \in DOMAIN nb.lines : Len(nb.lines[l]) < MaxLineLen
    /\ nb.line \in DOMAIN nb.lines /\ nb.col \in 0 .. Len(nb.lines[nb.line])

PressKey == Idle /\ \E nb \in Buffers, key \in {"x", "\n", "backspace", "left", "right", "up", "down"} :
    Usable(nb) /\ Call("key", <<nb, key>>, N!note_handle_key(nb, key))
LoadSave == Idle /\ \E file \in BoundedSeq({"a", "\n"}, 6) :
    Call("file", file, <<N!note_load(file), N!note_save(N!note_load(file))>>)

(* The text before the cursor and the text after it                        *)
Text(nb) == FlattenSeq([i \in DOMAIN nb.lines |-> (IF i = 1 THEN <<>> ELSE <<"\n">>) \o nb.lines[i]])
Before(nb) == Text([lines |-> SubSeq(nb.lines, 1, nb.line - 1) \o <<SubSeq(nb.lines[nb.line], 1, nb.col)>>])
Rest(nb) == SubSeq(Text(nb), Len(Before(nb)) + 1, Len(Text(nb)))

(* To the user the buffer is one text with a cursor in it: a key changes   *)
(* the text at the cursor, or moves the cursor by a character, or the      *)
(* buffer is full and nothing happens.  Splitting and joining lines loses  *)
(* and doubles nothing, and no line or number of lines passes its limit.   *)
KeyEditsText ==
    Called("key") =>
        LET nb == Args[1]  key == Args[2]  b == Before(nb)  r == Rest(nb) IN
        /\ Usable(result)
        /\ CASE key \in {"x", "\n"} ->
                  \/ Before(result) = Append(b, key) /\ Rest(result) = r
                  \/ result = nb /\ IF key = "x" THEN Len(nb.lines[nb.line]) = MaxLineLen - 1
                                                 ELSE Len(nb.lines) = MaxLines
             [] key = "backspace" ->
                  \/ b # <<>> /\ Before(result) = Front(b) /\ Rest(result) = r
                  \/ /\ result = nb /\ nb.col = 0
                     /\ nb.line > 1 => Len(nb.lines[nb.line - 1] \o nb.lines[nb.line]) >= MaxLineLen
             [] key = "left" -> Text(result) = Text(nb) /\ Before(result) = IF b = <<>> THEN b ELSE Front(b)
             [] key = "right" ->
                  /\ Text(result) = Text(nb)
                  /\ Before(result) = IF r = <<>> THEN b ELSE Append(b, Head(r))
             [] OTHER ->
                  /\ Text(result) = Text(nb)
                  /\ result.line = IF key = "up" THEN Max({1, nb.line - 1}) ELSE Min({Len(nb.lines), nb.line + 1})
                  /\ result.col = Min({nb.col, Len(result.lines[result.line])})

(* A file whose lines fit is loaded with the cursor at its end, and saved  *)
(* again byte for byte.  With as many ends of line as the buffer has lines *)
(* the load leaves one line too many.                                      *)
Newlines(file) == Cardinality({i \in DOMAIN file : file[i] = "\n"})
FitsLines(file) == ~\E i \in 0 .. Len(file) - MaxLineLen : "\n" \notin {file[i + k] : k \in 1 .. MaxLineLen}
FileRoundTrip ==
    (Called("file") /\ Newlines(Args) < MaxLines) =>
        LET nb == result[1] IN
        /\ Usable(nb) /\ Rest(nb) = <<>>
        /\ FitsLines(Args) => result[2] = Args

(* What the user edits is the file: loading, keys and saving neither lose  *)
(* nor add a character.                                                    *)
EditorKeepsText == KeyEditsText /\ FileRoundTrip

-----------------------------------------------------------------------------
(* Style sheets: every sequence of a few tokens.                           *)
H1 == W!Selector("tag", "h1")
Red == W!Declares("color", "red")
Heavy == W!Declares("font-weight", "bold")
CssTokens == {H1, W!Selector("class", "c"), Red, Heavy, W!Mark(","), W!Mark("{"), W!Mark("}"), W!Mark("name}"), W!Mark("comment")}
GoodRule == <<W!Selector("id", "last"), W!Mark("{"), Red, W!Mark("}")>>

ParseSheet == Idle /\ \E css \in BoundedSeq(CssTokens, 4), maxRules \in {2, 9} :
    Call("css", <<css, maxRules>>, W!css_parse_stylesheet(css \o <<W!Mark("}")>> \o GoodRule, <<>>, maxRules))

(* The rules a sheet has by its grammar: what stands between two closing   *)
(* braces is one, if it is names with commas, an opening brace, and then   *)
(* declarations.                                                           *)
Ends(css) == {0} \cup {i \in DOMAIN css : css[i].t \in {"}", "name}"}} \cup {Len(css) + 1}
Piece(css, i) == SubSeq(css, i + 1, Min({j \in Ends(css) : j > i}) - 1)
Stripped(piece) ==
    LET k == Min({i \in 1 .. Len(piece) + 1 : i > Len(piece) \/ piece[i].t # "comment"})
    IN  SubSeq(piece, k, Len(piece))
RuleOf(piece) ==
    LET braces == {i \in DOMAIN piece : piece[i].t = "{"}
        head == SubSeq(piece, 1, Min(braces) - 1)
        good == /\ braces # {} /\ head # <<>> /\ Len(head) % 2 = 1
                /\ \A i \in DOMAIN head : (i % 2 = 0) <=> (head[i].t = ",")
    IN  IF braces = {} \/ ~good THEN <<>>
        ELSE LET names == [k \in 1 .. (Len(head) + 1) \div 2 |-> W!NameOf(head[2 * k - 1])]
                 decl == W!css_parse_declarations(SubSeq(piece, Min(braces) + 1, Len(piece)))
             IN  [k \in DOMAIN names |-> [kind |-> names[k].kind, name |-> names[k].name, decl |-> decl]]
RulesOf(css) ==
    LET at == SetToSortSeq(Ends(css) \ {Len(css) + 1}, <)
    IN  FlattenSeq([k \in DOMAIN at |-> RuleOf(Stripped(Piece(css, at[k])))])
NoEmptyNames(css) == \A i \in DOMAIN css : css[i].t = "," => i > 1 /\ css[i - 1].t \notin {",", "}", "comment"}

(* The exception: a closing brace at the end of a word that stands where a *)
(* selector is expected ("h1}").  css.c takes it into the name and looks   *)
(* for the end of this rule further on, so that the rule after it is lost, *)
(* against the comment that BadRuleIsolated quotes.                        *)
BraceInSelector(css) ==
    {i \in DOMAIN css :
        /\ css[i].t = "name}"
        /\ LET piece == Stripped(Piece(css, Max({j \in Ends(css) : j < i})))
           IN  piece = <<>> \/ Last(piece).t = ","}

(* css.c: "one bad rule doesn't stop every rule after it": whatever comes  *)
(* before, exactly the rules that are well formed are in the sheet, in     *)
(* their order, until it is full.  In a sheet with a brace in a selector   *)
(* this can be said only of the rules before it.                           *)
BadRuleIsolated ==
    Called("css") =>
        LET css == Args[1] \o <<W!Mark("}")>> \o GoodRule
            odd == BraceInSelector(css)
            rules == RulesOf(IF odd = {} THEN css ELSE SubSeq(css, 1, Min(odd) - 1))
            kept == SubSeq(rules, 1, Min({Args[2], Len(rules)}))
        IN  NoEmptyNames(css) => IF odd = {} THEN result = kept ELSE IsPrefix(kept, result)

-----------------------------------------------------------------------------
(* Pages: every sequence of a few tokens, under some sheets.               *)
El(tag, id, classes, style) == [tag |-> tag, id |-> id, classes |-> classes, style |-> style, css |-> <<>>]
Bold == El("b", "", {"c"}, W!Nothing)
Para == El("p", "i", {"c", "d"}, W!Nothing)
Inline == El("b", "", {}, W!Set(W!Set(W!Nothing, "color", "red"), "bold", FALSE))
Rule(kind, name, ds) == <<W!Selector(kind, name), W!Mark("{")>> \o ds \o <<W!Mark("}")>>
Sheets ==
    {<<>>,
     Rule("class", "c", <<W!Declares("color", "red"), W!Declares("text-align", "right")>>)
       \o Rule("class", "d", <<W!Declares("color", "blue")>>)
       \o Rule("tag", "p", <<W!Declares("color", "red"), W!Declares("font-weight", "400")>>),
     Rule("id", "i", <<W!Declares("color", "blue")>>)
       \o Rule("tag", "b", <<W!Declares("font-weight", "normal"), W!Declares("background", "red")>>)
       \o Rule("class", "c", <<W!Declares("color", "red"), W!Declares("color", "mud")>>)}
Letters == {W!Char("a")}
PageTokens == Letters \cup {W!Space, W!Open(Bold), W!Open(Para), W!Close("b"), W!Close("p")}
Extra == {<<W!Open(Inline), W!Char("a"), W!Close("b")>>,
          <<W!Char("a"), W!Space, W!Open(El("style", "", {}, W!Nothing)), W!Char("a"), W!Close("style"), W!Char("a")>>,
          <<W!Open(El("title", "", {}, W!Nothing)), W!Char("t"), W!Space, W!Char("t"), W!Close("title"), W!Char("a"), W!Open(El("br", "", {}, W!Nothing)), W!Char("a")>>}
Roomy == [stack |-> 8, spans |-> 30, word |-> 8, runs |-> 9, run |-> 20, lines |-> 20, rules |-> 9, narrow |-> 3, title |-> 2]
Tight == [stack |-> 2, spans |-> 3, word |-> 2, runs |-> 1, run |-> 4, lines |-> 3, rules |-> 2, narrow |-> 2, title |-> 1]

(* Runs that hold two characters, on lines of five                         *)
Short == [Roomy EXCEPT !.run = 3]

LayOut == Idle /\ \E html \in BoundedSeq(PageTokens, 5) \cup Extra, css \in Sheets :
    Call("page", <<html, css, 3, Roomy.run>>, W!html_layout_with_css(html, css, 3, Roomy))
LayOutShort == Idle /\ \E html \in BoundedSeq(PageTokens, 5) :
    Call("page", <<html, <<>>, 5, Short.run>>, W!html_layout_with_css(html, <<>>, 5, Short))
LayOutTight == Idle /\ \E html \in BoundedSeq(PageTokens, 5), css \in {<<>>} :
    Call("tight", <<html, css>>, W!html_layout_with_css(html, css, 9, Tight))

(* Reference: the visible characters of a page, and the words they make.   *)
Tag(tok) == IF tok.t \in {"open", "close"} THEN tok.el.tag ELSE ""
Inside(html, k, tag) ==
    \E i \in 1 .. k - 1 : /\ html[i].t = "open" /\ Tag(html[i]) = tag
                          /\ ~\E j \in i .. k : html[j].t = "close" /\ Tag(html[j]) = tag
Visible(html) ==
    {k \in DOMAIN html : html[k].t = "char" /\ \A tag \in {"style", "title"} : ~Inside(html, k, tag)}
BreakAt(tok) == Tag(tok) \in W!Blocks
Counts(tok) == tok.t \in {"open", "close"} /\ Tag(tok) \notin {"br", "style", "title"}
Depth(html, k) ==
    FoldLeft(LAMBDA d, tok : IF ~Counts(tok) THEN d ELSE IF tok.t = "open" THEN d + 1 ELSE Max({0, d - 1}),
             0, SubSeq(html, 1, k))
(* Words are parted by spaces and by the tags that break a line.           *)
Parts(html, j) ==
    /\ ~Inside(html, j, "style") /\ ~Inside(html, j, "title")
    /\ html[j].t = "space" \/ BreakAt(html[j])
(* The end of an element that is open                                      *)
Leaves(html, j) == html[j].t = "close" /\ Counts(html[j]) /\ Depth(html, j - 1) > 0
After(html, i, k, parts(_, _)) == \E j \in i .. k : parts(html, j)
StartsBy(html, parts(_, _)) ==
    SetToSortSeq({k \in Visible(html) : \A i \in Visible(html) : i < k => After(html, i, k, parts)}, <)
Starts(html) == StartsBy(html, Parts)
Word(html, w) ==
    LET from == Starts(html)[w]
        to == IF w < Len(Starts(html)) THEN Starts(html)[w + 1] - 1 ELSE Len(html)
        ks == SetToSortSeq({k \in Visible(html) : k \in from .. to}, <)
    IN  [i \in DOMAIN ks |-> html[ks[i]].c]

(* A word in which an element ends has a piece on each side of the tag.    *)
PartsOrLeaves(html, j) == Parts(html, j) \/ Leaves(html, j)
Pieces(html) == StartsBy(html, PartsOrLeaves)

TitleOf(html) ==
    LET ks == SetToSortSeq({k \in DOMAIN html : html[k].t \in {"char", "space"} /\ Inside(html, k, "title")}, <)
    IN  [i \in 1 .. Min({Roomy.title, Len(ks)}) |-> IF html[ks[i]].t = "char" THEN html[ks[i]].c ELSE " "]

(* What the lines show                                                     *)
LineText(line) == FlattenSeq([r \in DOMAIN line.runs |-> line.runs[r].text])
SplitWords(text) ==
    FoldLeft(LAMBDA ws, c : IF c = " " THEN Append(ws, <<>>) ELSE Append(Front(ws), Append(Last(ws), c)), << <<>> >>, text)
LineWords(line) == SplitWords(LineText(line))
Shown == FlattenSeq([l \in DOMAIN result.lines |-> LineWords(result.lines[l])])
LineNo(w) ==
    Min({l \in DOMAIN result.lines : w <= Len(FlattenSeq([k \in 1 .. l |-> LineWords(result.lines[k])]))})
Clip(word, cols) == SubSeq(word, 1, Min({cols, Len(word)}))

(* Two exceptions.  An element that ends inside a word: html.c says that   *)
(* the spaces it puts between spans stand for whitespace of the page, but  *)
(* it ends a span at the tag and so puts a space into the word.  And a     *)
(* word that no run can hold, which html.c says it cuts off.               *)
TagInWord(html) == Len(Pieces(html)) > Len(Starts(html))
LongWord(html, run) == \E w \in DOMAIN Starts(html) : Len(Word(html, w)) > run - 2

(* html.c shows the title, and every word of a page in order, whole if it  *)
(* fits a line; two words share a line exactly when nothing breaks it      *)
(* between them and the line has room.  Of a page with an element that     *)
(* ends inside a word every character is shown in its order, and of a page *)
(* with a word too long for a run the beginning of every word.  With every *)
(* buffer at its limit no limit is passed, and no word is shown twice.     *)
TextFlows ==
    /\ Called("page") =>
         LET html == Args[1]  cols == Args[3]  n == Len(Starts(html))
             words == [w \in 1 .. n |-> Clip(Word(html, w), cols)]
             inOrder ==
               \A w \in 1 .. n - 1 :
                 LET breaks == \E j \in Starts(html)[w] .. Starts(html)[w + 1] : BreakAt(html[j])
                     used == Len(LineText([runs |-> << [text |-> FlattenSeq([v \in 1 .. w |->
                                 IF LineNo(v) = LineNo(w) THEN Append(Shown[v], " ") ELSE <<>>])] >>]))
                 IN  LineNo(w + 1) = LineNo(w) <=> ~breaks /\ used + Len(Shown[w + 1]) <= cols
         IN  /\ result.title = TitleOf(html)
             /\ ~LongWord(html, Args[4]) =>
                  IF TagInWord(html) THEN FlattenSeq(Shown) = FlattenSeq(words) ELSE Shown = words /\ inOrder
             /\ ~TagInWord(html) =>
                  Len(Shown) = n /\ \A w \in 1 .. n : Shown[w] # <<>> /\ IsPrefix(Shown[w], words[w])
    /\ Called("tight") =>
         /\ Len(result.lines) <= Tight.lines - 1 /\ Len(Shown) <= Len(Pieces(Args[1]))
         /\ \A l \in DOMAIN result.lines :
              /\ Len(result.lines[l].runs) <= Tight.runs /\ Len(LineText(result.lines[l])) <= Tight.word

(* Reference: the elements a word is in, and the cascade.                  *)
Ancestors(html, k) ==
    SetToSortSeq({i \in 1 .. k : html[i].t = "open" /\ Counts(html[i]) /\ \A j \in i .. k : Depth(html, j) >= Depth(html, i)}, <)
WellNested(html) ==
    \A k \in DOMAIN html :
        (html[k].t = "close" /\ Counts(html[k])) =>
            LET open == Ancestors(html, k - 1) IN open # <<>> /\ Tag(html[Last(open)]) = Tag(html[k])
(* A word that an opening tag follows without a space is taken to be in    *)
(* that element already.                                                   *)
WordsStandAlone(html) == \A k \in 1 .. Len(html) - 1 : html[k].t = "char" => html[k + 1].t # "open"
Winner(sheet, el, p) ==
    LET with == {j \in DOMAIN sheet : W!Matches(sheet[j], el) /\ p \in DOMAIN sheet[j].decl}
        weight(j) == 1000 * W!css_specificity(sheet[j].kind) + j
    IN  CHOOSE j \in with : \A i \in with : weight(i) <= weight(j)
Says(sheet, el, p) ==
    CASE p \in DOMAIN el.style -> <<el.style[p]>>
      [] p \notin DOMAIN el.style /\ (\E j \in DOMAIN sheet : W!Matches(sheet[j], el) /\ p \in DOMAIN sheet[j].decl) ->
           <<sheet[Winner(sheet, el, p)].decl[p]>>
      [] OTHER -> IF p = "bold" /\ el.tag \in W!Strong THEN <<TRUE>> ELSE <<>>
StyleAt(html, sheet, k, p) ==
    LET els == Ancestors(html, k)
        saying == {i \in DOMAIN els : Says(sheet, html[els[i]].el, p) # <<>>}
    IN  IF saying = {} THEN W!BodyStyle[p] ELSE Says(sheet, html[els[Max(saying)]].el, p)[1]
LookOf(w, p) ==
    LET line == result.lines[LineNo(w)]
        before == Len(FlattenSeq([l \in 1 .. LineNo(w) - 1 |-> LineWords(result.lines[l])]))
        start == Len(FlattenSeq([v \in 1 .. w - 1 - before |-> Append(Shown[before + v], " ")])) + 1
        run == Min({r \in DOMAIN line.runs : start <= Len(FlattenSeq([q \in 1 .. r |-> line.runs[q].text]))})
    IN  line.runs[run].style[p]

(* Every piece of text in a page that is properly nested has the look the  *)
(* cascade gives it: of the innermost element that says something, its own *)
(* style, or the most specific and then the last rule; however words are   *)
(* merged into runs and wrapped.  A line is aligned as its first word is.   *)
StyledByCascade ==
    (Called("page") /\ WellNested(Args[1]) /\ WordsStandAlone(Args[1])) =>
        LET html == Args[1]
            sheet == RulesOf(Args[2])
        IN  \A w \in DOMAIN Pieces(html) :
                /\ \A p \in {"color", "background", "bold"} : LookOf(w, p) = StyleAt(html, sheet, Pieces(html)[w], p)
                /\ (w = 1 \/ LineNo(w - 1) # LineNo(w)) =>
                      result.lines[LineNo(w)].align = StyleAt(html, sheet, Pieces(html)[w], "align")

(* The page that is shown has the words of the source, in their places and *)
(* with their looks.                                                       *)
PageAsWritten == TextFlows /\ StyledByCascade

TextCalls == PressKey \/ LoadSave \/ ParseSheet \/ LayOut \/ LayOutShort \/ LayOutTight
=============================================================================
