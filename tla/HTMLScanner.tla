----------------------------- MODULE HTMLScanner -----------------------------
(***************************************************************************)
(* The stripper's scanner (stripper/stripper.go, stripHTML): one pass over a *)
(* page that drops scripts, large styles, stylesheet links and images, puts  *)
(* a notice below the first body tag, and copies everything else.  Pages     *)
(* come from old servers, so nothing about them is certain: tags may miss    *)
(* their '>', blocks their end, and constructs may sit inside one another.   *)
(*                                                                         *)
(* A page is a sequence of symbols: the characters and the words that the    *)
(* scanner tells apart, in lower case since it folds case; "x" stands for    *)
(* all other text.  An item of the output names the symbol of the page it    *)
(* stands for, so that order and loss can be stated.                         *)
(***************************************************************************)
EXTENDS Integers, Sequences

CONSTANTS
    Pages,      \* the pages that the scanner may be given
    StyleLimit  \* 2048: the longest style block that is kept, in symbols

\* What can follow the name of a tag; " " stands for white space of any kind.
Boundaries == {" ", ">", "/"}

Symbols == {"<", "script", "style", "link", "img", "body", "stylesheet", "x"}
           \cup Boundaries

ASSUME ScannerAssumption ==
    /\ Pages \subseteq Seq(Symbols)
    /\ StyleLimit \in Nat

VARIABLES
    input,          \* the page
    pos,            \* the next symbol to look at
    bodyInjected,   \* the notice has been written
    out             \* what has been written

vars == <<input, pos, bodyInjected, out>>

Init ==
    /\ input \in Pages
    /\ pos = 1
    /\ bodyInjected = FALSE
    /\ out = <<>>

Done == pos > Len(input)

-----------------------------------------------------------------------------
(* What the scanner recognises, as a stretch from s to e of the page.       *)

\* hasTagPrefix: "<name" and then a boundary or the end of the page.
TagAt(name, s) ==
    /\ s < Len(input)
    /\ input[s] = "<" /\ input[s + 1] = name
    /\ s + 1 < Len(input) => input[s + 2] \in Boundaries

\* The text is found in the page from s on, and its last symbol is at e.
Ends(text, s, e) ==
    /\ e - Len(text) + 1 >= s
    /\ SubSeq(input, e - Len(text) + 1, e) = text

\* A tag with this name starts at s, and the first end of it is at e.  (indexFold
\* and bytes.IndexByte search from the tag's own '<'.)
Stretch(name, end, s, e) ==
    /\ TagAt(name, s)
    /\ e \in s..Len(input)
    /\ Ends(end, s, e)
    /\ \A d \in s..(e - 1) : ~Ends(end, s, d)

Script(s, e) == Stretch("script", <<"<", "/", "script", ">">>, s, e)
Style(s, e) == Stretch("style", <<"<", "/", "style", ">">>, s, e)
Link(s, e) == Stretch("link", <<">">>, s, e)
Img(s, e) == Stretch("img", <<">">>, s, e)
Body(s, e) == Stretch("body", <<">">>, s, e)

Large(s, e) == e - s + 1 > StyleLimit

Stylesheet(s, e) == \E i \in s..e : input[i] = "stylesheet"

-----------------------------------------------------------------------------
(* One action for each way through the body of the loop.                    *)

Item(what, at) == [what |-> what, at |-> at]

\* The page from pos to e, as it is.
Copies(e) == [i \in 1..(e - pos + 1) |-> Item("copy", pos + i - 1)]

Advance(e) == pos' = e + 1 /\ UNCHANGED input

Copy(e) ==
    /\ out' = out \o Copies(e)
    /\ Advance(e)
    /\ UNCHANGED bodyInjected

Strip(e) == Advance(e) /\ UNCHANGED <<bodyInjected, out>>

\* Everything up to the next '<', or to the end of the page.
FastForward ==
    /\ \E e \in pos..Len(input) :
          /\ \A i \in pos..e : input[i] # "<"
          /\ e < Len(input) => input[e + 1] = "<"
          /\ Copy(e)

\* Faulty variant: the search for the end is off by one, into the next symbol.
StripScriptLong == \E e \in pos..Len(input) : Script(pos, e) /\ Strip(e + 1)

StripScript == \E e \in pos..Len(input) : Script(pos, e) /\ Strip(e)

StripStyle ==
    \E e \in pos..Len(input) : Style(pos, e) /\ Large(pos, e) /\ Strip(e)

\* Faulty variant: the block is written, but the cursor is not moved past it.
KeepStyleStuck ==
    \E e \in pos..Len(input) :
       /\ Style(pos, e) /\ ~Large(pos, e)
       /\ out' = out \o Copies(e)
       /\ UNCHANGED <<input, pos, bodyInjected>>

\* Faulty variant: the cursor moves to the '>' and not past it.
KeepStyleShort ==
    \E e \in pos..Len(input) :
       /\ Style(pos, e) /\ ~Large(pos, e)
       /\ out' = out \o Copies(e)
       /\ Advance(e - 1)
       /\ UNCHANGED bodyInjected

KeepStyle ==
    \E e \in pos..Len(input) : Style(pos, e) /\ ~Large(pos, e) /\ Copy(e)

StripLink ==
    \E e \in pos..Len(input) : Link(pos, e) /\ Stylesheet(pos, e) /\ Strip(e)

\* Faulty variant: every link is kept.
KeepLinkAny == \E e \in pos..Len(input) : Link(pos, e) /\ Copy(e)

KeepLink ==
    \E e \in pos..Len(input) : Link(pos, e) /\ ~Stylesheet(pos, e) /\ Copy(e)

\* A placeholder takes the place of an image.
ReplaceImg ==
    \E e \in pos..Len(input) :
       /\ Img(pos, e)
       /\ out' = Append(out, Item("img", e))
       /\ Advance(e)
       /\ UNCHANGED bodyInjected

\* The tag is kept and the notice written below it.
Inject(e) ==
    /\ out' = Append(out \o Copies(e), Item("notice", e))
    /\ Advance(e)

\* Faulty variant: nobody remembers that the notice was written.
InjectNoticeAlways ==
    \E e \in pos..Len(input) : Body(pos, e) /\ Inject(e) /\ UNCHANGED bodyInjected

InjectNotice ==
    /\ ~bodyInjected
    /\ \E e \in pos..Len(input) : Body(pos, e) /\ Inject(e)
    /\ bodyInjected' = TRUE

\* A '<' that starts nothing the scanner handles: any other tag, and a tag whose
\* end is missing.
Plain ==
    /\ ~Done /\ input[pos] = "<"
    /\ \A e \in pos..Len(input) :
          /\ ~Script(pos, e) /\ ~Style(pos, e) /\ ~Link(pos, e) /\ ~Img(pos, e)
          /\ Body(pos, e) => bodyInjected

\* Faulty variant: a script without an end takes the rest of the page with it.
EmitAngleCut ==
    /\ Plain
    /\ IF TagAt("script", pos) THEN Strip(Len(input)) ELSE Copy(pos)

\* Faulty variant: the cursor waits at a tag for the '>' that never comes.
EmitAngleWaits ==
    /\ Plain
    /\ \E e \in pos..Len(input) : input[e] = ">"
    /\ Copy(pos)

\* The '<' is copied, and the scan goes on behind it.
EmitAngle == Plain /\ Copy(pos)

Next ==
    \/ FastForward
    \/ StripScript
    \/ StripStyle
    \/ KeepStyle
    \/ StripLink
    \/ KeepLink
    \/ ReplaceImg
    \/ InjectNotice
    \/ EmitAngle

Spec == Init /\ [][Next]_vars

\* The scanner is sequential code, which runs on until the loop ends.
FairSpec == Spec /\ WF_vars(Next)

-----------------------------------------------------------------------------
(* Properties.                                                              *)

\* Values that the variables can have; the cursor never runs beyond the page.
TypeOK ==
    /\ input \in Seq(Symbols)
    /\ pos \in 1..(Len(input) + 1)
    /\ bodyInjected \in BOOLEAN
    /\ out \in Seq([what : {"copy", "img", "notice"}, at : 1..(pos - 1)])

\* Nothing is written twice or out of its place: of two items the later stands for
\* a later symbol, or it is the notice right below the copied end of a body tag.
InOrder ==
    \A i, j \in 1..Len(out) : i < j =>
       \/ out[i].at < out[j].at
       \/ /\ out[i].at = out[j].at
          /\ out[i].what = "copy" /\ out[j].what = "notice"

Written(what, i) == \E k \in 1..Len(out) : out[k] = Item(what, i)

Copied(i) == Written("copy", i)

\* What the scanner is meant to take out of a page.
Heavy(s, e) ==
    \/ Script(s, e)
    \/ Style(s, e) /\ Large(s, e)
    \/ Link(s, e) /\ Stylesheet(s, e)
    \/ Img(s, e)

\* However broken the page is, what the scanner has passed is either copied or
\* part of a complete construct it is meant to strip; an image that is lost has
\* left its placeholder.
LossExplained ==
    \A i \in 1..(pos - 1) :
       \/ Copied(i)
       \/ \E s \in 1..i : \E e \in i..(pos - 1) :
             Heavy(s, e) /\ (Img(s, e) => Written("img", e))

\* The stretches that are copied whole, with whatever is inside.
Kept(s, e) ==
    \/ Style(s, e) /\ ~Large(s, e)
    \/ Link(s, e) /\ ~Stylesheet(s, e)
    \/ Body(s, e) /\ Written("notice", e)

\* A heavy construct whose '<' is copied is inside a stretch that is kept whole:
\* none slips through because of what came before it.
HeavyIsStripped ==
    \A s \in 1..(pos - 1) : \A e \in s..Len(input) :
       Copied(s) /\ Heavy(s, e) =>
          \E t \in 1..(s - 1) : \E f \in s..(pos - 1) : Kept(t, f)

\* The notice is written at most once, directly below a body tag that was copied,
\* and a body tag above it can only be one inside another stretch that is kept.
OneNotice ==
    /\ \A i, j \in 1..Len(out) :
          out[i].what = "notice" /\ out[j].what = "notice" => i = j
    /\ \A e \in 1..(pos - 1) : Written("notice", e) =>
          \E s \in 1..e : Body(s, e) /\ \A i \in s..e : Copied(i)
    /\ \A s \in 1..(pos - 1) : \A e \in s..(pos - 1) :
          Body(s, e) /\ Copied(s) =>
             \/ \E f \in 1..e : Written("notice", f)
             \/ \E t \in 1..(s - 1) : \E f \in s..(pos - 1) : Kept(t, f)

\* Every turn of the loop moves the cursor on, whatever is missing from the page.
Progress == [][pos' > pos]_vars

\* So the loop ends.
ScanEnds == <>Done
=============================================================================
