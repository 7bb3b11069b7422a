--------------------------- MODULE HTMLScannerProofs ---------------------------
(* What the scanner does to pages of any length, whatever is in them.         *)
EXTENDS HTMLScanner, SequenceTheorems, TLAPS

-----------------------------------------------------------------------------
(* A turn of the loop.                                                      *)

Whats == {"copy", "img", "notice"}

ItemsIn(s, e) == [what : Whats, at : s..e]

\* What a turn that moves the cursor past e may add to the output.
Additions(e) ==
    {<<>>, Copies(e), <<Item("img", e)>>, Append(Copies(e), Item("notice", e))}

Turn(e, added) ==
    /\ input' = input
    /\ pos' = e + 1
    /\ out' = out \o added

LEMMA ItemFields == \A what, at : Item(what, at).what = what /\ Item(what, at).at = at
BY DEF Item

\* The copies of a stretch, one by one.
LEMMA CopiesAre ==
  ASSUME TypeOK, NEW e \in pos..Len(input)
  PROVE  /\ Copies(e) \in Seq(ItemsIn(pos, e))
         /\ Len(Copies(e)) = e - pos + 1
         /\ \A k \in 1..Len(Copies(e)) : Copies(e)[k] = Item("copy", pos + k - 1)
<1>1. /\ Len(input) \in Nat /\ pos \in Nat \ {0} /\ e \in Nat
      /\ e - pos + 1 \in Nat /\ e <= Len(input)
  BY DEF TypeOK
<1>2. \A k \in 1..(e - pos + 1) : Item("copy", pos + k - 1) \in ItemsIn(pos, e)
  BY <1>1 DEF Item, ItemsIn, Whats
<1>3. Copies(e) \in [1..(e - pos + 1) -> ItemsIn(pos, e)]
  BY <1>2 DEF Copies
<1>4. Copies(e) \in Seq(ItemsIn(pos, e))
  BY <1>1, <1>3, SeqDef
<1>5. Len(Copies(e)) = e - pos + 1
  BY <1>1, <1>3, <1>4, LenProperties
<1> QED  BY <1>4, <1>5 DEF Copies

\* The later of two items stands for a later symbol, or is the notice below a tag.
Later(x, y) ==
    \/ x.at < y.at
    \/ x.at = y.at /\ x.what = "copy" /\ y.what = "notice"

Ordered(s) == \A i, j \in 1..Len(s) : i < j => Later(s[i], s[j])

\* Whatever is added lies between the cursor and e, in order.
LEMMA AdditionsAre ==
  ASSUME TypeOK, NEW e \in pos..Len(input), NEW added \in Additions(e)
  PROVE  added \in Seq(ItemsIn(pos, e)) /\ Ordered(added)
<1>1. /\ Len(input) \in Nat /\ pos \in Nat \ {0} /\ e \in Nat
      /\ e - pos + 1 \in Nat \ {0} /\ pos <= e
  BY DEF TypeOK
<1> DEFINE copies == Copies(e)
           S == ItemsIn(pos, e)
<1>2. /\ copies \in Seq(S)
      /\ Len(copies) = e - pos + 1
      /\ \A k \in 1..Len(copies) : copies[k] = Item("copy", pos + k - 1)
  BY CopiesAre
<1>3. Item("img", e) \in S /\ Item("notice", e) \in S
  BY <1>1 DEF Item, ItemsIn, Whats
<1>4. added \in {<<>>, copies, <<Item("img", e)>>, Append(copies, Item("notice", e))}
  BY DEF Additions
<1> HIDE DEF copies, S
<1>5. \A k \in 1..Len(copies) : copies[k].what = "copy" /\ copies[k].at = pos + k - 1
  BY <1>2, ItemFields
<1>6. CASE added = <<>>
  BY <1>6 DEF S, Ordered
<1>7. CASE added = copies
  BY <1>1, <1>2, <1>5, <1>7 DEF S, Ordered, Later
<1>8. CASE added = <<Item("img", e)>>
  BY <1>3, <1>8 DEF S, Ordered
<1>9. CASE added = Append(copies, Item("notice", e))
  <2>1. /\ added \in Seq(S)
        /\ Len(added) = Len(copies) + 1
        /\ \A k \in 1..Len(copies) : added[k] = copies[k]
        /\ added[Len(copies) + 1] = Item("notice", e)
    BY <1>2, <1>3, <1>9, AppendProperties
  <2> SUFFICES ASSUME NEW i \in 1..Len(added), NEW j \in 1..Len(added), i < j
               PROVE  Later(added[i], added[j])
    BY <2>1 DEF S, Ordered
  <2>2. i \in 1..Len(copies) /\ added[i].what = "copy" /\ added[i].at = pos + i - 1
    <3>1. i \in 1..Len(copies)
      BY <1>1, <1>2, <2>1
    <3> QED  BY <1>5, <2>1, <3>1
  <2>3. CASE j = Len(copies) + 1
    <3>1. added[j].what = "notice" /\ added[j].at = e
      BY <2>1, <2>3, ItemFields
    <3> QED  BY <1>1, <1>2, <2>2, <3>1 DEF Later
  <2>4. CASE j \in 1..Len(copies)
    <3>1. added[j].at = pos + j - 1
      BY <1>5, <2>1, <2>4
    <3> QED  BY <1>1, <2>2, <3>1 DEF Later
  <2> QED  BY <1>1, <1>2, <2>1, <2>3, <2>4
<1> QED  BY <1>4, <1>6, <1>7, <1>8, <1>9

LEMMA AppendBehind ==
  ASSUME NEW S, NEW T, NEW s \in Seq(S), NEW t \in Seq(T), NEW x
  PROVE  Append(s \o t, x) = s \o Append(t, x)
OBVIOUS

\* The four kinds of turn, and what the scanner has seen when it takes one.
CopyTurn(e) ==
    /\ Turn(e, Copies(e))
    /\ bodyInjected' = bodyInjected
    /\ \/ \A i \in pos..e : input[i] # "<"
       \/ Style(pos, e) /\ ~Large(pos, e)
       \/ Link(pos, e) /\ ~Stylesheet(pos, e)
       \/ e = pos /\ Plain

StripTurn(e) ==
    /\ Turn(e, <<>>)
    /\ bodyInjected' = bodyInjected
    /\ Heavy(pos, e) /\ ~Img(pos, e)

ImgTurn(e) ==
    /\ Turn(e, <<Item("img", e)>>)
    /\ bodyInjected' = bodyInjected
    /\ Img(pos, e)

NoticeTurn(e) ==
    /\ Turn(e, Append(Copies(e), Item("notice", e)))
    /\ ~bodyInjected /\ bodyInjected' = TRUE
    /\ Body(pos, e)

\* No two of the tags the scanner handles start at the same place.
LEMMA OneName ==
  ASSUME NEW s, NEW n, NEW m, TagAt(n, s), TagAt(m, s)
  PROVE  n = m
BY DEF TagAt

\* Every action of the scanner is a turn of one of these kinds.
LEMMA TurnTaken ==
  ASSUME TypeOK, Next
  PROVE  \E e \in pos..Len(input) :
            CopyTurn(e) \/ StripTurn(e) \/ ImgTurn(e) \/ NoticeTurn(e)
<1>1. /\ out \in Seq(ItemsIn(1, pos - 1))
      /\ Len(input) \in Nat /\ pos \in Nat \ {0}
  BY DEF TypeOK, ItemsIn, Whats
<1>2. out \o <<>> = out
  BY <1>1
<1>3. ASSUME NEW e \in pos..Len(input), Copy(e)
      PROVE  Turn(e, Copies(e)) /\ bodyInjected' = bodyInjected
  BY <1>3 DEF Copy, Advance, Turn
<1>4. ASSUME NEW e \in pos..Len(input), Strip(e)
      PROVE  Turn(e, <<>>) /\ bodyInjected' = bodyInjected
  BY <1>2, <1>4 DEF Strip, Advance, Turn
<1>5. CASE FastForward
  BY <1>3, <1>5 DEF FastForward, CopyTurn
<1>6. CASE StripScript \/ StripStyle \/ StripLink
  <2>1. PICK e \in pos..Len(input) :
           /\ Strip(e)
           /\ \/ Script(pos, e)
              \/ Style(pos, e) /\ Large(pos, e)
              \/ Link(pos, e) /\ Stylesheet(pos, e)
    BY <1>6 DEF StripScript, StripStyle, StripLink
  <2>2. TagAt("script", pos) \/ TagAt("style", pos) \/ TagAt("link", pos)
    BY <2>1 DEF Script, Style, Link, Stretch
  <2>3. ~Img(pos, e)
    BY <2>2, OneName DEF Img, Stretch
  <2> QED  BY <1>4, <2>1, <2>3 DEF StripTurn, Heavy
<1>7. CASE KeepStyle \/ KeepLink
  BY <1>3, <1>7 DEF KeepStyle, KeepLink, CopyTurn
<1>8. CASE ReplaceImg
  <2>1. PICK e \in pos..Len(input) :
           /\ Img(pos, e) /\ out' = Append(out, Item("img", e))
           /\ Advance(e) /\ UNCHANGED bodyInjected
    BY <1>8 DEF ReplaceImg
  <2>2. Append(out, Item("img", e)) = out \o <<Item("img", e)>>
    BY <1>1
  <2> QED  BY <2>1, <2>2 DEF Turn, Advance, ImgTurn
<1>9. CASE InjectNotice
  <2>1. PICK e \in pos..Len(input) : Body(pos, e) /\ Inject(e)
    BY <1>9 DEF InjectNotice
  <2>2. out \in Seq(ItemsIn(1, pos - 1)) /\ Copies(e) \in Seq(ItemsIn(pos, e))
    BY <1>1, CopiesAre
  <2>3. \A x : Append(out \o Copies(e), x) = out \o Append(Copies(e), x)
    BY <2>2, AppendBehind
  <2>4. Turn(e, Append(Copies(e), Item("notice", e)))
    BY <2>1, <2>3 DEF Turn, Inject, Advance
  <2>5. ~bodyInjected /\ bodyInjected' = TRUE
    BY <1>9, Zenon DEF InjectNotice
  <2> QED  BY <2>1, <2>4, <2>5, Zenon DEF NoticeTurn
<1>10. CASE EmitAngle
  <2>1. pos \in pos..Len(input)
    BY <1>1, <1>10 DEF EmitAngle, Plain, Done
  <2> QED  BY <1>3, <1>10, <2>1 DEF EmitAngle, CopyTurn
<1> QED  BY <1>5, <1>6, <1>7, <1>8, <1>9, <1>10 DEF Next

LEMMA TurnAdds ==
  ASSUME NEW e, CopyTurn(e) \/ StripTurn(e) \/ ImgTurn(e) \/ NoticeTurn(e)
  PROVE  \E added \in Additions(e) : Turn(e, added)
BY DEF CopyTurn, StripTurn, ImgTurn, NoticeTurn, Additions

-----------------------------------------------------------------------------
(* Types, order and progress.                                               *)

LEMMA TypeStep == TypeOK /\ [Next]_vars => TypeOK'
<1> SUFFICES ASSUME TypeOK, [Next]_vars  PROVE TypeOK'
  OBVIOUS
<1>1. CASE UNCHANGED vars
  BY <1>1 DEF TypeOK, vars
<1>2. CASE Next
  <2>1. PICK e \in pos..Len(input) : \E added \in Additions(e) : Turn(e, added)
    BY <1>2, TurnTaken, TurnAdds
  <2>2. PICK added \in Additions(e) : Turn(e, added)
    BY <2>1
  <2>3. bodyInjected' \in BOOLEAN
    <3>1. bodyInjected' = bodyInjected \/ bodyInjected' = TRUE
      BY <1>2, Zenon
         DEF Next, FastForward, StripScript, StripStyle, KeepStyle, StripLink, KeepLink,
             ReplaceImg, InjectNotice, EmitAngle, Copy, Strip
    <3>2. bodyInjected \in BOOLEAN
      BY DEF TypeOK
    <3> QED  BY <3>1, <3>2, Zenon
  <2>4. Len(input) \in Nat /\ pos \in Nat \ {0} /\ e \in Nat /\ pos <= e /\ e <= Len(input)
    BY DEF TypeOK
  <2>5. ItemsIn(pos, e) \subseteq ItemsIn(1, e) /\ ItemsIn(1, pos - 1) \subseteq ItemsIn(1, e)
    BY <2>4 DEF ItemsIn
  <2>6. out \in Seq(ItemsIn(1, pos - 1)) /\ added \in Seq(ItemsIn(pos, e))
    BY AdditionsAre DEF TypeOK, ItemsIn, Whats
  <2>7. out' \in Seq(ItemsIn(1, e))
    BY <2>2, <2>5, <2>6, SeqMonotonic, ConcatProperties DEF Turn
  <2> QED  BY <2>2, <2>3, <2>4, <2>7 DEF TypeOK, Turn, ItemsIn, Whats
<1> QED  BY <1>1, <1>2

LEMMA TypeInit == Init => TypeOK
<1> SUFFICES ASSUME Init  PROVE TypeOK
  OBVIOUS
<1>1. input \in Seq(Symbols)
  BY ScannerAssumption DEF Init
<1>2. \A S : <<>> \in Seq(S)
  OBVIOUS
<1>3. Len(input) \in Nat
  BY <1>1
<1>4. out \in Seq(ItemsIn(1, pos - 1))
  BY <1>2 DEF Init
<1>5. pos \in 1..(Len(input) + 1)
  BY <1>3 DEF Init
<1>6. bodyInjected \in BOOLEAN
  BY Zenon DEF Init
<1> QED  BY <1>1, <1>4, <1>5, <1>6 DEF TypeOK, ItemsIn, Whats

\* The cursor never runs beyond the end of a page, whatever is missing from it, and
\* every item of the output stands for a symbol the cursor has passed.
THEOREM ScannerTypeCorrect == Spec => []TypeOK
<1> QED  BY TypeInit, TypeStep, PTL DEF Spec

\* Every turn of the loop moves the cursor on, for pages of any length.
THEOREM ScannerProgresses == Spec => Progress
<1>1. TypeOK /\ [Next]_vars => [pos' > pos]_vars
  <2> SUFFICES ASSUME TypeOK, Next  PROVE pos' > pos
    OBVIOUS
  <2>1. PICK e \in pos..Len(input) : \E added \in Additions(e) : Turn(e, added)
    BY TurnTaken, TurnAdds
  <2> QED  BY <2>1 DEF Turn, TypeOK
<1> QED  BY ScannerTypeCorrect, <1>1, PTL DEF Spec, Progress

LEMMA OrderStep == TypeOK /\ InOrder /\ [Next]_vars => InOrder'
<1> SUFFICES ASSUME TypeOK, InOrder, [Next]_vars  PROVE InOrder'
  OBVIOUS
<1>1. CASE UNCHANGED vars
  BY <1>1 DEF InOrder, vars
<1>2. CASE Next
  <2>1. PICK e \in pos..Len(input) : \E added \in Additions(e) : Turn(e, added)
    BY <1>2, TurnTaken, TurnAdds
  <2>2. PICK added \in Additions(e) : Turn(e, added)
    BY <2>1
  <2>3. added \in Seq(ItemsIn(pos, e)) /\ Ordered(added)
    BY AdditionsAre
  <2>4. Len(input) \in Nat /\ pos \in Nat \ {0} /\ e \in Nat
    BY DEF TypeOK
  <2>5. out \in Seq(ItemsIn(1, pos - 1)) /\ Ordered(out)
    BY DEF TypeOK, InOrder, ItemsIn, Whats, Ordered, Later
  <2>6. \A x \in ItemsIn(1, pos - 1), y \in ItemsIn(pos, e) : Later(x, y)
    BY <2>4 DEF ItemsIn, Later
  <2>7. /\ Len(out') = Len(out) + Len(added)
        /\ Len(out) \in Nat /\ Len(added) \in Nat
        /\ \A i \in 1..Len(out') :
              out'[i] = IF i <= Len(out) THEN out[i] ELSE added[i - Len(out)]
    BY <2>2, <2>3, <2>5 DEF Turn
  <2> SUFFICES ASSUME NEW i \in 1..Len(out'), NEW j \in 1..Len(out'), i < j
               PROVE  Later(out'[i], out'[j])
    BY DEF InOrder, Later
  <2>8. CASE j <= Len(out)
    BY <2>5, <2>7, <2>8 DEF Ordered
  <2>9. CASE i <= Len(out) /\ j > Len(out)
    <3>1. i \in 1..Len(out) /\ out'[i] = out[i]
      BY <2>7, <2>9
    <3>2. j - Len(out) \in 1..Len(added) /\ out'[j] = added[j - Len(out)]
      BY <2>7, <2>9
    <3>3. out'[i] \in ItemsIn(1, pos - 1) /\ out'[j] \in ItemsIn(pos, e)
      BY <2>3, <2>5, <3>1, <3>2, ElementOfSeq
    <3> QED  BY <2>6, <3>3
  <2>10. CASE i > Len(out)
    <3>1. /\ i - Len(out) \in 1..Len(added) /\ out'[i] = added[i - Len(out)]
          /\ j - Len(out) \in 1..Len(added) /\ out'[j] = added[j - Len(out)]
          /\ i - Len(out) < j - Len(out)
      BY <2>7, <2>10
    <3> QED  BY <2>3, <3>1 DEF Ordered
  <2> QED  BY <2>7, <2>8, <2>9, <2>10
<1> QED  BY <1>1, <1>2

\* Nothing of any page is written twice or out of its place.
THEOREM ScannerKeepsOrder == Spec => []InOrder
<1>1. Init => InOrder
  BY DEF Init, InOrder
<1>2. TypeOK /\ InOrder /\ [Next]_vars => TypeOK' /\ InOrder'
  BY TypeStep, OrderStep
<1> QED  BY TypeInit, <1>1, <1>2, PTL DEF Spec

-----------------------------------------------------------------------------
(* What is written, and what is lost.                                       *)

\* What has been written stays, and what is new is what the turn has added.
LEMMA WrittenThen ==
  ASSUME TypeOK, NEW e \in pos..Len(input), NEW added \in Additions(e), Turn(e, added)
  PROVE  \A what, i :
            Written(what, i)' <=> \/ Written(what, i)
                                  \/ \E k \in 1..Len(added) : added[k] = Item(what, i)
<1>1. added \in Seq(ItemsIn(pos, e)) /\ out \in Seq(ItemsIn(1, pos - 1))
  BY AdditionsAre DEF TypeOK, ItemsIn, Whats
<1>2. /\ Len(out') = Len(out) + Len(added)
      /\ Len(out) \in Nat /\ Len(added) \in Nat
      /\ \A i \in 1..Len(out') :
            out'[i] = IF i <= Len(out) THEN out[i] ELSE added[i - Len(out)]
  BY <1>1 DEF Turn
<1> TAKE what, i
<1>3. ASSUME Written(what, i)'
      PROVE  Written(what, i) \/ \E k \in 1..Len(added) : added[k] = Item(what, i)
  <2>1. PICK k \in 1..Len(out') : out'[k] = Item(what, i)
    BY <1>3 DEF Written, Item
  <2>2. CASE k <= Len(out)
    BY <1>2, <2>1, <2>2 DEF Written
  <2>3. CASE k > Len(out)
    <3>1. k - Len(out) \in 1..Len(added) /\ added[k - Len(out)] = Item(what, i)
      BY <1>2, <2>1, <2>3
    <3> QED  BY <3>1
  <2> QED  BY <1>2, <2>2, <2>3
<1>4. ASSUME Written(what, i)  PROVE Written(what, i)'
  <2>1. PICK k \in 1..Len(out) : out[k] = Item(what, i)
    BY <1>4 DEF Written
  <2>2. k \in 1..Len(out') /\ out'[k] = Item(what, i)
    BY <1>2, <2>1
  <2> QED  BY <2>2 DEF Written, Item
<1>5. ASSUME NEW k \in 1..Len(added), added[k] = Item(what, i)
      PROVE  Written(what, i)'
  <2>1. Len(out) + k \in 1..Len(out') /\ out'[Len(out) + k] = Item(what, i)
    BY <1>2, <1>5
  <2> QED  BY <2>1 DEF Written, Item
<1> QED  BY <1>3, <1>4, <1>5

\* Turn by turn.
LEMMA WrittenByTurn ==
  ASSUME TypeOK, NEW e \in pos..Len(input)
  PROVE  /\ CopyTurn(e) => \A what, i :
               Written(what, i)' <=> Written(what, i) \/ (what = "copy" /\ i \in pos..e)
         /\ StripTurn(e) => \A what, i : Written(what, i)' <=> Written(what, i)
         /\ ImgTurn(e) => \A what, i :
               Written(what, i)' <=> Written(what, i) \/ (what = "img" /\ i = e)
         /\ NoticeTurn(e) => \A what, i :
               Written(what, i)' <=> \/ Written(what, i)
                                     \/ what = "copy" /\ i \in pos..e
                                     \/ what = "notice" /\ i = e
<1> DEFINE copies == Copies(e)
           S == ItemsIn(pos, e)
<1>1. pos \in Nat \ {0} /\ e \in Nat /\ e - pos + 1 \in Nat
  BY DEF TypeOK
<1>2. /\ copies \in Seq(S)
      /\ Len(copies) = e - pos + 1
      /\ \A k \in 1..Len(copies) : copies[k] = Item("copy", pos + k - 1)
  BY CopiesAre
<1>3. Item("notice", e) \in S
  BY <1>1 DEF Item, ItemsIn, Whats
<1>4. \A what, i, w, a : Item(what, i) = Item(w, a) <=> what = w /\ i = a
  BY ItemFields
<1>5. <<>> \in Additions(e) /\ copies \in Additions(e) /\ <<Item("img", e)>> \in Additions(e)
      /\ Append(copies, Item("notice", e)) \in Additions(e)
  BY DEF Additions
<1>6. \A added \in Additions(e) : Turn(e, added) => \A what, i :
         Written(what, i)' <=> \/ Written(what, i)
                               \/ \E k \in 1..Len(added) : added[k] = Item(what, i)
  BY WrittenThen
<1>7. /\ CopyTurn(e) => Turn(e, copies)
      /\ StripTurn(e) => Turn(e, <<>>)
      /\ ImgTurn(e) => Turn(e, <<Item("img", e)>>)
      /\ NoticeTurn(e) => Turn(e, Append(copies, Item("notice", e)))
  BY DEF CopyTurn, StripTurn, ImgTurn, NoticeTurn
<1> HIDE DEF copies, S
<1>8. \A what, i : (\E k \in 1..Len(copies) : copies[k] = Item(what, i))
                      <=> what = "copy" /\ i \in pos..e
  <2> TAKE what, i
  <2>1. ASSUME NEW k \in 1..Len(copies), copies[k] = Item(what, i)
        PROVE  what = "copy" /\ i \in pos..e
    <3>1. what = "copy" /\ i = pos + k - 1
      BY <1>2, <1>4, <2>1
    <3> QED  BY <1>1, <1>2, <3>1
  <2>2. ASSUME what = "copy", i \in pos..e
        PROVE  \E k \in 1..Len(copies) : copies[k] = Item(what, i)
    <3>1. i - pos + 1 \in 1..Len(copies) /\ pos + (i - pos + 1) - 1 = i
      BY <1>1, <1>2, <2>2
    <3> QED  BY <1>2, <2>2, <3>1
  <2> QED  BY <2>1, <2>2
<1>9. \A what, i : (\E k \in 1..Len(<<Item("img", e)>>) : <<Item("img", e)>>[k] = Item(what, i))
                      <=> what = "img" /\ i = e
  BY <1>4
<1>10. \A what, i :
          (\E k \in 1..Len(Append(copies, Item("notice", e))) :
              Append(copies, Item("notice", e))[k] = Item(what, i))
             <=> \/ what = "copy" /\ i \in pos..e
                 \/ what = "notice" /\ i = e
  <2> DEFINE both == Append(copies, Item("notice", e))
  <2>1. /\ Len(both) = Len(copies) + 1
        /\ \A k \in 1..Len(copies) : both[k] = copies[k]
        /\ both[Len(copies) + 1] = Item("notice", e)
    BY <1>2, <1>3, AppendProperties
  <2> HIDE DEF both
  <2>2. Len(copies) \in Nat
    BY <1>1, <1>2
  <2>3. \A what, i : (\E k \in 1..Len(both) : both[k] = Item(what, i))
                        <=> \/ \E k \in 1..Len(copies) : copies[k] = Item(what, i)
                            \/ Item("notice", e) = Item(what, i)
    BY <2>1, <2>2
  <2>4. \A what, i : (\E k \in 1..Len(both) : both[k] = Item(what, i))
                        <=> \/ what = "copy" /\ i \in pos..e
                            \/ what = "notice" /\ i = e
    BY <1>4, <1>8, <2>3
  <2> QED  BY <2>4 DEF both
<1>11. CopyTurn(e) => \A what, i :
          Written(what, i)' <=> Written(what, i) \/ (what = "copy" /\ i \in pos..e)
  BY <1>5, <1>6, <1>7, <1>8
<1>12. StripTurn(e) => \A what, i : Written(what, i)' <=> Written(what, i)
  <2>1. Len(<<>>) = 0
    OBVIOUS
  <2> QED  BY <1>5, <1>6, <1>7, <2>1
<1>13. ImgTurn(e) => \A what, i :
          Written(what, i)' <=> Written(what, i) \/ (what = "img" /\ i = e)
  BY <1>5, <1>6, <1>7, <1>9
<1>14. NoticeTurn(e) => \A what, i :
          Written(what, i)' <=> \/ Written(what, i)
                                \/ what = "copy" /\ i \in pos..e
                                \/ what = "notice" /\ i = e
  <2> DEFINE both == Append(copies, Item("notice", e))
  <2>1. both \in Additions(e) /\ (NoticeTurn(e) => Turn(e, both))
    BY <1>5, <1>7
  <2>2. \A what, i : (\E k \in 1..Len(both) : both[k] = Item(what, i))
                        <=> \/ what = "copy" /\ i \in pos..e
                            \/ what = "notice" /\ i = e
    BY <1>10
  <2> HIDE DEF both
  <2> QED  BY <1>6, <2>1, <2>2
<1> QED  BY <1>11, <1>12, <1>13, <1>14

\* What the scanner sees in the page depends on the page alone.
LEMMA PageStays ==
  ASSUME input' = input
  PROVE  /\ \A s, e : Script(s, e)' <=> Script(s, e)
         /\ \A s, e : Style(s, e)' <=> Style(s, e)
         /\ \A s, e : Link(s, e)' <=> Link(s, e)
         /\ \A s, e : Img(s, e)' <=> Img(s, e)
         /\ \A s, e : Body(s, e)' <=> Body(s, e)
         /\ \A s, e : Heavy(s, e)' <=> Heavy(s, e)
         /\ \A s, e : Stylesheet(s, e)' <=> Stylesheet(s, e)
         /\ \A s, e : Large(s, e)' <=> Large(s, e)
BY DEF Heavy, Script, Style, Link, Img, Body, Stylesheet, Large, Stretch, TagAt, Ends

\* Whatever kind of turn it is, nothing is forgotten, and nothing is added behind
\* the cursor.
LEMMA WrittenStays ==
  ASSUME TypeOK, NEW e \in pos..Len(input),
         CopyTurn(e) \/ StripTurn(e) \/ ImgTurn(e) \/ NoticeTurn(e)
  PROVE  /\ input' = input /\ pos' = e + 1
         /\ pos \in Nat \ {0} /\ e \in Nat /\ Len(input) \in Nat
         /\ \A what, i : Written(what, i) => Written(what, i)'
         /\ \A what : \A i \in 1..(pos - 1) : Written(what, i)' => Written(what, i)
<1>1. input' = input /\ pos' = e + 1
  BY DEF CopyTurn, StripTurn, ImgTurn, NoticeTurn, Turn
<1>2. pos \in Nat \ {0} /\ e \in Nat /\ Len(input) \in Nat
  BY DEF TypeOK
<1> QED  BY <1>1, <1>2, WrittenByTurn

LEMMA LossStep == TypeOK /\ LossExplained /\ [Next]_vars => LossExplained'
<1> SUFFICES ASSUME TypeOK, LossExplained, [Next]_vars  PROVE LossExplained'
  OBVIOUS
<1>1. CASE UNCHANGED vars
  <2>1. input' = input /\ pos' = pos
    BY <1>1 DEF vars
  <2>2. \A what, i : Written(what, i)' <=> Written(what, i)
    BY <1>1 DEF Written, Item, vars
  <2>3. \A s, d : (Heavy(s, d)' <=> Heavy(s, d)) /\ (Img(s, d)' <=> Img(s, d))
    BY <2>1, PageStays
  <2> QED  BY <2>1, <2>2, <2>3 DEF LossExplained, Copied
<1>2. CASE Next
  <2>1. PICK e \in pos..Len(input) :
           CopyTurn(e) \/ StripTurn(e) \/ ImgTurn(e) \/ NoticeTurn(e)
    BY <1>2, TurnTaken
  <2>2. /\ input' = input /\ pos' = e + 1
        /\ pos \in Nat \ {0} /\ e \in Nat /\ Len(input) \in Nat
        /\ \A what, i : Written(what, i) => Written(what, i)'
    BY <2>1, WrittenStays
  <2>3. \A s, d : (Heavy(s, d)' <=> Heavy(s, d)) /\ (Img(s, d)' <=> Img(s, d))
    BY <2>2, PageStays
  <2> SUFFICES ASSUME NEW i \in 1..(pos' - 1)
               PROVE  \/ Copied(i)'
                      \/ \E s \in 1..i : \E d \in i..(pos' - 1) :
                            Heavy(s, d)' /\ (Img(s, d)' => Written("img", d)')
    BY Zenon DEF LossExplained
  <2>4. CASE i < pos
    <3>1. i \in 1..(pos - 1)
      BY <2>2, <2>4
    <3>2. CASE Copied(i)
      BY <2>2, <3>2 DEF Copied
    <3>3. CASE ~Copied(i)
      <4>1. PICK s \in 1..i : \E d \in i..(pos - 1) :
               Heavy(s, d) /\ (Img(s, d) => Written("img", d))
        BY <3>1, <3>3 DEF LossExplained
      <4>2. PICK d \in i..(pos - 1) : Heavy(s, d) /\ (Img(s, d) => Written("img", d))
        BY <4>1
      <4>3. d \in i..(pos' - 1)
        BY <2>2
      <4> QED  BY <2>2, <2>3, <4>2, <4>3
    <3> QED  BY <3>2, <3>3
  <2>5. CASE i >= pos
    <3>1. i \in pos..e /\ pos \in 1..i /\ e \in i..(pos' - 1)
      BY <2>2, <2>5
    <3>2. CASE CopyTurn(e) \/ NoticeTurn(e)
      BY <3>1, <3>2, WrittenByTurn DEF Copied
    <3>3. CASE StripTurn(e)
      BY <2>3, <3>1, <3>3 DEF StripTurn
    <3>4. CASE ImgTurn(e)
      <4>1. Heavy(pos, e) /\ Written("img", e)'
        BY <3>4, WrittenByTurn DEF ImgTurn, Heavy
      <4> QED  BY <2>3, <3>1, <4>1
    <3> QED  BY <2>1, <3>2, <3>3, <3>4
  <2> QED  BY <2>2, <2>4, <2>5
<1> QED  BY <1>1, <1>2

\* However broken a page of any length is, what is not copied is part of a complete
\* construct that the scanner is meant to strip.
THEOREM ScannerLosesNothingElse == Spec => []LossExplained
<1>1. Init => LossExplained
  BY DEF Init, LossExplained
<1>2. TypeOK /\ LossExplained /\ [Next]_vars => TypeOK' /\ LossExplained'
  BY TypeStep, LossStep
<1> QED  BY TypeInit, <1>1, <1>2, PTL DEF Spec

\* A tag has one end.
LEMMA OneEnd ==
  ASSUME NEW name, NEW end, NEW s \in Nat, NEW d, NEW e,
         Len(input) \in Nat, Stretch(name, end, s, d), Stretch(name, end, s, e)
  PROVE  d = e
<1>1. d \in s..Len(input) /\ e \in s..Len(input)
  BY DEF Stretch
<1>2. ~(d < e) /\ ~(e < d)
  BY <1>1 DEF Stretch
<1> QED  BY <1>1, <1>2

\* What is copied where the cursor stands, behind a '<', is not heavy.
LEMMA NotHeavyHere ==
  ASSUME TypeOK, NEW e \in pos..Len(input), CopyTurn(e) \/ NoticeTurn(e),
         NEW d \in pos..Len(input)
  PROVE  ~Heavy(pos, d)
<1> SUFFICES ASSUME Heavy(pos, d)  PROVE FALSE
  OBVIOUS
<1>1. pos \in Nat \ {0} /\ e \in Nat /\ Len(input) \in Nat
  BY DEF TypeOK
<1>2. \/ TagAt("script", pos) \/ TagAt("style", pos) \/ TagAt("link", pos)
      \/ TagAt("img", pos)
  BY DEF Heavy, Script, Style, Link, Img, Stretch
<1>3. input[pos] = "<"
  BY <1>2 DEF TagAt
<1>4. CASE \A i \in pos..e : input[i] # "<"
  BY <1>1, <1>3, <1>4
<1>5. CASE Style(pos, e) /\ ~Large(pos, e)
  <2>1. TagAt("style", pos)
    BY <1>5 DEF Style, Stretch
  <2>2. Style(pos, d) /\ Large(pos, d)
    BY <2>1, OneName DEF Heavy, Script, Link, Img, Stretch
  <2>3. d = e
    BY <1>1, <1>5, <2>2, OneEnd DEF Style
  <2> QED  BY <1>5, <2>2, <2>3
<1>6. CASE Link(pos, e) /\ ~Stylesheet(pos, e)
  <2>1. TagAt("link", pos)
    BY <1>6 DEF Link, Stretch
  <2>2. Link(pos, d) /\ Stylesheet(pos, d)
    BY <2>1, OneName DEF Heavy, Script, Style, Img, Stretch
  <2>3. d = e
    BY <1>1, <1>6, <2>2, OneEnd DEF Link
  <2> QED  BY <1>6, <2>2, <2>3
<1>7. CASE Plain
  BY <1>7 DEF Plain, Heavy
<1>8. CASE Body(pos, e)
  BY <1>2, <1>8, OneName DEF Body, Stretch
<1> QED  BY <1>4, <1>5, <1>6, <1>7, <1>8 DEF CopyTurn, NoticeTurn

\* A '<' that is copied behind the place where the turn began is inside a stretch
\* that is kept whole.
LEMMA KeptWhole ==
  ASSUME TypeOK, NEW e \in pos..Len(input), CopyTurn(e) \/ NoticeTurn(e),
         NEW s \in pos..e, s # pos, input[s] = "<", NEW t, t = pos
  PROVE  Kept(t, e)'
<1>1. /\ input' = input
      /\ pos \in Nat \ {0} /\ e \in Nat
      /\ \A what, i : Written(what, i) => Written(what, i)'
  BY WrittenStays
<1>2. CASE NoticeTurn(e)
  <2>1. Written("notice", e)'
    BY <1>2, WrittenByTurn
  <2>2. Body(t, e)'
    BY <1>1, <1>2, PageStays DEF NoticeTurn
  <2> QED  BY <2>1, <2>2 DEF Kept
<1>3. CASE CopyTurn(e)
  <2>1. ~(\A i \in pos..e : input[i] # "<")
    OBVIOUS
  <2>2. e # pos
    BY <1>1
  <2>3. Kept(t, e)
    BY <1>3, <2>1, <2>2 DEF CopyTurn, Kept
  <2> QED  BY <1>1, <2>3, PageStays DEF Kept
<1> QED  BY <1>2, <1>3

LEMMA HeavyStep == TypeOK /\ HeavyIsStripped /\ [Next]_vars => HeavyIsStripped'
<1> SUFFICES ASSUME TypeOK, HeavyIsStripped, [Next]_vars  PROVE HeavyIsStripped'
  OBVIOUS
<1>1. CASE UNCHANGED vars
  <2>1. input' = input /\ pos' = pos
    BY <1>1 DEF vars
  <2>2. \A what, i : Written(what, i)' <=> Written(what, i)
    BY <1>1 DEF Written, Item, vars
  <2>3. \A s, d : (Heavy(s, d)' <=> Heavy(s, d)) /\ (Kept(s, d)' <=> Kept(s, d))
    BY <2>1, <2>2, PageStays DEF Kept
  <2> QED  BY <2>1, <2>2, <2>3 DEF HeavyIsStripped, Copied
<1>2. CASE Next
  <2>1. PICK e \in pos..Len(input) :
           CopyTurn(e) \/ StripTurn(e) \/ ImgTurn(e) \/ NoticeTurn(e)
    BY <1>2, TurnTaken
  <2>2. /\ input' = input /\ pos' = e + 1
        /\ pos \in Nat \ {0} /\ e \in Nat /\ Len(input) \in Nat
        /\ \A what, i : Written(what, i) => Written(what, i)'
        /\ \A what : \A i \in 1..(pos - 1) : Written(what, i)' => Written(what, i)
    BY <2>1, WrittenStays
  <2>3. \A s, d : Heavy(s, d)' <=> Heavy(s, d)
    BY <2>2, PageStays
  <2>4. \A s, d : Kept(s, d) => Kept(s, d)'
    BY <2>2, PageStays DEF Kept
  <2> SUFFICES ASSUME NEW s \in 1..(pos' - 1), NEW d \in s..Len(input'),
                      Copied(s)', Heavy(s, d)'
               PROVE  \E t \in 1..(s - 1) : \E f \in s..(pos' - 1) : Kept(t, f)'
    BY Zenon DEF HeavyIsStripped
  <2>5. d \in s..Len(input) /\ Heavy(s, d)
    BY <2>2, <2>3
  <2>6. CASE s < pos
    <3>1. s \in 1..(pos - 1)
      BY <2>2, <2>6
    <3>2. Copied(s)
      BY <2>2, <3>1 DEF Copied
    <3>3. PICK t \in 1..(s - 1) : \E f \in s..(pos - 1) : Kept(t, f)
      BY <2>5, <3>1, <3>2 DEF HeavyIsStripped
    <3>4. PICK f \in s..(pos - 1) : Kept(t, f)
      BY <3>3
    <3>5. f \in s..(pos' - 1)
      BY <2>2
    <3> QED  BY <2>4, <3>4, <3>5
  <2>7. CASE s >= pos
    <3>1. s \in pos..e /\ s \notin 1..(pos - 1)
      BY <2>2, <2>7
    <3>2. ~Written("copy", s)
      <4>1. \A k \in 1..Len(out) : out[k] \in ItemsIn(1, pos - 1)
        BY ElementOfSeq DEF TypeOK, ItemsIn, Whats
      <4>2. Item("copy", s).at \notin 1..(pos - 1)
        BY <3>1, ItemFields
      <4> QED  BY <4>1, <4>2 DEF Written, ItemsIn
    <3>3. CopyTurn(e) \/ NoticeTurn(e)
      BY <2>1, <3>2, WrittenByTurn DEF Copied
    <3>4. s # pos
      BY <2>2, <2>5, <3>3, NotHeavyHere
    <3>5. pos \in 1..(s - 1) /\ e \in s..(pos' - 1)
      BY <2>2, <3>1, <3>4
    <3>6. PICK t \in 1..(s - 1) : t = pos
      BY <3>5
    <3>7. input[s] = "<"
      BY <2>5 DEF Heavy, Script, Style, Link, Img, Stretch, TagAt
    <3>8. Kept(t, e)'
      BY <3>1, <3>3, <3>4, <3>6, <3>7, KeptWhole
    <3> QED  BY <3>5, <3>8
  <2> QED  BY <2>2, <2>6, <2>7
<1> QED  BY <1>1, <1>2

\* Nothing heavy slips through, on a page of any length, except in a stretch that
\* the scanner keeps whole.
THEOREM ScannerStripsHeavy == Spec => []HeavyIsStripped
<1>1. Init => HeavyIsStripped
  BY DEF Init, HeavyIsStripped
<1>2. TypeOK /\ HeavyIsStripped /\ [Next]_vars => TypeOK' /\ HeavyIsStripped'
  BY TypeStep, HeavyStep
<1> QED  BY TypeInit, <1>1, <1>2, PTL DEF Spec

-----------------------------------------------------------------------------
(* The notice.                                                              *)

\* bodyInjected tells whether the notice was written.
Remembered == bodyInjected <=> \E f \in 1..(pos - 1) : Written("notice", f)

OnceAt == \A e, f : Written("notice", e) /\ Written("notice", f) => e = f

BelowBody ==
    \A e \in 1..(pos - 1) : Written("notice", e) =>
       \E s \in 1..e : Body(s, e) /\ \A i \in s..e : Copied(i)

\* Stronger than OneNotice: whatever comes after the cursor may still end the tag.
Noticed ==
    \A s \in 1..(pos - 1) : \A e \in s..Len(input) :
       Body(s, e) /\ Copied(s) =>
          \/ \E f \in 1..e : Written("notice", f)
          \/ \E t \in 1..(s - 1) : \E f \in s..(pos - 1) : Kept(t, f)

NoticeInv == Remembered /\ OnceAt /\ BelowBody /\ Noticed

\* What is written stands for what the cursor has passed.
LEMMA WrittenBehind ==
  ASSUME TypeOK, NEW what, NEW i, Written(what, i)
  PROVE  i \in 1..(pos - 1)
<1>1. PICK k \in 1..Len(out) : out[k] = Item(what, i)
  BY DEF Written
<1>2. out[k] \in ItemsIn(1, pos - 1)
  BY ElementOfSeq DEF TypeOK, ItemsIn, Whats
<1>3. out[k].at \in 1..(pos - 1)
  BY <1>2 DEF ItemsIn
<1> QED  BY <1>1, <1>3, ItemFields

LEMMA RememberedStep ==
  ASSUME TypeOK, Remembered, OnceAt, NEW e \in pos..Len(input),
         CopyTurn(e) \/ StripTurn(e) \/ ImgTurn(e) \/ NoticeTurn(e)
  PROVE  Remembered' /\ OnceAt'
<1>1. /\ pos' = e + 1 /\ pos \in Nat \ {0} /\ e \in Nat
  BY WrittenStays
<1>2. CASE CopyTurn(e) \/ StripTurn(e) \/ ImgTurn(e)
  <2>1. \A f : Written("notice", f)' <=> Written("notice", f)
    BY <1>2, WrittenByTurn
  <2>2. bodyInjected' = bodyInjected
    BY <1>2, Zenon DEF CopyTurn, StripTurn, ImgTurn
  <2>3. (\E f \in 1..(pos' - 1) : Written("notice", f)')
           <=> (\E f \in 1..(pos - 1) : Written("notice", f))
    BY <1>1, <2>1, WrittenBehind
  <2>4. Remembered'
    BY <2>2, <2>3, Zenon DEF Remembered
  <2> QED  BY <2>1, <2>4 DEF OnceAt
<1>3. CASE NoticeTurn(e)
  <2>1. \A f : Written("notice", f)' <=> Written("notice", f) \/ f = e
    BY <1>3, WrittenByTurn
  <2>2. ~bodyInjected /\ bodyInjected' = TRUE
    BY <1>3, Zenon DEF NoticeTurn
  <2>3. \A f : ~Written("notice", f)
    BY <2>2, WrittenBehind, Zenon DEF Remembered
  <2>4. e \in 1..(pos' - 1) /\ Written("notice", e)'
    BY <1>1, <2>1
  <2>5. Remembered'
    BY <2>2, <2>4, Zenon DEF Remembered
  <2> QED  BY <2>1, <2>3, <2>5 DEF OnceAt
<1> QED  BY <1>2, <1>3

LEMMA BelowBodyStep ==
  ASSUME TypeOK, BelowBody, NEW e \in pos..Len(input),
         CopyTurn(e) \/ StripTurn(e) \/ ImgTurn(e) \/ NoticeTurn(e)
  PROVE  BelowBody'
<1>1. /\ input' = input /\ pos' = e + 1
      /\ pos \in Nat \ {0} /\ e \in Nat
      /\ \A what, i : Written(what, i) => Written(what, i)'
  BY WrittenStays
<1>2. \A s, d : Body(s, d)' <=> Body(s, d)
  BY <1>1, PageStays
<1> SUFFICES ASSUME NEW d \in 1..(pos' - 1), Written("notice", d)'
             PROVE  \E s \in 1..d : Body(s, d)' /\ \A i \in s..d : Copied(i)'
  BY DEF BelowBody
<1>3. CASE Written("notice", d)
  <2>1. d \in 1..(pos - 1)
    BY <1>3, WrittenBehind
  <2>2. PICK s \in 1..d : Body(s, d) /\ \A i \in s..d : Copied(i)
    BY <1>3, <2>1 DEF BelowBody
  <2> QED  BY <1>1, <1>2, <2>2 DEF Copied
<1>4. CASE ~Written("notice", d)
  <2>1. NoticeTurn(e) /\ d = e
    BY <1>4, WrittenByTurn
  <2>2. \A i \in pos..e : Copied(i)'
    BY <2>1, WrittenByTurn DEF Copied
  <2>3. PICK s \in 1..d : s = pos
    BY <1>1, <2>1
  <2>4. Body(s, d)
    BY <2>1, <2>3 DEF NoticeTurn
  <2> QED  BY <1>2, <2>1, <2>2, <2>3, <2>4
<1> QED  BY <1>3, <1>4

LEMMA NoticedStep ==
  ASSUME TypeOK, Remembered, Noticed, NEW e \in pos..Len(input),
         CopyTurn(e) \/ StripTurn(e) \/ ImgTurn(e) \/ NoticeTurn(e)
  PROVE  Noticed'
<1>1. /\ input' = input /\ pos' = e + 1
      /\ pos \in Nat \ {0} /\ e \in Nat /\ Len(input) \in Nat
      /\ \A what, i : Written(what, i) => Written(what, i)'
      /\ \A what : \A i \in 1..(pos - 1) : Written(what, i)' => Written(what, i)
  BY WrittenStays
<1>2. \A s, d : Body(s, d)' <=> Body(s, d)
  BY <1>1, PageStays
<1>3. \A s, d : Kept(s, d) => Kept(s, d)'
  BY <1>1, PageStays DEF Kept
<1> SUFFICES ASSUME NEW s \in 1..(pos' - 1), NEW d \in s..Len(input'),
                    Body(s, d)', Copied(s)'
             PROVE  \/ \E f \in 1..d : Written("notice", f)'
                    \/ \E t \in 1..(s - 1) : \E f \in s..(pos' - 1) : Kept(t, f)'
  BY Zenon DEF Noticed
<1>4. d \in s..Len(input) /\ Body(s, d)
  BY <1>1, <1>2
<1>5. CASE s < pos
  <2>1. s \in 1..(pos - 1)
    BY <1>1, <1>5
  <2>2. Copied(s)
    BY <1>1, <2>1 DEF Copied
  <2>3. CASE \E f \in 1..d : Written("notice", f)
    BY <1>1, <2>3
  <2>4. CASE \E t \in 1..(s - 1) : \E f \in s..(pos - 1) : Kept(t, f)
    <3>1. PICK t \in 1..(s - 1), f \in s..(pos - 1) : Kept(t, f)
      BY <2>4
    <3>2. f \in s..(pos' - 1)
      BY <1>1
    <3> QED  BY <1>3, <3>1, <3>2
  <2> QED  BY <1>4, <2>1, <2>2, <2>3, <2>4 DEF Noticed
<1>6. CASE s >= pos
  <2>1. s \in pos..e /\ s \notin 1..(pos - 1)
    BY <1>1, <1>6
  <2>2. CopyTurn(e) \/ NoticeTurn(e)
    BY <2>1, WrittenByTurn, WrittenBehind DEF Copied
  <2>3. TagAt("body", s) /\ input[s] = "<"
    BY <1>4 DEF Body, Stretch, TagAt
  <2>4. CASE s = pos /\ CopyTurn(e)
    <3>1. ~(\A i \in pos..e : input[i] # "<")
      BY <2>1, <2>3
    <3>2. ~Style(pos, e) /\ ~Link(pos, e)
      BY <2>3, <2>4, OneName DEF Style, Link, Stretch
    <3>3. Plain
      BY <2>4, <3>1, <3>2 DEF CopyTurn
    <3>4. bodyInjected
      BY <1>4, <2>4, <3>3, Zenon DEF Plain
    <3>5. PICK f \in 1..(pos - 1) : Written("notice", f)
      BY <3>4, Zenon DEF Remembered
    <3>6. f \in 1..d
      BY <1>1, <1>4, <2>4
    <3> QED  BY <1>1, <3>5, <3>6
  <2>5. CASE s = pos /\ NoticeTurn(e)
    <3>1. Body(pos, e) /\ Body(pos, d)
      BY <1>4, <2>5 DEF NoticeTurn
    <3>2. d = e
      BY <1>1, <3>1, OneEnd DEF Body
    <3>3. Written("notice", e)' /\ e \in 1..d
      BY <1>1, <2>5, <3>2, WrittenByTurn
    <3> QED  BY <3>3
  <2>6. CASE s # pos
    <3>1. pos \in 1..(s - 1) /\ e \in s..(pos' - 1)
      BY <1>1, <2>1, <2>6
    <3>2. PICK t \in 1..(s - 1) : t = pos
      BY <3>1
    <3>3. Kept(t, e)'
      BY <2>1, <2>2, <2>3, <2>6, <3>2, KeptWhole
    <3> QED  BY <3>1, <3>3
  <2> QED  BY <2>2, <2>4, <2>5, <2>6
<1> QED  BY <1>1, <1>5, <1>6

\* The notice is on a page of any length at most once, below a body tag that was
\* copied.
THEOREM ScannerWritesOneNotice == Spec => []OneNotice
<1>1. Init => NoticeInv
  <2> SUFFICES ASSUME Init  PROVE NoticeInv
    OBVIOUS
  <2>1. \A what, i : ~Written(what, i)
    BY DEF Init, Written
  <2>2. ~bodyInjected
    BY Zenon DEF Init
  <2>3. Remembered
    BY <2>1, <2>2, Zenon DEF Remembered
  <2> QED  BY <2>1, <2>3 DEF NoticeInv, OnceAt, BelowBody, Noticed, Copied
<1>2. TypeOK /\ NoticeInv /\ [Next]_vars => NoticeInv'
  <2> SUFFICES ASSUME TypeOK, NoticeInv, [Next]_vars  PROVE NoticeInv'
    OBVIOUS
  <2>1. CASE UNCHANGED vars
    <3>1. input' = input /\ pos' = pos
      BY <2>1 DEF vars
    <3>2. bodyInjected' = bodyInjected
      BY <2>1, Zenon DEF vars
    <3>3. \A what, i : Written(what, i)' <=> Written(what, i)
      BY <2>1 DEF Written, Item, vars
    <3>4. \A s, d : (Body(s, d)' <=> Body(s, d)) /\ (Kept(s, d)' <=> Kept(s, d))
      BY <3>1, <3>3, PageStays DEF Kept
    <3>5. (\E f \in 1..(pos' - 1) : Written("notice", f)')
             <=> (\E f \in 1..(pos - 1) : Written("notice", f))
      BY <3>1, <3>3
    <3>6. Remembered'
      BY <3>2, <3>5, Zenon DEF NoticeInv, Remembered
    <3>7. OnceAt' /\ BelowBody' /\ Noticed'
      BY <3>1, <3>3, <3>4 DEF NoticeInv, OnceAt, BelowBody, Noticed, Copied
    <3> QED  BY <3>6, <3>7 DEF NoticeInv
  <2>2. CASE Next
    <3>1. PICK e \in pos..Len(input) :
             CopyTurn(e) \/ StripTurn(e) \/ ImgTurn(e) \/ NoticeTurn(e)
      BY <2>2, TurnTaken
    <3> QED  BY <3>1, RememberedStep, BelowBodyStep, NoticedStep DEF NoticeInv
  <2> QED  BY <2>1, <2>2
<1>3. TypeOK /\ InOrder /\ NoticeInv => OneNotice
  <2> SUFFICES ASSUME TypeOK, InOrder, NoticeInv  PROVE OneNotice
    OBVIOUS
  <2>1. ASSUME NEW i \in 1..Len(out), NEW j \in 1..Len(out), i < j,
               out[i].what = "notice", out[j].what = "notice"
        PROVE  FALSE
    <3>1. out[i].at < out[j].at
      BY <2>1 DEF InOrder
    <3>2. out[i] \in ItemsIn(1, pos - 1) /\ out[j] \in ItemsIn(1, pos - 1)
      BY ElementOfSeq DEF TypeOK, ItemsIn, Whats
    <3>3. out[i] = Item("notice", out[i].at) /\ out[j] = Item("notice", out[j].at)
      BY <2>1, <3>2 DEF ItemsIn, Item
    <3>4. out[i].at = out[j].at
      BY <3>3 DEF NoticeInv, OnceAt, Written
    <3>5. out[i].at \in Nat
      BY <3>2 DEF ItemsIn
    <3> QED  BY <3>1, <3>4, <3>5
  <2>2. Len(out) \in Nat
    BY DEF TypeOK
  <2>3. \A i, j \in 1..Len(out) :
           out[i].what = "notice" /\ out[j].what = "notice" => i = j
    <3> SUFFICES ASSUME NEW i \in 1..Len(out), NEW j \in 1..Len(out), i # j,
                        out[i].what = "notice", out[j].what = "notice"
                 PROVE  FALSE
      OBVIOUS
    <3>1. i < j \/ j < i
      BY <2>2
    <3> QED  BY <2>1, <3>1
  <2>4. \A s \in 1..(pos - 1) : \A e \in s..(pos - 1) : e \in s..Len(input)
    BY DEF TypeOK
  <2> QED  BY <2>3, <2>4 DEF NoticeInv, BelowBody, Noticed, OneNotice
<1> QED  BY TypeInit, TypeStep, ScannerKeepsOrder, <1>1, <1>2, <1>3, PTL DEF Spec
=============================================================================
