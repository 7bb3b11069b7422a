---------------------------- MODULE MCHTMLScanner ----------------------------
(* Pages for TLC: whole tags, tags that lack their end, and pieces of text.  *)
EXTENDS HTMLScanner

\* bound: the longest page, in fragments (one more for those of Core)
CONSTANT MaxFragments

\* Fragments that matter most for how constructs sit inside one another...
Core ==
    {<<"<", "script", ">">>, <<"<", "/", "script", ">">>,
     <<"<", "style", " ">>, <<"<", "/", "style", ">">>,
     <<"<", "link", "/">>, <<"stylesheet">>,
     <<"<", "img">>, <<"<", "body">>, <<">">>}

\* ...and those that make other words and other tags out of them.
Fragments == Core \cup {<<"<">>, <<" ">>, <<"x">>}

\* The pages of up to n fragments, for n from 0.
PagesOf(fragments) ==
    LET pages[n \in 0..(MaxFragments + 1)] ==
           IF n = 0 THEN {<<>>}
           ELSE pages[n - 1] \cup {f \o p : f \in fragments, p \in pages[n - 1]}
    IN  pages

MCPages == PagesOf(Fragments)[MaxFragments] \cup PagesOf(Core)[MaxFragments + 1]
=============================================================================
