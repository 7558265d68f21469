-------------------------------- MODULE MCGlob --------------------------------
(* Small trees below /w, and what is searched there.                       *)
EXTENDS GlobFound

MCCwd == <<"w">>

\* Nodes by their paths, with the directories that lead to /w.
Tree(nodes) == [q \in {<<>>, <<"w">>} \cup {<<"w">> \o p : p \in DOMAIN nodes} |->
                  IF Len(q) < 2 THEN Dir ELSE nodes[From(q, 2)]]
Nodes(dirs, files) == [p \in dirs \cup files |-> IF p \in dirs THEN Dir ELSE File]

Deep == Tree(Nodes({<<"a">>, <<"a", "b">>, <<".h">>},
                   {<<"x">>, <<"a", "x">>, <<"a", "b", "xy">>, <<".h", "x">>, <<"a", ".x">>}))
Flat == Tree(Nodes({<<"a">>, <<"b">>}, {<<"a", "x">>, <<"a", "y">>, <<"b", "x">>}))
Small == Tree(Nodes({<<"a">>}, {<<"a", "x">>, <<"x">>}))
Tied == Tree(put(Nodes({<<"a">>}, {<<"a", "x">>}), <<"l">>, Link(<<"w", "a">>)))
Linked == put(Tied, <<"w", "none">>, Link(<<"w", "c">>))
Secret == Tree(put(Nodes({<<"a">>}, {<<"a", "x">>}), <<"s">>, Locked))

Plainly(pattern) == [pattern |-> pattern, ignore |-> <<>>, dot |-> FALSE, follow |-> FALSE,
                     nonull |-> FALSE, strict |-> TRUE]
Only(t, opt, user) == [files |-> t, options |-> <<opt>>, user |-> user]
Both(t, opt1, opt2) == [files |-> t, options |-> <<opt1, opt2>>, user |-> {}]

MCSearches ==
    {Only(Deep, Plainly(p), {}) :
        p \in {"**", "**/x*", "*/*/", "a/**/*", "a/**/b/**", "../w/?/x"}}
    \cup {Only(Deep, [Plainly(p) EXCEPT !.dot = TRUE], {}) : p \in {"a/**", "{a,.h}/*x"}}
    \cup {Only(Flat, [Plainly("{b,a,c}/*") EXCEPT !.ignore = <<"a/**", "**/y">>, !.nonull = TRUE], {}),
          Only(Flat, [Plainly("{a,b}/*") EXCEPT !.ignore = <<"a/**">>], {}),
          Only(Small, Plainly("{,}"), {}),
          Only(Flat, Plainly("{*,a}/{x,y}"), {"pause"}),
          Only(Small, Plainly("**/x"), {"pause", "abort"}),
          Both(Flat, Plainly("**/*"), Plainly("a/*")), Both(Small, Plainly("**"), Plainly("{*/,a/*}")),
          [Both(Small, Plainly("**"), Plainly("a/*")) EXCEPT !.user = {"abort"}],
          Both(Secret, Plainly("*/*"), Plainly("a/**"))}
    \cup {Only(Linked, Plainly(p), {}) : p \in {"**", "{l,*}/", "{none,l/x,l/**}"}}
    \cup {Only(Linked, [Plainly("**") EXCEPT !.follow = TRUE], {}),
          Only(Tied, Plainly("**/**"), {}), Both(Tied, Plainly("*/"), Plainly("**")),
          Only(Secret, Plainly("**/x"), {}), Only(Secret, [Plainly("**/x") EXCEPT !.strict = FALSE], {})}

\* Two searches come by the same link at the same time.
LinkSearches == {Both(Tied, Plainly("**"), Plainly("**"))}

-----------------------------------------------------------------------------
(* What braces stand for, built up with the text that is written for them: *)
(* pieces are texts with their words.                                      *)
Piece(text, words) == [text |-> text, words |-> words]
Cat(p, q)     == Piece(p.text \o q.text, Join("", p.words, q.words))
Options(p, q) == Piece("{" \o p.text \o "," \o q.text \o "}", p.words \o q.words)
Alone(p)      == Piece("{" \o p.text \o "}", [k \in DOMAIN p.words |-> "{" \o p.words[k] \o "}"])
Simple  == {Piece("", <<"">>), Piece("bc", <<"bc">>)}
Ranges  == {Piece("{1..3}", <<"1", "2", "3">>), Piece("{c..a..2}", <<"c", "a">>)}
\* Ends that are missed, steps with a sign, numbers of several digits, signs, zeros.
Odd     == {Piece("{1..6..2}", <<"1", "3", "5">>), Piece("{a..d..-2}", <<"a", "c">>),
            Piece("{9..11}", <<"9", "10", "11">>), Piece("{2..-12..5}", <<"2", "-3", "-8">>),
            Piece("{-1..08..3}", <<"-1", "02", "05", "08">>), Piece("{1..1}", <<"1">>),
            Piece("{-01..1}", <<"-01", "000", "001">>), Piece("{3..8..10}", <<"3">>),
            Piece("{1..3..02}", <<"1", "3">>), Piece("x{X..Z}", <<"xX", "xY", "xZ">>)}
Groups  == {Options(p, q) : p, q \in Simple \cup Ranges}
Deeper  == Groups \cup {Alone(p) : p \in Groups} \cup {Cat(p, q) : p \in Ranges, q \in Groups}
                  \cup Odd \cup {Options(p, q) : p \in Odd, q \in Simple}
Pieces  == Deeper \cup {Cat(p, Cat(q, p)) : p \in Simple, q \in Deeper}
                  \cup {Options(p, q) : p \in Simple, q \in Deeper}

(* Braces stand for the words of their members, in their order, nested and *)
(* side by side; at the top the empty words are left out.                  *)
BracesRight == stack = <<>> /\ search = [files |-> Deep, options |-> <<Plainly("**")>>, user |-> {}]
                 /\ ~out[1].started => \A p \in Pieces :
    braceExpand(p.text) = SelectSeq(p.words, LAMBDA w : w # "")
=============================================================================
