--------------------------- MODULE MCEditRequests ---------------------------
(* Inputs for checking EditRequests: every way the code treats a path      *)
(* differently, a few model names, and answers of up to three.             *)
EXTENDS EditRequests, TLC
CONSTANTS auto, plain, big, small

Alpha     == Part("alpha", 1)
Notes     == Part("notes", 0)
IndexPage == Part("index", 1)

MCStems    == {"", ".", "..", "index", "alpha", "notes", "alpha#1", "alpha;1"}
MCBeforeMark      == "alpha#1" :> Part("alpha", 0)
MCBeforeSemicolon == "alpha;1" :> Part("alpha", 0)

MCNames    == {auto, plain, big, small, Blank}
MCGeneric  == {auto}
MCInstruct == {big, small}
MCAnswers  ==
    {[shape |-> s, items |-> << >>] : s \in {"error", "other"}}
        \cup {[shape |-> "list", items |-> items] :
                  items \in UNION {[1..n -> {plain, big, small, Blank, NoName}] : n \in 0..3}}

Padded(part) == [part EXCEPT !.padded = TRUE]

(* "alpha.md", " ./alpha.md", "notes/alpha.md", "../alpha.md",             *)
(* "./ alpha.md", "./ ../alpha.md".                                        *)
MCTexts ==
    {<<Alpha>>, <<Padded(Dot), Alpha>>, <<Notes, Alpha>>, <<DotDot, Alpha>>,
     <<Dot, Padded(Alpha)>>, <<Dot, Padded(DotDot), Alpha>>}

MCSites ==
    [flat: BOOLEAN, prefix: {<< >>}] \cup {[flat |-> FALSE, prefix |-> <<Notes>>]}

(* "alpha.md", "notes//index.md", "./notes/alpha.md", "alpha", "index.md", *)
(* "alpha.md.md", ".", ".md", "...md", "/alpha.md", "notes/../alpha.md",   *)
(* " alpha.md", "./ alpha.md", "alpha#1.md", "notes/alpha;1.md", " ".      *)
MCPaths ==
    {<<Alpha>>, <<Notes, Empty, IndexPage>>, <<Dot, Notes, Alpha>>,
     <<Part("alpha", 0)>>, <<IndexPage>>, <<Part("alpha", 2)>>, <<Dot>>, <<Part("", 1)>>,
     <<Part("..", 1)>>, <<Empty, Alpha>>, <<Notes, DotDot, Alpha>>,
     <<Padded(Alpha)>>, <<Dot, Padded(Alpha)>>, <<Part("alpha#1", 1)>>,
     <<Notes, Part("alpha;1", 1)>>, <<Padded(Empty)>>}

(* "/", "/alpha/", "/alpha.md", "/notes/index/", "/..", "/alpha#1/",       *)
(* "/notes/alpha;1" and "//notes/", with and without a host, and "alpha"   *)
(* and "//notes".                                                          *)
MCUrls ==
    [host: {"none", "site", "other"},
     path: {<<Empty, Empty>>, <<Empty, Part("alpha", 0), Empty>>, <<Empty, Alpha>>,
            <<Empty, Notes, Index, Empty>>, <<Empty, DotDot>>,
            <<Empty, Part("alpha#1", 0), Empty>>, <<Empty, Notes, Part("alpha;1", 0)>>,
            <<Empty, Empty, Notes, Empty>>}]
        \cup {[host |-> "none", path |-> path] :
                  path \in {<<Part("alpha", 0)>>, <<Empty, Empty, Notes>>}}
=============================================================================
